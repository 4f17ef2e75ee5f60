------------------------ MODULE UserListWidgetProofs ------------------------
(***************************************************************************)
(* What the functions of the user list's widget do, for any users: lemmas  *)
(* for the proofs about the list by itself (PartsProofs) and about the     *)
(* login window that calls it (LoginWindowProofs).                         *)
(***************************************************************************)
EXTENDS UserListWidget, SequenceTheorems, TLAPS

-----------------------------------------------------------------------------
(* Sequences of users *)

\* The range of a sequence, as the provers see it best.
LEMMA SeqRange ==
  ASSUME NEW S, NEW q \in Seq(S)
  PROVE  /\ \A j \in 1..Len(q) : q[j] \in Range(q)
         /\ \A x \in Range(q) : \E j \in 1..Len(q) : x = q[j]
         /\ Range(q) \subseteq S
         /\ q # <<>> <=> Len(q) > 0
BY DEF Range

\* Where the elements are after an insertion, ...
LEMMA InsertAtPlaces ==
  ASSUME NEW S, NEW q \in Seq(S), NEW i \in 1..Len(q) + 1, NEW e \in S
  PROVE  LET r == InsertAt(q, i, e)
         IN  /\ r \in Seq(S) /\ Len(r) = Len(q) + 1
             /\ r[i] = e
             /\ \A k \in 1..i-1 : r[k] = q[k]
             /\ \A k \in i..Len(q) : r[k + 1] = q[k]
<1> DEFINE a == SubSeq(q, 1, i - 1)
           b == SubSeq(q, i, Len(q))
           c == a \o <<e>>
           r == c \o b
<1>1. /\ a \in Seq(S) /\ Len(a) = i - 1 /\ \A j \in 1..i-1 : a[j] = q[j]
  OBVIOUS
<1>2. /\ b \in Seq(S) /\ Len(b) = Len(q) - i + 1
      /\ \A j \in 1..Len(q)-i+1 : b[j] = q[i + j - 1]
  OBVIOUS
<1> HIDE DEF a, b
<1>3. /\ c \in Seq(S) /\ Len(c) = i
      /\ \A j \in 1..i-1 : c[j] = q[j]
      /\ c[i] = e
  BY <1>1
<1>4. InsertAt(q, i, e) = r
  BY DEF InsertAt, a, b
<1> HIDE DEF c
<1>5. /\ r \in Seq(S) /\ Len(r) = Len(q) + 1
      /\ \A j \in 1..i : r[j] = c[j]
      /\ \A j \in 1..Len(q)-i+1 : r[i + j] = b[j]
  BY <1>2, <1>3
<1> HIDE DEF r
<1>6. ASSUME NEW k \in 1..i-1 PROVE r[k] = q[k]
  BY <1>3, <1>5
<1>7. ASSUME NEW k \in i..Len(q) PROVE r[k + 1] = q[k]
  <2>1. PICK n \in 1..Len(q)-i+1 : i + n = k + 1 /\ i + n - 1 = k
    OBVIOUS
  <2>2. r[i + n] = b[n]
    BY <1>5
  <2>3. b[n] = q[i + n - 1]
    BY <1>2
  <2> QED BY <2>1, <2>2, <2>3
<1>8. r[i] = e
  BY <1>3, <1>5
<1> QED BY <1>4, <1>5, <1>6, <1>7, <1>8

\* ... and after a removal.
LEMMA RemoveAtPlaces ==
  ASSUME NEW S, NEW q \in Seq(S), NEW i \in 1..Len(q)
  PROVE  LET r == RemoveAt(q, i)
         IN  /\ r \in Seq(S) /\ Len(r) = Len(q) - 1
             /\ \A k \in 1..i-1 : r[k] = q[k]
             /\ \A k \in i..Len(q)-1 : r[k] = q[k + 1]
<1> DEFINE a == SubSeq(q, 1, i - 1)
           b == SubSeq(q, i + 1, Len(q))
           r == a \o b
<1>1. /\ a \in Seq(S) /\ Len(a) = i - 1 /\ \A j \in 1..i-1 : a[j] = q[j]
  OBVIOUS
<1>2. /\ b \in Seq(S) /\ Len(b) = Len(q) - i /\ \A j \in 1..Len(q)-i : b[j] = q[i + j]
  OBVIOUS
<1>3. RemoveAt(q, i) = r
  BY DEF RemoveAt, a, b
<1> HIDE DEF a, b
<1>4. /\ r \in Seq(S) /\ Len(r) = Len(a) + Len(b)
      /\ \A k \in 1..Len(a)+Len(b) : r[k] = IF k <= Len(a) THEN a[k] ELSE b[k - Len(a)]
  BY <1>1, <1>2, ConcatProperties
<1>5. Len(a) + Len(b) = Len(q) - 1
  BY <1>1, <1>2
<1> HIDE DEF r
<1>6. ASSUME NEW k \in 1..i-1 PROVE r[k] = q[k]
  <2>1. k \in 1..Len(q)-1 /\ k <= Len(a)
    BY <1>1
  <2> QED BY <1>1, <1>4, <1>5, <2>1
<1>7. ASSUME NEW k \in i..Len(q)-1 PROVE r[k] = q[k + 1]
  <2>1. PICK n \in 1..Len(q)-i : k = (i - 1) + n /\ k + 1 = i + n /\ k - (i - 1) = n
    OBVIOUS
  <2>2. k \in 1..Len(q)-1 /\ ~(k <= Len(a)) /\ k - Len(a) = n
    BY <1>1, <2>1
  <2>3. r[k] = b[n]
    BY <1>4, <1>5, <2>2
  <2>4. b[n] = q[i + n]
    BY <1>2
  <2> QED BY <2>1, <2>3, <2>4
<1> QED BY <1>3, <1>4, <1>5, <1>6, <1>7

LEMMA InsertAtSeq ==
  ASSUME NEW S, NEW q \in Seq(S), NEW i \in 1..Len(q) + 1, NEW e \in S
  PROVE  /\ InsertAt(q, i, e) \in Seq(S)
         /\ Len(InsertAt(q, i, e)) = Len(q) + 1
         /\ InsertAt(q, i, e)[i] = e
         /\ Range(InsertAt(q, i, e)) = Range(q) \cup {e}
<1> DEFINE r == InsertAt(q, i, e)
<1>1. /\ r \in Seq(S) /\ Len(r) = Len(q) + 1 /\ r[i] = e
      /\ \A k \in 1..i-1 : r[k] = q[k]
      /\ \A k \in i..Len(q) : r[k + 1] = q[k]
  BY InsertAtPlaces, SMTT(20)
<1> HIDE DEF r
<1>2. ASSUME NEW j \in 1..Len(q) PROVE q[j] \in Range(r)
  <2>1. CASE j < i
    <3>1. j \in 1..Len(r) /\ r[j] = q[j]
      BY <1>1, <2>1
    <3> QED BY <1>1, <3>1, SeqRange
  <2>2. CASE ~(j < i)
    <3>1. j + 1 \in 1..Len(r) /\ r[j + 1] = q[j]
      BY <1>1, <2>2
    <3> QED BY <1>1, <3>1, SeqRange
  <2> QED BY <2>1, <2>2
<1>3. ASSUME NEW k \in 1..Len(r), k # i PROVE r[k] \in Range(q)
  <2>1. CASE k < i
    <3>1. k \in 1..Len(q) /\ r[k] = q[k]
      BY <1>1, <2>1
    <3> QED BY <3>1, SeqRange
  <2>2. CASE k > i
    <3>1. PICK n \in i..Len(q) : k = n + 1
      BY <1>1, <2>2
    <3>2. n \in 1..Len(q) /\ r[k] = q[n]
      BY <1>1, <3>1
    <3> QED BY <3>2, SeqRange
  <2> QED BY <1>1, <1>3, <2>1, <2>2
<1>4. Range(r) \subseteq Range(q) \cup {e}
  <2>1. ASSUME NEW x \in Range(r) PROVE x \in Range(q) \cup {e}
    <3>1. PICK k \in 1..Len(r) : x = r[k]
      BY <1>1, SeqRange
    <3> QED BY <1>1, <1>3, <3>1
  <2> QED BY <2>1
<1>5. Range(q) \subseteq Range(r)
  BY <1>2, SeqRange
<1>6. e \in Range(r)
  <2>1. i \in 1..Len(r)
    BY <1>1
  <2> QED BY <1>1, <2>1, SeqRange
<1> QED BY <1>1, <1>4, <1>5, <1>6 DEF r

LEMMA RemoveAtSeq ==
  ASSUME NEW S, NEW q \in Seq(S), NEW i \in 1..Len(q)
  PROVE  /\ RemoveAt(q, i) \in Seq(S)
         /\ Len(RemoveAt(q, i)) = Len(q) - 1
         /\ Range(RemoveAt(q, i)) \subseteq Range(q)
         /\ Range(q) \ {q[i]} \subseteq Range(RemoveAt(q, i))
<1> DEFINE r == RemoveAt(q, i)
<1>1. /\ r \in Seq(S) /\ Len(r) = Len(q) - 1
      /\ \A k \in 1..i-1 : r[k] = q[k]
      /\ \A k \in i..Len(q)-1 : r[k] = q[k + 1]
  BY RemoveAtPlaces
<1> HIDE DEF r
<1>2. ASSUME NEW j \in 1..Len(q), j # i PROVE q[j] \in Range(r)
  <2>1. CASE j < i
    <3>1. j \in 1..Len(r) /\ r[j] = q[j]
      BY <1>1, <2>1
    <3> QED BY <1>1, <3>1, SeqRange
  <2>2. CASE j > i
    <3>1. PICK n \in i..Len(q)-1 : j = n + 1
      BY <2>2
    <3>2. n \in 1..Len(r) /\ r[n] = q[j]
      BY <1>1, <3>1
    <3> QED BY <1>1, <3>2, SeqRange
  <2> QED BY <1>2, <2>1, <2>2
<1>3. ASSUME NEW k \in 1..Len(r) PROVE r[k] \in Range(q)
  <2>1. CASE k < i
    <3>1. k \in 1..Len(q) /\ r[k] = q[k]
      BY <1>1, <2>1
    <3> QED BY <3>1, SeqRange
  <2>2. CASE ~(k < i)
    <3>1. k + 1 \in 1..Len(q) /\ r[k] = q[k + 1]
      BY <1>1, <2>2
    <3> QED BY <3>1, SeqRange
  <2> QED BY <2>1, <2>2
<1>4. Range(r) \subseteq Range(q)
  BY <1>1, <1>3, SeqRange
<1>5. Range(q) \ {q[i]} \subseteq Range(r)
  BY <1>2, SeqRange
<1> QED BY <1>1, <1>4, <1>5 DEF r

\* A list in which nobody is twice stays one: a user who is not in it comes,
\* and of one who goes nothing is left.
LEMMA InsertAtInjective ==
  ASSUME NEW S, NEW q \in Seq(S), NEW i \in 1..Len(q) + 1, NEW e \in S,
         IsInjective(q), e \notin Range(q)
  PROVE  IsInjective(InsertAt(q, i, e))
<1> DEFINE r == InsertAt(q, i, e)
<1>1. /\ r \in Seq(S) /\ Len(r) = Len(q) + 1 /\ r[i] = e
      /\ \A k \in 1..i-1 : r[k] = q[k]
      /\ \A k \in i..Len(q) : r[k + 1] = q[k]
  BY InsertAtPlaces, SMTT(20)
<1> HIDE DEF r
\* Where the element at place k has been before.
<1> DEFINE From(k) == IF k < i THEN k ELSE k - 1
<1>2. ASSUME NEW k \in 1..Len(r), k # i PROVE From(k) \in 1..Len(q) /\ r[k] = q[From(k)]
  <2>1. CASE k < i
    BY <1>1, <2>1
  <2>2. CASE k > i
    <3>1. k - 1 \in i..Len(q) /\ (k - 1) + 1 = k
      BY <1>1, <2>2
    <3>2. r[(k - 1) + 1] = q[k - 1]
      BY <1>1, <3>1
    <3> QED BY <2>2, <3>1, <3>2
  <2> QED BY <1>1, <1>2, <2>1, <2>2
<1>3. \A x, y \in 1..Len(q) : q[x] = q[y] => x = y
  BY DEF IsInjective
<1>4. ASSUME NEW k \in 1..Len(r), NEW n \in 1..Len(r), r[k] = r[n] PROVE k = n
  <2>1. CASE k # i /\ n # i
    <3>1. From(k) = From(n)
      BY <1>2, <1>3, <1>4, <2>1
    <3> QED BY <1>1, <2>1, <3>1
  <2>2. ASSUME NEW x \in 1..Len(r), x # i PROVE r[x] # e
    <3>1. PICK y \in 1..Len(q) : r[x] = q[y]
      BY <1>2, <2>2
    <3> QED BY <3>1, SeqRange
  <2>3. CASE k = i \/ n = i
    BY <1>1, <1>4, <2>2, <2>3
  <2> QED BY <2>1, <2>3
<1>5. IsInjective(r)
  BY <1>1, <1>4 DEF IsInjective
<1> QED BY <1>5 DEF r

LEMMA RemoveAtInjective ==
  ASSUME NEW S, NEW q \in Seq(S), NEW i \in 1..Len(q), IsInjective(q)
  PROVE  IsInjective(RemoveAt(q, i)) /\ q[i] \notin Range(RemoveAt(q, i))
<1> DEFINE r == RemoveAt(q, i)
<1>1. /\ r \in Seq(S) /\ Len(r) = Len(q) - 1
      /\ \A k \in 1..i-1 : r[k] = q[k]
      /\ \A k \in i..Len(q)-1 : r[k] = q[k + 1]
  BY RemoveAtPlaces
<1> HIDE DEF r
<1> DEFINE From(k) == IF k < i THEN k ELSE k + 1
<1>2. ASSUME NEW k \in 1..Len(r)
      PROVE  From(k) \in 1..Len(q) /\ From(k) # i /\ r[k] = q[From(k)]
  BY <1>1
<1>3. \A x, y \in 1..Len(q) : q[x] = q[y] => x = y
  BY DEF IsInjective
<1>4. ASSUME NEW k \in 1..Len(r), NEW n \in 1..Len(r), r[k] = r[n] PROVE k = n
  <2>1. From(k) = From(n)
    BY <1>2, <1>3, <1>4
  <2> QED BY <1>1, <2>1
<1>5. IsInjective(r)
  BY <1>1, <1>4 DEF IsInjective
<1>6. ASSUME q[i] \in Range(r) PROVE FALSE
  <2>1. PICK k \in 1..Len(r) : q[i] = r[k]
    BY <1>1, <1>6, SeqRange
  <2> HIDE DEF From
  <2>2. From(k) = i
    BY <1>2, <1>3, <2>1
  <2> QED BY <1>2, <2>2
<1> QED BY <1>5, <1>6 DEF r

-----------------------------------------------------------------------------
(* The list: what each of its functions does *)

ListFields == {"rows", "sel", "on", "several", "emitted"}

\* The type of a list; the selection is one of its rows.
ListTyped(l) == /\ DOMAIN l = ListFields
                /\ l.rows \in Seq(User) /\ l.sel \in Range(l.rows) \cup {NoUser}
                /\ l.on \in BOOLEAN /\ l.several \in BOOLEAN /\ l.emitted \in Signal

\* A list that is on and has users has one of them selected.
Selecting(l) == l.on /\ l.rows # <<>> => l.sel # NoUser

LEMMA SilentEffect ==
  ASSUME NEW l, ListTyped(l)
  PROVE  /\ ListTyped(Silent(l)) /\ Silent(l).emitted = "none"
         /\ Silent(l).rows = l.rows /\ Silent(l).sel = l.sel /\ Silent(l).on = l.on
BY DEF ListTyped, Silent, ListFields, Signal

LEMMA SetCurrentRowEffect ==
  ASSUME NEW l, ListTyped(l), NEW i \in Nat \ {0}
  PROVE  LET r == SetCurrentRow(l, i)
         IN  /\ ListTyped(r) /\ r.rows = l.rows /\ r.on = l.on
             /\ Len(l.rows) < i => r = l
             /\ Len(l.rows) >= i => r.sel = l.rows[i] /\ r.sel \in User
             /\ \/ r = l
                \/ r.emitted = "activated"
<1>1. CASE Len(l.rows) < i
  <2>1. SetCurrentRow(l, i) = l
    BY <1>1 DEF SetCurrentRow, UserCount, ListTyped
  <2> QED BY <1>1, <2>1 DEF ListTyped
<1>2. CASE Len(l.rows) >= i
  <2>1. l.rows[i] \in Range(l.rows) /\ l.rows[i] \in User
    BY <1>2, SeqRange DEF ListTyped
  <2>2. SetCurrentRow(l, i) = Select(l, l.rows[i])
    BY <1>2 DEF SetCurrentRow, UserCount
  <2>3. CASE l.rows[i] = l.sel
    <3>1. SetCurrentRow(l, i) = l
      BY <2>2, <2>3 DEF Select
    <3> QED BY <1>2, <2>1, <2>3, <3>1 DEF ListTyped
  <2>4. CASE l.rows[i] # l.sel
    <3> DEFINE u == l.rows[i]
    <3>1. SetCurrentRow(l, i) = [l EXCEPT !.sel = u, !.emitted = "activated"]
      BY <2>2, <2>4 DEF Select
    <3>2. u \in Range(l.rows) /\ u \in User
      BY <2>1
    <3> HIDE DEF u
    <3>3. /\ ListTyped(SetCurrentRow(l, i))
          /\ SetCurrentRow(l, i).rows = l.rows /\ SetCurrentRow(l, i).on = l.on
          /\ SetCurrentRow(l, i).sel = u /\ SetCurrentRow(l, i).emitted = "activated"
      BY <3>1, <3>2 DEF ListTyped, ListFields, Signal
    <3> QED BY <1>2, <3>2, <3>3 DEF u, ListTyped
  <2> QED BY <2>3, <2>4
<1> QED BY <1>1, <1>2 DEF ListTyped

LEMMA SwitchOnEffect ==
  ASSUME NEW l, ListTyped(l)
  PROVE  LET r == SwitchOn(l)
         IN  /\ ListTyped(r) /\ r.rows = l.rows /\ r.on
             /\ Selecting(r)
             /\ r.sel # NoUser => r.rows # <<>>
<1> DEFINE w == [l EXCEPT !.on = TRUE]
<1>1. /\ ListTyped(w) /\ w.rows = l.rows /\ w.on = TRUE /\ w.sel = l.sel
  BY DEF ListTyped, ListFields
<1>2. SwitchOn(l) = IF w.sel # NoUser THEN w ELSE SetCurrentRow(w, 1)
  BY DEF SwitchOn, SetRow0
<1> HIDE DEF w
<1>3. w.rows # <<>> => Len(w.rows) >= 1
  BY <1>1, SeqRange DEF ListTyped
<1>4. w.rows = <<>> => w.sel = NoUser
  BY <1>1 DEF ListTyped, Range
<1>5. CASE w.sel # NoUser
  BY <1>1, <1>2, <1>4, <1>5 DEF Selecting
<1>6. CASE w.sel = NoUser
  <2>1. SwitchOn(l) = SetCurrentRow(w, 1)
    BY <1>2, <1>6
  <2>2. w.rows = <<>> => Len(w.rows) < 1
    OBVIOUS
  <2> QED BY <1>1, <1>3, <1>6, <2>1, <2>2, SetCurrentRowEffect, UserAssumption DEF Selecting
<1> QED BY <1>5, <1>6

LEMMA SwitchOffEffect ==
  ASSUME NEW l, ListTyped(l)
  PROVE  LET r == SwitchOff(l)
         IN  ListTyped(r) /\ r.rows = l.rows /\ ~r.on /\ Selecting(r)
BY DEF ListTyped, ListFields, SwitchOff, Selecting

LEMMA ShowIfSeveralEffect ==
  ASSUME NEW l, ListTyped(l)
  PROVE  LET r == ShowIfSeveral(l)
         IN  /\ ListTyped(r) /\ r.rows = l.rows /\ r.sel = l.sel
             /\ r.on = l.on /\ r.emitted = l.emitted
<1> DEFINE b == l.several \/ UserCount(l) >= 2
<1>1. b \in BOOLEAN
  BY DEF ListTyped
<1>2. ShowIfSeveral(l) = [l EXCEPT !.several = b]
  BY DEF ShowIfSeveral
<1> HIDE DEF b
<1> QED BY <1>1, <1>2 DEF ListTyped, ListFields

LEMMA HideIfFewEffect ==
  ASSUME NEW l, ListTyped(l)
  PROVE  LET r == HideIfFew(l)
         IN  /\ ListTyped(r) /\ r.rows = l.rows /\ r.sel = l.sel
             /\ r.on = l.on /\ r.emitted = l.emitted
<1> DEFINE b == l.several /\ ~(l.on /\ UserCount(l) < 2)
<1>1. b \in BOOLEAN
  BY DEF ListTyped
<1>2. HideIfFew(l) = [l EXCEPT !.several = b]
  BY DEF HideIfFew
<1> HIDE DEF b
<1> QED BY <1>1, <1>2 DEF ListTyped, ListFields

LEMMA RowInsertedEffect ==
  ASSUME NEW l, ListTyped(l), Selecting(l), l.emitted = "none",
         NEW i \in 1..Len(l.rows) + 1, NEW us, us[i] \in User
  PROVE  LET r == RowInserted(l, us, i)
         IN  /\ ListTyped(r) /\ Selecting(r) /\ r.on = l.on
             /\ r.rows = InsertAt(l.rows, i, us[i]) /\ r.rows # <<>>
             /\ \/ r.emitted = "activated" /\ l.on /\ r.sel \in User
                \/ r.emitted = "none" /\ r.sel = l.sel /\ (l.on => l.rows # <<>>)
<1> DEFINE n == InsertAt(l.rows, i, us[i])
           w == [l EXCEPT !.rows = n]
           g == ShowIfSeveral(w)
<1>1. /\ n \in Seq(User) /\ Range(n) = Range(l.rows) \cup {us[i]} /\ Len(n) = Len(l.rows) + 1
  BY InsertAtSeq DEF ListTyped
<1>2. Len(n) >= 1 /\ n # <<>>
  BY <1>1 DEF ListTyped
<1>3. RowInserted(l, us, i) = IF l.on /\ l.sel = NoUser THEN SetCurrentRow(g, 1) ELSE g
  BY DEF RowInserted, Inserted, SetRow0
<1> HIDE DEF n
<1>4. /\ ListTyped(w) /\ w.rows = n /\ w.on = l.on /\ w.sel = l.sel /\ w.emitted = "none"
  BY <1>1 DEF ListTyped, ListFields
<1> HIDE DEF w
<1>5. /\ ListTyped(g) /\ g.rows = n /\ g.on = l.on /\ g.sel = l.sel /\ g.emitted = "none"
  BY <1>4, ShowIfSeveralEffect
<1> HIDE DEF g
<1>6. CASE l.on /\ l.sel = NoUser
  <2>1. RowInserted(l, us, i) = SetCurrentRow(g, 1)
    BY <1>3, <1>6
  <2> DEFINE r == SetCurrentRow(g, 1)
  <2>0. /\ ListTyped(g) /\ Len(g.rows) >= 1 /\ 1 \in Nat \ {0}
    BY <1>2, <1>5
  <2>1a. /\ ListTyped(r) /\ r.rows = g.rows /\ r.on = g.on
         /\ Len(g.rows) >= 1 => r.sel \in User
         /\ r = g \/ r.emitted = "activated"
    BY <2>0, SetCurrentRowEffect, Zenon
  <2> HIDE DEF r
  <2>2. /\ ListTyped(r) /\ r.rows = n /\ r.on = l.on /\ r.sel \in User
        /\ r = g \/ r.emitted = "activated"
    BY <1>5, <2>0, <2>1a
  <2> HIDE DEF r
  <2>3. r # g /\ r.sel # NoUser
    BY <1>5, <1>6, <2>2, UserAssumption
  <2> QED BY <1>2, <1>6, <2>1, <2>2, <2>3 DEF r, n, Selecting
<1>7. CASE ~(l.on /\ l.sel = NoUser)
  <2>1. RowInserted(l, us, i) = g
    BY <1>3, <1>7
  <2>2. l.rows = <<>> => l.sel = NoUser
    BY DEF ListTyped, Range
  <2> QED BY <1>2, <1>5, <1>7, <2>1, <2>2 DEF n, Selecting
<1> QED BY <1>6, <1>7

LEMMA RowRemovedEffect ==
  ASSUME NEW l, ListTyped(l), Selecting(l), l.emitted = "none",
         NEW i \in 1..Len(l.rows)
  PROVE  LET r == RowRemoved(l, i)
         IN  /\ ListTyped(r) /\ Selecting(r) /\ r.on = l.on
             /\ r.rows = RemoveAt(l.rows, i)
             /\ \/ r.emitted = "activated" /\ l.on /\ r.sel \in User /\ r.rows # <<>>
                \/ r.emitted = "reset" /\ l.on /\ r.sel = NoUser /\ r.rows = <<>>
                \/ r.emitted = "none" /\ (l.on => r.sel = l.sel)
<1> DEFINE n == RemoveAt(l.rows, i)
           w == [l EXCEPT !.rows = n]
           m == [w EXCEPT !.sel = NoUser]
           c == l.sel = l.rows[i]
           t == IF c THEN m ELSE w
           e == IF l.on /\ c THEN Reselect(t) ELSE t
<1>1. /\ n \in Seq(User) /\ Range(l.rows) \ {l.rows[i]} \subseteq Range(n)
  BY RemoveAtSeq DEF ListTyped
<1>2. RowRemoved(l, i) = HideIfFew(e)
  BY DEF RowRemoved, CurrentMoved
<1> HIDE DEF n
<1>3. DOMAIN w = ListFields /\ w.rows = n /\ w.sel = l.sel /\ w.on = l.on
      /\ w.several = l.several /\ w.emitted = "none"
  BY DEF ListTyped, ListFields
<1> HIDE DEF w
<1>4. ListTyped(m) /\ m.rows = n /\ m.sel = NoUser /\ m.on = l.on /\ m.emitted = "none"
  BY <1>1, <1>3 DEF ListTyped, ListFields, Signal
<1> HIDE DEF m
<1>5. CASE ~c
  <2>1. ListTyped(w)
    BY <1>1, <1>3, <1>5 DEF ListTyped
  <2>2. e = w
    BY <1>5
  <2>3. Selecting(HideIfFew(w))
    <3>1. CASE n = <<>>
      BY <1>3, <2>1, <3>1, HideIfFewEffect DEF Selecting
    <3>2. CASE n # <<>>
      <4>1. l.on => l.sel # NoUser
        <5>1. l.rows # <<>>
          BY DEF ListTyped
        <5> QED BY <5>1 DEF Selecting
      <4> QED BY <1>3, <2>1, <4>1, HideIfFewEffect DEF Selecting
    <3> QED BY <3>1, <3>2
  <2> QED BY <1>2, <1>3, <2>1, <2>2, <2>3, HideIfFewEffect DEF n
<1>6. CASE c /\ ~l.on
  <2>1. e = m
    BY <1>6
  <2> QED BY <1>2, <1>4, <1>6, <2>1, HideIfFewEffect DEF n, Selecting
<1>7. CASE c /\ l.on /\ n = <<>>
  <2> DEFINE z == [m EXCEPT !.emitted = "reset"]
  <2>1. e = z
    BY <1>4, <1>7 DEF Reselect
  <2>2. ListTyped(z) /\ z.rows = n /\ z.sel = NoUser /\ z.on = l.on /\ z.emitted = "reset"
    BY <1>4 DEF ListTyped, ListFields, Signal
  <2> HIDE DEF z
  <2> QED BY <1>2, <1>7, <2>1, <2>2, HideIfFewEffect DEF n, Selecting
<1>8. CASE c /\ l.on /\ n # <<>>
  <2> DEFINE z == SetCurrentRow(m, 1)
  <2>1. e = z
    BY <1>4, <1>8 DEF Reselect, SetRow0
  <2>2. Len(n) >= 1
    BY <1>1, <1>8, SeqRange
  <2>3. ListTyped(z) /\ z.rows = n /\ z.on = l.on /\ z.sel \in User
        /\ (z = m \/ z.emitted = "activated")
    <3>1. ListTyped(m) /\ Len(m.rows) >= 1
      BY <1>4, <2>2
    <3>2. /\ ListTyped(z) /\ z.rows = m.rows /\ z.on = m.on /\ z.sel \in User
          /\ (z = m \/ z.emitted = "activated")
      BY <3>1, SetCurrentRowEffect
    <3> QED BY <1>4, <3>2
  <2> HIDE DEF z
  <2>4. z # m /\ z.sel # NoUser
    BY <1>4, <2>3, UserAssumption
  <2> DEFINE r == HideIfFew(z)
  <2>5. ListTyped(r) /\ r.rows = z.rows /\ r.sel = z.sel /\ r.on = z.on /\ r.emitted = z.emitted
    BY <2>3, HideIfFewEffect
  <2>6. RowRemoved(l, i) = r
    BY <1>2, <2>1
  <2> HIDE DEF r
  <2> QED BY <1>8, <2>3, <2>4, <2>5, <2>6 DEF n, Selecting
<1> QED BY <1>5, <1>6, <1>7, <1>8 DEF ListTyped

-----------------------------------------------------------------------------
(* The choice is offered, and the selection kept *)

Offered(l) == UserCount(l) >= 2 => l.several

LEMMA SetCurrentRowShows ==
  ASSUME NEW l, ListTyped(l), NEW i
  PROVE  SetCurrentRow(l, i).several = l.several
BY DEF SetCurrentRow, Select, ListTyped, ListFields

LEMMA OfferedKept ==
  ASSUME NEW l, ListTyped(l), Offered(l)
  PROVE  /\ Offered(Silent(l)) /\ Offered(SwitchOn(l)) /\ Offered(SwitchOff(l))
         /\ \A i \in Nat \ {0} : Offered(SetCurrentRow(l, i))
<1>1. Offered(Silent(l)) /\ Offered(SwitchOff(l))
  BY DEF Offered, UserCount, Silent, SwitchOff, ListTyped, ListFields
<1> DEFINE w == [l EXCEPT !.on = TRUE]
<1>2. ListTyped(w) /\ w.rows = l.rows /\ w.several = l.several
  BY DEF ListTyped, ListFields
<1>3. SwitchOn(l) = IF w.sel # NoUser THEN w ELSE SetCurrentRow(w, 1)
  BY DEF SwitchOn, SetRow0
<1> HIDE DEF w
<1>4. SwitchOn(l).rows = l.rows /\ SwitchOn(l).several = l.several
  BY <1>2, <1>3, SetCurrentRowEffect, SetCurrentRowShows
<1>5. ASSUME NEW i \in Nat \ {0} PROVE Offered(SetCurrentRow(l, i))
  BY SetCurrentRowEffect, SetCurrentRowShows DEF Offered, UserCount
<1> QED BY <1>1, <1>4, <1>5 DEF Offered, UserCount

LEMMA ShowIfSeveralOffers ==
  ASSUME NEW l, ListTyped(l)
  PROVE  Offered(ShowIfSeveral(l))
<1> DEFINE b == l.several \/ UserCount(l) >= 2
<1>1. ShowIfSeveral(l) = [l EXCEPT !.several = b]
  BY DEF ShowIfSeveral
<1>2. b = FALSE \/ b = TRUE
  BY DEF ListTyped
<1>3. b = FALSE => ~(UserCount(l) >= 2)
  OBVIOUS
<1> HIDE DEF b
<1>4. [l EXCEPT !.several = b].rows = l.rows /\ [l EXCEPT !.several = b].several = b
  BY DEF ListTyped, ListFields
<1> QED BY <1>1, <1>2, <1>3, <1>4 DEF Offered, UserCount

\* A user who comes takes the selection from nobody, and in a list that is off
\* activates nobody.
LEMMA RowInsertedKeeps ==
  ASSUME NEW l, ListTyped(l), NEW i \in 1..Len(l.rows) + 1, NEW us, us[i] \in User
  PROVE  LET r == RowInserted(l, us, i)
         IN  /\ Offered(r)
             /\ l.sel # NoUser => r.sel = l.sel
             /\ ~l.on => r.emitted = l.emitted
<1> DEFINE n == InsertAt(l.rows, i, us[i])
           w == [l EXCEPT !.rows = n]
           g == ShowIfSeveral(w)
<1>1. n \in Seq(User) /\ Range(n) = Range(l.rows) \cup {us[i]}
  BY InsertAtSeq DEF ListTyped
<1>2. RowInserted(l, us, i) = IF l.on /\ l.sel = NoUser THEN SetCurrentRow(g, 1) ELSE g
  BY DEF RowInserted, Inserted, SetRow0
<1> HIDE DEF n
<1>3. ListTyped(w) /\ w.sel = l.sel /\ w.emitted = l.emitted
  BY <1>1 DEF ListTyped, ListFields
<1> HIDE DEF w
<1>4. ListTyped(g) /\ Offered(g) /\ g.sel = l.sel /\ g.emitted = l.emitted
  BY <1>3, ShowIfSeveralEffect, ShowIfSeveralOffers
<1> HIDE DEF g
<1>5. Offered(SetCurrentRow(g, 1))
  BY <1>4, OfferedKept
<1> QED BY <1>2, <1>4, <1>5

\* Nor does one who goes, unless it was that user's.
LEMMA RowRemovedKeeps ==
  ASSUME NEW l, ListTyped(l), Offered(l), NEW i \in 1..Len(l.rows)
  PROVE  LET r == RowRemoved(l, i)
         IN  /\ Offered(r)
             /\ l.sel # l.rows[i] => r.sel = l.sel
             /\ ~l.on => r.emitted = l.emitted
<1> DEFINE n == RemoveAt(l.rows, i)
           w == [l EXCEPT !.rows = n]
           m == [w EXCEPT !.sel = NoUser]
           c == l.sel = l.rows[i]
           t == IF c THEN m ELSE w
           e == IF l.on /\ c THEN Reselect(t) ELSE t
<1>1. n \in Seq(User) /\ Len(n) = Len(l.rows) - 1 /\ Range(l.rows) \ {l.rows[i]} \subseteq Range(n)
  BY RemoveAtSeq DEF ListTyped
<1>2. RowRemoved(l, i) = HideIfFew(e)
  BY DEF RowRemoved, CurrentMoved
<1>3. Len(n) >= 2 => l.several
  BY <1>1 DEF Offered, UserCount, ListTyped
<1> HIDE DEF n
<1>4. /\ w.rows = n /\ w.sel = l.sel /\ w.several = l.several /\ w.emitted = l.emitted
      /\ DOMAIN w = ListFields /\ w.on = l.on
  BY DEF ListTyped, ListFields
<1> HIDE DEF w
<1>5. /\ ListTyped(m) /\ m.rows = n /\ m.several = l.several /\ m.emitted = l.emitted
      /\ m.on = l.on
  BY <1>1, <1>4 DEF ListTyped, ListFields
<1> HIDE DEF m
<1>6. ~c => ListTyped(w)
  BY <1>1, <1>4 DEF ListTyped
<1>7. /\ ListTyped(t) /\ t.rows = n /\ t.several = l.several /\ t.emitted = l.emitted
      /\ t.on = l.on /\ (~c => t.sel = l.sel)
  BY <1>4, <1>5, <1>6
<1> HIDE DEF t
<1>8. ListTyped(Reselect(t)) /\ Reselect(t).rows = n /\ Reselect(t).several = l.several
  <2>1. CASE n = <<>>
    <3>1. Reselect(t) = [t EXCEPT !.emitted = "reset"]
      BY <1>7, <2>1 DEF Reselect
    <3> QED BY <1>7, <3>1 DEF ListTyped, ListFields, Signal
  <2>2. CASE n # <<>>
    <3>1. Reselect(t) = SetCurrentRow(t, 1)
      BY <1>7, <2>2 DEF Reselect, SetRow0
    <3>2. ListTyped(t) /\ t.rows = n /\ t.several = l.several /\ 1 \in Nat \ {0}
      BY <1>7
    <3> DEFINE u == SetCurrentRow(t, 1)
    <3>3. ListTyped(u) /\ u.rows = t.rows
      BY <3>2, SetCurrentRowEffect
    <3>4. u.several = t.several
      BY <3>2, SetCurrentRowShows
    <3> HIDE DEF u
    <3>5. ListTyped(u) /\ u.rows = n /\ u.several = l.several
      BY <3>2, <3>3, <3>4
    <3> QED BY <3>1, <3>5 DEF u
  <2> QED BY <2>1, <2>2
<1>9. /\ ListTyped(e) /\ e.rows = n /\ e.several = l.several
      /\ ~c => e.sel = l.sel
      /\ ~l.on => e.emitted = l.emitted
  BY <1>7, <1>8
<1> HIDE DEF e
<1> DEFINE b == e.several /\ ~(e.on /\ UserCount(e) < 2)
           r == [e EXCEPT !.several = b]
<1>10. HideIfFew(e) = r
  BY DEF HideIfFew
<1>11. b \in BOOLEAN /\ (Len(n) >= 2 => b)
  BY <1>1, <1>3, <1>9 DEF UserCount, ListTyped
<1> HIDE DEF b
<1>12. r.rows = n /\ r.several = b /\ r.sel = e.sel /\ r.emitted = e.emitted
  BY <1>9 DEF ListTyped, ListFields
<1> HIDE DEF r, c
<1> QED BY <1>2, <1>9, <1>10, <1>11, <1>12 DEF Offered, UserCount, c

\* The list as it is loaded and then switched on.
LEMMA LoadUserListEffect ==
  ASSUME NEW us \in Seq(User)
  PROVE  LET r == SwitchOn(LoadUserList(us))
         IN  ListTyped(r) /\ Selecting(r) /\ Offered(r) /\ r.rows = us /\ r.on
<1> DEFINE z == [rows |-> us, sel |-> NoUser, on |-> TRUE, several |-> FALSE,
                 emitted |-> "none"]
<1>1. ListTyped(z) /\ z.rows = us
  BY DEF ListTyped, ListFields, Signal
<1>2. LoadUserList(us) = ShowIfSeveral(z)
  BY DEF LoadUserList
<1> HIDE DEF z
<1> DEFINE y == ShowIfSeveral(z)
<1>3. ListTyped(y) /\ Offered(y) /\ y.rows = us
  BY <1>1, ShowIfSeveralEffect, ShowIfSeveralOffers
<1> HIDE DEF y
<1> QED BY <1>2, <1>3, SwitchOnEffect, OfferedKept DEF y
=============================================================================
