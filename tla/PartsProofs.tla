------------------------------ MODULE PartsProofs ------------------------------
(***************************************************************************)
(* What the parts of MCParts promise, for any constants.                   *)
(***************************************************************************)
EXTENDS MCParts, FiniteSetTheorems, SequenceTheorems, TLAPS

-----------------------------------------------------------------------------
(* A step is a step of each part, or leaves it as it is *)

LEMMA PartSteps ==
  [Next]_partVars => /\ [Users!ListNext]_listVars /\ [Plugs!HotplugNext]_plugVars
                     /\ [Caps!Next]_capsVars /\ [Fades!Next]_fadeVars
                     /\ [Edit!Next]_editVars /\ [Menu!Next]_menuVars
                     /\ [Tips!Next]_tipVars /\ [Frames!FramingNext]_pipeVars
BY DEF Next, partVars, UsersStep, PlugsStep, CapsStep, FadesStep, EditStep, MenuStep,
       TipsStep, FrameStep

-----------------------------------------------------------------------------
(* The prompt edit *)

EditFields == {"visible", "enabled", "editEnabled", "focused", "echo", "text", "style",
               "spacing", "animationTimer", "icon", "sent"}

\* The type of the edit's record.
EditTyped(e) ==
  /\ DOMAIN e = EditFields
  /\ e.visible \in BOOLEAN /\ e.enabled \in BOOLEAN /\ e.editEnabled \in BOOLEAN
  /\ e.focused \in BOOLEAN /\ e.echo \in {"normal", "password"}
  /\ e.text \in Text \cup {Empty} /\ e.style \in BOOLEAN
  /\ e.spacing \in {"normal", "password"} /\ e.animationTimer \in BOOLEAN
  /\ e.icon \in {"unlock", "loading"} /\ e.sent \in Seq(Text \cup {Empty})

\* StyleFits of a record
Styled(e) == /\ e.style = (e.echo = "password" /\ e.text # Empty)
             /\ e.spacing = IF e.style THEN "password" ELSE "normal"

\* A record and another one differ in the text, the echo mode and the font only.
SameBut(e, r) == /\ r.visible = e.visible /\ r.enabled = e.enabled
                 /\ r.editEnabled = e.editEnabled /\ r.focused = e.focused
                 /\ r.animationTimer = e.animationTimer /\ r.icon = e.icon
                 /\ r.sent = e.sent

\* OneAnswerPerPrompt of a record
EditOK(e) ==
  /\ EditTyped(e) /\ Styled(e)
  /\ e.focused => e.visible /\ e.enabled /\ e.editEnabled
  /\ e.icon = "loading" => e.animationTimer
  /\ e.animationTimer = (e.sent # <<>>) /\ e.editEnabled = ~e.animationTimer
  /\ \A i \in DOMAIN e.sent : e.sent[i] = e.text
  /\ e.echo = "normal" => \A i \in DOMAIN e.sent : e.sent[i] # Empty

LEMMA TextChangedEffect ==
  ASSUME NEW e, EditTyped(e), e.echo = "normal" => e.style = FALSE /\ e.spacing = "normal"
  PROVE  LET r == Edit!TextChanged(e)
         IN  /\ EditTyped(r) /\ Styled(r) /\ SameBut(e, r)
             /\ r.text = e.text /\ r.echo = e.echo
<1>1. CASE e.echo # "password"
  BY <1>1 DEF Edit!TextChanged, EditTyped, Styled, SameBut
<1>2. CASE e.echo = "password"
  <2> DEFINE s == (e.text # Empty)
             f == IF e.text = Empty THEN "normal" ELSE "password"
  <2>1. Edit!TextChanged(e) = [e EXCEPT !.style = s, !.spacing = f]
    BY <1>2 DEF Edit!TextChanged
  <2>2. s \in BOOLEAN /\ f \in {"normal", "password"} /\ f = IF s THEN "password" ELSE "normal"
    OBVIOUS
  <2>3. s = (e.echo = "password" /\ e.text # Empty)
    BY <1>2
  <2> HIDE DEF s, f
  <2>4. LET r == [e EXCEPT !.style = s, !.spacing = f]
        IN  /\ EditTyped(r) /\ SameBut(e, r) /\ r.text = e.text /\ r.echo = e.echo
            /\ r.style = s /\ r.spacing = f
    BY <2>2 DEF EditTyped, EditFields, SameBut
  <2> QED BY <2>1, <2>2, <2>3, <2>4 DEF Styled
<1> QED BY <1>1, <1>2

LEMMA WithTextEffect ==
  ASSUME NEW e, EditTyped(e), Styled(e), NEW t \in Text \cup {Empty}
  PROVE  LET r == Edit!WithText(e, t)
         IN  /\ EditTyped(r) /\ Styled(r) /\ SameBut(e, r)
             /\ r.text = t /\ r.echo = e.echo
<1> DEFINE w == [e EXCEPT !.text = t]
<1>1. /\ EditTyped(w) /\ SameBut(e, w) /\ w.text = t /\ w.echo = e.echo
      /\ w.style = e.style /\ w.spacing = e.spacing
  BY DEF EditTyped, EditFields, SameBut
<1>2. Edit!WithText(e, t) = IF e.text = t THEN e ELSE Edit!TextChanged(w)
  BY DEF Edit!WithText
<1> HIDE DEF w
<1>3. CASE e.text = t
  BY <1>2, <1>3 DEF SameBut
<1>4. CASE e.text # t
  <2>1. w.echo = "normal" => w.style = FALSE /\ w.spacing = "normal"
    BY <1>1 DEF Styled, EditTyped
  <2> DEFINE r == Edit!TextChanged(w)
  <2>2. /\ EditTyped(r) /\ Styled(r) /\ SameBut(w, r)
        /\ r.text = w.text /\ r.echo = w.echo
    BY <1>1, <2>1, TextChangedEffect
  <2> HIDE DEF r
  <2> QED BY <1>1, <1>2, <1>4, <2>2 DEF SameBut, r
<1> QED BY <1>3, <1>4

\* The windows set the mode of an edit that they have just reset: dots come
\* with no text.
LEMMA SetEchoModeEffect ==
  ASSUME NEW e, EditTyped(e), Styled(e), NEW m \in {"normal", "password"},
         m = "normal" \/ e.text = Empty
  PROVE  LET r == Edit!SetEchoMode(e, m)
         IN  EditTyped(r) /\ Styled(r) /\ SameBut(e, r) /\ r.text = e.text /\ r.echo = m
<1>1. CASE m = "normal"
  <2>1. Edit!SetEchoMode(e, m) = [e EXCEPT !.echo = m, !.style = FALSE, !.spacing = "normal"]
    BY <1>1 DEF Edit!SetEchoMode
  <2>2. LET r == [e EXCEPT !.echo = m, !.style = FALSE, !.spacing = "normal"]
        IN  /\ EditTyped(r) /\ SameBut(e, r) /\ r.text = e.text
            /\ r.echo = m /\ r.style = FALSE /\ r.spacing = "normal"
    BY DEF EditTyped, EditFields, SameBut
  <2> QED BY <1>1, <2>1, <2>2 DEF Styled
<1>2. CASE m # "normal"
  <2>1. Edit!SetEchoMode(e, m) = [e EXCEPT !.echo = m]
    BY <1>2 DEF Edit!SetEchoMode
  <2>2. LET r == [e EXCEPT !.echo = m]
        IN  /\ EditTyped(r) /\ SameBut(e, r) /\ r.text = e.text
            /\ r.echo = m /\ r.style = e.style /\ r.spacing = e.spacing
    BY DEF EditTyped, EditFields, SameBut
  <2>3. e.text = Empty /\ e.style = FALSE /\ e.spacing = "normal"
    BY <1>2 DEF Styled, EditTyped
  <2> QED BY <2>1, <2>2, <2>3 DEF Styled
<1> QED BY <1>1, <1>2

\* reset() leaves an edit that can be typed in, and nothing of what was there.
LEMMA ResetEffect ==
  ASSUME NEW e, EditTyped(e), Styled(e)
  PROVE  LET r == Edit!Reset(e)
         IN  /\ EditTyped(r) /\ Styled(r) /\ r.text = Empty /\ r.echo = "normal"
             /\ r.visible = e.visible /\ r.focused = e.focused
             /\ r.enabled = TRUE /\ r.editEnabled = TRUE
             /\ r.animationTimer = FALSE /\ r.icon = "unlock" /\ r.sent = <<>>
<1> DEFINE a == [e EXCEPT !.enabled = TRUE, !.editEnabled = TRUE, !.sent = <<>>]
           b == Edit!WithText(a, Empty)
           c == Edit!SetEchoMode(b, "normal")
           d == [c EXCEPT !.animationTimer = FALSE, !.icon = "unlock"]
<1>1. /\ EditTyped(a) /\ a.visible = e.visible /\ a.focused = e.focused
      /\ a.enabled = TRUE /\ a.editEnabled = TRUE /\ a.sent = <<>>
      /\ a.echo = e.echo /\ a.text = e.text /\ a.style = e.style /\ a.spacing = e.spacing
  BY DEF EditTyped, EditFields
<1>2. Edit!Reset(e) = d
  BY DEF Edit!Reset, Edit!Clear, Edit!StopAnimation
<1> HIDE DEF a
<1>3. Styled(a)
  BY <1>1 DEF Styled
<1>4. /\ EditTyped(b) /\ Styled(b) /\ SameBut(a, b) /\ b.text = Empty
  BY <1>1, <1>3, WithTextEffect
<1> HIDE DEF b
<1>5. /\ EditTyped(c) /\ Styled(c) /\ SameBut(b, c) /\ c.text = Empty /\ c.echo = "normal"
  BY <1>4, SetEchoModeEffect
<1> HIDE DEF c
<1>6. /\ EditTyped(d) /\ d.visible = c.visible /\ d.focused = c.focused
      /\ d.enabled = c.enabled /\ d.editEnabled = c.editEnabled /\ d.sent = c.sent
      /\ d.echo = c.echo /\ d.text = c.text /\ d.style = c.style /\ d.spacing = c.spacing
      /\ d.animationTimer = FALSE /\ d.icon = "unlock"
  BY <1>5 DEF EditTyped, EditFields
<1> HIDE DEF d
<1>7. Styled(d)
  BY <1>5, <1>6 DEF Styled
<1> QED BY <1>1, <1>2, <1>4, <1>5, <1>6, <1>7 DEF SameBut

LEMMA ResetOK ==
  ASSUME NEW e, EditOK(e)
  PROVE  EditOK(Edit!Reset(e)) /\ Edit!Reset(e).text = Empty
<1> DEFINE r == Edit!Reset(e)
<1>1. /\ EditTyped(r) /\ Styled(r) /\ r.text = Empty /\ r.echo = "normal"
      /\ r.visible = e.visible /\ r.focused = e.focused
      /\ r.enabled = TRUE /\ r.editEnabled = TRUE
      /\ r.animationTimer = FALSE /\ r.icon = "unlock" /\ r.sent = <<>>
  BY ResetEffect DEF EditOK
<1> HIDE DEF r
<1>2. r.focused => r.visible /\ r.enabled /\ r.editEnabled
  BY <1>1 DEF EditOK
<1>3. r.animationTimer = (r.sent # <<>>) /\ r.editEnabled = ~r.animationTimer
  BY <1>1
<1>4. \A i \in DOMAIN r.sent : r.sent[i] = r.text /\ r.sent[i] # Empty
  BY <1>1
<1>5. EditOK(r)
  BY <1>1, <1>2, <1>3, <1>4 DEF EditOK
<1> QED BY <1>1, <1>5 DEF r

\* A confirmation sends the text that is there, as those before it did.
LEMMA StartMovieOK ==
  ASSUME NEW e, EditOK(e), Edit!Confirmable(e)
  PROVE  EditOK(Edit!StartMovie(e))
<1> DEFINE q == Append(e.sent, e.text)
           r == [e EXCEPT !.editEnabled = FALSE, !.focused = FALSE, !.animationTimer = TRUE,
                          !.sent = q]
<1>1. Edit!StartMovie(e) = r
  BY DEF Edit!StartMovie
<1>2. e.sent \in Seq(Text \cup {Empty}) /\ e.text \in Text \cup {Empty}
  BY DEF EditOK, EditTyped
<1>3. /\ q \in Seq(Text \cup {Empty}) /\ q # <<>>
      /\ \A i \in DOMAIN q : q[i] = e.text
  <2>1. \A i \in 1..Len(e.sent) : e.sent[i] = e.text
    BY <1>2 DEF EditOK
  <2> QED BY <1>2, <2>1
<1> HIDE DEF q
<1>4. /\ EditTyped(r) /\ r.editEnabled = FALSE /\ r.focused = FALSE
      /\ r.animationTimer = TRUE /\ r.sent = q /\ r.text = e.text /\ r.echo = e.echo
      /\ r.style = e.style /\ r.spacing = e.spacing
  BY <1>2, <1>3 DEF EditOK, EditTyped, EditFields
<1> HIDE DEF r
<1>5. Styled(r)
  BY <1>4 DEF EditOK, Styled
<1>6. e.echo = "normal" => e.text # Empty
  BY DEF Edit!Confirmable
<1> QED BY <1>1, <1>3, <1>4, <1>5, <1>6 DEF EditOK

\* The variables and the record they make
LEMMA EditOfVariables == OneAnswerPerPrompt => EditOK(Edit!edit)
<1> SUFFICES ASSUME OneAnswerPerPrompt PROVE EditOK(Edit!edit)
  OBVIOUS
<1> DEFINE e == Edit!edit
<1>1. /\ e.visible = visible /\ e.enabled = enabled /\ e.editEnabled = editEnabled
      /\ e.focused = focused /\ e.echo = echo /\ e.text = text /\ e.style = style
      /\ e.spacing = spacing /\ e.animationTimer = animationTimer /\ e.icon = icon
      /\ e.sent = sent
  BY DEF Edit!edit
<1>2. e \in Edit!Edit
  BY DEF OneAnswerPerPrompt, Edit!TypeOK
<1> HIDE DEF e
<1>3. EditTyped(e)
  BY <1>2 DEF Edit!Edit, EditTyped, EditFields
<1>4. Styled(e)
  BY <1>1 DEF OneAnswerPerPrompt, Edit!StyleFits, Styled
<1>5. /\ e.focused => e.visible /\ e.enabled /\ e.editEnabled
      /\ e.icon = "loading" => e.animationTimer
  BY <1>1 DEF OneAnswerPerPrompt, Edit!TypeOK
<1>6. e.animationTimer = (e.sent # <<>>) /\ e.editEnabled = ~e.animationTimer
  BY <1>1 DEF OneAnswerPerPrompt, Edit!BusyUntilReset
<1>7. /\ \A i \in DOMAIN e.sent : e.sent[i] = e.text
      /\ e.echo = "normal" => \A i \in DOMAIN e.sent : e.sent[i] # Empty
  BY <1>1 DEF OneAnswerPerPrompt, Edit!SentIsText, Edit!NoEmptyName
<1> QED BY <1>3, <1>4, <1>5, <1>6, <1>7 DEF EditOK, e

LEMMA EditBecomes ==
  ASSUME NEW e, EditOK(e), Edit!Becomes(e)
  PROVE  OneAnswerPerPrompt'
<1>1. /\ visible' = e.visible /\ enabled' = e.enabled /\ editEnabled' = e.editEnabled
      /\ focused' = e.focused /\ echo' = e.echo /\ text' = e.text /\ style' = e.style
      /\ spacing' = e.spacing /\ animationTimer' = e.animationTimer /\ icon' = e.icon
      /\ sent' = e.sent
  BY DEF Edit!Becomes
<1>2. Edit!edit' \in Edit!Edit
  BY <1>1 DEF Edit!edit, Edit!Edit, EditOK, EditTyped
<1>3. Edit!TypeOK'
  BY <1>1, <1>2 DEF Edit!TypeOK, EditOK
<1>4. Edit!BusyUntilReset'
  BY <1>1 DEF Edit!BusyUntilReset, EditOK
<1>5. Edit!SentIsText' /\ Edit!NoEmptyName'
  BY <1>1 DEF Edit!SentIsText, Edit!NoEmptyName, EditOK
<1>6. Edit!StyleFits'
  BY <1>1 DEF Edit!StyleFits, EditOK, Styled
<1> QED BY <1>3, <1>4, <1>5, <1>6 DEF OneAnswerPerPrompt

\* A slot that sends nothing while the edit is locked
LEMMA EditTyping ==
  ASSUME NEW e, EditOK(e), e.editEnabled, NEW t \in Text \cup {Empty}
  PROVE  EditOK(Edit!WithText(e, t))
<1> DEFINE r == Edit!WithText(e, t)
<1>1. EditTyped(r) /\ Styled(r) /\ SameBut(e, r) /\ r.text = t /\ r.echo = e.echo
  BY WithTextEffect DEF EditOK
<1> HIDE DEF r
<1>2. r.sent = <<>>
  BY <1>1 DEF EditOK, EditTyped, SameBut
<1>3. /\ r.focused => r.visible /\ r.enabled /\ r.editEnabled
      /\ r.icon = "loading" => r.animationTimer
      /\ r.animationTimer = (r.sent # <<>>) /\ r.editEnabled = ~r.animationTimer
  BY <1>1 DEF EditOK, SameBut
<1>4. \A i \in DOMAIN r.sent : r.sent[i] = r.text /\ r.sent[i] # Empty
  BY <1>2
<1> QED BY <1>1, <1>3, <1>4 DEF EditOK, r

LEMMA EditNext ==
  ASSUME OneAnswerPerPrompt, Edit!Next
  PROVE  OneAnswerPerPrompt'
<1> DEFINE e == Edit!edit
<1>0. EditOK(e)
  BY EditOfVariables
<1>1. /\ e.visible = visible /\ e.enabled = enabled /\ e.editEnabled = editEnabled
      /\ e.focused = focused /\ e.animationTimer = animationTimer
  BY DEF Edit!edit
<1> HIDE DEF e
\* Changes of the flags only
<1> DEFINE Flags(r) == /\ EditTyped(r) /\ r.echo = e.echo /\ r.text = e.text
                       /\ r.style = e.style /\ r.spacing = e.spacing /\ r.sent = e.sent
                       /\ r.editEnabled = e.editEnabled
                       /\ r.animationTimer = e.animationTimer
                       /\ r.focused => r.visible /\ r.enabled /\ r.editEnabled
                       /\ r.icon = "loading" => r.animationTimer
<1>2. ASSUME NEW r, Flags(r) PROVE EditOK(r)
  BY <1>0, <1>2 DEF EditOK, Styled
<1>3. CASE Edit!Type
  <2>1. PICK t \in Text \cup {Empty} : Edit!Becomes(Edit!WithText(e, t))
    BY <1>3 DEF Edit!Type, e
  <2> QED BY <1>0, <1>1, <1>3, <2>1, EditTyping, EditBecomes DEF Edit!Type, Edit!Typeable
<1>4. CASE Edit!Escape
  BY <1>0, <1>1, <1>4, EditTyping, EditBecomes
  DEF Edit!Escape, Edit!Typeable, Edit!Clear, e
<1>5. CASE Edit!FocusIn
  <2> DEFINE r == [e EXCEPT !.focused = TRUE]
  <2>1. Flags(r)
    BY <1>0, <1>1, <1>5 DEF Edit!FocusIn, EditOK, EditTyped, EditFields
  <2>2. Edit!Becomes(r)
    BY <1>5 DEF Edit!FocusIn, e
  <2> QED BY <1>2, <2>1, <2>2, EditBecomes
<1>6. CASE Edit!FocusOut
  <2> DEFINE r == [e EXCEPT !.focused = FALSE]
  <2>1. Flags(r)
    BY <1>0 DEF EditOK, EditTyped, EditFields
  <2>2. Edit!Becomes(r)
    BY <1>6 DEF Edit!FocusOut, e
  <2> QED BY <1>2, <2>1, <2>2, EditBecomes
<1>7. CASE Edit!ReturnPressed \/ Edit!ButtonClicked
  <2>1. Edit!Confirmable(e) /\ Edit!Becomes(Edit!StartMovie(e))
    BY <1>7 DEF Edit!ReturnPressed, Edit!ButtonClicked, Edit!CanConfirm, e
  <2> QED BY <1>0, <2>1, StartMovieOK, EditBecomes
<1>8. CASE Edit!Animate
  <2> DEFINE r == [e EXCEPT !.icon = "loading"]
  <2>1. Flags(r)
    BY <1>0, <1>1, <1>8 DEF Edit!Animate, EditOK, EditTyped, EditFields
  <2>2. Edit!Becomes(r)
    BY <1>8 DEF Edit!Animate, e
  <2> QED BY <1>2, <2>1, <2>2, EditBecomes
<1>9. CASE Edit!ShowPrompt
  <2>1. PICK m \in {"normal", "password"} : Edit!Becomes(Edit!SetEchoMode(Edit!Reset(e), m))
    BY <1>9 DEF Edit!ShowPrompt, e
  <2> DEFINE z == Edit!Reset(e)
             r == Edit!SetEchoMode(z, m)
  <2>2. EditOK(z) /\ z.text = Empty
    BY <1>0, ResetOK
  <2>3. z.sent = <<>>
    BY <1>0, ResetEffect DEF EditOK
  <2> HIDE DEF z
  <2>4. EditTyped(r) /\ Styled(r) /\ SameBut(z, r) /\ r.text = z.text /\ r.echo = m
    BY <2>2, SetEchoModeEffect DEF EditOK
  <2> HIDE DEF r
  <2>5. /\ r.focused => r.visible /\ r.enabled /\ r.editEnabled
        /\ r.icon = "loading" => r.animationTimer
        /\ r.animationTimer = (r.sent # <<>>) /\ r.editEnabled = ~r.animationTimer
    BY <2>2, <2>4 DEF EditOK, SameBut
  <2>6. r.sent = <<>>
    BY <2>3, <2>4 DEF SameBut
  <2>7. EditOK(r)
    BY <2>4, <2>5, <2>6 DEF EditOK
  <2> QED BY <2>1, <2>7, EditBecomes DEF r, z
<1>10. CASE Edit!StartAuth
  <2> DEFINE z == Edit!Reset(e)
             r == [z EXCEPT !.visible = TRUE, !.enabled = FALSE, !.focused = FALSE]
  <2>1. EditOK(z)
    BY <1>0, ResetOK
  <2>2. Edit!Becomes(r)
    BY <1>10 DEF Edit!StartAuth, e
  <2> HIDE DEF z
  <2>3. /\ EditTyped(r) /\ r.echo = z.echo /\ r.text = z.text
        /\ r.style = z.style /\ r.spacing = z.spacing /\ r.sent = z.sent
        /\ r.editEnabled = z.editEnabled /\ r.animationTimer = z.animationTimer
        /\ r.icon = z.icon /\ r.focused = FALSE
    BY <2>1 DEF EditOK, EditTyped, EditFields
  <2> HIDE DEF r
  <2>4. EditOK(r)
    BY <2>1, <2>3 DEF EditOK, Styled
  <2> QED BY <2>2, <2>4, EditBecomes
<1>11. CASE Edit!ResetOnly
  <2>1. Edit!Becomes(Edit!Reset(e))
    BY <1>11 DEF Edit!ResetOnly, e
  <2> QED BY <1>0, <2>1, ResetOK, EditBecomes
<1>12. CASE Edit!Replaced
  <2> DEFINE r == [e EXCEPT !.visible = FALSE, !.focused = FALSE]
  <2>1. Flags(r)
    BY <1>0 DEF EditOK, EditTyped, EditFields
  <2>2. Edit!Becomes(r)
    BY <1>12 DEF Edit!Replaced, e
  <2> QED BY <1>2, <2>1, <2>2, EditBecomes
<1>13. CASE Edit!BackAgain
  <2> DEFINE r == [e EXCEPT !.visible = TRUE]
  <2>1. Flags(r)
    BY <1>0 DEF EditOK, EditTyped, EditFields
  <2>2. Edit!Becomes(r)
    BY <1>13 DEF Edit!BackAgain, e
  <2> QED BY <1>2, <2>1, <2>2, EditBecomes
<1> QED BY <1>3, <1>4, <1>5, <1>6, <1>7, <1>8, <1>9, <1>10, <1>11, <1>12, <1>13
        DEF Edit!Next

LEMMA EditRests == OneAnswerPerPrompt /\ UNCHANGED editVars => OneAnswerPerPrompt'
<1> SUFFICES ASSUME OneAnswerPerPrompt, UNCHANGED editVars PROVE OneAnswerPerPrompt'
  OBVIOUS
<1>1. EditOK(Edit!edit)
  BY EditOfVariables
<1>2. Edit!Becomes(Edit!edit)
  BY DEF editVars, Edit!Becomes, Edit!edit
<1> QED BY <1>1, <1>2, EditBecomes

\* The invariant is inductive as it stands: what is sent is the text, and the
\* text cannot be changed before reset() forgets what was sent.
THEOREM OneAnswer == Spec => []OneAnswerPerPrompt
<1>1. Init => OneAnswerPerPrompt
  <2> SUFFICES ASSUME Init PROVE OneAnswerPerPrompt
    OBVIOUS
  <2>1. Edit!Init
    BY DEF Init
  <2>2. /\ visible = TRUE /\ enabled = TRUE /\ editEnabled = TRUE /\ focused = FALSE
        /\ echo = "normal" /\ text = Empty /\ style = FALSE /\ spacing = "normal"
        /\ animationTimer = FALSE /\ icon = "unlock" /\ sent = <<>>
    BY <2>1 DEF Edit!Init
  <2>3. <<>> \in Seq(Text \cup {Empty})
    OBVIOUS
  <2>4. Edit!edit \in Edit!Edit
    BY <2>2, <2>3 DEF Edit!edit, Edit!Edit
  <2>5. Edit!TypeOK
    BY <2>2, <2>4 DEF Edit!TypeOK
  <2>6. Edit!BusyUntilReset /\ Edit!SentIsText /\ Edit!NoEmptyName
    <3>1. Edit!BusyUntilReset
      BY <2>2 DEF Edit!BusyUntilReset
    <3>2. \A i \in DOMAIN sent : FALSE
      BY <2>2
    <3> QED BY <3>1, <3>2 DEF Edit!SentIsText, Edit!NoEmptyName
  <2>7. Edit!StyleFits
    BY <2>2 DEF Edit!StyleFits
  <2> QED BY <2>5, <2>6, <2>7 DEF OneAnswerPerPrompt
<1>2. OneAnswerPerPrompt /\ [Next]_partVars => OneAnswerPerPrompt'
  BY PartSteps, EditNext, EditRests
<1> QED BY <1>1, <1>2, PTL DEF Spec

-----------------------------------------------------------------------------
(* The menus *)

MenuInv == Menu!TypeOK /\ Menu!SessionIsChecked

LEMMA MenuInit == Init => MenuInv
<1> SUFFICES ASSUME Init PROVE MenuInv
  OBVIOUS
<1>1. Menu!Init
  BY DEF Init
<1>2. NoSession \notin Session
  BY PartsAssumption DEF Menu!MenusAssumption
<1>3. sessions \in SUBSET Session
  BY <1>1 DEF Menu!Init
<1>4. mSession = checked /\ mSession \in Menu!Default(sessions)
  BY <1>1 DEF Menu!Init
<1>5. Menu!SessionIsChecked /\ mSession \in sessions \cup {NoSession}
  BY <1>2, <1>3, <1>4 DEF Menu!SessionIsChecked, Menu!Default
<1>6. Menu!TypeOK
  BY <1>1, <1>3, <1>4, <1>5 DEF Menu!Init, Menu!TypeOK, Menu!Menus
<1> QED BY <1>5, <1>6 DEF MenuInv

\* A button that is pressed leaves the choice of the session alone.
LEMMA PressButtonKeeps ==
  ASSUME MenuInv, NEW m, NEW rest \in SUBSET open, Menu!Shown(m), Menu!SameWindow,
         Menu!PressButton(m, rest), place' \in Menu!Place \cup {0}
  PROVE  MenuInv'
<1>1. UNCHANGED <<window, origin, sessions, powerButton, mSession, checked>>
  BY DEF Menu!SameWindow, Menu!PressButton
<1>2. powerItems' \in BOOLEAN
  BY DEF MenuInv, Menu!TypeOK, Menu!PressButton, Menu!Refilled
<1>3. /\ open' \subseteq Menu!Menus
      /\ "power" \in open' => powerButton
      /\ acted' \in {"closed", "opened"}
  BY DEF MenuInv, Menu!TypeOK, Menu!PressButton, Menu!Toggle, Menu!Shown
<1>4. Menu!Menus' = Menu!Menus
  BY <1>1 DEF Menu!Menus
<1>5. Menu!SessionIsChecked'
  BY <1>1 DEF MenuInv, Menu!SessionIsChecked
<1>6. Menu!TypeOK'
  <2>1. acted' \in {"nothing", "item", "opened", "closed"}
    BY <1>3
  <2>2. "power" \in open' => powerButton'
    BY <1>1, <1>3
  <2>3. {powerButton', powerItems'} \subseteq BOOLEAN
    BY <1>1, <1>2 DEF MenuInv, Menu!TypeOK
  <2> QED BY <1>1, <1>3, <1>4, <2>1, <2>2, <2>3 DEF MenuInv, Menu!TypeOK
<1> QED BY <1>5, <1>6 DEF MenuInv

\* A press that chooses no session, and opens no menu
LEMMA PressKeeps ==
  ASSUME MenuInv, Menu!SameWindow, Menu!SameItems, open' \in SUBSET open,
         acted' \in {"nothing", "item", "closed"}, place' \in Menu!Place \cup {0}
  PROVE  MenuInv'
<1>1. UNCHANGED <<window, origin, sessions, powerButton, mSession, checked, powerItems>>
  BY DEF Menu!SameWindow, Menu!SameItems
<1>2. Menu!Menus' = Menu!Menus
  BY <1>1 DEF Menu!Menus
<1> QED BY <1>1, <1>2 DEF MenuInv, Menu!TypeOK, Menu!SessionIsChecked

LEMMA PressSessionKeeps ==
  ASSUME MenuInv, NEW rest \in SUBSET open, Menu!SameWindow, Menu!PressSession(rest),
         place' \in Menu!Place \cup {0}
  PROVE  MenuInv'
<1>1. PICK s \in sessions : Menu!Check(s)
  BY DEF Menu!PressSession
<1>2. mSession' = checked' /\ mSession' = s
  BY <1>1 DEF MenuInv, Menu!SessionIsChecked, Menu!Check
<1>3. UNCHANGED <<window, origin, sessions, powerButton, powerItems>>
  BY DEF Menu!SameWindow, Menu!PressSession
<1>4. Menu!Menus' = Menu!Menus
  BY <1>3 DEF Menu!Menus
<1>5. s # NoSession
  BY <1>1, PartsAssumption DEF Menu!MenusAssumption, MenuInv, Menu!TypeOK
<1>6. Menu!SessionIsChecked'
  BY <1>1, <1>2, <1>3, <1>5 DEF Menu!SessionIsChecked
<1>7. Menu!TypeOK'
  BY <1>1, <1>2, <1>3, <1>4 DEF MenuInv, Menu!TypeOK, Menu!PressSession
<1> QED BY <1>6, <1>7 DEF MenuInv

LEMMA MenuNext == MenuInv /\ [Menu!Next]_menuVars => MenuInv'
<1> SUFFICES ASSUME MenuInv, [Menu!Next]_menuVars PROVE MenuInv'
  OBVIOUS
<1>1. CASE UNCHANGED menuVars
  BY <1>1 DEF menuVars, MenuInv, Menu!TypeOK, Menu!SessionIsChecked, Menu!Menus
<1>2. CASE Menu!KeyOnButton
  <2>1. PICK m \in Menu!Menus : /\ Menu!Shown(m) /\ Menu!PressButton(m, open) /\ place' = 0
                                /\ Menu!SameWindow
    BY <1>2 DEF Menu!KeyOnButton
  <2> QED BY <2>1, PressButtonKeeps
<1>3. CASE Menu!Press
  <2>1. PICK p \in Menu!Place :
          LET rest == open \ Menu!Missed(p)
          IN  /\ place' = p /\ Menu!SameWindow
              /\ IF Menu!Filtered(p) THEN Menu!Swallowed(rest) ELSE Menu!Delivered(p, rest)
    BY <1>3 DEF Menu!Press
  <2> DEFINE rest == open \ Menu!Missed(p)
  <2>2. rest \in SUBSET open /\ Menu!SameWindow /\ place' \in Menu!Place \cup {0}
    BY <2>1
  <2>3. Menu!Swallowed(rest) \/ Menu!Delivered(p, rest)
    BY <2>1
  <2> HIDE DEF rest
  <2>4. CASE Menu!Swallowed(rest)
    BY <2>2, <2>4, PressKeeps DEF Menu!Swallowed
  <2>5. CASE Menu!Delivered(p, rest)
    <3>1. CASE Menu!PressSession(rest)
      BY <2>2, <3>1, PressSessionKeeps
    <3>2. CASE Menu!PressPower(rest)
      BY <2>2, <3>2, PressKeeps DEF Menu!PressPower
    <3>3. CASE \E m \in Menu!Menus : Menu!Shown(m) /\ Menu!PressButton(m, rest)
      BY <2>2, <3>3, PressButtonKeeps
    <3>4. CASE Menu!PressNothing(rest)
      BY <2>2, <3>4, PressKeeps DEF Menu!PressNothing
    <3> QED BY <2>5, <3>1, <3>2, <3>3, <3>4 DEF Menu!Delivered
  <2> QED BY <2>3, <2>4, <2>5
<1> QED BY <1>1, <1>2, <1>3 DEF Menu!Next

\* Where the filter looks at the right point, it sees the menus the press missed.
LEMMA MissedByPress ==
  ASSUME Menu!Mapped, NEW p \in Menu!Place
  PROVE  Menu!Missed(p) = {m \in open : p \notin Menu!AreaOf[m]}
<1>1. p \in Int
  BY DEF Menu!Place, Menu!AreaOf
<1>2. Menu!Point(p) = p
  BY <1>1 DEF Menu!Mapped, Menu!Point
<1> QED BY <1>2 DEF Menu!Missed

LEMMA OutsideCloses ==
  ASSUME MenuInv, Menu!Next, Menu!Mapped, place' # 0, open # {},
         \A m \in open : place' \notin Menu!AreaOf[m]
  PROVE  open' = {} /\ acted' = "closed"
<1>1. Menu!Press
  BY DEF Menu!Next, Menu!KeyOnButton
<1>2. PICK p \in Menu!Place :
        LET rest == open \ Menu!Missed(p)
        IN  /\ place' = p /\ Menu!SameWindow
            /\ IF Menu!Filtered(p) THEN Menu!Swallowed(rest) ELSE Menu!Delivered(p, rest)
  BY <1>1 DEF Menu!Press
<1>3. Menu!Missed(p) = open
  BY <1>2, MissedByPress
<1> QED BY <1>2, <1>3 DEF Menu!Filtered, Menu!Swallowed

LEMMA InsideIsDelivered ==
  ASSUME MenuInv, Menu!Next, Menu!Mapped, NEW m \in open, open = {m},
         place' \in Menu!AreaOf[m], place' # 0, ~Menu!NoItems(m)
  PROVE  acted' = "item" /\ open' = {}
<1>1. Menu!Press
  BY DEF Menu!Next, Menu!KeyOnButton
<1>2. PICK p \in Menu!Place :
        LET rest == open \ Menu!Missed(p)
        IN  /\ place' = p /\ Menu!SameWindow
            /\ IF Menu!Filtered(p) THEN Menu!Swallowed(rest) ELSE Menu!Delivered(p, rest)
  BY <1>1 DEF Menu!Press
<1>3. Menu!Missed(p) = {}
  BY <1>2, MissedByPress
<1>4. Menu!Delivered(p, open)
  BY <1>2, <1>3 DEF Menu!Filtered
<1>5. m \in {"session", "power"}
  BY DEF MenuInv, Menu!TypeOK, Menu!Menus, Menu!Menu
<1>6. p \in Menu!AreaOf[m] /\ p \in 10..14
  BY <1>2, <1>5 DEF Menu!AreaOf
<1>7. \A n \in Menu!Menus : p # Menu!ButtonOf[n]
  BY <1>6 DEF Menu!ButtonOf, Menu!Menus, Menu!Menu
<1>8. CASE Menu!PressSession(open) /\ "session" \in open
  BY <1>8 DEF Menu!PressSession
<1>9. CASE Menu!PressPower(open) /\ "power" \in open
  BY <1>9 DEF Menu!PressPower
<1> QED BY <1>4, <1>6, <1>7, <1>8, <1>9 DEF Menu!Delivered

\* The session shown as checked is the one that will be started, a press outside
\* the open menus only closes them and one inside acts, for any sessions and any
\* places of the window. The invariant is inductive as it stands.
THEOREM PressesMeet == Spec => PressesMeetMenus
<1>1. Init => MenuInv
  BY MenuInit
<1>2. MenuInv /\ [Next]_partVars => MenuInv'
  BY PartSteps, MenuNext
<1>3. MenuInv /\ [Next]_partVars
        => [(Menu!Mapped /\ place' # 0 /\ open # {}
              /\ (\A m \in open : place' \notin Menu!AreaOf[m]))
              => open' = {} /\ acted' = "closed"]_menuVars
  BY PartSteps, OutsideCloses
<1>4. MenuInv /\ [Next]_partVars
        => [(Menu!Mapped /\ \E m \in open : open = {m} /\ place' \in Menu!AreaOf[m]
                                            /\ place' # 0 /\ ~Menu!NoItems(m))
              => acted' = "item" /\ open' = {}]_menuVars
  BY PartSteps, InsideIsDelivered
<1>5. MenuInv => Menu!TypeOK /\ Menu!SessionIsChecked
  BY DEF MenuInv
<1> QED BY <1>1, <1>2, <1>3, <1>4, <1>5, PTL
        DEF Spec, PressesMeetMenus, Menu!OutsideOnlyCloses, Menu!InsideActs, menuVars,
           Menu!vars

-----------------------------------------------------------------------------
(* The user list *)

\* What the functions of the list's widget do, for the users of this model.
Lists == INSTANCE UserListWidgetProofs

LEMMA ListOperators ==
  ASSUME NEW l, NEW us, NEW i, NEW u
  PROVE  /\ Users!InsertAt(us, i, u) = Lists!InsertAt(us, i, u)
         /\ Users!RemoveAt(us, i) = Lists!RemoveAt(us, i)
         /\ Users!Range(us) = Lists!Range(us)
         /\ Users!IsInjective(us) = Lists!IsInjective(us)
<1>1. Users!InsertAt(us, i, u) = Lists!InsertAt(us, i, u)
  BY DEF Users!InsertAt, Lists!InsertAt
<1>2. Users!RemoveAt(us, i) = Lists!RemoveAt(us, i)
  BY DEF Users!RemoveAt, Lists!RemoveAt
<1>3. Users!Range(us) = Lists!Range(us)
  BY DEF Users!Range, Lists!Range
<1>4. Users!IsInjective(us) = Lists!IsInjective(us)
  BY DEF Users!IsInjective, Lists!IsInjective
<1> QED BY <1>1, <1>2, <1>3, <1>4

LEMMA ListContains ==
  ASSUME NEW us \in Seq(User), NEW u
  PROVE  Users!Contains(us, u) <=> u \in Lists!Range(us)
BY DEF Users!Contains, Lists!Range

LEMMA ListFunctions ==
  ASSUME NEW l, NEW us, NEW i
  PROVE  /\ Users!Silent(l) = Lists!Silent(l)
         /\ Users!SetCurrentRow(l, i) = Lists!SetCurrentRow(l, i)
         /\ Users!RowInserted(l, us, i) = Lists!RowInserted(l, us, i)
         /\ Users!RowRemoved(l, i) = Lists!RowRemoved(l, i)
         /\ Users!SwitchOn(l) = Lists!SwitchOn(l)
         /\ Users!SwitchOff(l) = Lists!SwitchOff(l)
         /\ Users!LoadUserList(us) = Lists!LoadUserList(us)
<1>1. Users!Silent(l) = Lists!Silent(l)
  BY DEF Users!Silent, Lists!Silent
<1>2. \A k, j : Users!SetCurrentRow(k, j) = Lists!SetCurrentRow(k, j)
  BY DEF Users!SetCurrentRow, Lists!SetCurrentRow, Users!UserCount, Lists!UserCount,
         Users!Select, Lists!Select
<1>3. \A k : Users!SetRow0(k) = Lists!SetRow0(k)
  BY <1>2 DEF Users!SetRow0, Lists!SetRow0
<1>4. \A k : Users!ShowIfSeveral(k) = Lists!ShowIfSeveral(k)
  BY DEF Users!ShowIfSeveral, Lists!ShowIfSeveral, Users!UserCount, Lists!UserCount
<1>5. \A k : Users!HideIfFew(k) = Lists!HideIfFew(k)
  BY DEF Users!HideIfFew, Lists!HideIfFew, Users!UserCount, Lists!UserCount
<1>6. \A k : Users!Reselect(k) = Lists!Reselect(k)
  BY <1>3 DEF Users!Reselect, Lists!Reselect
<1>7. Users!RowInserted(l, us, i) = Lists!RowInserted(l, us, i)
  BY <1>3, <1>4, ListOperators
  DEF Users!RowInserted, Lists!RowInserted, Users!Inserted, Lists!Inserted
<1>8. Users!RowRemoved(l, i) = Lists!RowRemoved(l, i)
  BY <1>5, <1>6, ListOperators
  DEF Users!RowRemoved, Lists!RowRemoved, Users!CurrentMoved, Lists!CurrentMoved
<1>9. Users!SwitchOn(l) = Lists!SwitchOn(l)
  BY <1>3 DEF Users!SwitchOn, Lists!SwitchOn
<1>10. Users!SwitchOff(l) = Lists!SwitchOff(l)
  BY DEF Users!SwitchOff, Lists!SwitchOff
<1>11. Users!LoadUserList(us) = Lists!LoadUserList(us)
  BY <1>4 DEF Users!LoadUserList, Lists!LoadUserList
<1> QED BY <1>1, <1>2, <1>7, <1>8, <1>9, <1>10, <1>11

\* The inductive invariant: what the run checks, that nobody is in the list
\* twice, that the list's owner has it select, and that nothing in a list that is off
\* has the focus.
ListInv ==
  /\ users \in Seq(User) /\ Lists!IsInjective(users)
  /\ Lists!ListTyped(list) /\ list.rows = users
  /\ Lists!Selecting(list) /\ Lists!Offered(list)
  /\ focus \in Lists!Range(users) \cup {NoUser}
  /\ ~list.on => focus = NoUser

LEMMA ListInit == Init => ListInv
<1> SUFFICES ASSUME Init PROVE ListInv
  OBVIOUS
<1>1. Users!ListInit
  BY DEF Init
<1>2. users \in Seq(User) /\ Lists!IsInjective(users)
  <2>1. users \in Users!SeqOf(User, 2) /\ Users!IsInjective(users)
    BY <1>1 DEF Users!ListInit
  <2>2. PICK n \in 0..2 : users \in [1..n -> User]
    BY <2>1 DEF Users!SeqOf
  <2> QED BY <2>1, <2>2, ListOperators
<1>3. list = Lists!SwitchOn(Lists!LoadUserList(users)) /\ focus = NoUser
  BY <1>1, ListFunctions DEF Users!ListInit
<1> QED BY PartsAssumption, <1>2, <1>3, Lists!LoadUserListEffect DEF ListInv

LEMMA ListAdded ==
  ASSUME ListInv, NEW u \in User, NEW i, Users!UserAdded(u, i)
  PROVE  /\ ListInv'
         /\ ~list.on => list'.emitted = "none"
         /\ list.sel \in Lists!Range(users') => list'.sel = list.sel
<1> DEFINE l == Lists!Silent(list)
           r == Lists!RowInserted(l, users', i)
<1>1. /\ u \notin Lists!Range(users) /\ i \in 1..Len(users) + 1
      /\ users' = Lists!InsertAt(users, i, u)
      /\ list' = r /\ focus' = focus
  BY ListOperators, ListFunctions, ListContains DEF ListInv, Users!UserAdded
<1>2. /\ users' \in Seq(User) /\ users'[i] = u /\ Lists!Range(users') = Lists!Range(users) \cup {u}
      /\ Lists!IsInjective(users')
  BY PartsAssumption, <1>1, Lists!InsertAtSeq, Lists!InsertAtInjective DEF ListInv
<1>3. /\ Lists!ListTyped(l) /\ l.emitted = "none" /\ l.rows = users /\ l.sel = list.sel
      /\ l.on = list.on
  BY PartsAssumption, Lists!SilentEffect DEF ListInv
<1>4. Lists!Selecting(l)
  BY <1>3 DEF ListInv, Lists!Selecting
<1> HIDE DEF l
<1>5. /\ Lists!ListTyped(r) /\ Lists!Selecting(r) /\ r.on = l.on
      /\ r.rows = Lists!InsertAt(l.rows, i, users'[i])
  BY PartsAssumption, <1>1, <1>2, <1>3, <1>4, Lists!RowInsertedEffect
<1>6. /\ Lists!Offered(r)
      /\ l.sel # NoUser => r.sel = l.sel
      /\ ~l.on => r.emitted = l.emitted
  BY PartsAssumption, <1>1, <1>2, <1>3, Lists!RowInsertedKeeps
<1> HIDE DEF r
<1>7. ListInv'
  BY <1>1, <1>2, <1>3, <1>5, <1>6 DEF ListInv
<1>8. NoUser \notin Lists!Range(users')
  BY <1>2, PartsAssumption, Lists!SeqRange
<1> QED BY <1>1, <1>3, <1>6, <1>7, <1>8

LEMMA ListRemoved ==
  ASSUME ListInv, NEW i, Users!UserRemoved(i)
  PROVE  /\ ListInv'
         /\ ~list.on => list'.emitted = "none"
         /\ list.sel \in Lists!Range(users') => list'.sel = list.sel
<1> DEFINE l == Lists!Silent(list)
           r == Lists!RowRemoved(l, i)
<1>1. /\ i \in 1..Len(users) /\ users' = Lists!RemoveAt(users, i) /\ list' = r
      /\ Users!KeepFocus(list')
  BY ListOperators, ListFunctions DEF Users!UserRemoved
<1>2. /\ users' \in Seq(User) /\ Lists!IsInjective(users') /\ users[i] \notin Lists!Range(users')
  BY PartsAssumption, <1>1, Lists!RemoveAtSeq, Lists!RemoveAtInjective DEF ListInv
<1>3. /\ Lists!ListTyped(l) /\ l.emitted = "none" /\ l.rows = users /\ l.sel = list.sel
      /\ l.on = list.on
  BY PartsAssumption, Lists!SilentEffect DEF ListInv
<1>4. Lists!Selecting(l) /\ Lists!Offered(l)
  BY PartsAssumption, <1>3, Lists!OfferedKept DEF ListInv, Lists!Selecting
<1> HIDE DEF l
<1>5. /\ Lists!ListTyped(r) /\ Lists!Selecting(r) /\ r.on = l.on
      /\ r.rows = Lists!RemoveAt(l.rows, i)
  BY PartsAssumption, <1>1, <1>3, <1>4, Lists!RowRemovedEffect
<1>6. /\ Lists!Offered(r)
      /\ l.sel # l.rows[i] => r.sel = l.sel
      /\ ~l.on => r.emitted = l.emitted
  BY PartsAssumption, <1>1, <1>3, <1>4, Lists!RowRemovedKeeps
<1> HIDE DEF r
<1>7. focus' \in Lists!Range(users') \cup {NoUser} /\ (focus' # NoUser => focus' = focus)
  <2>1. focus' = IF Users!Contains(users', focus) /\ list'.several THEN focus ELSE NoUser
    BY <1>1, <1>3, <1>5 DEF Users!KeepFocus
  <2> QED BY <1>2, <2>1, ListContains
<1>8. ListInv'
  BY <1>1, <1>2, <1>3, <1>5, <1>6, <1>7 DEF ListInv
<1> QED BY <1>1, <1>2, <1>3, <1>6, <1>8

LEMMA ListClicked ==
  ASSUME ListInv, NEW i, Users!Click(i)
  PROVE  ListInv' /\ list.on /\ users' = users
<1> DEFINE l == Lists!Silent(list)
           r == Lists!SetCurrentRow(l, i)
<1>1. /\ list.on /\ i \in 1..Len(users) /\ list' = r /\ UNCHANGED <<users, focus>>
  BY ListFunctions DEF Users!Click, Users!Clickable, ListInv
<1>2. /\ Lists!ListTyped(l) /\ l.rows = users /\ l.sel = list.sel /\ l.on = list.on
      /\ Lists!Offered(l)
  BY PartsAssumption, Lists!SilentEffect, Lists!OfferedKept DEF ListInv
<1> HIDE DEF l
<1>3. i \in Nat \ {0} /\ Len(users) >= i
  BY <1>1 DEF ListInv
<1>4. /\ Lists!ListTyped(r) /\ r.rows = users /\ r.on = list.on /\ r.sel \in User
      /\ Lists!Offered(r)
  BY PartsAssumption, <1>2, <1>3, Lists!SetCurrentRowEffect, Lists!OfferedKept
<1> HIDE DEF r
<1>5. Lists!Selecting(r)
  BY <1>4, PartsAssumption DEF Lists!Selecting
<1> QED BY <1>1, <1>4, <1>5 DEF ListInv

LEMMA RowOfUser ==
  ASSUME ListInv, focus # NoUser
  PROVE  Users!RowOf(focus) \in 1..Len(users)
<1>1. \E i \in 1..Len(list.rows) : list.rows[i] = focus
  BY PartsAssumption, Lists!SeqRange DEF ListInv
<1> QED BY <1>1 DEF Users!RowOf, ListInv

LEMMA ListNext ==
  ASSUME ListInv, [Users!ListNext]_listVars
  PROVE  /\ ListInv'
         /\ UNCHANGED listVars \/ (~list.on /\ ~list'.on => list'.emitted = "none")
         /\ users' # users /\ list.sel \in Lists!Range(users') => list'.sel = list.sel
<1>1. CASE UNCHANGED listVars
  BY <1>1 DEF listVars, ListInv
<1>2. CASE \E u \in User, i \in 1..Users!Cardinality(User) : Users!UserAdded(u, i)
  BY <1>2, ListAdded
<1>3. CASE \E i \in 1..Len(users) : Users!UserRemoved(i) \/ Users!Click(i)
  BY <1>3, ListRemoved, ListClicked
<1>4. CASE Users!TabIn
  <2>1. UNCHANGED <<users, list>> /\ list.on /\ focus' = list.sel
    BY <1>4 DEF Users!TabIn, Users!Clickable
  <2> QED BY <2>1 DEF ListInv, Lists!ListTyped
<1>5. CASE Users!MoveFocus
  <2>1. focus # NoUser /\ UNCHANGED <<users, list>>
    BY <1>5 DEF Users!MoveFocus
  <2>2. PICK row \in {Users!RowAbove(Users!RowOf(focus)), Users!RowBelow(Users!RowOf(focus))} :
          focus' = list.rows[row]
    BY <1>5 DEF Users!MoveFocus
  <2>3. row \in 1..Len(users)
    <3> DEFINE n == Users!RowOf(focus)
    <3>1. n \in 1..Len(users) /\ Len(users) \in Nat
      BY <2>1, RowOfUser DEF ListInv
    <3>2. row \in {Users!RowAbove(n), Users!RowBelow(n)}
      BY <2>2
    <3> HIDE DEF n
    <3> QED BY <3>1, <3>2 DEF Users!RowAbove, Users!RowBelow, ListInv
  <2>4. focus' \in Lists!Range(users)
    BY PartsAssumption, <2>2, <2>3, Lists!SeqRange DEF ListInv
  <2> QED BY <2>1, <2>4 DEF ListInv
<1>6. CASE Users!Enter
  BY <1>6, ListClicked DEF Users!Enter
<1>7. CASE Users!TurnOff
  <2> DEFINE l == Lists!Silent(list)
             r == Lists!SwitchOff(l)
  <2>1. list.on /\ list' = r /\ focus' = NoUser /\ users' = users
    BY <1>7, ListFunctions DEF Users!TurnOff
  <2>2. Lists!ListTyped(l) /\ l.rows = users /\ Lists!Offered(l)
    BY PartsAssumption, Lists!SilentEffect, Lists!OfferedKept DEF ListInv
  <2> HIDE DEF l
  <2>3. /\ Lists!ListTyped(r) /\ r.rows = users /\ Lists!Offered(r) /\ Lists!Selecting(r)
    BY PartsAssumption, <2>2, Lists!SwitchOffEffect, Lists!OfferedKept
  <2> HIDE DEF r
  <2> QED BY <2>1, <2>3 DEF ListInv
<1>8. CASE Users!TurnOn
  <2> DEFINE l == Lists!Silent(list)
             r == Lists!SwitchOn(l)
  <2>1. ~list.on /\ list' = r /\ UNCHANGED <<users, focus>>
    BY <1>8, ListFunctions DEF Users!TurnOn
  <2>2. Lists!ListTyped(l) /\ l.rows = users /\ Lists!Offered(l)
    BY PartsAssumption, Lists!SilentEffect, Lists!OfferedKept DEF ListInv
  <2> HIDE DEF l
  <2>3. /\ Lists!ListTyped(r) /\ r.rows = users /\ Lists!Offered(r) /\ Lists!Selecting(r)
        /\ r.on
    BY PartsAssumption, <2>2, Lists!SwitchOnEffect, Lists!OfferedKept
  <2> HIDE DEF r
  <2> QED BY <2>1, <2>3 DEF ListInv
<1> QED BY <1>1, <1>2, <1>3, <1>4, <1>5, <1>6, <1>7, <1>8 DEF Users!ListNext

\* The list follows its users, for any users who come and go in any order. The
\* invariant, ListInv, adds to the checked ones that no user has two rows, which
\* is why removing one row leaves all the others with their users.
THEOREM ListFollows == Spec => ListFollowsUsers
<1>1. Init => ListInv
  BY ListInit
<1>2. ListInv /\ [Next]_partVars => ListInv'
  BY PartSteps, ListNext
<1>3. ListInv => /\ Users!ListTypeOK /\ Users!MirrorsModel
                 /\ Users!SomebodySelected /\ Users!ChoiceIsShown
  <2> SUFFICES ASSUME ListInv
               PROVE  /\ Users!ListTypeOK /\ Users!MirrorsModel
                      /\ Users!SomebodySelected /\ Users!ChoiceIsShown
    OBVIOUS
  <2>1. Users!ListTypeOK
    BY ListOperators DEF ListInv, Users!ListTypeOK, Lists!ListTyped, Users!Signal,
       Lists!Signal
  <2>2. Users!MirrorsModel /\ Users!SomebodySelected
    BY DEF ListInv, Users!MirrorsModel, Users!SomebodySelected, Lists!Selecting
  <2>3. Users!ChoiceIsShown
    BY DEF ListInv, Users!ChoiceIsShown, Lists!Offered, Users!UserCount, Lists!UserCount
  <2> QED BY <2>1, <2>2, <2>3
<1>4. ListInv /\ [Next]_partVars
        => [~list.on /\ ~list'.on => list'.emitted = "none"]_listVars
  BY PartSteps, ListNext
<1>5. ListInv /\ [Next]_partVars
        => [users' # users /\ list.sel \in Users!Range(users') => list'.sel = list.sel]_listVars
  BY PartSteps, ListNext, ListOperators
<1> QED BY <1>1, <1>2, <1>3, <1>4, <1>5, PTL
        DEF Spec, ListFollowsUsers, Users!OffIsSilent, Users!SelectionStays, listVars,
           Users!listVars

-----------------------------------------------------------------------------
(* The fades *)

FadeInv == Fades!TypeOK /\ Fades!Settled /\ Fades!RightWay

\* A fade that waits is still to decide everything.
LEMMA FadeWaits ==
  ASSUME Fades!TypeOK', delayTimer'
  PROVE  FadeInv'
BY DEF FadeInv, Fades!Settled, Fades!RightWay

LEMMA FadeStart ==
  ASSUME Fades!TypeOK, NEW d \in {"forward", "backward"}, Fades!Start(d)
  PROVE  anim' = d /\ time' \in 0..Full /\ opacity' \in 0..Full
<1>1. time' \in 0..Full
  BY PartsAssumption DEF Fades!FadeAssumption, Fades!TypeOK, Fades!Start, Fades!Rescale
<1> QED BY <1>1 DEF Fades!Start

LEMMA FadeNext == FadeInv /\ [Fades!Next]_fadeVars => FadeInv'
<1> SUFFICES ASSUME FadeInv, [Fades!Next]_fadeVars PROVE FadeInv'
  OBVIOUS
<1>0. /\ Full \in Nat \ {0} /\ MaxCalls \in Nat
      /\ Fades!TypeOK
  BY PartsAssumption DEF Fades!FadeAssumption, FadeInv
<1>1. CASE UNCHANGED fadeVars
  BY <1>1 DEF fadeVars, FadeInv, Fades!TypeOK, Fades!Settled, Fades!RightWay
<1>2. ASSUME NEW v \in BOOLEAN, Fades!FadeTo(v) PROVE FadeInv'
  <2>1. /\ calls' \in 0..MaxCalls /\ UNCHANGED <<animationEnabled, anim, time>>
        /\ fadeVisible' = v
        /\ cut' = (~animationEnabled /\ anim \notin {"stopped", Fades!Direction(v)})
    BY <1>0, <1>2 DEF Fades!FadeTo, Fades!Call, Fades!TypeOK
  <2>2. CASE animationEnabled
    <3>1. delayTimer' = TRUE /\ opacity' = opacity
      BY <1>2, <2>2 DEF Fades!FadeTo, Fades!Wait
    <3>2. Fades!TypeOK'
      BY <1>0, <2>1, <3>1 DEF Fades!TypeOK
    <3> QED BY <3>1, <3>2, FadeWaits
  <2>3. CASE ~animationEnabled
    <3>1. delayTimer' = FALSE /\ opacity' = Fades!Target(v)
      BY <1>2, <2>3 DEF Fades!FadeTo, Fades!Wait
    <3>2. Fades!Target(v) \in 0..Full
      BY <1>0 DEF Fades!Target
    <3>3. cut' = (anim \notin {"stopped", Fades!Direction(v)})
      BY <2>1, <2>3
    <3>4. Fades!TypeOK'
      BY <1>0, <2>1, <3>1, <3>2 DEF Fades!TypeOK
    <3>5. Fades!Settled'
      BY <2>1, <3>1 DEF Fades!Settled, Fades!Target
    <3>6. Fades!RightWay'
      BY <2>1, <3>3 DEF Fades!RightWay, Fades!Direction
    <3> QED BY <3>4, <3>5, <3>6 DEF FadeInv
  <2> QED BY <2>2, <2>3
<1>3. CASE Fades!SetAnimationEnabled
  <2>1. /\ calls' \in 0..MaxCalls /\ UNCHANGED <<fadeVisible, delayTimer, time>>
        /\ animationEnabled' = ~animationEnabled
        /\ Fades!StopAnimation \/ UNCHANGED <<anim, opacity, cut>>
    BY <1>0, <1>3 DEF Fades!SetAnimationEnabled, Fades!Call, Fades!TypeOK
  <2>2. CASE UNCHANGED <<anim, opacity, cut>>
    BY <2>1, <2>2 DEF FadeInv, Fades!TypeOK, Fades!Settled, Fades!RightWay, Fades!Target,
                      Fades!Direction
  <2>3. CASE anim # "stopped" /\ Fades!StopAnimation
    <3>1. /\ anim' = "stopped" /\ opacity' = Full
          /\ cut' = (cut \/ (anim = "backward" /\ ~delayTimer))
      BY <2>3 DEF Fades!StopAnimation
    <3>2. Fades!TypeOK'
      BY <1>0, <2>1, <3>1 DEF Fades!TypeOK
    <3>3. ASSUME ~delayTimer, ~cut, anim # "backward" PROVE fadeVisible = TRUE
      <4>1. anim = Fades!Direction(fadeVisible)
        BY <2>3, <3>3 DEF FadeInv, Fades!RightWay
      <4> QED BY <1>0, <2>3, <3>3, <4>1 DEF Fades!Direction, Fades!TypeOK
    <3>4. Fades!Settled'
      BY <2>1, <3>1, <3>3 DEF Fades!Settled, Fades!Target
    <3> QED BY <3>1, <3>2, <3>4 DEF FadeInv, Fades!RightWay
  <2> QED BY <2>1, <2>2, <2>3 DEF Fades!StopAnimation
<1>4. CASE Fades!SetAnimationDuration
  <2>1. /\ calls' \in 0..MaxCalls /\ anim # "stopped" /\ time' \in Fades!Rescale(time)
        /\ opacity' = time'
        /\ UNCHANGED <<fadeVisible, animationEnabled, delayTimer, anim, cut>>
    BY <1>0, <1>4 DEF Fades!SetAnimationDuration, Fades!Call, Fades!TypeOK
  <2>2. time' \in 0..Full
    BY <1>0, <2>1 DEF Fades!Rescale
  <2>3. Fades!TypeOK'
    BY <1>0, <2>1, <2>2 DEF Fades!TypeOK
  <2> QED BY <2>1, <2>3 DEF FadeInv, Fades!Settled, Fades!RightWay, Fades!Direction
<1>5. CASE Fades!Timeout
  <2>1. /\ delayTimer' = FALSE /\ Fades!Start(Fades!Direction(fadeVisible)) /\ cut' = FALSE
        /\ UNCHANGED <<fadeVisible, animationEnabled, calls>>
    BY <1>5 DEF Fades!Timeout, Fades!TimerDirection, Fades!callVars
  <2>2. Fades!Direction(fadeVisible) \in {"forward", "backward"}
    BY DEF Fades!Direction
  <2>3. anim' = Fades!Direction(fadeVisible) /\ time' \in 0..Full /\ opacity' \in 0..Full
    BY <1>0, <2>1, <2>2, FadeStart
  <2>4. Fades!TypeOK'
    BY <1>0, <2>1, <2>2, <2>3 DEF Fades!TypeOK
  <2> QED BY <2>1, <2>2, <2>3, <2>4 DEF FadeInv, Fades!Settled, Fades!RightWay,
     Fades!Direction
<1>6. CASE Fades!Tick
  <2>1. /\ anim # "stopped" /\ opacity' = time'
        /\ UNCHANGED <<fadeVisible, animationEnabled, delayTimer, calls, cut>>
    BY <1>6 DEF Fades!Tick, Fades!callVars
  <2>2. CASE Fades!AtEnd
    <3>1. /\ anim' = "stopped" /\ time' = time
          /\ time = IF anim = "forward" THEN Full ELSE 0
      BY <1>6, <2>2 DEF Fades!Tick, Fades!AtEnd
    <3>2. Fades!TypeOK'
      BY <1>0, <2>1, <3>1 DEF Fades!TypeOK
    <3>3. ASSUME ~delayTimer, ~cut PROVE anim = Fades!Direction(fadeVisible)
      BY <2>1, <3>3 DEF FadeInv, Fades!RightWay
    <3>4. Fades!Settled'
      BY <2>1, <3>1, <3>3 DEF Fades!Settled, Fades!Target, Fades!Direction
    <3> QED BY <3>1, <3>2, <3>4 DEF FadeInv, Fades!RightWay
  <2>3. CASE ~Fades!AtEnd
    <3>1. /\ anim' = anim /\ time' = (IF anim = "forward" THEN time + 1 ELSE time - 1)
          /\ time # IF anim = "forward" THEN Full ELSE 0
      BY <1>6, <2>3 DEF Fades!Tick, Fades!AtEnd
    <3>2. time' \in 0..Full
      BY <1>0, <3>1 DEF Fades!TypeOK
    <3>3. Fades!TypeOK'
      BY <1>0, <2>1, <3>1, <3>2 DEF Fades!TypeOK
    <3> QED BY <2>1, <3>1, <3>3 DEF FadeInv, Fades!Settled, Fades!RightWay, Fades!Direction
  <2> QED BY <2>2, <2>3
<1> QED BY <1>1, <1>2, <1>3, <1>4, <1>5, <1>6 DEF Fades!Next

\* Of fades of any length and of any number of calls. With a timer and an
\* animation under way, RightWay says which is the last that was asked for.
LEMMA FadesAreSettled == Spec => []FadeInv
<1>1. Init => FadeInv
  <2> SUFFICES ASSUME Init PROVE FadeInv
    OBVIOUS
  <2>1. /\ fadeVisible = FALSE /\ animationEnabled = FALSE /\ delayTimer = FALSE
        /\ anim = "stopped" /\ time = 0 /\ opacity = 0 /\ calls = 0 /\ cut = FALSE
    BY DEF Init, Fades!Init
  <2>2. Full \in Nat \ {0} /\ MaxCalls \in Nat
    BY PartsAssumption DEF Fades!FadeAssumption
  <2>3. Fades!TypeOK
    <3>1. {fadeVisible, animationEnabled, delayTimer, cut} \subseteq BOOLEAN
      BY <2>1
    <3>2. time \in 0..Full /\ opacity \in 0..Full /\ calls \in 0..MaxCalls
      BY <2>1, <2>2
    <3> QED BY <2>1, <3>1, <3>2 DEF Fades!TypeOK
  <2>4. Fades!Settled /\ Fades!RightWay
    BY <2>1 DEF Fades!Settled, Fades!RightWay, Fades!Target
  <2> QED BY <2>3, <2>4 DEF FadeInv
<1>2. FadeInv /\ [Next]_partVars => FadeInv'
  BY PartSteps, FadeNext
<1> QED BY <1>1, <1>2, PTL DEF Spec

-----------------------------------------------------------------------------
(* The caps lock observer *)

\* The inductive invariant. The displays are open while there is a thread or is
\* about to be; only a thread that waits or calls back records and has presses
\* to handle; before it records, the copy is off by the presses missed; a thread
\* that calls back shows the copy; and the label shows it from the moment
\* start() has come to its end, even to a thread that has not begun.
CapsNumbers ==
  /\ presses \in 0..MaxPresses /\ pending \in 0..MaxPresses /\ missed \in 0..MaxPresses
  /\ windows \in 0..MaxWindows
  /\ pending <= presses /\ missed <= presses

CapsNames ==
  /\ lock \in BOOLEAN /\ recording \in BOOLEAN /\ isRunning \in BOOLEAN
  /\ capsLockIsOn \in BOOLEAN /\ ui \in BOOLEAN /\ label \in BOOLEAN /\ raced \in BOOLEAN
  /\ argument \in [main : BOOLEAN, thread : BOOLEAN] /\ held \subseteq Caps!Handle
  /\ main \in {"idle", "open", "read", "create", "argument", "callback", "join",
               "release", "delete"}
  /\ thread \in {"none", "created", "waiting", "callback", "ended"}

CapsThreads ==
  /\ thread # "none" <=> main \in {"argument", "callback", "join"}
                           \/ (isRunning /\ main = "idle")
  /\ main # "idle" => ui
  /\ isRunning => ui /\ main \in {"idle", "join", "release"}
  /\ main \in {"read", "create"} \/ thread # "none" => Caps!Display \subseteq held
  /\ recording \/ pending # 0 => thread \in {"waiting", "callback"}

CapsCopy ==
  /\ recording => (capsLockIsOn <=> (lock /\ ~Caps!Odd(pending + missed))
                                     \/ (~lock /\ Caps!Odd(pending + missed)))
  /\ main = "create" \/ thread = "created"
       => (capsLockIsOn <=> (lock /\ ~Caps!Odd(missed)) \/ (~lock /\ Caps!Odd(missed)))

CapsLabel ==
  /\ thread = "callback" => argument.thread = capsLockIsOn
  /\ isRunning /\ main = "idle" /\ thread \in {"created", "waiting"} /\ ~raced
       => label = capsLockIsOn

CapsInv == CapsNumbers /\ CapsNames /\ CapsThreads /\ CapsCopy /\ CapsLabel

LEMMA OddNext ==
  ASSUME NEW n \in Nat
  PROVE  (Caps!Odd(n + 1) <=> ~Caps!Odd(n)) /\ ~Caps!Odd(0)
BY DEF Caps!Odd

LEMMA CapsNumbersKept ==
  ASSUME CapsNumbers, MaxPresses \in Nat, MaxWindows \in Nat, Caps!Next
  PROVE  CapsNumbers'
<1>1. CASE Caps!Construct
  BY <1>1 DEF Caps!Construct, Caps!serverVars, CapsNumbers
<1>2. CASE Caps!Open
  BY <1>2 DEF Caps!Open, Caps!threadVars, Caps!shownVars, Caps!serverVars, CapsNumbers
<1>3. CASE Caps!Fail
  BY <1>3 DEF Caps!Fail, Caps!shownVars, Caps!serverVars, CapsNumbers
<1>4. CASE Caps!ReadState
  BY <1>4 DEF Caps!ReadState, Caps!shownVars, Caps!serverVars, CapsNumbers
<1>5. CASE Caps!CreateThread
  BY <1>5 DEF Caps!CreateThread, Caps!shownVars, Caps!serverVars, CapsNumbers
<1>6. CASE Caps!TakeArgument
  BY <1>6 DEF Caps!TakeArgument, Caps!threadVars, Caps!serverVars, CapsNumbers
<1>7. CASE Caps!StartCallback
  BY <1>7 DEF Caps!StartCallback, Caps!threadVars, Caps!serverVars, CapsNumbers
<1>8. CASE Caps!Destroy
  BY <1>8 DEF Caps!Destroy, Caps!threadVars, Caps!shownVars, CapsNumbers
<1>9. CASE Caps!Join
  BY <1>9 DEF Caps!Join, Caps!shownVars, Caps!serverVars, CapsNumbers
<1>10. CASE Caps!Release
  BY <1>10 DEF Caps!Release, Caps!shownVars, Caps!serverVars, CapsNumbers
<1>11. CASE Caps!DeleteUi
  BY <1>11 DEF Caps!DeleteUi, Caps!threadVars, Caps!shownVars, Caps!serverVars, CapsNumbers
<1>12. CASE Caps!Enable
  BY <1>12 DEF Caps!Enable, Caps!shownVars, Caps!mainVars, CapsNumbers
<1>13. CASE Caps!Intercept
  BY <1>13 DEF Caps!Intercept, Caps!serverVars, Caps!mainVars, CapsNumbers
<1>14. CASE Caps!ThreadCallback
  BY <1>14 DEF Caps!ThreadCallback, Caps!serverVars, Caps!mainVars, CapsNumbers
<1>15. CASE Caps!End
  BY <1>15 DEF Caps!End, Caps!shownVars, Caps!serverVars, Caps!mainVars, CapsNumbers
<1>16. CASE Caps!KeyPress
  BY <1>16 DEF Caps!KeyPress, Caps!shownVars, Caps!mainVars, CapsNumbers
<1> QED BY <1>1, <1>2, <1>3, <1>4, <1>5, <1>6, <1>7, <1>8, <1>9, <1>10, <1>11, <1>12,
   <1>13, <1>14, <1>15, <1>16
        DEF Caps!Next, Caps!MainStep, Caps!ThreadStep

LEMMA CapsNamesKept ==
  ASSUME CapsNames, Caps!Next
  PROVE  CapsNames'
<1>1. CASE Caps!Construct
  BY <1>1 DEF Caps!Construct, Caps!serverVars, CapsNames
<1>2. CASE Caps!Open
  BY <1>2 DEF Caps!Open, Caps!threadVars, Caps!shownVars, Caps!serverVars, CapsNames,
     Caps!Handle
<1>3. CASE Caps!Fail
  BY <1>3 DEF Caps!Fail, Caps!shownVars, Caps!serverVars, CapsNames
<1>4. CASE Caps!ReadState
  BY <1>4 DEF Caps!ReadState, Caps!shownVars, Caps!serverVars, CapsNames
<1>5. CASE Caps!CreateThread
  BY <1>5 DEF Caps!CreateThread, Caps!shownVars, Caps!serverVars, CapsNames
<1>6. CASE Caps!TakeArgument
  BY <1>6 DEF Caps!TakeArgument, Caps!threadVars, Caps!serverVars, CapsNames
<1>7. CASE Caps!StartCallback
  BY <1>7 DEF Caps!StartCallback, Caps!threadVars, Caps!serverVars, CapsNames
<1>8. CASE Caps!Destroy
  BY <1>8 DEF Caps!Destroy, Caps!threadVars, Caps!shownVars, CapsNames, Caps!StopsAt,
     Caps!Disable
<1>9. CASE Caps!Join
  BY <1>9 DEF Caps!Join, Caps!shownVars, Caps!serverVars, CapsNames
<1>10. CASE Caps!Release
  BY <1>10 DEF Caps!Release, Caps!shownVars, Caps!serverVars, CapsNames
<1>11. CASE Caps!DeleteUi
  BY <1>11 DEF Caps!DeleteUi, Caps!threadVars, Caps!shownVars, Caps!serverVars, CapsNames
<1>12. CASE Caps!Enable
  <2>1. /\ UNCHANGED <<lock, isRunning, capsLockIsOn, ui, label, raced, argument, held, main>>
        /\ recording' = TRUE \/ recording' = recording
        /\ thread' = "waiting" \/ thread' = "ended"
    BY <1>12 DEF Caps!Enable, Caps!shownVars, Caps!mainVars
  <2>2. {lock, isRunning, capsLockIsOn, ui, label, raced, recording} \subseteq BOOLEAN
    BY DEF CapsNames
  <2>3. recording' \in BOOLEAN
    BY <2>1, <2>2
  <2>4. argument \in [main : BOOLEAN, thread : BOOLEAN] /\ held \subseteq Caps!Handle
    BY DEF CapsNames
  <2>5. main \in {"idle", "open", "read", "create", "argument", "callback", "join",
                  "release", "delete"}
    BY DEF CapsNames
  <2> QED BY <2>1, <2>2, <2>3, <2>4, <2>5 DEF CapsNames
<1>13. CASE Caps!Intercept
  BY <1>13 DEF Caps!Intercept, Caps!serverVars, Caps!mainVars, CapsNames, Caps!ToggleState
<1>14. CASE Caps!ThreadCallback
  BY <1>14 DEF Caps!ThreadCallback, Caps!serverVars, Caps!mainVars, CapsNames, Caps!Show
<1>15. CASE Caps!End
  BY <1>15 DEF Caps!End, Caps!shownVars, Caps!serverVars, Caps!mainVars, CapsNames
<1>16. CASE Caps!KeyPress
  BY <1>16 DEF Caps!KeyPress, Caps!shownVars, Caps!mainVars, CapsNames
<1> QED BY <1>1, <1>2, <1>3, <1>4, <1>5, <1>6, <1>7, <1>8, <1>9, <1>10, <1>11, <1>12,
   <1>13, <1>14, <1>15, <1>16
        DEF Caps!Next, Caps!MainStep, Caps!ThreadStep

LEMMA CapsThreadsKept ==
  ASSUME CapsThreads, CapsNames, Caps!Next
  PROVE  CapsThreads'
<1>1. CASE Caps!Construct
  BY <1>1 DEF Caps!Construct, Caps!serverVars, CapsThreads, CapsNames
<1>2. CASE Caps!Open
  BY <1>2 DEF Caps!Open, Caps!threadVars, Caps!shownVars, Caps!serverVars, CapsThreads,
     CapsNames, Caps!Handle, Caps!Display
<1>3. CASE Caps!Fail
  BY <1>3 DEF Caps!Fail, Caps!shownVars, Caps!serverVars, CapsThreads, CapsNames
<1>4. CASE Caps!ReadState
  BY <1>4 DEF Caps!ReadState, Caps!shownVars, Caps!serverVars, CapsThreads, CapsNames
<1>5. CASE Caps!CreateThread
  BY <1>5 DEF Caps!CreateThread, Caps!shownVars, Caps!serverVars, CapsThreads, CapsNames
<1>6. CASE Caps!TakeArgument
  BY <1>6 DEF Caps!TakeArgument, Caps!threadVars, Caps!serverVars, CapsThreads, CapsNames
<1>7. CASE Caps!StartCallback
  BY <1>7 DEF Caps!StartCallback, Caps!threadVars, Caps!serverVars, CapsThreads, CapsNames
<1>8. CASE Caps!Destroy
  <2>1. CASE isRunning
    BY <1>8, <2>1 DEF Caps!Destroy, Caps!threadVars, Caps!shownVars, CapsThreads,
       CapsNames, Caps!StopsAt, Caps!Disable, Caps!Handle, Caps!Display
  <2>2. CASE ~isRunning
    BY <1>8, <2>2 DEF Caps!Destroy, Caps!threadVars, Caps!shownVars, CapsThreads, CapsNames
  <2> QED BY <2>1, <2>2
<1>9. CASE Caps!Join
  BY <1>9 DEF Caps!Join, Caps!shownVars, Caps!serverVars, CapsThreads, CapsNames
<1>10. CASE Caps!Release
  BY <1>10 DEF Caps!Release, Caps!shownVars, Caps!serverVars, CapsThreads, CapsNames
<1>11. CASE Caps!DeleteUi
  BY <1>11 DEF Caps!DeleteUi, Caps!threadVars, Caps!shownVars, Caps!serverVars,
     CapsThreads, CapsNames
<1>12. CASE Caps!Enable
  BY <1>12 DEF Caps!Enable, Caps!shownVars, Caps!mainVars, CapsThreads, CapsNames
<1>13. CASE Caps!Intercept
  BY <1>13 DEF Caps!Intercept, Caps!serverVars, Caps!mainVars, CapsThreads, CapsNames
<1>14. CASE Caps!ThreadCallback
  BY <1>14 DEF Caps!ThreadCallback, Caps!serverVars, Caps!mainVars, CapsThreads, CapsNames
<1>15. CASE Caps!End
  BY <1>15 DEF Caps!End, Caps!shownVars, Caps!serverVars, Caps!mainVars, CapsThreads,
     CapsNames
<1>16. CASE Caps!KeyPress
  BY <1>16 DEF Caps!KeyPress, Caps!shownVars, Caps!mainVars, CapsThreads, CapsNames
<1> QED BY <1>1, <1>2, <1>3, <1>4, <1>5, <1>6, <1>7, <1>8, <1>9, <1>10, <1>11, <1>12,
   <1>13, <1>14, <1>15, <1>16
        DEF Caps!Next, Caps!MainStep, Caps!ThreadStep

LEMMA CapsLabelKept ==
  ASSUME CapsLabel, CapsThreads, CapsNames, Caps!Next
  PROVE  CapsLabel'
<1>1. CASE Caps!Construct
  BY <1>1 DEF Caps!Construct, Caps!serverVars, CapsLabel, CapsThreads, CapsNames
<1>2. CASE Caps!Open
  BY <1>2 DEF Caps!Open, Caps!threadVars, Caps!shownVars, Caps!serverVars, CapsLabel,
     CapsThreads, CapsNames
<1>3. CASE Caps!Fail
  BY <1>3 DEF Caps!Fail, Caps!shownVars, Caps!serverVars, CapsLabel, CapsThreads, CapsNames
<1>4. CASE Caps!ReadState
  BY <1>4 DEF Caps!ReadState, Caps!shownVars, Caps!serverVars, CapsLabel, CapsThreads,
     CapsNames
<1>5. CASE Caps!CreateThread
  BY <1>5 DEF Caps!CreateThread, Caps!shownVars, Caps!serverVars, CapsLabel, CapsThreads,
     CapsNames
<1>6. CASE Caps!TakeArgument
  BY <1>6 DEF Caps!TakeArgument, Caps!threadVars, Caps!serverVars, CapsLabel, CapsThreads,
     CapsNames
<1>7. CASE Caps!StartCallback
  BY <1>7 DEF Caps!StartCallback, Caps!threadVars, Caps!serverVars, CapsLabel, CapsThreads,
     CapsNames
<1>8. CASE Caps!Destroy
  BY <1>8 DEF Caps!Destroy, Caps!threadVars, Caps!shownVars, CapsLabel, CapsThreads,
     CapsNames, Caps!StopsAt
<1>9. CASE Caps!Join
  BY <1>9 DEF Caps!Join, Caps!shownVars, Caps!serverVars, CapsLabel, CapsThreads, CapsNames
<1>10. CASE Caps!Release
  BY <1>10 DEF Caps!Release, Caps!shownVars, Caps!serverVars, CapsLabel, CapsThreads,
     CapsNames
<1>11. CASE Caps!DeleteUi
  BY <1>11 DEF Caps!DeleteUi, Caps!threadVars, Caps!shownVars, Caps!serverVars, CapsLabel,
     CapsThreads, CapsNames
<1>12. CASE Caps!Enable
  BY <1>12 DEF Caps!Enable, Caps!shownVars, Caps!mainVars, CapsLabel, CapsThreads, CapsNames
<1>13. CASE Caps!Intercept
  BY <1>13 DEF Caps!Intercept, Caps!serverVars, Caps!mainVars, CapsLabel, CapsThreads,
     CapsNames, Caps!ToggleState
<1>14. CASE Caps!ThreadCallback
  BY <1>14 DEF Caps!ThreadCallback, Caps!serverVars, Caps!mainVars, CapsLabel, CapsThreads,
     CapsNames, Caps!Show
<1>15. CASE Caps!End
  BY <1>15 DEF Caps!End, Caps!shownVars, Caps!serverVars, Caps!mainVars, CapsLabel,
     CapsThreads, CapsNames
<1>16. CASE Caps!KeyPress
  BY <1>16 DEF Caps!KeyPress, Caps!shownVars, Caps!mainVars, CapsLabel, CapsThreads,
     CapsNames
<1> QED BY <1>1, <1>2, <1>3, <1>4, <1>5, <1>6, <1>7, <1>8, <1>9, <1>10, <1>11, <1>12,
   <1>13, <1>14, <1>15, <1>16
        DEF Caps!Next, Caps!MainStep, Caps!ThreadStep

LEMMA CapsCopyKept ==
  ASSUME CapsCopy, CapsThreads, CapsNames, CapsNumbers, Caps!Next
  PROVE  CapsCopy'
<1>0. /\ pending \in Nat /\ missed \in Nat
      /\ lock \in BOOLEAN /\ capsLockIsOn \in BOOLEAN /\ recording \in BOOLEAN
  BY DEF CapsNumbers, CapsNames
<1>1. CASE Caps!Construct
  BY <1>1 DEF Caps!Construct, Caps!serverVars, CapsCopy, CapsThreads, CapsNames
<1>2. CASE Caps!Open
  BY <1>2 DEF Caps!Open, Caps!threadVars, Caps!shownVars, Caps!serverVars, CapsCopy,
     CapsThreads, CapsNames
<1>3. CASE Caps!Fail
  BY <1>3 DEF Caps!Fail, Caps!shownVars, Caps!serverVars, CapsCopy, CapsThreads, CapsNames
<1>4. CASE Caps!ReadState
  <2>1. /\ main = "read" /\ main' = "create" /\ capsLockIsOn' = lock /\ missed' = 0
        /\ UNCHANGED <<lock, recording, thread>>
    BY <1>4 DEF Caps!ReadState, Caps!shownVars, Caps!serverVars
  <2>2. ~recording /\ thread = "none"
    BY <2>1 DEF CapsThreads, CapsNames
  <2>3. ~Caps!Odd(0)
    BY OddNext
  <2> QED BY <1>0, <2>1, <2>2, <2>3 DEF CapsCopy
<1>5. CASE Caps!CreateThread
  BY <1>5 DEF Caps!CreateThread, Caps!shownVars, Caps!serverVars, CapsCopy, CapsThreads,
     CapsNames
<1>6. CASE Caps!TakeArgument
  BY <1>6 DEF Caps!TakeArgument, Caps!threadVars, Caps!serverVars, CapsCopy, CapsThreads,
     CapsNames
<1>7. CASE Caps!StartCallback
  BY <1>7 DEF Caps!StartCallback, Caps!threadVars, Caps!serverVars, CapsCopy, CapsThreads,
     CapsNames
<1>8. CASE Caps!Destroy
  <2>1. /\ main' # "create" /\ (recording' => recording)
        /\ UNCHANGED <<lock, pending, missed, capsLockIsOn, thread>>
    BY <1>8 DEF Caps!Destroy, Caps!StopsAt, Caps!Disable, Caps!threadVars, Caps!shownVars
  <2> QED BY <1>0, <2>1 DEF CapsCopy
<1>9. CASE Caps!Join
  BY <1>9 DEF Caps!Join, Caps!shownVars, Caps!serverVars, CapsCopy, CapsThreads, CapsNames
<1>10. CASE Caps!Release
  BY <1>10 DEF Caps!Release, Caps!shownVars, Caps!serverVars, CapsCopy, CapsThreads,
     CapsNames
<1>11. CASE Caps!DeleteUi
  BY <1>11 DEF Caps!DeleteUi, Caps!threadVars, Caps!shownVars, Caps!serverVars, CapsCopy,
     CapsThreads, CapsNames
<1>12. CASE Caps!Enable
  <2>1. /\ thread = "created" /\ thread' \in {"waiting", "ended"}
        /\ UNCHANGED <<main, lock, pending, missed, capsLockIsOn>>
    BY <1>12 DEF Caps!Enable, Caps!shownVars, Caps!mainVars
  <2>2. main # "create"
    BY <2>1 DEF CapsThreads, CapsNames
  <2>3. pending = 0
    BY <2>1 DEF CapsThreads
  <2>4. pending + missed = missed
    BY <1>0, <2>3
  <2> QED BY <1>0, <2>1, <2>2, <2>4 DEF CapsCopy
<1>13. CASE Caps!Intercept
  <2>1. /\ thread = "waiting" /\ pending > 0 /\ pending' = pending - 1
        /\ capsLockIsOn' = ~capsLockIsOn /\ thread' = "callback"
        /\ UNCHANGED <<main, lock, missed, recording>>
    BY <1>13 DEF Caps!Intercept, Caps!ToggleState, Caps!serverVars, Caps!mainVars
  <2>2. main # "create"
    BY <2>1 DEF CapsThreads, CapsNames
  <2> DEFINE n == pending - 1 + missed
  <2>3. n \in Nat /\ pending + missed = n + 1 /\ pending' + missed' = n
    BY <1>0, <2>1
  <2> HIDE DEF n
  <2>4. Caps!Odd(pending + missed) <=> ~Caps!Odd(pending' + missed')
    BY <2>3, OddNext
  <2> QED BY <1>0, <2>1, <2>2, <2>4 DEF CapsCopy
<1>14. CASE Caps!ThreadCallback
  BY <1>14 DEF Caps!ThreadCallback, Caps!serverVars, Caps!mainVars, CapsCopy, CapsThreads,
     CapsNames
<1>15. CASE Caps!End
  BY <1>15 DEF Caps!End, Caps!shownVars, Caps!serverVars, Caps!mainVars, CapsCopy,
     CapsThreads, CapsNames
<1>16. CASE Caps!KeyPress
  <2>1. /\ lock' = ~lock /\ UNCHANGED <<main, thread, capsLockIsOn, recording>>
        /\ IF recording THEN pending' = pending + 1 /\ missed' = missed
                        ELSE pending' = pending /\ missed' = missed + 1
    BY <1>16 DEF Caps!KeyPress, Caps!shownVars, Caps!mainVars
  <2>2. CASE recording
    <3>1. pending' + missed' = (pending + missed) + 1
      BY <1>0, <2>1, <2>2
    <3>2. Caps!Odd(pending' + missed') <=> ~Caps!Odd(pending + missed)
      BY <1>0, <3>1, OddNext
    <3>3. main # "create" /\ thread # "created"
      BY <2>2 DEF CapsThreads, CapsNames
    <3> QED BY <1>0, <2>1, <2>2, <3>2, <3>3 DEF CapsCopy
  <2>3. CASE ~recording
    <3>1. Caps!Odd(missed') <=> ~Caps!Odd(missed)
      BY <1>0, <2>1, <2>3, OddNext
    <3> QED BY <1>0, <2>1, <2>3, <3>1 DEF CapsCopy
  <2> QED BY <2>2, <2>3
<1> QED BY <1>1, <1>2, <1>3, <1>4, <1>5, <1>6, <1>7, <1>8, <1>9, <1>10, <1>11, <1>12,
   <1>13, <1>14, <1>15, <1>16
        DEF Caps!Next, Caps!MainStep, Caps!ThreadStep

LEMMA CapsConstants == MaxPresses \in Nat /\ MaxWindows \in Nat
BY PartsAssumption DEF Caps!CapsLockAssumption

LEMMA CapsNext == CapsInv /\ [Caps!Next]_capsVars => CapsInv'
<1> SUFFICES ASSUME CapsInv, [Caps!Next]_capsVars PROVE CapsInv'
  OBVIOUS
<1>1. CASE UNCHANGED capsVars
  BY <1>1 DEF capsVars, CapsInv, CapsNumbers, CapsNames, CapsThreads, CapsCopy, CapsLabel
<1>2. CASE Caps!Next
  BY <1>2, CapsConstants, CapsNumbersKept, CapsNamesKept, CapsThreadsKept, CapsCopyKept,
     CapsLabelKept DEF CapsInv
<1> QED BY <1>1, <1>2

LEMMA CapsInit == Init => CapsInv
<1> SUFFICES ASSUME Init PROVE CapsInv
  OBVIOUS
<1>1. Caps!Init
  BY DEF Init
<1>2. CapsNumbers
  BY <1>1, CapsConstants DEF Caps!Init, CapsNumbers
<1>3. CapsNames
  BY <1>1 DEF Caps!Init, CapsNames, Caps!InitLockStatus, Caps!CapsLockMask
<1>4. CapsThreads /\ CapsCopy /\ CapsLabel
  BY <1>1 DEF Caps!Init, CapsThreads, CapsCopy, CapsLabel
<1> QED BY <1>2, <1>3, <1>4 DEF CapsInv

\* CapsLockSnoop, for any number of presses and windows: the copy of Caps Lock
\* is off by what is on its way or was missed, the label shows the copy, and the
\* thread has its displays and its window.
THEOREM LabelShowsCopy == Spec => []LabelFollowsLock
<1>1. CapsInv => LabelFollowsLock
  <2> SUFFICES ASSUME CapsInv PROVE LabelFollowsLock
    OBVIOUS
  <2>1. Caps!TypeOK
    BY DEF CapsInv, CapsNumbers, CapsNames, CapsThreads, Caps!TypeOK
  <2>2. Caps!MirrorTracks
    <3> DEFINE o == Caps!Odd(pending + missed)
    <3>1. o \in BOOLEAN /\ lock \in BOOLEAN /\ capsLockIsOn \in BOOLEAN
      BY DEF CapsInv, CapsNames, Caps!Odd
    <3>2. recording => (capsLockIsOn <=> (lock /\ ~o) \/ (~lock /\ o))
      BY DEF CapsInv, CapsCopy
    <3> HIDE DEF o
    <3>3. recording => capsLockIsOn = (lock # o)
      BY <3>1, <3>2
    <3> QED BY <3>3 DEF Caps!MirrorTracks, o
  <2>3. Caps!LabelIsCopy
    BY DEF CapsInv, CapsLabel, Caps!LabelIsCopy
  <2>4. Caps!ThreadHasItsWindow
    BY DEF CapsInv, CapsThreads, Caps!ThreadHasItsWindow
  <2> QED BY <2>1, <2>2, <2>3, <2>4 DEF LabelFollowsLock
<1>2. CapsInv /\ [Next]_partVars => CapsInv'
  BY PartSteps, CapsNext
<1> QED BY CapsInit, <1>1, <1>2, PTL DEF Spec

-----------------------------------------------------------------------------
(* The tips *)

\* The inductive invariant: what is left of the time of a tip that is seen.
TipsInv ==
  /\ Tips!TypeOK /\ Tips!TipHasItsTime
  /\ gone = "time" => ~tipVisible
  /\ tipVisible /\ hideTimer # NoTimer => age + left[hideTimer] = wait

\* The type in two parts, for the provers.
TipNumbers == /\ timeout \in 1..Longest /\ hideTimer \in TimerId \cup {NoTimer}
              /\ left \in [TimerId -> 0..Longest]
              /\ \A t \in TimerId : left[t] > 0 <=> t = hideTimer
              /\ age \in 0..Longest /\ wait \in 0..Longest

TipNames == /\ tipVisible \in BOOLEAN /\ type \in Tips!Types
            /\ gone \in {"never shown", "never hidden", "page", "press", "time", "kept"}

LEMMA TipsTyped == /\ Tips!TypeOK <=> TipNumbers /\ TipNames
                   /\ TipNumbers' /\ TipNames' => Tips!TypeOK'
<1>1. (\A t \in TimerId : (left[t] > 0) = (t = hideTimer))
        <=> (\A t \in TimerId : left[t] > 0 <=> t = hideTimer)
  OBVIOUS
<1>2. (\A t \in TimerId : left'[t] > 0 <=> t = hideTimer')
        => (\A t \in TimerId : (left'[t] > 0) = (t = hideTimer'))
  OBVIOUS
<1>3. Tips!TypeOK <=> TipNumbers /\ TipNames
  BY <1>1, Zenon DEF Tips!TypeOK, TipNumbers, TipNames
<1>4. TipNumbers' /\ TipNames' => Tips!TypeOK'
  BY <1>2, Zenon DEF Tips!TypeOK, TipNumbers, TipNames
<1> QED BY <1>3, <1>4

LEMMA TipsConstants ==
  Longest \in Nat /\ Timeouts \subseteq 0..Longest /\ NoTimer \notin TimerId
BY PartsAssumption DEF Tips!HoverTipsAssumption

\* With its timer stopped no timer runs.
LEMMA TipsStopped ==
  ASSUME TipNumbers
  PROVE  Tips!Stopped \in [TimerId -> 0..Longest] /\ \A t \in TimerId : Tips!Stopped[t] = 0
<1>1. ASSUME NEW t \in TimerId, t # hideTimer PROVE left[t] = 0
  BY <1>1, TipsConstants DEF TipNumbers
<1>2. 0 \in 0..Longest
  BY TipsConstants
<1>3. CASE hideTimer = NoTimer
  BY <1>1, <1>3, TipsConstants DEF Tips!Stopped, TipNumbers
<1>4. CASE hideTimer # NoTimer
  <2>1. Tips!Stopped = [left EXCEPT ![hideTimer] = 0] /\ hideTimer \in TimerId
    BY <1>4 DEF Tips!Stopped, TipNumbers
  <2> QED BY <1>1, <1>2, <2>1 DEF TipNumbers
<1> QED BY <1>3, <1>4

\* A timer that is stopped leaves none that runs.
LEMMA TipsNoTimer ==
  ASSUME TipNumbers, Tips!StopHideTimer, UNCHANGED <<age, wait, timeout>>
  PROVE  TipNumbers' /\ hideTimer' = NoTimer
<1>1. left' = Tips!Stopped /\ hideTimer' = NoTimer
  BY DEF Tips!StopHideTimer
<1>2. \A t \in TimerId : left'[t] > 0 <=> t = hideTimer'
  BY <1>1, TipsStopped, TipsConstants
<1> QED BY <1>1, <1>2, TipsStopped DEF TipNumbers

LEMMA TipsNext == TipsInv /\ [Tips!Next]_tipVars => TipsInv'
<1> SUFFICES ASSUME TipsInv, [Tips!Next]_tipVars PROVE TipsInv'
  OBVIOUS
<1>0. TipNumbers /\ TipNames
  BY TipsTyped DEF TipsInv
<1> DEFINE HalfSeen == tipVisible /\ hideTimer # NoTimer => age + left[hideTimer] = wait
           Seen     == (gone = "time" => age + 1 = wait) /\ (gone = "time" => ~tipVisible)
<1>00. ASSUME TipNumbers', TipNames', Seen', HalfSeen' PROVE TipsInv'
  BY <1>00, TipsTyped DEF TipsInv, Tips!TipHasItsTime
<1>1. CASE UNCHANGED tipVars
  BY <1>1 DEF tipVars, TipsInv, Tips!TypeOK, Tips!TipHasItsTime
<1>2. CASE Tips!Show
  <2>1. PICK t \in TimerId : left' = [Tips!Stopped EXCEPT ![t] = timeout] /\ hideTimer' = t
    BY <1>2 DEF Tips!Show, Tips!StartHideTimer, Tips!StartTimer
  <2>2. tipVisible' = TRUE /\ type' \in Tips!Types /\ gone' = "never hidden"
    BY <1>2 DEF Tips!Show
  <2>3. age' = 0 /\ wait' = timeout /\ timeout' = timeout
    BY <1>2 DEF Tips!Show
  <2>4. timeout \in 1..Longest /\ timeout \in 0..Longest /\ timeout > 0
    BY <1>0, TipsConstants DEF TipNumbers
  <2>5. /\ left' \in [TimerId -> 0..Longest] /\ left'[t] = timeout
        /\ \A u \in TimerId : u # t => left'[u] = 0
    BY <1>0, <2>1, <2>4, TipsStopped
  <2>6. \A u \in TimerId : left'[u] > 0 <=> u = hideTimer'
    BY <2>1, <2>4, <2>5
  <2>7. TipNumbers'
    BY <2>1, <2>3, <2>4, <2>5, <2>6, TipsConstants DEF TipNumbers
  <2>8. HalfSeen'
    BY <2>1, <2>3, <2>4, <2>5
  <2> QED BY <1>00, <2>2, <2>7, <2>8 DEF TipNames
<1>3. CASE Tips!Hide
  <2>1. tipVisible' = FALSE /\ gone' = "page"
    BY <1>3 DEF Tips!Hide
  <2>2. UNCHANGED <<type, age, wait, timeout, hideTimer, left>>
    BY <1>3 DEF Tips!Hide, Tips!timerVars
  <2>3. TipNumbers'
    BY <1>0, <2>2 DEF TipNumbers
  <2> QED BY <1>0, <1>00, <2>1, <2>2, <2>3 DEF TipNames
<1>4. CASE Tips!Press
  <2>1. tipVisible' = FALSE /\ gone' = "press" /\ UNCHANGED <<type, age, wait, timeout>>
    BY <1>4 DEF Tips!Press
  <2>2. TipNumbers'
    BY <1>0, <1>4, <2>1, TipsNoTimer DEF Tips!Press
  <2> QED BY <1>0, <1>00, <2>1, <2>2 DEF TipNames
<1>5. ASSUME NEW ms \in Timeouts, Tips!SetTimeout(ms) PROVE TipsInv'
  <2>1. UNCHANGED <<tipVisible, type, age, wait>>
    BY <1>5 DEF Tips!SetTimeout
  <2>2. CASE ms = 0
    <3>1. Tips!StopHideTimer /\ timeout' = timeout /\ gone' = IF tipVisible THEN "kept" ELSE gone
      BY <1>5, <2>2 DEF Tips!SetTimeout
    <3>2. TipNumbers' /\ hideTimer' = NoTimer
      BY <1>0, <2>1, <3>1, TipsNoTimer
    <3>3. TipNames'
      BY <1>0, <2>1, <3>1 DEF TipNames
    <3>4. Seen'
      BY <2>1, <3>1 DEF TipsInv, Tips!TipHasItsTime
    <3> QED BY <1>00, <3>2, <3>3, <3>4
  <2>3. CASE ms # 0
    <3>1. timeout' = ms /\ UNCHANGED <<hideTimer, left, gone>>
      BY <1>5, <2>3 DEF Tips!SetTimeout
    <3>2. ms \in 1..Longest
      BY <2>3, TipsConstants
    <3>3. TipNumbers'
      BY <1>0, <2>1, <3>1, <3>2 DEF TipNumbers
    <3>4. TipNames'
      BY <1>0, <2>1, <3>1 DEF TipNames
    <3>5. Seen' /\ HalfSeen'
      BY <2>1, <3>1 DEF TipsInv, Tips!TipHasItsTime
    <3> QED BY <1>00, <3>3, <3>4, <3>5
  <2> QED BY <2>2, <2>3
<1>6. CASE Tips!Tick
  <2>1. /\ \A t \in TimerId : left[t] # 1
        /\ left' = [t \in TimerId |-> IF left[t] > 0 THEN left[t] - 1 ELSE 0]
        /\ age' = (IF tipVisible /\ age < Longest THEN age + 1 ELSE age)
        /\ UNCHANGED <<wait, timeout, hideTimer>>
    BY <1>6 DEF Tips!Tick
  <2>2. UNCHANGED <<tipVisible, type, gone>>
    BY <1>6 DEF Tips!Tick
  <2>3. ASSUME NEW t \in TimerId
        PROVE  /\ left'[t] \in 0..Longest /\ (left'[t] > 0 <=> t = hideTimer)
               /\ t = hideTimer => left'[t] = left[t] - 1 /\ left[t] > 0
    <3>1. /\ left[t] \in 0..Longest /\ left[t] # 1 /\ (left[t] > 0 <=> t = hideTimer)
          /\ left'[t] = IF left[t] > 0 THEN left[t] - 1 ELSE 0
      BY <1>0, <2>1 DEF TipNumbers
    <3> QED BY <3>1, TipsConstants
  <2>4. age' \in 0..Longest
    BY <1>0, <2>1, TipsConstants DEF TipNumbers
  <2>5. TipNumbers'
    BY <1>0, <2>1, <2>3, <2>4 DEF TipNumbers
  <2>6. HalfSeen'
    <3> SUFFICES ASSUME tipVisible, hideTimer # NoTimer PROVE age' + left'[hideTimer] = wait
      BY <2>1, <2>2
    <3>1. hideTimer \in TimerId /\ age \in 0..Longest /\ wait \in 0..Longest
      BY <1>0 DEF TipNumbers
    <3>2. left[hideTimer] \in 0..Longest
      BY <1>0, <3>1 DEF TipNumbers
    <3>3. age + left[hideTimer] = wait
      BY DEF TipsInv
    <3>4. left[hideTimer] > 0 /\ left'[hideTimer] = left[hideTimer] - 1
      BY <2>3, <3>1
    <3>5. age' = age + 1
      BY <2>1, <3>1, <3>2, <3>3, <3>4, TipsConstants
    <3> QED BY <3>1, <3>2, <3>3, <3>4, <3>5, TipsConstants
  <2>7. Seen'
    BY <2>1, <2>2 DEF TipsInv, Tips!TipHasItsTime
  <2>8. TipNames'
    BY <1>0, <2>2 DEF TipNames
  <2> QED BY <1>00, <2>5, <2>6, <2>7, <2>8
<1>7. ASSUME NEW t \in TimerId, Tips!Fire(t) PROVE TipsInv'
  <2>1. t = hideTimer /\ left[t] = 1
    BY <1>0, <1>7 DEF Tips!Fire, TipNumbers
  <2>2. /\ tipVisible' = FALSE /\ Tips!StopHideTimer /\ UNCHANGED <<type, age, wait, timeout>>
        /\ gone' = IF tipVisible THEN "time" ELSE gone
    BY <1>7, <2>1 DEF Tips!Fire
  <2>3. TipNumbers'
    BY <1>0, <2>2, TipsNoTimer
  <2>4. TipNames'
    BY <1>0, <2>2 DEF TipNames
  <2>5. tipVisible => age + 1 = wait
    BY <2>1, TipsConstants DEF TipsInv
  <2>6. Seen'
    BY <2>2, <2>5 DEF TipsInv, Tips!TipHasItsTime
  <2> QED BY <1>00, <2>2, <2>3, <2>4, <2>6
<1> QED BY <1>1, <1>2, <1>3, <1>4, <1>5, <1>6, <1>7 DEF Tips!Next

\* Of tips with any timeouts, whatever numbers Qt gives to their timers.
LEMMA TipsWereSeen == Spec => []TipsInv
<1>1. Init => TipsInv
  <2> SUFFICES ASSUME Init PROVE TipsInv
    OBVIOUS
  <2>1. /\ tipVisible = FALSE /\ type \in Tips!Types /\ gone = "never shown"
    BY DEF Init, Tips!Init
  <2>2. /\ timeout \in Timeouts \ {0} /\ hideTimer = NoTimer
        /\ left = [t \in TimerId |-> 0] /\ age = 0 /\ wait = 0
    BY DEF Init, Tips!Init
  <2>3. timeout \in 1..Longest /\ 0 \in 0..Longest
    BY <2>2, TipsConstants
  <2>4. TipNumbers
    BY <2>2, <2>3, TipsConstants DEF TipNumbers
  <2>5. TipNames
    BY <2>1 DEF TipNames
  <2> QED BY <2>1, <2>4, <2>5, TipsTyped DEF TipsInv, Tips!TipHasItsTime
<1>2. TipsInv /\ [Next]_partVars => TipsInv'
  BY PartSteps, TipsNext
<1> QED BY <1>1, <1>2, PTL DEF Spec

\* fadeIn(), fadeOut() and their delay: a dialog at rest is seen if and only if
\* the last fade was a fade in, unless the code cut it short. HoverTips: a tip
\* that its timer has hidden was seen for its time.
THEOREM TimersShowAsMeant == Spec => []ShownAsMeant
<1>1. FadeInv /\ TipsInv => ShownAsMeant
  BY DEF FadeInv, TipsInv, ShownAsMeant
<1> QED BY <1>1, FadesAreSettled, TipsWereSeen, PTL

-----------------------------------------------------------------------------
(* The outputs *)

\* The i-th notice is the last one about its output.
LastAbout(i, s) == /\ notices[i].output = s
                   /\ \A j \in DOMAIN notices : j > i => notices[j].output # s

\* It tells what is so now.
IsSo(n) == (n.on <=> n.output \in plugged) /\ (n.lit <=> n.output \in lit)

\* Qt and the filter know the output as it is.
Known(s) == /\ s \in screens <=> s \in plugged /\ s \in lit
            /\ connected[s] => s \in plugged

PlugTypes ==
  /\ plugged \in SUBSET Screen /\ lit \in SUBSET Screen /\ screens \in SUBSET Screen
  /\ notices \in Seq(Plugs!Notice) /\ connected \in [Screen -> BOOLEAN] /\ timer \in BOOLEAN

\* An output is known, or will be by the last of the notices about it.
WillBeKnown(s) ==
  \/ Known(s) /\ \A i \in DOMAIN notices : notices[i].output # s
  \/ \E i \in DOMAIN notices : LastAbout(i, s) /\ IsSo(notices[i])

\* A notice on its way will start the timer.
WillStartTimer(s) ==
  \E i \in DOMAIN notices : notices[i].output = s /\ notices[i].on # connected[s]

PlugsInv == /\ PlugTypes
            /\ \A s \in Screen : WillBeKnown(s)
            /\ \A s \in plugged \ lit : timer \/ WillStartTimer(s)

LEMMA NoticeOfEffect ==
  ASSUME NEW s \in Screen, NEW on \in BOOLEAN, NEW ll
  PROVE  LET n == Plugs!NoticeOf(s, on, ll)
         IN  n \in Plugs!Notice /\ n.output = s /\ n.on = on /\ (n.lit <=> s \in ll)
<1> DEFINE b == s \in ll
<1>1. b \in BOOLEAN
  OBVIOUS
<1>2. Plugs!NoticeOf(s, on, ll) = [output |-> s, on |-> on, lit |-> b]
  BY DEF Plugs!NoticeOf
<1> HIDE DEF b
<1>3. LET n == [output |-> s, on |-> on, lit |-> b]
      IN  n \in Plugs!Notice /\ n.output = s /\ n.on = on /\ n.lit = b
  BY <1>1 DEF Plugs!Notice
<1> QED BY <1>2, <1>3 DEF b

LEMMA PlugSteps ==
  ASSUME PlugsInv, NEW s \in Screen, Plugs!Plug(s)
  PROVE  PlugsInv'
<1> DEFINE n == Plugs!NoticeOf(s, s \in plugged', lit)
<1>1. /\ plugged' = IF s \in plugged THEN plugged \ {s} ELSE plugged \cup {s}
      /\ notices' = Append(notices, n)
      /\ lit' = lit /\ connected' = connected /\ timer' = timer /\ screens' = screens
  BY DEF Plugs!Plug, Plugs!vars, Plugs!screenVars, Plugs!filterVars
<1>0. /\ n \in Plugs!Notice /\ n.output = s
      /\ (n.on <=> s \in plugged') /\ (n.lit <=> s \in lit)
  <2> DEFINE on == s \in plugged'
  <2>1. on \in BOOLEAN
    OBVIOUS
  <2> HIDE DEF on
  <2>2. LET m == Plugs!NoticeOf(s, on, lit)
        IN  m \in Plugs!Notice /\ m.output = s /\ m.on = on /\ (m.lit <=> s \in lit)
    BY <2>1, NoticeOfEffect
  <2> QED BY <2>2 DEF n, on
<1>2. /\ n.output = s
      /\ (n.on <=> s \in plugged') /\ (n.lit <=> s \in lit)
  BY <1>0
<1>3. n \in Plugs!Notice
  BY <1>0
<1> HIDE DEF n
<1>4. PlugTypes
  BY DEF PlugsInv
<1>5. PlugTypes'
  BY <1>1, <1>3, <1>4 DEF PlugTypes
<1>6. /\ Len(notices) \in Nat /\ DOMAIN notices = 1..Len(notices)
      /\ DOMAIN notices' = 1..(Len(notices) + 1) /\ notices'[Len(notices) + 1] = n
      /\ \A i \in DOMAIN notices : notices'[i] = notices[i]
  BY <1>1, <1>3, <1>4 DEF PlugTypes
<1>7. ASSUME NEW t \in Screen PROVE WillBeKnown(t)'
  <2>1. CASE t = s
    <3>1. PICK k \in DOMAIN notices' : k = Len(notices) + 1 /\ notices'[k] = n
      BY <1>6
    <3>2. LastAbout(k, t)'
      BY <1>2, <1>6, <2>1, <3>1 DEF LastAbout
    <3>3. IsSo(notices[k])'
      BY <1>1, <1>2, <3>1, <2>1 DEF IsSo
    <3> QED BY <3>1, <3>2, <3>3 DEF WillBeKnown
  <2>2. CASE t # s
    <3>1. (t \in plugged' <=> t \in plugged)
      BY <1>1, <2>2
    <3>2. CASE Known(t) /\ \A i \in DOMAIN notices : notices[i].output # t
      <4>1. Known(t)'
        BY <1>1, <3>1, <3>2 DEF Known
      <4>2. \A i \in DOMAIN notices' : notices'[i].output # t
        BY <1>2, <1>6, <2>2, <3>2
      <4> QED BY <4>1, <4>2 DEF WillBeKnown
    <3>3. ASSUME NEW i \in DOMAIN notices, LastAbout(i, t), IsSo(notices[i])
          PROVE  WillBeKnown(t)'
      <4>1. LastAbout(i, t)'
        BY <1>2, <1>6, <2>2, <3>3 DEF LastAbout
      <4>2. IsSo(notices[i])'
        BY <1>1, <1>6, <3>1, <3>3 DEF IsSo, LastAbout
      <4> QED BY <1>6, <4>1, <4>2 DEF WillBeKnown
    <3> QED BY <3>2, <3>3 DEF PlugsInv, WillBeKnown
  <2> QED BY <2>1, <2>2
<1>8. ASSUME NEW t \in plugged' \ lit', ~timer PROVE WillStartTimer(t)'
  <2>1. CASE t \in plugged
    <3>1. PICK i \in DOMAIN notices : notices[i].output = t /\ notices[i].on # connected[t]
      BY <1>1, <1>8, <2>1 DEF PlugsInv, WillStartTimer
    <3>2. i \in DOMAIN notices' /\ notices'[i] = notices[i]
      BY <1>6
    <3> QED BY <1>1, <3>1, <3>2 DEF WillStartTimer
  <2>2. CASE t \notin plugged /\ ~connected[t]
    <3>1. t = s /\ n.on = TRUE /\ n.output = s
      BY <1>1, <1>2, <2>2
    <3>2. Len(notices) + 1 \in DOMAIN notices' /\ notices'[Len(notices) + 1] = n
      BY <1>6
    <3> QED BY <1>1, <2>2, <3>1, <3>2 DEF WillStartTimer
  <2>3. CASE t \notin plugged /\ connected[t]
    <3>0. t \in Screen
      BY <1>5 DEF PlugTypes
    <3>1. PICK i \in DOMAIN notices : LastAbout(i, t) /\ IsSo(notices[i])
      BY <2>3, <3>0 DEF PlugsInv, WillBeKnown, Known
    <3>2. notices[i].output = t /\ notices[i].on = FALSE
      BY <2>3, <3>1 DEF LastAbout, IsSo
    <3>3. connected[t] = TRUE
      BY <1>4, <2>3, <3>0 DEF PlugTypes
    <3>4. i \in DOMAIN notices' /\ notices'[i] = notices[i]
      BY <1>6
    <3> QED BY <1>1, <3>2, <3>3, <3>4 DEF WillStartTimer
  <2> QED BY <2>1, <2>2, <2>3
<1> QED BY <1>1, <1>5, <1>7, <1>8 DEF PlugsInv

LEMMA NoticeReadSteps ==
  ASSUME PlugsInv, Plugs!NoticeRead
  PROVE  PlugsInv'
<1> DEFINE n == Head(notices)
           o == n.output
<1>1. PlugTypes /\ notices # <<>> /\ notices' = Tail(notices)
  BY DEF PlugsInv, Plugs!NoticeRead
<1>2. /\ Len(notices) \in Nat /\ DOMAIN notices = 1..Len(notices)
      /\ 1 \in DOMAIN notices /\ n = notices[1]
      /\ DOMAIN notices' = 1..(Len(notices) - 1) /\ notices' \in Seq(Plugs!Notice)
      /\ \A i \in DOMAIN notices' : i + 1 \in DOMAIN notices /\ notices'[i] = notices[i + 1]
  BY <1>1 DEF PlugTypes
<1>3. n \in Plugs!Notice /\ o \in Screen /\ n.on \in BOOLEAN /\ n.lit \in BOOLEAN
  <2>1. n \in Plugs!Notice
    BY <1>1, <1>2 DEF PlugTypes
  <2> QED BY <2>1 DEF Plugs!Notice
<1>4. /\ plugged' = plugged /\ lit' = lit
      /\ connected' = [connected EXCEPT ![o] = n.on]
      /\ timer' = (timer \/ connected[o] # n.on)
  BY DEF Plugs!NoticeRead, Plugs!Filter, Plugs!StartsTimer, Plugs!serverVars
<1>5. IF n.on /\ n.lit THEN screens' = screens \cup {o} ELSE screens' = screens \ {o}
  <2>1. Plugs!QtHandles(n)
    BY DEF Plugs!NoticeRead
  <2>2. CASE o \in screens /\ n.on /\ n.lit
    BY <2>1, <2>2 DEF Plugs!QtHandles, Plugs!vars, Plugs!screenVars
  <2>3. CASE o \in screens /\ ~(n.on /\ n.lit)
    BY <2>1, <2>3 DEF Plugs!QtHandles, Plugs!ScreenRemoved
  <2>4. CASE o \notin screens /\ n.on /\ n.lit
    BY <2>1, <2>4 DEF Plugs!QtHandles, Plugs!ScreenAdded
  <2>5. CASE o \notin screens /\ ~(n.on /\ n.lit)
    BY <2>1, <2>5 DEF Plugs!QtHandles, Plugs!vars, Plugs!screenVars
  <2> QED BY <2>2, <2>3, <2>4, <2>5
<1> HIDE DEF n, o
<1>6. PlugTypes'
  <2>1. connected' \in [Screen -> BOOLEAN]
    BY <1>1, <1>3, <1>4 DEF PlugTypes
  <2>2. timer' \in BOOLEAN
    BY <1>1, <1>4 DEF PlugTypes
  <2>3. screens' \in SUBSET Screen
    BY <1>1, <1>3, <1>5 DEF PlugTypes
  <2> QED BY <1>1, <1>2, <1>4, <2>1, <2>2, <2>3 DEF PlugTypes
<1>7. connected'[o] = n.on /\ \A t \in Screen \ {o} : connected'[t] = connected[t]
  BY <1>1, <1>3, <1>4 DEF PlugTypes
<1>8. notices[1].output = o
  BY <1>2 DEF o
<1>9. ASSUME NEW t \in Screen PROVE WillBeKnown(t)'
  <2>1. CASE Known(t) /\ \A i \in DOMAIN notices : notices[i].output # t
    <3>1. t # o /\ \A i \in DOMAIN notices' : notices'[i].output # t
      BY <1>2, <1>8, <2>1
    <3>2. Known(t)'
      BY <1>4, <1>5, <1>7, <2>1, <3>1 DEF Known
    <3> QED BY <3>1, <3>2 DEF WillBeKnown
  <2>2. ASSUME NEW i \in DOMAIN notices, LastAbout(i, t), IsSo(notices[i]), i > 1
        PROVE  WillBeKnown(t)'
    <3>1. PICK k \in DOMAIN notices' : k + 1 = i
      <4>1. i - 1 \in DOMAIN notices' /\ (i - 1) + 1 = i
        BY <1>2, <2>2
      <4> QED BY <4>1
    <3>2. notices'[k] = notices[i]
      BY <1>2, <3>1
    <3>3. ASSUME NEW j \in DOMAIN notices', j > k PROVE notices'[j].output # t
      BY <1>2, <2>2, <3>1, <3>3 DEF LastAbout
    <3>4. LastAbout(k, t)'
      BY <2>2, <3>2, <3>3 DEF LastAbout
    <3>5. IsSo(notices[k])'
      BY <1>4, <2>2, <3>2 DEF IsSo
    <3> QED BY <3>4, <3>5 DEF WillBeKnown
  <2>3. CASE LastAbout(1, t) /\ IsSo(notices[1])
    <3>1. t = o
      BY <1>8, <2>3 DEF LastAbout
    <3>2. (n.on <=> t \in plugged) /\ (n.lit <=> t \in lit)
      BY <1>2, <1>8, <2>3, <3>1 DEF IsSo
    <3>3. Known(t)'
      BY <1>4, <1>5, <1>7, <3>1, <3>2 DEF Known
    <3>4. \A i \in DOMAIN notices' : notices'[i].output # t
      BY <1>2, <2>3 DEF LastAbout
    <3> QED BY <3>3, <3>4 DEF WillBeKnown
  <2>4. ASSUME NEW i \in DOMAIN notices PROVE i > 1 \/ i = 1
    BY <1>2
  <2> QED BY <2>1, <2>2, <2>3, <2>4 DEF PlugsInv, WillBeKnown
<1>10. ASSUME NEW t \in plugged' \ lit' PROVE timer' \/ WillStartTimer(t)'
  <2> SUFFICES ASSUME ~timer' PROVE WillStartTimer(t)'
    OBVIOUS
  <2>1. ~timer /\ connected[o] = n.on /\ t \in plugged \ lit /\ t \in Screen
    BY <1>1, <1>4, <1>10 DEF PlugTypes
  <2>2. PICK i \in DOMAIN notices : notices[i].output = t /\ notices[i].on # connected[t]
    BY <2>1 DEF PlugsInv, WillStartTimer
  <2>3. connected'[t] = connected[t]
    BY <1>7, <2>1
  <2>4. i # 1
    BY <1>2, <1>8, <2>1, <2>2
  <2>5. PICK k \in DOMAIN notices' : k + 1 = i
    <3>1. i - 1 \in DOMAIN notices' /\ (i - 1) + 1 = i
      BY <1>2, <2>4
    <3> QED BY <3>1
  <2>6. notices'[k] = notices[i]
    BY <1>2, <2>5
  <2> QED BY <2>2, <2>3, <2>6 DEF WillStartTimer
<1> QED BY <1>6, <1>9, <1>10 DEF PlugsInv

\* The operators of FiniteSets as the instance Plugs knows them.
LEMMA PlugsSets ==
  ASSUME NEW S
  PROVE  /\ Plugs!IsFiniteSet(S) <=> IsFiniteSet(S)
         /\ Plugs!Cardinality(S) = Cardinality(S)
<1>1. Plugs!IsFiniteSet(S) <=> IsFiniteSet(S)
  BY DEF Plugs!IsFiniteSet, IsFiniteSet
<1>2. Plugs!Cardinality(S) = Cardinality(S)
  BY Zenon DEF Plugs!Cardinality, Cardinality
<1> QED BY <1>1, <1>2

\* xrandr tells of each output that it has changed, once.
LEMMA OrderTellsAll ==
  ASSUME NEW S \in SUBSET Screen, NEW q \in Plugs!Orders(S)
  PROVE  /\ Cardinality(S) \in Nat /\ q \in [1..Cardinality(S) -> S]
         /\ \A i, j \in 1..Cardinality(S) : q[i] = q[j] => i = j
         /\ \A s \in S : \E i \in 1..Cardinality(S) : q[i] = s
<1> DEFINE c == Cardinality(S)
<1>1. IsFiniteSet(Screen)
  BY PartsAssumption, PlugsSets DEF Plugs!ScreensAssumption
<1>2. IsFiniteSet(S) /\ c \in Nat
  BY <1>1, FS_Subset, FS_CardinalityType
<1>3. q \in [1..c -> S] /\ \A i, j \in 1..c : q[i] = q[j] => i = j
  BY PlugsSets DEF Plugs!Orders
<1>4. Cardinality(1..c) = c
  BY <1>2, FS_Interval
<1>5. q \in Injection(1..c, S)
  BY <1>3 DEF Injection, IsInjective
<1>6. q \in Surjection(1..c, S)
  BY <1>2, <1>4, <1>5, FS_Injection
<1> QED BY <1>2, <1>3, <1>6 DEF Surjection

LEMMA ReconfigureSteps ==
  ASSUME PlugsInv, Plugs!Reconfigure
  PROVE  PlugsInv'
<1> DEFINE S == (lit \ plugged) \cup (plugged \ lit)
           c == Cardinality(S)
<1>1. /\ PlugTypes /\ timer' = FALSE /\ lit' = plugged
      /\ plugged' = plugged /\ connected' = connected /\ screens' = screens
  BY DEF PlugsInv, Plugs!Reconfigure, Plugs!Auto, Plugs!vars, Plugs!screenVars
<1>2. PICK q \in Plugs!Orders(S) :
        notices' = notices \o [i \in DOMAIN q |-> Plugs!NoticeOf(q[i], q[i] \in plugged, lit')]
  <2> DEFINE T == (lit \ lit') \cup (lit' \ lit)
  <2>1. \E q \in Plugs!Orders(T) :
          notices' = notices \o [i \in DOMAIN q |->
                                    Plugs!NoticeOf(q[i], q[i] \in plugged, lit')]
    BY DEF Plugs!Reconfigure
  <2>2. T = S
    BY <1>1
  <2> HIDE DEF T, S
  <2> QED BY <2>1, <2>2
<1> DEFINE f == [i \in DOMAIN q |-> Plugs!NoticeOf(q[i], q[i] \in plugged, lit')]
<1>3. S \in SUBSET Screen
  BY <1>1 DEF PlugTypes
<1> HIDE DEF S
<1>4. /\ c \in Nat /\ q \in [1..c -> S]
      /\ \A i, j \in 1..c : q[i] = q[j] => i = j
      /\ \A s \in S : \E i \in 1..c : q[i] = s
  BY <1>3, OrderTellsAll
<1> HIDE DEF c
<1>5. ASSUME NEW i \in 1..c
      PROVE  /\ f[i] \in Plugs!Notice /\ f[i].output = q[i]
             /\ (f[i].on <=> q[i] \in plugged) /\ (f[i].lit <=> q[i] \in plugged)
  <2> DEFINE on == q[i] \in plugged
  <2>1. on \in BOOLEAN /\ q[i] \in Screen
    BY <1>3, <1>4
  <2>2. f[i] = Plugs!NoticeOf(q[i], on, lit')
    BY <1>4
  <2> HIDE DEF on, f
  <2>3. LET m == Plugs!NoticeOf(q[i], on, lit')
        IN  m \in Plugs!Notice /\ m.output = q[i] /\ m.on = on /\ (m.lit <=> q[i] \in lit')
    BY <2>1, NoticeOfEffect
  <2> QED BY <1>1, <2>2, <2>3 DEF on
<1>6. DOMAIN f = 1..c /\ f \in Seq(Plugs!Notice) /\ Len(f) = c
  <2>1. DOMAIN f = 1..c /\ f = [i \in 1..c |-> f[i]]
    BY <1>4
  <2> HIDE DEF f
  <2> QED BY <1>4, <1>5, <2>1
<1> HIDE DEF f
<1>7. /\ Len(notices) \in Nat /\ DOMAIN notices = 1..Len(notices)
      /\ notices' \in Seq(Plugs!Notice) /\ DOMAIN notices' = 1..(Len(notices) + c)
      /\ \A i \in DOMAIN notices : notices'[i] = notices[i]
      /\ \A i \in 1..c : notices'[Len(notices) + i] = f[i]
  BY <1>1, <1>2, <1>4, <1>6 DEF PlugTypes, f
<1>8. PlugTypes'
  BY <1>1, <1>7 DEF PlugTypes
<1>9. ASSUME NEW t \in Screen PROVE WillBeKnown(t)'
  <2>1. CASE t \in S
    <3>1. PICK k \in 1..c : q[k] = t
      BY <1>4, <2>1
    <3>2. PICK i \in DOMAIN notices' : i = Len(notices) + k /\ notices'[i] = f[k]
      BY <1>4, <1>7, <3>1
    <3>3. ASSUME NEW j \in DOMAIN notices', j > i PROVE notices'[j].output # t
      <4>1. PICK m \in 1..c : j = Len(notices) + m /\ m # k
        <5>1. j - Len(notices) \in 1..c /\ j = Len(notices) + (j - Len(notices))
          BY <1>4, <1>7, <3>2, <3>3
        <5>2. j - Len(notices) # k
          BY <1>7, <3>2, <3>3
        <5> QED BY <5>1, <5>2
      <4>2. notices'[j] = f[m] /\ f[m].output = q[m] /\ q[m] # t
        BY <1>4, <1>5, <1>7, <3>1, <4>1
      <4> QED BY <4>2
    <3>4. LastAbout(i, t)'
      BY <1>5, <3>1, <3>2, <3>3 DEF LastAbout
    <3>5. IsSo(notices[i])'
      BY <1>1, <1>5, <3>1, <3>2 DEF IsSo
    <3> QED BY <3>4, <3>5 DEF WillBeKnown
  <2>2. CASE t \notin S
    <3>1. (t \in lit <=> t \in lit')
      BY <1>1, <2>2 DEF S
    <3>2. ASSUME NEW j \in DOMAIN notices', j \notin DOMAIN notices
          PROVE  notices'[j].output # t
      <4>1. PICK m \in 1..c : j = Len(notices) + m
        <5>1. j - Len(notices) \in 1..c /\ j = Len(notices) + (j - Len(notices))
          BY <1>4, <1>7, <3>2
        <5> QED BY <5>1
      <4>2. notices'[j] = f[m] /\ f[m].output = q[m] /\ q[m] \in S
        BY <1>4, <1>5, <1>7, <4>1
      <4> QED BY <2>2, <4>2
    <3>3. CASE Known(t) /\ \A i \in DOMAIN notices : notices[i].output # t
      <4>1. Known(t)'
        BY <1>1, <3>1, <3>3 DEF Known
      <4>2. \A i \in DOMAIN notices' : notices'[i].output # t
        BY <1>7, <3>2, <3>3
      <4> QED BY <4>1, <4>2 DEF WillBeKnown
    <3>4. ASSUME NEW i \in DOMAIN notices, LastAbout(i, t), IsSo(notices[i])
          PROVE  WillBeKnown(t)'
      <4>1. i \in DOMAIN notices' /\ notices'[i] = notices[i]
        BY <1>4, <1>7
      <4>2. LastAbout(i, t)'
        BY <1>7, <3>2, <3>4, <4>1 DEF LastAbout
      <4>3. IsSo(notices[i])'
        BY <1>1, <3>1, <3>4, <4>1 DEF IsSo, LastAbout
      <4> QED BY <4>1, <4>2, <4>3 DEF WillBeKnown
    <3> QED BY <3>3, <3>4 DEF PlugsInv, WillBeKnown
  <2> QED BY <2>1, <2>2
<1>10. plugged' \ lit' = {}
  BY <1>1
<1> QED BY <1>8, <1>9, <1>10 DEF PlugsInv

LEMMA PlugsNext ==
  ASSUME PlugsInv, [Plugs!HotplugNext]_plugVars
  PROVE  PlugsInv'
<1>1. CASE Plugs!MouseMoves \/ UNCHANGED plugVars
  <2>1. /\ plugged' = plugged /\ lit' = lit /\ screens' = screens /\ notices' = notices
        /\ connected' = connected /\ timer' = timer
    BY <1>1 DEF Plugs!MouseMoves, Plugs!MouseEnter, Plugs!Deleted, Plugs!serverVars,
       Plugs!filterVars, Plugs!screenVars, plugVars
  <2> QED BY <2>1 DEF PlugsInv, PlugTypes, WillBeKnown, WillStartTimer, Known, LastAbout,
     IsSo
<1> QED BY <1>1, PlugSteps, NoticeReadSteps, ReconfigureSteps DEF Plugs!HotplugNext

LEMMA PlugsStart == Init => PlugsInv
<1> SUFFICES ASSUME Init PROVE PlugsInv
  OBVIOUS
<1>1. /\ plugged = screens /\ lit = screens /\ notices = <<>>
      /\ connected = [s \in Screen |-> FALSE] /\ timer = FALSE
  BY DEF Init, Plugs!HotplugInit
<1>2. screens \in SUBSET Screen
  BY DEF Init, Plugs!HotplugInit, Plugs!Init, Plugs!InitWith
<1>3. notices \in Seq(Plugs!Notice) /\ connected \in [Screen -> BOOLEAN] /\ timer \in BOOLEAN
  <2>1. <<>> \in Seq(Plugs!Notice)
    OBVIOUS
  <2>2. connected \in [Screen -> BOOLEAN]
    BY <1>1
  <2> QED BY <1>1, <2>1, <2>2
<1>4. PlugTypes
  BY <1>1, <1>2, <1>3 DEF PlugTypes
<1> QED BY <1>1, <1>4 DEF PlugsInv, WillBeKnown, Known


Wins == INSTANCE ScreensProofs

\* The definitions of Screens as Wins and Plugs know them.
LEMMA WinsSets ==
  ASSUME NEW S
  PROVE  /\ Wins!IsFiniteSet(S) <=> Plugs!IsFiniteSet(S)
         /\ Wins!Cardinality(S) = Plugs!Cardinality(S)
<1>1. Wins!IsFiniteSet(S) <=> Plugs!IsFiniteSet(S)
  BY DEF Wins!IsFiniteSet, Plugs!IsFiniteSet
<1>2. Wins!Cardinality(S) = Plugs!Cardinality(S)
  BY Zenon DEF Wins!Cardinality, Plugs!Cardinality
<1> QED BY <1>1, <1>2

LEMMA WinsState ==
  /\ Wins!ScreensAssumption <=> Plugs!ScreensAssumption
  /\ Wins!Bg = Plugs!Bg /\ Wins!NoBg = Plugs!NoBg
  /\ Wins!Live = Plugs!Live /\ Wins!Live' = Plugs!Live'
  /\ Wins!TypeOK <=> Plugs!TypeOK
  /\ Wins!OnLiveBackground <=> Plugs!OnLiveBackground
  /\ Wins!ShownUnlessIgnored <=> Plugs!ShownUnlessIgnored
  /\ Wins!WindowFits <=> Plugs!WindowFits
<1>1. Wins!ScreensAssumption <=> Plugs!ScreensAssumption
  BY WinsSets DEF Wins!ScreensAssumption, Plugs!ScreensAssumption
<1>2. Wins!Bg = Plugs!Bg /\ Wins!NoBg = Plugs!NoBg
  BY DEF Wins!Bg, Plugs!Bg, Wins!NoBg, Plugs!NoBg
<1>3. Wins!Live = Plugs!Live /\ Wins!Live' = Plugs!Live'
  BY DEF Wins!Live, Plugs!Live, Wins!NoBg, Plugs!NoBg
<1>4. Wins!TypeOK <=> Plugs!TypeOK
  BY <1>2, <1>3 DEF Wins!TypeOK, Plugs!TypeOK
<1>5. Wins!OnLiveBackground <=> Plugs!OnLiveBackground
  BY <1>2, <1>3 DEF Wins!OnLiveBackground, Plugs!OnLiveBackground
<1>6. Wins!ShownUnlessIgnored <=> Plugs!ShownUnlessIgnored
  BY <1>2 DEF Wins!ShownUnlessIgnored, Plugs!ShownUnlessIgnored
<1>7. Wins!WindowFits <=> Plugs!WindowFits
  BY <1>2 DEF Wins!WindowFits, Plugs!WindowFits
<1> QED BY <1>1, <1>2, <1>3, <1>4, <1>5, <1>6, <1>7

LEMMA WinsStarts == Plugs!Init => Wins!Init
<1>1. ASSUME NEW ss, NEW valid PROVE Plugs!InitWith(ss, valid) <=> Wins!InitWith(ss, valid)
  <2>1. Wins!Numbering(valid) = Plugs!Numbering(valid)
    BY WinsSets DEF Wins!Numbering, Plugs!Numbering
  <2> QED BY <2>1 DEF Wins!InitWith, Plugs!InitWith, Wins!BackgroundOf, Plugs!BackgroundOf,
      Wins!Live, Plugs!Live, Wins!Bg, Plugs!Bg, Wins!NoBg, Plugs!NoBg
<1> QED BY <1>1, WinsSets DEF Wins!Init, Plugs!Init

LEMMA WinsOthers ==
  /\ Plugs!MouseEnter <=> Wins!MouseEnter
  /\ Plugs!OtherNext <=> Wins!OtherNext
  /\ Plugs!vars = Wins!vars /\ Plugs!vars' = Wins!vars'
<1>1. Plugs!MouseEnter <=> Wins!MouseEnter
  BY DEF Wins!MouseEnter, Plugs!MouseEnter, Wins!SetOnBackground,
      Plugs!SetOnBackground, Wins!Live, Plugs!Live, Wins!NoBg, Plugs!NoBg,
      Wins!screenVars, Plugs!screenVars
<1>2. Plugs!OtherNext <=> Wins!OtherNext
  BY <1>1 DEF Wins!OtherNext, Plugs!OtherNext, Wins!PrimaryChanged, Plugs!PrimaryChanged,
      Wins!Deleted, Plugs!Deleted, Wins!bgVars, Plugs!bgVars, Wins!windowVars,
      Plugs!windowVars, Wins!screenVars, Plugs!screenVars
<1>3. Plugs!vars = Wins!vars /\ Plugs!vars' = Wins!vars'
  BY DEF Wins!vars, Plugs!vars, Wins!screenVars, Plugs!screenVars, Wins!bgVars,
      Plugs!bgVars, Wins!windowVars, Plugs!windowVars
<1> QED BY <1>1, <1>2, <1>3

LEMMA WinsActions ==
  ASSUME NEW s \in Screen
  PROVE  /\ Plugs!ScreenAdded(s) <=> Wins!ScreenAdded(s)
         /\ Plugs!ScreenRemoved(s) <=> Wins!ScreenRemoved(s)
         /\ Plugs!GeometryChanged(s) <=> Wins!GeometryChanged(s)
<1>1. Plugs!ScreenAdded(s) <=> Wins!ScreenAdded(s)
  BY DEF Wins!ScreenAdded, Plugs!ScreenAdded, Wins!NewBackground,
      Plugs!NewBackground, Wins!ToPrimary, Plugs!ToPrimary, Wins!SetOnBackground,
      Plugs!SetOnBackground, Wins!NowhereAfterAdd, Plugs!NowhereAfterAdd,
      Wins!Live, Plugs!Live, Wins!Bg, Plugs!Bg, Wins!NoBg, Plugs!NoBg
<1>2. Plugs!ScreenRemoved(s) <=> Wins!ScreenRemoved(s)
  BY DEF Wins!ScreenRemoved, Plugs!ScreenRemoved, Wins!Erase, Plugs!Erase,
      Wins!ToPrimary, Plugs!ToPrimary, Wins!SetOnBackground,
      Plugs!SetOnBackground, Wins!NowhereAfterRemoval, Plugs!NowhereAfterRemoval,
      Wins!NoBg, Plugs!NoBg
<1>3. Plugs!GeometryChanged(s) <=> Wins!GeometryChanged(s)
  BY DEF Wins!GeometryChanged, Plugs!GeometryChanged, Wins!ResizeEvent,
      Plugs!ResizeEvent, Wins!NoBg, Plugs!NoBg
<1> QED BY <1>1, <1>2, <1>3

LEMMA WinsAssumption == Wins!ScreensAssumption
BY PartsAssumption, WinsState

\* Whatever the cables do, the screens do only what Screens has them do.
LEMMA WinsStep ==
  ASSUME PlugsInv, [Plugs!HotplugNext]_plugVars
  PROVE  [Wins!Next]_(Wins!vars)
<1>1. CASE Plugs!MouseMoves
  <2>1. Wins!OtherNext
    BY <1>1, WinsOthers DEF Plugs!MouseMoves, Plugs!OtherNext
  <2> QED BY <2>1 DEF Wins!Next
<1>2. CASE Plugs!NoticeRead
  <2>1. Plugs!QtHandles(Head(notices))
    BY <1>2 DEF Plugs!NoticeRead
  <2>2. CASE UNCHANGED Plugs!vars
    BY <2>2, WinsOthers
  <2> DEFINE s == Head(notices).output
  <2>3. s \in Screen
    <3>1. notices \in Seq(Plugs!Notice) /\ notices # <<>>
      BY <1>2 DEF PlugsInv, PlugTypes, Plugs!NoticeRead
    <3>2. Head(notices) \in Plugs!Notice
      BY <3>1, HeadTailProperties
    <3> QED BY <3>2 DEF Plugs!Notice
  <2>4. ASSUME Plugs!ScreenAdded(s) \/ Plugs!ScreenRemoved(s)
        PROVE  Wins!Next
    BY <2>3, <2>4, WinsActions DEF Wins!Next
  <2> QED BY <2>1, <2>2, <2>4 DEF Plugs!QtHandles
<1>3. CASE UNCHANGED Plugs!vars
  BY <1>3, WinsOthers
<1>4. (\E s \in Screen : Plugs!Plug(s)) \/ Plugs!Reconfigure \/ UNCHANGED plugVars
        => UNCHANGED Plugs!vars
  BY DEF Plugs!Plug, Plugs!Reconfigure, plugVars, Plugs!vars, Plugs!screenVars,
     Plugs!bgVars,
     Plugs!windowVars
<1> QED BY <1>1, <1>2, <1>3, <1>4 DEF Plugs!HotplugNext

LEMMA PlugsCounted ==
  plugs \in 0..MaxPlugs /\ [Next]_partVars => plugs' \in 0..MaxPlugs
<1> SUFFICES ASSUME plugs \in 0..MaxPlugs, [Next]_partVars PROVE plugs' \in 0..MaxPlugs
  OBVIOUS
<1>1. MaxPlugs \in Nat
  BY PartsAssumption DEF Plugs!HotplugAssumption
<1>2. plugs' = plugs \/ (plugs < MaxPlugs /\ plugs' = plugs + 1)
  BY PartSteps DEF Plugs!HotplugNext, plugVars, Plugs!Plug, Plugs!NoticeRead,
     Plugs!Reconfigure, Plugs!MouseMoves, Plugs!serverVars
<1> QED BY <1>1, <1>2

\* AppNativeEventFilter: cables may be pulled and plugged at any moment,
\* and the events come in any order xrandr gives them: at rest Qt has a screen
\* for each output that is plugged in, and for no other. StartsTimer() compares
\* with what the filter has heard last; the invariant says why that is enough.
\* All the while the login window is on no background that is to be deleted, has
\* the size of the screen it is on, and is on one whenever there is a screen and
\* none of those present was ignored by init().
THEOREM NothingStaysDark == Spec => []PluggedIsShown
<1> DEFINE Inv == PlugsInv /\ Wins!ScreensInv /\ plugs \in 0..MaxPlugs
<1>1. Init => Inv
  <2> SUFFICES ASSUME Init PROVE Inv
    OBVIOUS
  <2>1. Plugs!Init /\ plugs = 0
    BY DEF Init, Plugs!HotplugInit
  <2>2. Wins!ScreensInv
    BY <2>1, WinsAssumption, WinsStarts, Wins!ScreensStart
  <2>3. plugs \in 0..MaxPlugs
    BY <2>1, PartsAssumption DEF Plugs!HotplugAssumption
  <2> QED BY <2>2, <2>3, PlugsStart
<1>2. Inv /\ [Next]_partVars => Inv'
  <2> SUFFICES ASSUME Inv, [Next]_partVars PROVE Inv'
    OBVIOUS
  <2>1. [Plugs!HotplugNext]_plugVars
    BY PartSteps
  <2>2. Wins!ScreensInv'
    BY <2>1, WinsAssumption, WinsStep, Wins!ScreensKeeps
  <2> QED BY <2>1, <2>2, PlugsNext, PlugsCounted
<1>3. Inv => PluggedIsShown
  <2> SUFFICES ASSUME Inv PROVE PluggedIsShown
    OBVIOUS
  <2>1. /\ Plugs!TypeOK /\ Plugs!OnLiveBackground
        /\ Plugs!ShownUnlessIgnored /\ Plugs!WindowFits
    BY WinsState DEF Wins!ScreensInv
  <2>2. notices = <<>> => \A s \in Screen : Known(s)
    BY DEF PlugsInv, WillBeKnown
  <2>3. notices = <<>> => screens = plugged \cap lit
    BY <2>2 DEF Known, PlugsInv, PlugTypes
  <2>4. notices = <<>> /\ ~timer => plugged \ lit = {}
    BY DEF PlugsInv, WillStartTimer
  <2>5. Plugs!NothingDark
    BY <2>3, <2>4 DEF Plugs!NothingDark
  <2>6. Plugs!HotplugTypeOK
    BY <2>1, <2>3 DEF Plugs!HotplugTypeOK, PlugsInv, PlugTypes
  <2> QED BY <2>1, <2>5, <2>6 DEF PluggedIsShown
<1> HIDE DEF Inv
<1> QED BY <1>1, <1>2, <1>3, PTL DEF Spec

-----------------------------------------------------------------------------
(* The frames *)

\* A cell of the pipe: an event, and 0 for its length, a number for its text.
Cell == [event : Nat, at : Nat]

\* What is on its way: in the pipe, and still to be written.
Stream == pipe \o out

\* The next cell is the next of the same event, or the first of the next one.
Follows(z, c, d) == \/ d.event = c.event /\ d.at = c.at + 1
                    \/ d.event = c.event + 1 /\ d.at = 0 /\ c.at = z[c.event]

\* k cells after c, it is still the same event, or all of c's has gone by.
Ahead(z, c, d, k) == \/ d.event = c.event /\ d.at = c.at + k
                     \/ c.event < d.event /\ k > z[c.event] - c.at

CellOf(z, c) == c.event \in 1..Len(z) /\ c.at \in 0..z[c.event]

\* Cells of events of the sizes z, as they were written. Ahead is what Follows
\* comes to over a distance: with both no induction is needed.
InOrder(z, s) ==
  /\ \A i \in 1..Len(s) : CellOf(z, s[i])
  /\ \A i \in 1..Len(s) : i < Len(s) => Follows(z, s[i], s[i + 1])
  /\ \A i, j \in 1..Len(s) : i < j => Ahead(z, s[i], s[j], j - i)

FrameTypes ==
  /\ sizes \in Seq(Sizes) /\ received \in Seq(Nat)
  /\ pipe \in Seq(Cell) /\ out \in Seq(Cell) /\ Len(pipe) <= Capacity
  /\ reader \in {"length", "text", "gone"} /\ writer \in {"open", "gone"}
  /\ length \in Nat /\ failed \in BOOLEAN
  /\ \A i \in 1..Len(received) : received[i] \in 1..Len(sizes)

\* A writer that is there has written its last event, or is about to.
Ends == writer = "open" /\ Stream # <<>> =>
          /\ Stream[Len(Stream)].event = Len(sizes)
          /\ Stream[Len(Stream)].at = sizes[Len(sizes)]

\* What is on its way was not received yet.
NotYet == \A i \in 1..Len(received), j \in 1..Len(Stream) : received[i] < Stream[j].event

\* A length that fits the pipe is the length of the text that comes next.
FitsNext ==
  reader = "text" =>
    /\ length > 0
    /\ length <= Capacity =>
         /\ writer = "open" => Stream # <<>>
         /\ Stream # <<>> => Stream[1].at = 1 /\ length = sizes[Stream[1].event]

\* Before a receiving fails, the reader is where the writer thinks it is.
InStep ==
  ~failed =>
    /\ reader # "gone"
    /\ \A i \in 1..Len(received) : received[i] = i
    /\ Stream # <<>> => /\ Stream[1].event = Len(received) + 1
                        /\ reader = "length" => Stream[1].at = 0
                        /\ reader = "text" => /\ Stream[1].at = 1
                                              /\ length = sizes[Stream[1].event]
    /\ Stream = <<>> /\ writer = "open" => Len(received) = Len(sizes) /\ reader = "length"

\* Short frames are not split.
NotSplit == (\A i \in 1..Len(sizes) : sizes[i] + 1 <= PipeBuf) => out = <<>> \/ out[1].at = 0

FramesInv == /\ FrameTypes /\ InOrder(sizes, Stream)
             /\ Ends /\ NotYet /\ Frames!NothingTwice
             /\ FitsNext /\ InStep /\ NotSplit
             /\ Frames!FailsOnlyOnLong
             /\ writer = "gone" => out = <<>>

\* A piece of the cells in order is in order.
LEMMA PieceInOrder ==
  ASSUME NEW z, NEW s \in Seq(Cell), NEW t \in Seq(Cell), NEW m \in Nat,
         Len(t) + m <= Len(s), \A i \in 1..Len(t) : t[i] = s[i + m],
         InOrder(z, s)
  PROVE  InOrder(z, t)
<1>0. Len(s) \in Nat /\ Len(t) \in Nat
  OBVIOUS
<1>1. \A i \in 1..Len(t) : i + m \in 1..Len(s)
  BY <1>0
<1>2. \A i \in 1..Len(t) : CellOf(z, t[i])
  BY <1>1 DEF InOrder
<1>3. ASSUME NEW i \in 1..Len(t), i < Len(t) PROVE Follows(z, t[i], t[i + 1])
  <2>1. i + 1 \in 1..Len(t) /\ (i + m) + 1 = (i + 1) + m /\ i + m < Len(s)
    BY <1>0, <1>3
  <2>2. t[i] = s[i + m] /\ t[i + 1] = s[(i + m) + 1]
    BY <2>1
  <2>3. Follows(z, s[i + m], s[(i + m) + 1])
    BY <1>1, <2>1 DEF InOrder
  <2> QED BY <2>2, <2>3
<1>4. ASSUME NEW i \in 1..Len(t), NEW j \in 1..Len(t), i < j
      PROVE  Ahead(z, t[i], t[j], j - i)
  <2>1. i + m < j + m /\ (j + m) - (i + m) = j - i
    BY <1>4
  <2>2. Ahead(z, s[i + m], s[j + m], (j + m) - (i + m))
    BY <1>1, <2>1 DEF InOrder
  <2> QED BY <2>1, <2>2
<1> QED BY <1>2, <1>3, <1>4 DEF InOrder

LEMMA FrameEffect ==
  ASSUME NEW e \in Nat, NEW n \in Nat
  PROVE  LET f == Frames!Frame(e, n)
         IN  /\ f \in Seq(Cell) /\ Len(f) = n + 1
             /\ \A k \in 1..(n + 1) : f[k].event = e /\ f[k].at = k - 1
<1> DEFINE h == <<[event |-> e, at |-> 0]>>
           t == Frames!TextOf(e, n)
<1>1. h \in Seq(Cell) /\ Len(h) = 1 /\ h[1].event = e /\ h[1].at = 0
  <2>1. [event |-> e, at |-> 0] \in Cell
    BY DEF Cell
  <2> QED BY <2>1
<1>2. /\ t \in Seq(Cell) /\ Len(t) = n
      /\ \A k \in 1..n : t[k].event = e /\ t[k].at = k
  <2>1. \A k \in 1..n : [event |-> e, at |-> k] \in Cell
    BY DEF Cell
  <2> QED BY <2>1 DEF Frames!TextOf
<1>3. Frames!Frame(e, n) = h \o t
  BY DEF Frames!Frame
<1> HIDE DEF h, t
<1>4. /\ h \o t \in Seq(Cell) /\ Len(h \o t) = n + 1
      /\ (h \o t)[1] = h[1] /\ \A k \in 1..n : (h \o t)[1 + k] = t[k]
  <2>1. h \in Seq(Cell) /\ t \in Seq(Cell) /\ Len(h) = 1 /\ Len(t) = n
    BY <1>1, <1>2
  <2>2. h \o t \in Seq(Cell) /\ Len(h \o t) = Len(h) + Len(t)
    BY <2>1, ConcatProperties
  <2>3. \A i \in 1..(Len(h) + Len(t)) :
          (h \o t)[i] = IF i <= Len(h) THEN h[i] ELSE t[i - Len(h)]
    BY <2>1, ConcatProperties
  <2> QED BY <2>1, <2>2, <2>3
<1>5. ASSUME NEW k \in 1..(n + 1) PROVE (h \o t)[k].event = e /\ (h \o t)[k].at = k - 1
  <2>1. CASE k = 1
    BY <1>1, <1>4, <2>1
  <2>2. CASE k # 1
    <3>1. k - 1 \in 1..n /\ 1 + (k - 1) = k
      BY <2>2
    <3>2. (h \o t)[1 + (k - 1)] = t[k - 1]
      BY <1>4, <3>1
    <3> QED BY <1>2, <3>1, <3>2
  <2> QED BY <2>1, <2>2
<1> QED BY <1>3, <1>4, <1>5

\* A frame after the last cell of the last event is in order.
LEMMA FrameInOrder ==
  ASSUME NEW z \in Seq(Nat), NEW n \in Nat, NEW s \in Seq(Cell), InOrder(z, s),
         s # <<>> => s[Len(s)].event = Len(z) /\ s[Len(s)].at = z[Len(z)]
  PROVE  InOrder(Append(z, n), s \o Frames!Frame(Len(z) + 1, n))
<1> DEFINE f == Frames!Frame(Len(z) + 1, n)
           t == s \o f
           y == Append(z, n)
           l == Len(s)
           e == Len(z) + 1
<1>0. l \in Nat /\ Len(z) \in Nat /\ e \in Nat
  OBVIOUS
<1>1. /\ f \in Seq(Cell) /\ Len(f) = n + 1
      /\ \A k \in 1..(n + 1) : f[k].event = e /\ f[k].at = k - 1
  BY <1>0, FrameEffect
<1> HIDE DEF f
<1>a. Len(t) = l + (n + 1)
  <2>1. f \in Seq(Cell) /\ Len(f) = n + 1
    BY <1>1
  <2>2. Len(s \o f) = Len(s) + Len(f)
    BY <2>1, ConcatProperties
  <2> QED BY <2>1, <2>2
<1>b. \A i \in 1..l : t[i] = s[i]
  BY <1>1
<1>c. \A i \in 1..(n + 1) : t[l + i] = f[i]
  BY <1>0, <1>1
<1>2. /\ l \in Nat /\ Len(t) = l + n + 1
      /\ \A i \in 1..l : t[i] = s[i]
      /\ \A i \in 1..(n + 1) : t[l + i] = f[i]
  BY <1>0, <1>a, <1>b, <1>c
<1>3. y \in Seq(Nat) /\ Len(y) = e /\ y[e] = n /\ \A i \in 1..Len(z) : y[i] = z[i]
  OBVIOUS
<1> HIDE DEF t, y
<1>4. ASSUME NEW i \in 1..Len(t)
      PROVE  \/ i \in 1..l /\ t[i] = s[i] /\ t[i].event \in 1..Len(z) /\ t[i].at \in 0..z[t[i].event]
             \/ i \in (l + 1)..(l + n + 1) /\ t[i].event = e /\ t[i].at = i - l - 1
  <2>1. CASE i \in 1..l
    BY <1>2, <2>1 DEF InOrder, CellOf
  <2>2. CASE i \notin 1..l
    <3>1. i - l \in 1..(n + 1) /\ l + (i - l) = i
      BY <1>2, <2>2
    <3>2. t[i] = f[i - l]
      BY <1>2, <3>1
    <3> QED BY <1>1, <1>2, <3>1, <3>2, SMTT(20)
  <2> QED BY <2>1, <2>2
<1>5. \A i \in 1..Len(t) : CellOf(y, t[i])
  <2> SUFFICES ASSUME NEW i \in 1..Len(t) PROVE CellOf(y, t[i])
    OBVIOUS
  <2>1. CASE i \in 1..l /\ t[i].event \in 1..Len(z) /\ t[i].at \in 0..z[t[i].event]
    BY <1>3, <2>1 DEF CellOf
  <2>2. CASE i \in (l + 1)..(l + n + 1) /\ t[i].event = e /\ t[i].at = i - l - 1
    BY <1>2, <1>3, <2>2 DEF CellOf
  <2> QED BY <1>4, <2>1, <2>2
<1>6. ASSUME NEW i \in 1..Len(t), i < Len(t) PROVE Follows(y, t[i], t[i + 1])
  <2>0. i + 1 \in 1..Len(t)
    BY <1>2, <1>6
  <2>1. CASE i + 1 <= l
    <3>1. Follows(z, s[i], s[i + 1])
      BY <1>2, <2>1 DEF InOrder
    <3>2. i \in 1..l /\ i + 1 \in 1..l
      BY <1>2, <2>1
    <3>3. t[i] = s[i] /\ t[i + 1] = s[i + 1] /\ s[i].event \in 1..Len(z)
      BY <1>2, <3>2 DEF InOrder, CellOf
    <3> QED BY <1>3, <3>1, <3>3 DEF Follows
  <2>2. CASE i = l
    <3>1. t[i] = s[l] /\ l > 0 /\ s # <<>>
      BY <1>2, <2>2
    <3>2. t[i].event = Len(z) /\ t[i].at = z[Len(z)]
      BY <3>1
    <3>3. Len(z) \in 1..Len(z)
      BY <1>2, <1>4, <2>2, <3>1, <3>2
    <3>4. t[i + 1].event = e /\ t[i + 1].at = 0
      BY <1>2, <1>4, <2>0, <2>2
    <3> QED BY <1>3, <3>2, <3>3, <3>4 DEF Follows
  <2>3. CASE i > l
    <3>1. t[i].event = e /\ t[i].at = i - l - 1
      BY <1>2, <1>4, <2>3
    <3>2. t[i + 1].event = e /\ t[i + 1].at = i + 1 - l - 1
      BY <1>2, <1>4, <2>0, <2>3
    <3> QED BY <1>2, <3>1, <3>2 DEF Follows
  <2> QED BY <1>2, <2>1, <2>2, <2>3
<1>7. ASSUME NEW i \in 1..Len(t), NEW j \in 1..Len(t), i < j
      PROVE  Ahead(y, t[i], t[j], j - i)
  <2>1. CASE j <= l
    <3>1. i \in 1..l /\ j \in 1..l
      BY <1>2, <1>7, <2>1
    <3>2. Ahead(z, s[i], s[j], j - i)
      BY <1>7, <3>1 DEF InOrder
    <3>3. t[i] = s[i] /\ t[j] = s[j] /\ s[i].event \in 1..Len(z)
      BY <1>2, <3>1 DEF InOrder, CellOf
    <3> QED BY <1>3, <3>2, <3>3 DEF Ahead
  <2>2. CASE i <= l /\ j > l
    <3>1. i \in 1..l /\ l \in 1..l /\ s # <<>>
      BY <1>2, <2>2
    <3>2. t[j].event = e
      BY <1>2, <1>4, <2>2
    <3>3. t[i] = s[i] /\ s[i].event \in 1..Len(z) /\ s[i].at \in Nat /\ z[s[i].event] \in Nat
      BY <1>2, <3>1 DEF InOrder, CellOf
    <3>4. y[t[i].event] = z[s[i].event] /\ t[i].event < t[j].event
      <4>1. z[s[i].event] = y[s[i].event]
        BY <1>3, <3>3
      <4>2. s[i].event < e
        <5>1. \A x \in 1..Len(z) : x < e
          BY <1>0
        <5> QED BY <3>3, <5>1
      <4> QED BY <3>2, <3>3, <4>1, <4>2
    <3>5. j - i > z[s[i].event] - s[i].at
      <4>1. CASE i = l
        <5>1. z[s[i].event] = s[i].at
          BY <3>1, <4>1
        <5> QED BY <1>2, <2>2, <3>3, <4>1, <5>1
      <4>2. CASE i < l
        <5>1. Ahead(z, s[i], s[l], l - i)
          BY <3>1, <4>2 DEF InOrder
        <5>2. CASE s[l].event = s[i].event /\ s[l].at = s[i].at + (l - i)
          <6>1. z[s[i].event] = s[i].at + (l - i)
            BY <3>1, <5>2
          <6> QED BY <1>2, <2>2, <3>1, <3>3, <6>1, SMTT(20)
        <5>3. CASE l - i > z[s[i].event] - s[i].at
          BY <1>2, <2>2, <3>3, <5>3, SMTT(20)
        <5> QED BY <5>1, <5>2, <5>3 DEF Ahead
      <4> QED BY <1>2, <3>1, <4>1, <4>2
    <3> QED BY <3>3, <3>4, <3>5 DEF Ahead
  <2>3. CASE i > l
    <3>1. t[i].event = e /\ t[i].at = i - l - 1
      BY <1>2, <1>4, <2>3
    <3>2. t[j].event = e /\ t[j].at = j - l - 1
      BY <1>2, <1>4, <1>7, <2>3
    <3> QED BY <1>2, <3>1, <3>2 DEF Ahead
  <2> QED BY <1>2, <2>1, <2>2, <2>3
<1> QED BY <1>5, <1>6, <1>7 DEF InOrder, t, y, f

LEMMA FrameConstants == /\ Sizes \in SUBSET (Nat \ {0}) /\ PipeBuf \in Nat
                        /\ Capacity \in Nat
BY PartsAssumption DEF Frames!FramingAssumption

LEMMA StreamOf ==
  ASSUME NEW p \in Seq(Cell), NEW o \in Seq(Cell)
  PROVE  /\ p \o o \in Seq(Cell) /\ Len(p \o o) = Len(p) + Len(o)
         /\ Len(p) \in Nat /\ Len(o) \in Nat
         /\ \A i \in 1..Len(p) : (p \o o)[i] = p[i]
         /\ \A i \in 1..Len(o) : (p \o o)[Len(p) + i] = o[i]
<1>1. p \o o \in Seq(Cell) /\ Len(p \o o) = Len(p) + Len(o)
  BY ConcatProperties
<1>2. Len(p) \in Nat /\ Len(o) \in Nat
  OBVIOUS
<1>3. \A i \in 1..(Len(p) + Len(o)) : (p \o o)[i] = IF i <= Len(p) THEN p[i] ELSE o[i - Len(p)]
  BY ConcatProperties
<1> QED BY <1>1, <1>2, <1>3

\* What is known of the cells on their way.
LEMMA StreamCells ==
  ASSUME FramesInv
  PROVE  /\ Stream \in Seq(Cell) /\ Len(Stream) \in Nat /\ Len(Stream) = Len(pipe) + Len(out)
         /\ Len(pipe) \in Nat /\ Len(out) \in Nat /\ Len(sizes) \in Nat
         /\ \A i \in 1..Len(sizes) : sizes[i] \in Nat \ {0}
         /\ \A i \in 1..Len(Stream) : /\ Stream[i].event \in 1..Len(sizes)
                                      /\ Stream[i].at \in 0..sizes[Stream[i].event]
         /\ \A i \in 1..Len(pipe) : Stream[i] = pipe[i]
         /\ \A i \in 1..Len(out) : Stream[Len(pipe) + i] = out[i]
<1>1. FrameTypes /\ InOrder(sizes, Stream)
  BY DEF FramesInv
<1>2. pipe \in Seq(Cell) /\ out \in Seq(Cell) /\ sizes \in Seq(Sizes)
  BY <1>1 DEF FrameTypes
<1>3. /\ Stream \in Seq(Cell) /\ Len(Stream) = Len(pipe) + Len(out)
      /\ Len(pipe) \in Nat /\ Len(out) \in Nat
      /\ \A i \in 1..Len(pipe) : Stream[i] = pipe[i]
      /\ \A i \in 1..Len(out) : Stream[Len(pipe) + i] = out[i]
  BY <1>2, StreamOf DEF Stream
<1>4. \A i \in 1..Len(sizes) : sizes[i] \in Nat \ {0}
  <2>1. \A i \in 1..Len(sizes) : sizes[i] \in Sizes
    BY <1>2
  <2> QED BY <2>1, FrameConstants
<1>5. Len(sizes) \in Nat /\ Len(Stream) \in Nat
  BY <1>2, <1>3
<1> QED BY <1>1, <1>3, <1>4, <1>5 DEF InOrder, CellOf

\* Cells are written, read, or lost at either end: what is left is a piece.
LEMMA PieceLeft ==
  ASSUME FramesInv, NEW m \in Nat, sizes' = sizes, Stream' \in Seq(Cell),
         Len(Stream') + m <= Len(Stream),
         \A i \in 1..Len(Stream') : Stream'[i] = Stream[i + m],
         writer' = "open" => writer = "open" /\ Len(Stream') + m = Len(Stream)
  PROVE  /\ InOrder(sizes, Stream)' /\ Ends'
         /\ received' = received => NotYet'
<1>1. /\ Stream \in Seq(Cell) /\ Len(Stream) \in Nat /\ Len(Stream') \in Nat
  BY StreamCells
<1>2. InOrder(sizes, Stream')
  BY <1>1, PieceInOrder DEF FramesInv
<1>3. ASSUME writer' = "open", Stream' # <<>>
      PROVE  /\ Stream'[Len(Stream')].event = Len(sizes)
             /\ Stream'[Len(Stream')].at = sizes[Len(sizes)]
  <2>1. Len(Stream') \in 1..Len(Stream') /\ Len(Stream') + m = Len(Stream)
    BY <1>1, <1>3
  <2>2. Stream'[Len(Stream')] = Stream[Len(Stream)]
    BY <2>1
  <2>3. Stream # <<>>
    BY <1>1, <2>1
  <2> QED BY <1>3, <2>2, <2>3 DEF FramesInv, Ends
<1>4. ASSUME received' = received, NEW i \in 1..Len(received), NEW j \in 1..Len(Stream')
      PROVE  received[i] < Stream'[j].event
  <2>1. j + m \in 1..Len(Stream) /\ Stream'[j] = Stream[j + m]
    BY <1>1
  <2> QED BY <2>1 DEF FramesInv, NotYet
<1> QED BY <1>2, <1>3, <1>4 DEF Ends, NotYet

LEMMA SendSteps ==
  ASSUME FramesInv, Frames!SendEvent
  PROVE  FramesInv'
<1>1. /\ writer = "open" /\ out = <<>>
      /\ pipe' = pipe /\ reader' = reader /\ length' = length /\ received' = received
      /\ failed' = failed /\ writer' = writer
  BY DEF Frames!SendEvent
<1>2. PICK n \in Sizes : sizes' = Append(sizes, n) /\ out' = Frames!Frame(Len(sizes'), n)
  BY DEF Frames!SendEvent
<1> DEFINE e == Len(sizes) + 1
           l == Len(Stream)
<1>3. FrameTypes /\ Ends /\ NotYet /\ FitsNext /\ InStep /\ InOrder(sizes, Stream)
  BY DEF FramesInv
<1>4. /\ n \in Nat /\ n > 0 /\ sizes \in Seq(Nat) /\ sizes \in Seq(Sizes)
  <2>1. sizes \in Seq(Sizes) /\ Sizes \in SUBSET Nat
    BY <1>3, FrameConstants DEF FrameTypes
  <2>2. sizes \in Seq(Nat)
    BY <2>1, SeqMonotonic
  <2> QED BY <2>1, <2>2, FrameConstants
<1>5. /\ sizes' \in Seq(Sizes) /\ Len(sizes') = e /\ sizes'[e] = n /\ e \in Nat
      /\ \A i \in 1..Len(sizes) : i \in 1..e /\ sizes'[i] = sizes[i]
  BY <1>2, <1>4
<1>6. /\ Stream \in Seq(Cell) /\ l \in Nat /\ Len(sizes) \in Nat
      /\ \A i \in 1..l : Stream[i].event \in 1..Len(sizes)
  BY StreamCells
<1>7. Stream = pipe /\ pipe \in Seq(Cell)
  <2>1. pipe \in Seq(Cell)
    BY <1>3 DEF FrameTypes
  <2> QED BY <1>1, <2>1, ConcatEmptySeq DEF Stream
<1>8. /\ out' \in Seq(Cell) /\ Len(out') = n + 1
      /\ \A k \in 1..(n + 1) : out'[k].event = e /\ out'[k].at = k - 1
  BY <1>2, <1>4, <1>5, FrameEffect
<1>9. /\ Stream' = Stream \o out'
      /\ Stream' \in Seq(Cell) /\ Len(Stream') = l + (n + 1)
      /\ \A i \in 1..l : Stream'[i] = Stream[i]
      /\ \A i \in 1..(n + 1) : Stream'[l + i] = out'[i]
  <2>1. Stream' = Stream \o out'
    BY <1>1, <1>7 DEF Stream
  <2> DEFINE t == Stream \o out'
  <2>2. /\ t \in Seq(Cell) /\ Len(t) = l + Len(out')
        /\ \A i \in 1..l : t[i] = Stream[i]
        /\ \A i \in 1..Len(out') : t[l + i] = out'[i]
    BY <1>6, <1>8, StreamOf
  <2> HIDE DEF t, l
  <2>3. Stream' = t
    BY <2>1 DEF t
  <2> QED BY <1>8, <2>1, <2>2, <2>3
<1> HIDE DEF l, e
<1>10. FrameTypes'
  <2>1. \A i \in 1..Len(received) : received[i] \in 1..e
    BY <1>3, <1>5, <1>6 DEF FrameTypes
  <2> QED BY <1>1, <1>3, <1>5, <1>8, <2>1 DEF FrameTypes
<1>11. InOrder(sizes, Stream)'
  <2>1. Stream # <<>> => /\ Stream[Len(Stream)].event = Len(sizes)
                         /\ Stream[Len(Stream)].at = sizes[Len(sizes)]
    BY <1>1, <1>3 DEF Ends
  <2>2. InOrder(Append(sizes, n), Stream \o Frames!Frame(Len(sizes) + 1, n))
    BY <1>3, <1>4, <1>6, <2>1, FrameInOrder
  <2> QED BY <1>2, <1>5, <1>9, <2>2 DEF e
<1>12. Ends'
  <2>1. n + 1 \in 1..(n + 1) /\ (n + 1) - 1 = n
    BY <1>4
  <2>2. Stream'[Len(Stream')].event = e /\ Stream'[Len(Stream')].at = n
    BY <1>8, <1>9, <2>1
  <2> QED BY <1>5, <2>2 DEF Ends
<1>13. ASSUME NEW j \in 1..Len(Stream')
       PROVE  j \in 1..l \/ Stream'[j].event = e
  <2> SUFFICES ASSUME j \notin 1..l PROVE Stream'[j].event = e
    OBVIOUS
  <2>1. j - l \in 1..(n + 1) /\ l + (j - l) = j
    BY <1>4, <1>6, <1>9 DEF l
  <2> QED BY <1>8, <1>9, <2>1
<1>14. NotYet'
  <2> SUFFICES ASSUME NEW i \in 1..Len(received), NEW j \in 1..Len(Stream')
               PROVE  received[i] < Stream'[j].event
    BY <1>1 DEF NotYet
  <2>1. CASE j \in 1..l
    BY <1>3, <1>9, <2>1 DEF NotYet, l
  <2>2. CASE Stream'[j].event = e
    <3>1. received[i] \in 1..Len(sizes)
      BY <1>3 DEF FrameTypes
    <3> QED BY <1>6, <2>2, <3>1 DEF e
  <2> QED BY <1>13, <2>1, <2>2
<1>15. ASSUME Stream # <<>>
       PROVE  Stream'[1] = Stream[1] /\ sizes'[Stream[1].event] = sizes[Stream[1].event]
  <2>1. 1 \in 1..l
    BY <1>6, <1>15 DEF l
  <2>2. Stream[1].event \in 1..Len(sizes)
    BY <1>6, <2>1
  <2> QED BY <1>5, <1>9, <2>1, <2>2
<1>16. Stream' # <<>>
  BY <1>4, <1>6, <1>9 DEF l
<1>17. FitsNext'
  BY <1>1, <1>3, <1>15, <1>16 DEF FitsNext
<1>18. InStep'
  <2>1. CASE Stream # <<>>
    BY <1>1, <1>3, <1>15, <1>16, <2>1 DEF InStep
  <2>2. CASE Stream = <<>>
    <3>1. 1 \in 1..(n + 1) /\ l = 0
      BY <1>4, <2>2 DEF l
    <3>2. l + 1 = 1
      BY <3>1
    <3>3. Stream'[1] = out'[1]
      BY <1>9, <3>1, <3>2
    <3>4. Stream'[1].event = e /\ Stream'[1].at = 0
      BY <1>8, <3>1, <3>3
    <3>5. ~failed => reader = "length" /\ Len(received) + 1 = e
      BY <1>1, <1>3, <2>2 DEF InStep, e
    <3> QED BY <1>1, <1>3, <1>16, <3>4, <3>5 DEF InStep
  <2> QED BY <2>1, <2>2
<1>19. NotSplit'
  <2>1. 1 \in 1..(n + 1) /\ 1 - 1 = 0
    BY <1>4
  <2>2. out'[1].at = 0
    BY <1>8, <2>1
  <2> QED BY <2>2 DEF NotSplit
<1>20. Frames!NothingTwice'
  BY <1>1 DEF FramesInv, Frames!NothingTwice
<1>21. Frames!FailsOnlyOnLong'
  <2>1. DOMAIN sizes = 1..Len(sizes) /\ DOMAIN sizes' = 1..e
    BY <1>4, <1>5
  <2>2. (\E i \in DOMAIN sizes : sizes[i] + 1 > PipeBuf)
           => \E i \in DOMAIN sizes' : sizes'[i] + 1 > PipeBuf
    BY <1>5, <2>1
  <2> QED BY <1>1, <2>2 DEF FramesInv, Frames!FailsOnlyOnLong
<1> QED BY <1>1, <1>10, <1>11, <1>12, <1>14, <1>17, <1>18, <1>19, <1>20, <1>21
        DEF FramesInv

\* Cells move from the writer to the pipe; the stream stays as it is.
LEMMA WriteSteps ==
  ASSUME FramesInv, Frames!Write
  PROVE  FramesInv'
<1>1. /\ out # <<>> /\ sizes' = sizes /\ reader' = reader /\ length' = length
      /\ received' = received /\ failed' = failed /\ writer' = writer
  BY DEF Frames!Write
<1>2. PICK k \in 1..Len(out) :
        /\ k <= Frames!Room /\ (Frames!Atomic => k = Len(out))
        /\ pipe' = pipe \o SubSeq(out, 1, k)
        /\ out'  = SubSeq(out, k + 1, Len(out))
  BY DEF Frames!Write
<1>3. FrameTypes
  BY DEF FramesInv
<1>4. pipe \in Seq(Cell) /\ out \in Seq(Cell) /\ Len(pipe) \in Nat /\ Len(out) \in Nat
  BY <1>3 DEF FrameTypes
<1> DEFINE a == SubSeq(out, 1, k)
           b == SubSeq(out, k + 1, Len(out))
<1>5. a \in Seq(Cell) /\ Len(a) = k
  <2>1. 1 \in Int /\ k \in Int /\ 1 <= k /\ \A i \in 1..k : out[i] \in Cell
    BY <1>4
  <2> QED BY <2>1, SubSeqProperties
<1>6. b \in Seq(Cell) /\ (k = Len(out) => b = <<>>)
  <2>1. k + 1 \in Int /\ Len(out) \in Int /\ \A i \in (k + 1)..Len(out) : out[i] \in Cell
    BY <1>4
  <2>2. k = Len(out) => Len(out) < k + 1
    BY <1>4
  <2> QED BY <2>1, <2>2, SubSeqProperties, SubSeqEmpty
<1>7. a \o b = out
  <2>1. /\ 1 \in 1..(Len(out) + 1) /\ k \in (1 - 1)..Len(out) /\ Len(out) \in k..Len(out)
    BY <1>4
  <2>2. a \o b = SubSeq(out, 1, Len(out))
    BY <1>4, <2>1, ConcatAdjacentSubSeq
  <2> QED BY <1>4, <2>2, SubSeqFull
<1>8. pipe' = pipe \o a /\ out' = b
  BY <1>2
<1> HIDE DEF a, b
<1>9. Stream' = Stream
  <2>1. (pipe \o a) \o b = pipe \o (a \o b)
    <3>1. pipe \in Seq(Cell) /\ a \in Seq(Cell) /\ b \in Seq(Cell)
      BY <1>4, <1>5, <1>6
    <3> QED BY <3>1, ConcatAssociative, SMTT(20)
  <2> QED BY <1>7, <1>8, <2>1 DEF Stream
<1>10. FrameTypes'
  <2>1. pipe' \in Seq(Cell) /\ Len(pipe') = Len(pipe) + k
    BY <1>4, <1>5, <1>8, ConcatProperties
  <2>2. Len(pipe) + k <= Capacity
    BY <1>2, <1>4, FrameConstants DEF Frames!Room
  <2> QED BY <1>1, <1>3, <1>6, <1>8, <2>1, <2>2 DEF FrameTypes
<1>11. /\ InOrder(sizes, Stream)' /\ Ends' /\ NotYet' /\ FitsNext' /\ InStep'
       /\ Frames!NothingTwice' /\ Frames!FailsOnlyOnLong'
  BY <1>1, <1>9 DEF FramesInv, Ends, NotYet, FitsNext, InStep, Frames!NothingTwice,
     Frames!FailsOnlyOnLong
<1>12. NotSplit'
  <2> SUFFICES ASSUME \A i \in 1..Len(sizes) : sizes[i] + 1 <= PipeBuf
               PROVE  out' = <<>>
    BY <1>1 DEF NotSplit
  <2>1. Len(out) > 0 /\ Len(Stream) > 0 /\ 1 \in 1..Len(Stream) /\ Len(sizes) \in Nat
    BY <1>1, <1>4, StreamCells
  <2>2. Stream[1].event \in 1..Len(sizes)
    BY <2>1, StreamCells
  <2>3. Len(sizes) \in 1..Len(sizes)
    BY <2>1, <2>2
  <2>4. Frames!Last(sizes) = sizes[Len(sizes)]
    BY DEF Frames!Last
  <2>5. Frames!Atomic
    BY <2>3, <2>4 DEF Frames!Atomic
  <2> QED BY <1>2, <1>6, <1>8, <2>5
<1>13. writer = "open"
  BY <1>1, <1>3 DEF FramesInv, FrameTypes
<1> QED BY <1>1, <1>10, <1>11, <1>12, <1>13 DEF FramesInv

LEMMA WriterGoesSteps ==
  ASSUME FramesInv, Frames!WriterGoes
  PROVE  FramesInv'
<1>1. /\ writer' = "gone" /\ out' = <<>> /\ sizes' = sizes /\ pipe' = pipe
      /\ reader' = reader /\ length' = length /\ received' = received /\ failed' = failed
  BY DEF Frames!WriterGoes
<1>2. /\ FrameTypes /\ pipe \in Seq(Cell) /\ Len(pipe) \in Nat /\ Len(pipe) + 0 <= Len(Stream)
      /\ \A i \in 1..Len(pipe) : i + 0 = i /\ pipe[i] = Stream[i]
  BY StreamCells DEF FramesInv, FrameTypes
<1>3. Stream' = pipe
  BY <1>1, <1>2, ConcatEmptySeq DEF Stream
<1>4. \A i \in 1..Len(pipe) : pipe[i] = Stream[i + 0]
  BY <1>2
<1>5. InOrder(sizes, Stream)' /\ Ends' /\ NotYet'
  BY <1>1, <1>2, <1>3, <1>4, PieceLeft
<1>6. FrameTypes'
  <2>1. <<>> \in Seq(Cell)
    OBVIOUS
  <2> QED BY <1>1, <1>2, <2>1 DEF FrameTypes
<1>7. Stream' # <<>> => Stream # <<>> /\ Stream'[1] = Stream[1]
  BY <1>2, <1>3, StreamCells
<1>8. FitsNext' /\ InStep'
  BY <1>1, <1>7 DEF FramesInv, FitsNext, InStep
<1>9. NotSplit' /\ Frames!NothingTwice' /\ Frames!FailsOnlyOnLong'
  BY <1>1 DEF FramesInv, NotSplit, Frames!NothingTwice, Frames!FailsOnlyOnLong
<1> QED BY <1>1, <1>5, <1>6, <1>8, <1>9 DEF FramesInv

LEMMA ReadEndSteps ==
  ASSUME FramesInv, Frames!ReadEnd
  PROVE  FramesInv'
<1>1. /\ writer = "gone" /\ failed' = TRUE /\ reader' = "length" /\ length' = 0
      /\ sizes' = sizes /\ out' = out /\ pipe' = pipe /\ received' = received
      /\ writer' = writer
  BY DEF Frames!ReadEnd
<1>2. Stream' = Stream
  BY <1>1 DEF Stream
<1>3. FrameTypes' /\ FitsNext' /\ InStep'
  BY <1>1 DEF FramesInv, FrameTypes, FitsNext, InStep
<1>4. InOrder(sizes, Stream)' /\ Ends' /\ NotYet'
  BY <1>1, <1>2 DEF FramesInv, Ends, NotYet
<1>5. NotSplit' /\ Frames!NothingTwice' /\ Frames!FailsOnlyOnLong'
  BY <1>1 DEF FramesInv, NotSplit, Frames!NothingTwice, Frames!FailsOnlyOnLong
<1> QED BY <1>1, <1>3, <1>4, <1>5 DEF FramesInv

LEMMA ReaderGoesSteps ==
  ASSUME FramesInv, Frames!ReaderGoes
  PROVE  FramesInv'
<1>1. /\ failed = TRUE /\ reader' = "gone" /\ pipe' = <<>> /\ sizes' = sizes /\ out' = out
      /\ length' = length /\ received' = received /\ failed' = failed /\ writer' = writer
  BY DEF Frames!ReaderGoes, FramesInv, FrameTypes
<1>2. /\ out \in Seq(Cell) /\ Len(out) \in Nat /\ Len(pipe) \in Nat
      /\ Len(out) + Len(pipe) = Len(Stream)
      /\ \A i \in 1..Len(out) : out[i] = Stream[i + Len(pipe)]
  <2>1. \A i \in 1..Len(out) : out[i] = Stream[Len(pipe) + i]
    BY StreamCells
  <2>2. \A i \in 1..Len(out) : Len(pipe) + i = i + Len(pipe)
    BY StreamCells
  <2>3. Len(out) + Len(pipe) = Len(Stream)
    BY StreamCells
  <2> QED BY <2>1, <2>2, <2>3, StreamCells DEF FramesInv, FrameTypes
<1>3. Stream' = out
  BY <1>1, <1>2, ConcatEmptySeq DEF Stream
<1>4. Len(Stream') + Len(pipe) <= Len(Stream)
  BY <1>2, <1>3
<1>5. InOrder(sizes, Stream)' /\ Ends' /\ NotYet'
  BY <1>1, <1>2, <1>3, <1>4, PieceLeft
<1>6. FrameTypes'
  <2>1. <<>> \in Seq(Cell) /\ Len(<<>>) <= Capacity
    BY FrameConstants
  <2> QED BY <1>1, <2>1 DEF FramesInv, FrameTypes
<1>7. FitsNext' /\ InStep'
  BY <1>1 DEF FitsNext, InStep
<1>8. NotSplit' /\ Frames!NothingTwice' /\ Frames!FailsOnlyOnLong'
  BY <1>1 DEF FramesInv, NotSplit, Frames!NothingTwice, Frames!FailsOnlyOnLong
<1> QED BY <1>1, <1>5, <1>6, <1>7, <1>8 DEF FramesInv

\* A length is taken for one only if its text comes next.
LEMMA ReadLengthSteps ==
  ASSUME FramesInv, Frames!ReadLength
  PROVE  FramesInv'
<1>1. /\ reader = "length" /\ reader' = "text" /\ pipe # <<>> /\ pipe' = Tail(pipe)
      /\ sizes' = sizes /\ out' = out /\ received' = received /\ failed' = failed
      /\ writer' = writer
  BY DEF Frames!ReadLength
<1> DEFINE c == Stream[1]
           l == Len(Stream)
<1>2. /\ FrameTypes /\ pipe \in Seq(Cell) /\ out \in Seq(Cell)
      /\ Len(pipe) \in Nat /\ Len(pipe) > 0 /\ Len(out) \in Nat /\ l = Len(pipe) + Len(out)
      /\ l \in Nat /\ l > 0 /\ Stream # <<>>
  BY <1>1, StreamCells DEF FramesInv, FrameTypes
<1>3. c.event \in 1..Len(sizes) /\ sizes[c.event] \in Nat \ {0} /\ c.at \in Nat
  BY <1>2, StreamCells
<1>4. length' = IF c.at = 0 THEN sizes[c.event] ELSE Capacity + 1
  <2>1. Head(pipe) = Stream[1]
    BY <1>2, StreamCells
  <2> QED BY <2>1 DEF Frames!ReadLength, Frames!LengthIn
<1>5. /\ pipe' \in Seq(Cell) /\ Len(pipe') = Len(pipe) - 1
      /\ \A i \in 1..(Len(pipe) - 1) : pipe'[i] = pipe[i + 1]
  BY <1>1, <1>2, HeadTailProperties
<1>6. /\ Stream' \in Seq(Cell) /\ Len(Stream') = l - 1
      /\ \A i \in 1..(l - 1) : Stream'[i] = Stream[i + 1]
  <2> DEFINE t == pipe' \o out
  <2>1. /\ t \in Seq(Cell) /\ Len(t) = Len(pipe') + Len(out)
        /\ \A i \in 1..Len(pipe') : t[i] = pipe'[i]
        /\ \A i \in 1..Len(out) : t[Len(pipe') + i] = out[i]
    BY <1>2, <1>5, StreamOf
  <2>2. Stream' = t
    BY <1>1 DEF Stream
  <2> HIDE DEF t
  <2>3. ASSUME NEW i \in 1..(l - 1) PROVE t[i] = Stream[i + 1]
    <3>1. CASE i <= Len(pipe) - 1
      <4>1. i \in 1..(Len(pipe) - 1) /\ i + 1 \in 1..Len(pipe)
        BY <1>2, <3>1
      <4> QED BY <1>5, <2>1, <4>1, StreamCells
    <3>2. CASE i > Len(pipe) - 1
      <4>1. PICK k \in 1..Len(out) : i = (Len(pipe) - 1) + k
        <5>1. i - (Len(pipe) - 1) \in 1..Len(out) /\ i = (Len(pipe) - 1) + (i - (Len(pipe) - 1))
          BY <1>2, <3>2
        <5> QED BY <5>1
      <4>2. t[i] = out[k]
        BY <1>5, <2>1, <4>1
      <4>3. i + 1 = Len(pipe) + k
        BY <1>2, <4>1
      <4> QED BY <4>2, <4>3, StreamCells
    <3> QED BY <1>2, <3>1, <3>2
  <2> QED BY <1>2, <1>5, <2>1, <2>2, <2>3
<1>7. InOrder(sizes, Stream)' /\ Ends' /\ NotYet'
  <2>1. Len(Stream') + 1 = Len(Stream) /\ Len(Stream') + 1 <= Len(Stream)
    BY <1>2, <1>6
  <2> QED BY <1>1, <1>6, <2>1, PieceLeft
<1>8. length' \in Nat /\ length' > 0 /\ (length' <= Capacity => c.at = 0)
  BY <1>3, <1>4, FrameConstants
<1>9. FrameTypes'
  <2>1. Len(pipe') <= Capacity
    BY <1>2, <1>5, FrameConstants DEF FrameTypes
  <2> QED BY <1>1, <1>2, <1>5, <1>8, <2>1 DEF FrameTypes
<1>10. ASSUME c.at = 0
       PROVE  /\ writer = "open" => Stream' # <<>>
              /\ Stream' # <<>> => /\ Stream'[1].event = c.event /\ Stream'[1].at = 1
                                   /\ length' = sizes[c.event]
  <2>1. ASSUME writer = "open" PROVE Stream' # <<>>
    <3> SUFFICES ASSUME Stream' = <<>> PROVE FALSE
      OBVIOUS
    <3>1. l = 1
      BY <1>2, <1>6
    <3>2. c.event = Len(sizes) /\ c.at = sizes[Len(sizes)]
      BY <1>2, <2>1, <3>1 DEF FramesInv, Ends
    <3> QED BY <1>3, <1>10, <3>2
  <2>2. ASSUME Stream' # <<>> PROVE Stream'[1].event = c.event /\ Stream'[1].at = 1
    <3>1. 1 \in 1..(l - 1) /\ 1 \in 1..l /\ 1 < l /\ 1 + 1 = 2
      BY <1>2, <1>6, <2>2
    <3>2. Stream'[1] = Stream[2]
      BY <1>6, <3>1
    <3>3. Follows(sizes, c, Stream[2])
      BY <3>1 DEF FramesInv, InOrder
    <3> QED BY <1>3, <1>10, <3>2, <3>3 DEF Follows
  <2> QED BY <1>4, <1>10, <2>1, <2>2
<1>11. FitsNext'
  BY <1>1, <1>8, <1>10 DEF FitsNext
<1>12. InStep'
  <2>1. ~failed => /\ reader # "gone" /\ \A i \in 1..Len(received) : received[i] = i
                   /\ c.event = Len(received) + 1 /\ c.at = 0
    BY <1>1, <1>2 DEF FramesInv, InStep
  <2> QED BY <1>1, <1>10, <2>1 DEF InStep
<1>13. NotSplit' /\ Frames!NothingTwice' /\ Frames!FailsOnlyOnLong'
  BY <1>1 DEF FramesInv, NotSplit, Frames!NothingTwice, Frames!FailsOnlyOnLong
<1> QED BY <1>1, <1>7, <1>9, <1>11, <1>12, <1>13 DEF FramesInv

\* A text that is in the stream, after its length was read, is whole.
LEMMA TextInStream ==
  ASSUME FramesInv, NEW n \in Nat, n > 0, n <= Len(Stream),
         Stream[1].at = 1, n <= sizes[Stream[1].event]
  PROVE  \A k \in 1..n : Stream[k].event = Stream[1].event /\ Stream[k].at = k
<1> SUFFICES ASSUME NEW k \in 1..n
             PROVE  Stream[k].event = Stream[1].event /\ Stream[k].at = k
  OBVIOUS
<1>1. Len(Stream) \in Nat /\ 1 \in 1..Len(Stream) /\ k \in 1..Len(Stream)
  BY StreamCells
<1>2. Stream[1].event \in 1..Len(sizes) /\ sizes[Stream[1].event] \in Nat
  BY <1>1, StreamCells
<1>3. CASE k = 1
  BY <1>3
<1>4. CASE k > 1
  <2>1. Ahead(sizes, Stream[1], Stream[k], k - 1)
    BY <1>1, <1>4 DEF FramesInv, InOrder
  <2>2. ~(k - 1 > sizes[Stream[1].event] - 1)
    BY <1>2
  <2> QED BY <2>1, <2>2 DEF Ahead
<1> QED BY <1>1, <1>3, <1>4

\* What read() takes for a text, and what it leaves.
CellsRead == SubSeq(pipe, 1, IF length < Len(pipe) THEN length ELSE Len(pipe))
CellsLeft == SubSeq(pipe, Len(CellsRead) + 1, Len(pipe))

LEMMA CellsReadAndLeft ==
  ASSUME FramesInv, reader = "text", pipe # <<>>
  PROVE  LET m == Len(CellsRead)
             t == CellsLeft \o out
         IN  /\ m = (IF length < Len(pipe) THEN length ELSE Len(pipe))
             /\ m \in Nat /\ m > 0 /\ m <= Len(pipe) /\ length \in Nat /\ length > 0
             /\ CellsRead \in Seq(Cell) /\ CellsRead # <<>> /\ Head(CellsRead) = Stream[1]
             /\ \A i \in 1..m : CellsRead[i] = Stream[i]
             /\ CellsLeft \in Seq(Cell) /\ Len(CellsLeft) = Len(pipe) - m
             /\ t \in Seq(Cell) /\ Len(t) + m = Len(Stream)
             /\ \A i \in 1..Len(t) : t[i] = Stream[i + m]
<1> DEFINE n == IF length < Len(pipe) THEN length ELSE Len(pipe)
           a == CellsRead
           b == SubSeq(pipe, n + 1, Len(pipe))
           t == b \o out
<1>1. /\ pipe \in Seq(Cell) /\ out \in Seq(Cell) /\ Len(pipe) \in Nat /\ Len(pipe) > 0
      /\ length \in Nat /\ length > 0
  BY DEF FramesInv, FrameTypes, FitsNext
<1>2. n \in Nat /\ n > 0 /\ n <= Len(pipe)
  BY <1>1
<1>3. a = SubSeq(pipe, 1, n)
  BY DEF CellsRead
<1> HIDE DEF n, a
<1>4. /\ a \in Seq(Cell) /\ Len(a) = n /\ \A i \in 1..n : a[i] = pipe[i]
  <2>1. n \in Int /\ 1 \in Int /\ 1 <= n /\ \A i \in 1..n : pipe[i] \in Cell
    BY <1>1, <1>2
  <2>2. /\ a \in Seq(Cell) /\ Len(a) = n - 1 + 1
        /\ \A i \in 1..(n - 1 + 1) : a[i] = pipe[1 + i - 1]
    BY <1>3, <2>1, SubSeqProperties
  <2>3. n - 1 + 1 = n /\ \A i \in 1..n : 1 + i - 1 = i
    BY <1>2
  <2> QED BY <2>2, <2>3
<1>5. b \in Seq(Cell) /\ Len(b) = Len(pipe) - n
  <2>1. /\ n + 1 \in Int /\ Len(pipe) \in Int
        /\ \A i \in (n + 1)..Len(pipe) : pipe[i] \in Cell
    BY <1>1, <1>2
  <2>2. b \in Seq(Cell) /\ Len(b) = IF n + 1 <= Len(pipe) THEN Len(pipe) - (n + 1) + 1 ELSE 0
    BY <2>1, SubSeqProperties
  <2> QED BY <1>1, <1>2, <2>2
<1>6. a \o b = pipe
  <2>1. /\ 1 \in 1..(Len(pipe) + 1) /\ n \in (1 - 1)..Len(pipe) /\ Len(pipe) \in n..Len(pipe)
    BY <1>1, <1>2
  <2>2. a \o b = SubSeq(pipe, 1, Len(pipe))
    BY <1>1, <1>3, <2>1, ConcatAdjacentSubSeq
  <2> QED BY <1>1, <2>2, SubSeqFull
<1> HIDE DEF b
<1>7. t \in Seq(Cell) /\ Len(t) \in Nat
  <2>1. b \in Seq(Cell) /\ out \in Seq(Cell)
    BY <1>1, <1>5
  <2>2. t \in Seq(Cell)
    BY <2>1, StreamOf
  <2> QED BY <2>2
<1>8. Stream = a \o t
  <2>1. a \in Seq(Cell) /\ b \in Seq(Cell) /\ out \in Seq(Cell)
    BY <1>1, <1>4, <1>5
  <2>2. (a \o b) \o out = a \o (b \o out)
    BY <2>1, ConcatAssociative
  <2> QED BY <1>6, <2>2 DEF Stream
<1> HIDE DEF t
<1>9. /\ Len(Stream) = n + Len(t)
      /\ \A i \in 1..n : Stream[i] = a[i]
      /\ \A i \in 1..Len(t) : Stream[n + i] = t[i]
  <2>1. a \in Seq(Cell) /\ t \in Seq(Cell)
    BY <1>4, <1>7
  <2>2. /\ Len(a \o t) = Len(a) + Len(t)
        /\ \A i \in 1..Len(a) : (a \o t)[i] = a[i]
        /\ \A i \in 1..Len(t) : (a \o t)[Len(a) + i] = t[i]
    BY <2>1, StreamOf
  <2> QED BY <1>4, <1>8, <2>2
<1>10. Len(t) + n = Len(Stream) /\ \A i \in 1..Len(t) : t[i] = Stream[i + n]
  <2>1. \A i \in 1..Len(t) : n + i = i + n
    BY <1>2, <1>7
  <2>2. Len(t) + n = n + Len(t)
    BY <1>2, <1>7
  <2> QED BY <1>9, <2>1, <2>2
<1>11. a # <<>> /\ Head(a) = Stream[1]
  <2>1. 1 \in 1..n /\ a # <<>>
    BY <1>2, <1>4
  <2>2. Head(a) = a[1]
    BY <1>4, <2>1
  <2> QED BY <1>9, <2>1, <2>2
<1>12. CellsLeft = b
  BY <1>4 DEF CellsLeft, a, b
<1>13. \A i \in 1..n : a[i] = Stream[i]
  BY <1>9
<1> QED BY <1>1, <1>2, <1>4, <1>5, <1>7, <1>10, <1>11, <1>12, <1>13 DEF a, t, n

\* A text is whole unless the writer is gone, or writes a long one.
LEMMA ShortIsWhole ==
  ASSUME FramesInv, reader = "text", pipe # <<>>, ~failed, writer = "open",
         \A i \in 1..Len(sizes) : sizes[i] + 1 <= PipeBuf
  PROVE  Frames!Whole(CellsRead)
<1> DEFINE m == Len(CellsRead)
           e == Stream[1].event
           l == Len(pipe)
<1>1. /\ m = (IF length < l THEN length ELSE l)
      /\ m \in Nat /\ m > 0 /\ m <= l /\ length \in Nat /\ length > 0
      /\ CellsRead \in Seq(Cell) /\ Head(CellsRead) = Stream[1]
      /\ \A i \in 1..m : CellsRead[i] = Stream[i]
  BY CellsReadAndLeft
<1>2. /\ l \in Nat /\ Len(out) \in Nat /\ Len(Stream) = l + Len(out) /\ Len(Stream) \in Nat
      /\ 1 \in 1..Len(Stream) /\ Stream # <<>>
  BY <1>1, StreamCells
<1>3. e \in 1..Len(sizes) /\ sizes[e] \in Nat
  BY <1>2, StreamCells
<1>4. Stream[1].at = 1 /\ length = sizes[e]
  BY <1>2 DEF FramesInv, InStep
<1> HIDE DEF m, e, l
<1>5. ASSUME NEW k \in 1..m
      PROVE  CellsRead[k].event = e /\ CellsRead[k].at = k
  <2>1. m <= length /\ m <= Len(Stream) /\ m <= sizes[e]
    BY <1>1, <1>2, <1>4
  <2>2. Stream[k].event = e /\ Stream[k].at = k
    BY <1>1, <1>4, <2>1, TextInStream DEF e
  <2> QED BY <1>1, <2>2
<1>6. length <= l
  <2> SUFFICES ASSUME l < length PROVE FALSE
    BY <1>1, <1>2
  <2>1. m = l /\ l \in 1..m /\ l \in 1..Len(Stream)
    BY <1>1, <1>2
  <2>2. Stream[l].event = e /\ Stream[l].at = l
    BY <1>1, <1>5, <2>1
  <2>3. CASE out = <<>>
    <3>1. Len(Stream) = l
      BY <1>2, <2>3
    <3>2. Stream[l].event = Len(sizes) /\ Stream[l].at = sizes[Len(sizes)]
      BY <1>2, <3>1 DEF FramesInv, Ends
    <3> QED BY <1>4, <2>2, <3>2, <1>1, <1>2
  <2>4. CASE out # <<>> /\ out[1].at = 0
    <3>1. 1 \in 1..Len(out) /\ l + 1 \in 1..Len(Stream) /\ l < Len(Stream)
      <4>1. Len(out) > 0
        BY <1>2, <2>4 DEF FramesInv, FrameTypes
      <4> QED BY <1>2, <4>1
    <3>2. Stream[l + 1] = out[1]
      BY <3>1, StreamCells DEF l
    <3>3. Follows(sizes, Stream[l], Stream[l + 1])
      BY <2>1, <3>1 DEF FramesInv, InOrder
    <3>4. l = sizes[e]
      BY <1>2, <2>2, <2>4, <3>2, <3>3 DEF Follows
    <3> QED BY <1>1, <1>2, <1>4, <3>4
  <2> QED BY <2>3, <2>4 DEF FramesInv, NotSplit
<1>7. m = length
  BY <1>1, <1>2, <1>6
<1>8. CellsRead = Frames!TextOf(e, length)
  <2> DEFINE t == Frames!TextOf(e, length)
  <2>1. /\ t \in Seq(Cell) /\ Len(t) = length
        /\ \A k \in 1..length : t[k] = [event |-> e, at |-> k]
    <3>1. \A k \in 1..length : [event |-> e, at |-> k] \in Cell
      BY <1>1, <1>3 DEF Cell
    <3> QED BY <1>1, <3>1 DEF Frames!TextOf
  <2> HIDE DEF t
  <2>2. ASSUME NEW k \in 1..length PROVE CellsRead[k] = t[k]
    <3>1. CellsRead[k] \in Cell /\ CellsRead[k].event = e /\ CellsRead[k].at = k
      BY <1>1, <1>5, <1>7, <2>2 DEF m
    <3>2. CellsRead[k] = [event |-> e, at |-> k]
      BY <3>1 DEF Cell
    <3> QED BY <2>1, <3>2
  <2>3. CellsRead \in Seq(Cell) /\ Len(CellsRead) = length
    BY <1>1, <1>7 DEF m
  <2>4. CellsRead = t
    BY <2>1, <2>2, <2>3, SeqEqual
  <2> QED BY <2>4 DEF t
<1> QED BY <1>1, <1>7, <1>8 DEF Frames!Whole, m, e

\* A text that was read whole is the next event's, or a later one's, and all of it.
LEMMA WholeIsText ==
  ASSUME FramesInv, reader = "text", pipe # <<>>, Frames!Whole(CellsRead)
  PROVE  /\ Len(CellsRead) = length /\ Head(CellsRead) = Stream[1]
         /\ Stream[1].at = 1 /\ length = sizes[Stream[1].event]
         /\ Stream[1].event \in 1..Len(sizes)
         /\ Stream[length].event = Stream[1].event /\ Stream[length].at = length
         /\ \A j \in 1..Len(Stream) : j > length => Stream[1].event < Stream[j].event
<1>1. /\ Len(CellsRead) <= Len(pipe) /\ Len(CellsRead) \in Nat
      /\ length \in Nat /\ length > 0 /\ Head(CellsRead) = Stream[1]
  BY CellsReadAndLeft
<1>2. Len(CellsRead) = length
  BY DEF Frames!Whole
<1>3. /\ Len(pipe) \in Nat /\ Len(pipe) <= Len(Stream) /\ Len(Stream) \in Nat
      /\ 1 \in 1..Len(Stream) /\ Stream # <<>>
  BY <1>1, <1>2, StreamCells
<1>4. Len(pipe) <= Capacity /\ length <= Capacity
  <2>1. Len(pipe) <= Capacity
    BY DEF FramesInv, FrameTypes
  <2> QED BY <1>1, <1>2, <1>3, <2>1, FrameConstants
<1>5. Stream[1].at = 1 /\ length = sizes[Stream[1].event]
  BY <1>3, <1>4 DEF FramesInv, FitsNext
<1>6. Stream[1].event \in 1..Len(sizes) /\ sizes[Stream[1].event] \in Nat
  BY <1>3, StreamCells
<1>7. length <= Len(Stream) /\ length \in 1..length
  BY <1>1, <1>2, <1>3
<1>8. Stream[length].event = Stream[1].event /\ Stream[length].at = length
  <2>1. length <= sizes[Stream[1].event]
    BY <1>1, <1>5
  <2> QED BY <1>1, <1>5, <1>7, <2>1, TextInStream
<1>9. ASSUME NEW j \in 1..Len(Stream), j > length
      PROVE  Stream[1].event < Stream[j].event
  <2>1. Ahead(sizes, Stream[1], Stream[j], j - 1)
    BY <1>1, <1>3, <1>9 DEF FramesInv, InOrder
  <2>2. Stream[j].at \in 0..sizes[Stream[j].event]
    BY StreamCells
  <2>3. CASE Stream[j].event = Stream[1].event /\ Stream[j].at = Stream[1].at + (j - 1)
    <3>1. Stream[j].at = j /\ Stream[j].at \in 0..length
      BY <1>5, <2>2, <2>3
    <3> QED BY <1>1, <1>9, <3>1
  <2> QED BY <2>1, <2>3 DEF Ahead
<1> QED BY <1>1, <1>2, <1>5, <1>6, <1>8, <1>9

LEMMA ReadTextSteps ==
  ASSUME FramesInv, Frames!ReadText
  PROVE  FramesInv'
<1>1. /\ reader = "text" /\ pipe # <<>> /\ reader' = "length" /\ length' = 0
      /\ sizes' = sizes /\ out' = out /\ writer' = writer /\ pipe' = CellsLeft
      /\ IF Frames!Whole(CellsRead)
         THEN received' = Append(received, Head(CellsRead).event) /\ failed' = failed
         ELSE received' = received /\ failed' = TRUE
  BY DEF Frames!ReadText, CellsRead, CellsLeft
<1> DEFINE m == Len(CellsRead)
           e == Stream[1].event
<1>2. /\ m \in Nat /\ m > 0 /\ m <= Len(pipe)
      /\ CellsLeft \in Seq(Cell) /\ Len(CellsLeft) = Len(pipe) - m
  BY <1>1, CellsReadAndLeft
<1>3. /\ Stream' \in Seq(Cell) /\ Len(Stream') + m = Len(Stream)
      /\ \A i \in 1..Len(Stream') : Stream'[i] = Stream[i + m]
  <2>1. Stream' = CellsLeft \o out
    BY <1>1 DEF Stream
  <2> QED BY <1>1, <2>1, CellsReadAndLeft
<1>4. /\ Len(Stream) \in Nat /\ Len(Stream') \in Nat /\ Len(Stream) > 0
      /\ Len(Stream') + m <= Len(Stream) /\ Stream # <<>> /\ Len(sizes) \in Nat
      /\ Len(pipe) \in Nat
  BY <1>2, <1>3, StreamCells
<1>5. InOrder(sizes, Stream)' /\ Ends' /\ (received' = received => NotYet')
  BY <1>1, <1>2, <1>3, <1>4, PieceLeft
<1>6. FitsNext' /\ NotSplit'
  BY <1>1 DEF FramesInv, FitsNext, NotSplit
<1>7. /\ received \in Seq(Nat) /\ Len(received) \in Nat
      /\ \A i \in 1..Len(received) : received[i] \in 1..Len(sizes)
      /\ \A i \in 1..Len(received) : received[i] < e
  <2>1. 1 \in 1..Len(Stream)
    BY <1>4
  <2>2. \A i \in 1..Len(received) : received[i] < Stream[1].event
    BY <2>1 DEF FramesInv, NotYet
  <2>3. received \in Seq(Nat) /\ \A i \in 1..Len(received) : received[i] \in 1..Len(sizes)
    BY DEF FramesInv, FrameTypes
  <2> QED BY <2>2, <2>3
<1>8. Len(pipe') <= Capacity /\ pipe' \in Seq(Cell)
  BY <1>1, <1>2, <1>4, FrameConstants DEF FramesInv, FrameTypes
<1> HIDE DEF m, e
<1>9. CASE ~Frames!Whole(CellsRead)
  <2>1. received' = received /\ failed' = TRUE
    BY <1>1, <1>9
  <2>2. FrameTypes'
    BY <1>1, <1>8, <2>1 DEF FramesInv, FrameTypes
  <2>3. Frames!FailsOnlyOnLong'
    <3>1. DOMAIN sizes = 1..Len(sizes) /\ \A i \in 1..Len(sizes) : sizes[i] \in Nat
      <4>1. \A i \in 1..Len(sizes) : sizes[i] \in Nat
        BY StreamCells
      <4> QED BY <4>1 DEF FramesInv, FrameTypes
    <3>2. CASE failed
      BY <1>1, <3>2 DEF FramesInv, Frames!FailsOnlyOnLong
    <3>3. CASE ~failed
      <4>1. writer = "gone" \/ ~(\A i \in 1..Len(sizes) : sizes[i] + 1 <= PipeBuf)
        BY <1>1, <1>9, <3>3, ShortIsWhole DEF FramesInv, FrameTypes
      <4>2. (~(\A i \in 1..Len(sizes) : sizes[i] + 1 <= PipeBuf))
                => \E i \in DOMAIN sizes : sizes[i] + 1 > PipeBuf
        BY <3>1, FrameConstants
      <4> QED BY <1>1, <4>1, <4>2 DEF Frames!FailsOnlyOnLong
    <3> QED BY <3>2, <3>3
  <2>4. InStep' /\ Frames!NothingTwice'
    BY <2>1 DEF FramesInv, InStep, Frames!NothingTwice
  <2> QED BY <1>1, <1>5, <1>6, <2>1, <2>2, <2>3, <2>4 DEF FramesInv
<1>10. CASE Frames!Whole(CellsRead)
  <2>1. /\ m = length /\ e \in 1..Len(sizes)
        /\ Stream[1].at = 1 /\ length = sizes[e]
        /\ Stream[m].event = e /\ Stream[m].at = m
        /\ \A j \in 1..Len(Stream) : j > m => e < Stream[j].event
        /\ Head(CellsRead).event = e
    BY <1>1, <1>10, WholeIsText DEF m, e
  <2>2. received' = Append(received, e) /\ failed' = failed
    BY <1>1, <1>10, <2>1
  <2>3. /\ received' \in Seq(Nat) /\ Len(received') = Len(received) + 1
        /\ received'[Len(received) + 1] = e
        /\ \A i \in 1..Len(received) : received'[i] = received[i]
    BY <1>7, <2>1, <2>2
  <2>4. \A i \in 1..Len(received') : i \in 1..Len(received) \/ i = Len(received) + 1
    BY <1>7, <2>3
  <2>5. FrameTypes'
    <3>1. \A i \in 1..Len(received') : received'[i] \in 1..Len(sizes)
      BY <1>7, <2>1, <2>3, <2>4
    <3> QED BY <1>1, <1>8, <2>2, <2>3, <3>1 DEF FramesInv, FrameTypes
  <2>6. NotYet'
    <3> SUFFICES ASSUME NEW i \in 1..Len(received'), NEW j \in 1..Len(Stream')
                 PROVE  received'[i] < Stream'[j].event
      BY DEF NotYet
    <3>1. j + m \in 1..Len(Stream) /\ j + m > m /\ Stream'[j] = Stream[j + m]
      <4>1. Stream'[j] = Stream[j + m]
        BY <1>3
      <4>2. Len(Stream') + m = Len(Stream)
        BY <1>3
      <4> QED BY <1>2, <1>4, <4>1, <4>2
    <3>2. e < Stream'[j].event
      BY <2>1, <3>1
    <3>3. CASE i = Len(received) + 1
      BY <2>3, <3>2, <3>3
    <3>4. CASE i \in 1..Len(received)
      <4>1. received'[i] = received[i] /\ received[i] < Stream[j + m].event
        BY <2>3, <3>1, <3>4 DEF FramesInv, NotYet
      <4> QED BY <3>1, <4>1
    <3> QED BY <2>4, <3>3, <3>4
  <2>7. Frames!NothingTwice'
    <3>1. DOMAIN received' = 1..Len(received') /\ DOMAIN received = 1..Len(received)
      BY <1>7, <2>3
    <3>2. ASSUME NEW i \in 1..Len(received'), NEW j \in 1..Len(received'), i < j
          PROVE  received'[i] < received'[j]
      <4>1. CASE j \in 1..Len(received)
        <5>1. i \in 1..Len(received)
          BY <1>7, <3>2, <4>1
        <5> QED BY <2>3, <3>1, <3>2, <4>1, <5>1 DEF FramesInv, Frames!NothingTwice
      <4>2. CASE j = Len(received) + 1
        <5>1. i \in 1..Len(received)
          BY <1>7, <3>2, <4>2
        <5> QED BY <1>7, <2>3, <4>2, <5>1
      <4> QED BY <2>4, <4>1, <4>2
    <3> QED BY <3>1, <3>2 DEF Frames!NothingTwice
  <2>8. InStep'
    <3> SUFFICES ASSUME ~failed PROVE InStep'
      BY <2>2 DEF InStep
    <3>1. e = Len(received) + 1 /\ \A i \in 1..Len(received) : received[i] = i
      BY <1>4 DEF FramesInv, InStep, e
    <3>2. \A i \in 1..Len(received') : received'[i] = i
      BY <2>3, <2>4, <3>1
    <3>3. ASSUME Stream' # <<>>
          PROVE  Stream'[1].event = Len(received') + 1 /\ Stream'[1].at = 0
      <4>1. 1 \in 1..Len(Stream') /\ m \in 1..Len(Stream) /\ m < Len(Stream) /\ 1 + m = m + 1
            /\ m + 1 \in 1..Len(Stream) /\ m + 1 > m
        BY <1>2, <1>3, <1>4, <3>3
      <4>2. Stream'[1] = Stream[m + 1]
        BY <1>3, <4>1
      <4>3. Follows(sizes, Stream[m], Stream[m + 1])
        BY <4>1 DEF FramesInv, InOrder
      <4>4. e < Stream[m + 1].event
        BY <2>1, <4>1
      <4> QED BY <2>1, <2>3, <3>1, <4>2, <4>3, <4>4 DEF Follows
    <3>4. ASSUME Stream' = <<>>, writer = "open"
          PROVE  Len(received') = Len(sizes)
      <4>1. m = Len(Stream)
        BY <1>2, <1>3, <1>4, <3>4
      <4>2. Stream[m].event = Len(sizes)
        BY <1>4, <3>4, <4>1 DEF FramesInv, Ends
      <4> QED BY <2>1, <2>3, <3>1, <4>2
    <3> QED BY <1>1, <3>2, <3>3, <3>4 DEF InStep
  <2>9. Frames!FailsOnlyOnLong'
    BY <1>1, <2>2 DEF FramesInv, Frames!FailsOnlyOnLong
  <2> QED BY <1>1, <1>5, <1>6, <2>5, <2>6, <2>7, <2>8, <2>9 DEF FramesInv
<1> QED BY <1>9, <1>10

LEMMA FramesNext ==
  ASSUME FramesInv, [Frames!FramingNext]_pipeVars
  PROVE  FramesInv'
<1>1. CASE UNCHANGED pipeVars
  <2>1. Stream' = Stream
    BY <1>1 DEF Stream, pipeVars
  <2>2. FrameTypes' /\ FitsNext' /\ InStep' /\ NotSplit' /\ NotYet' /\ Ends'
    BY <1>1, <2>1 DEF FramesInv, pipeVars, FrameTypes, FitsNext, InStep, NotSplit, NotYet,
       Ends
  <2>3. InOrder(sizes, Stream)' /\ Frames!NothingTwice' /\ Frames!FailsOnlyOnLong'
    BY <1>1, <2>1 DEF FramesInv, pipeVars, Frames!NothingTwice, Frames!FailsOnlyOnLong
  <2> QED BY <1>1, <2>2, <2>3 DEF FramesInv, pipeVars
<1> QED BY <1>1, SendSteps, WriteSteps, WriterGoesSteps, ReadLengthSteps, ReadTextSteps,
           ReadEndSteps, ReaderGoesSteps DEF Frames!FramingNext, Frames!Read

LEMMA FramesStart == Init => FramesInv
<1> SUFFICES ASSUME Init PROVE FramesInv
  OBVIOUS
<1>1. /\ sizes = <<>> /\ out = <<>> /\ pipe = <<>> /\ received = <<>>
      /\ reader = "length" /\ length = 0 /\ failed = FALSE /\ writer = "open"
  BY DEF Init, Frames!FramingInit
<1>2. <<>> \in Seq(Cell) /\ <<>> \in Seq(Sizes) /\ <<>> \in Seq(Nat) /\ Len(<<>>) = 0
  OBVIOUS
<1>3. Stream = <<>>
  BY <1>1, <1>2, ConcatEmptySeq DEF Stream
<1>4. FrameTypes
  <2>1. length \in Nat /\ failed \in BOOLEAN /\ Len(pipe) <= Capacity
    <3>1. Len(pipe) = 0 /\ 0 <= Capacity
      BY <1>1, <1>2, FrameConstants
    <3> QED BY <1>1, <3>1
  <2>2. reader \in {"length", "text", "gone"} /\ writer \in {"open", "gone"}
    BY <1>1
  <2>3. sizes \in Seq(Sizes) /\ received \in Seq(Nat) /\ pipe \in Seq(Cell) /\ out \in Seq(Cell)
    BY <1>1, <1>2
  <2>4. \A i \in 1..Len(received) : received[i] \in 1..Len(sizes)
    BY <1>1, <1>2
  <2> QED BY <2>1, <2>2, <2>3, <2>4 DEF FrameTypes
<1>5. InOrder(sizes, Stream) /\ Ends /\ NotYet /\ FitsNext /\ NotSplit
  BY <1>1, <1>2, <1>3 DEF InOrder, Ends, NotYet, FitsNext, NotSplit
<1>6. InStep
  BY <1>1, <1>2, <1>3 DEF InStep
<1>7. Frames!NothingTwice /\ Frames!FailsOnlyOnLong
  BY <1>1, <1>2 DEF Frames!NothingTwice, Frames!FailsOnlyOnLong
<1> QED BY <1>1, <1>4, <1>5, <1>6, <1>7 DEF FramesInv

\* kiran_pam_message_send() and _recv(), for any sizes, PIPE_BUF and pipe: what is
\* received is what was sent, with gaps at most after a failure, and short events
\* do not fail before the pipe ends. So AuthPam may have them arrive whole.
THEOREM ShortEventsArrive == Spec => []EventsArriveWhole
<1>1. FramesInv /\ [Next]_partVars => FramesInv'
  BY PartSteps, FramesNext
<1>2. FramesInv => EventsArriveWhole
  <2> SUFFICES ASSUME FramesInv PROVE Frames!FramingTypeOK /\ Frames!FirstSentFirst
    BY DEF FramesInv, EventsArriveWhole
  <2>1. /\ FrameTypes /\ sizes \in Seq(Sizes) /\ received \in Seq(Nat)
        /\ pipe \in Seq(Cell) /\ out \in Seq(Cell)
        /\ \A i \in 1..Len(received) : received[i] \in 1..Len(sizes)
    BY DEF FramesInv, FrameTypes
  <2>2. /\ DOMAIN sizes = 1..Len(sizes) /\ DOMAIN received = 1..Len(received)
        /\ DOMAIN pipe = 1..Len(pipe) /\ DOMAIN out = 1..Len(out)
    BY <2>1
  <2>3. received \in Seq(DOMAIN sizes)
    BY <2>1, <2>2
  <2>4. ASSUME NEW k \in DOMAIN pipe PROVE pipe[k].event \in DOMAIN sizes
    <3>1. k \in 1..Len(pipe) /\ k \in 1..Len(Stream)
      BY <2>2, StreamCells
    <3> QED BY <2>2, <3>1, StreamCells
  <2>5. ASSUME NEW k \in DOMAIN out PROVE out[k].event \in DOMAIN sizes
    <3>1. k \in 1..Len(out) /\ Len(pipe) + k \in 1..Len(Stream)
      BY <2>2, StreamCells
    <3> QED BY <2>2, <3>1, StreamCells
  <2>6. Frames!FramingTypeOK
    BY <2>1, <2>3, <2>4, <2>5 DEF FrameTypes, Frames!FramingTypeOK
  <2>7. ~failed => received = [i \in DOMAIN received |-> i]
    <3>1. ~failed => \A i \in DOMAIN received : received[i] = i
      <4>1. ~failed => \A i \in 1..Len(received) : received[i] = i
        BY DEF FramesInv, InStep
      <4> QED BY <2>2, <4>1
    <3> QED BY <2>1, <3>1
  <2> QED BY <2>6, <2>7 DEF Frames!FirstSentFirst
<1> QED BY <1>1, <1>2, FramesStart, PTL DEF Spec
=============================================================================
