-------------------------- MODULE LoginWindowProofs --------------------------
(***************************************************************************)
(* Theorems of LoginWindow, for every set of users and every bound: what is *)
(* in the queue belongs to the attempt under way; button, list and edit    *)
(* fit one another; who is named, selected and authenticated is one user.  *)
(***************************************************************************)
EXTENDS LoginWindow, UserListWidgetProofs

Fields == {"list", "mode", "button", "shown", "input", "page", "enabled", "label",
           "prompted", "attempt", "user", "inAuth", "cancelled", "isAuth", "waiting",
           "prompts", "running", "pending", "posted"}

\* As much of the type of a record as EXCEPT needs, and that a queue is a
\* sequence: nothing here depends on the lists.
Shaped(t) == /\ DOMAIN t = Fields
             /\ t.pending \in Seq(Message)
             /\ t.attempt \in Nat

\* The part of PendingIsCurrent that every function of the window keeps.
Current(t) == /\ Shaped(t)
              /\ t.running => \A i \in 1..Len(t.pending) : t.pending[i].attempt = t.attempt
              /\ t.inAuth /\ ~t.cancelled => t.running

-----------------------------------------------------------------------------
(* The queue *)

\* A stopped queue is empty.
LEMMA StopKeepsCurrent ==
  ASSUME NEW t, NEW slip, Current(t)
  PROVE  /\ Shaped(StopDispatcher(t, slip))
         /\ StopDispatcher(t, slip).pending = <<>>
         /\ ~StopDispatcher(t, slip).running
         /\ StopDispatcher(t, slip).inAuth = t.inAuth
         /\ StopDispatcher(t, slip).cancelled = t.cancelled
BY DEF Current, Shaped, StopDispatcher, Fields

LEMMA AuthenticateIsCurrent ==
  ASSUME NEW t, NEW u, NEW slip, Current(t)
  PROVE  Current(Authenticate(t, u, slip))
<1> DEFINE q == StopDispatcher(t, slip)
           r == [q EXCEPT !.running = TRUE]
           a == [r EXCEPT
                  !.attempt = @ + 1, !.user = u, !.inAuth = TRUE, !.cancelled = FALSE,
                  !.isAuth = FALSE, !.waiting = FALSE, !.prompts = 0]
<1>1. DOMAIN q = Fields /\ q.pending = <<>> /\ q.attempt \in Nat
  BY StopKeepsCurrent DEF Shaped
<1> HIDE DEF q
<1>2. DOMAIN r = Fields /\ r.pending = <<>> /\ r.running = TRUE /\ r.attempt \in Nat
  BY <1>1 DEF Fields
<1> HIDE DEF r
<1>3. DOMAIN a = Fields /\ a.pending = <<>> /\ a.running = TRUE /\ a.attempt \in Nat
  BY <1>2 DEF Fields
<1>4. a = Authenticate(t, u, slip)
  BY DEF Authenticate, StartDispatcher, a, r, q
<1> HIDE DEF a
<1>5. Shaped(a) /\ Len(a.pending) = 0
  BY <1>2, <1>3 DEF Shaped
<1>6. \A i \in 1..Len(a.pending) : a.pending[i].attempt = a.attempt
  BY <1>5
<1> QED BY <1>3, <1>4, <1>5, <1>6 DEF Current

LEMMA CancelIfBusyIsCurrent ==
  ASSUME NEW t, NEW slip, Current(t)
  PROVE  Current(CancelIfBusy(t, slip))
<1> DEFINE c == [t EXCEPT !.cancelled = TRUE, !.waiting = FALSE]
<1>1. Current(c) /\ c.cancelled
  BY DEF Current, Shaped, Fields
<1>2. Current(StopDispatcher(c, slip))
  <2> HIDE DEF c
  <2> QED BY <1>1, StopKeepsCurrent DEF Current
<1> QED BY <1>2 DEF CancelIfBusy

-----------------------------------------------------------------------------
(* The window: what it shows is none of the queue's business *)

\* t and r differ in what the window shows at most.
SameQueue(t, r) == /\ DOMAIN r = Fields
                   /\ r.pending = t.pending /\ r.running = t.running
                   /\ r.attempt = t.attempt /\ r.inAuth = t.inAuth
                   /\ r.cancelled = t.cancelled

LEMMA SameQueueIsCurrent ==
  ASSUME NEW t, NEW r, Current(t), SameQueue(t, r)
  PROVE  Current(r)
BY DEF Current, Shaped, SameQueue

LEMMA StartAuthUserIsCurrent ==
  ASSUME NEW t, NEW u, NEW slip, Current(t)
  PROVE  Current(StartAuthUser(t, u, slip))
<1> DEFINE c == CancelIfBusy(t, slip)
           f == [c EXCEPT !.prompted = FALSE, !.label = u]
           a == [f EXCEPT !.page = "autologin"]
           e == [f EXCEPT !.page = "edit", !.enabled = FALSE]
<1>1. Current(c)
  BY CancelIfBusyIsCurrent
<1> HIDE DEF c
<1>2. DOMAIN c = Fields
  BY <1>1 DEF Current, Shaped
<1>3. SameQueue(c, a)
  BY <1>2 DEF SameQueue, Fields
<1>4. SameQueue(c, e)
  BY <1>2 DEF SameQueue, Fields
<1> HIDE DEF a, e
<1>5. Current(a) /\ Current(e)
  BY <1>1, <1>3, <1>4, SameQueueIsCurrent
<1>6. Current(Authenticate(e, u, slip))
  BY <1>5, AuthenticateIsCurrent
<1>7. StartAuthUser(t, u, slip) = IF u = conf.hint THEN a ELSE Authenticate(e, u, slip)
  BY DEF StartAuthUser, a, e, f, c
<1> QED BY <1>5, <1>6, <1>7

LEMMA UserActivatedIsCurrent ==
  ASSUME NEW t, NEW slip, Current(t)
  PROVE  Current(UserActivated(t, slip))
BY StartAuthUserIsCurrent DEF UserActivated

LEMMA ListLoginIsCurrent ==
  ASSUME NEW t, NEW slip, Current(t)
  PROVE  Current(ResetUIForUserListLogin(t, slip))
<1> DEFINE c == CancelIfBusy(t, slip)
           r == [c EXCEPT
                  !.button = "switch", !.shown = conf.noList, !.label = NoUser,
                  !.page = "edit", !.enabled = TRUE, !.mode = "list",
                  !.list = SwitchOn(@)]
<1>1. Current(c)
  BY CancelIfBusyIsCurrent
<1> HIDE DEF c
<1>2. SameQueue(c, r)
  BY <1>1 DEF Current, Shaped, SameQueue, Fields
<1> HIDE DEF r
<1>3. Current(r)
  BY <1>1, <1>2, SameQueueIsCurrent
<1>4. Current(StartAuthUser(r, r.list.sel, slip))
  BY <1>3, StartAuthUserIsCurrent
<1>5. ResetUIForUserListLogin(t, slip) =
        IF r.list.sel = NoUser THEN r ELSE StartAuthUser(r, r.list.sel, slip)
  BY DEF ResetUIForUserListLogin, r, c
<1> QED BY <1>3, <1>4, <1>5

LEMMA ManualLoginIsCurrent ==
  ASSUME NEW t, NEW slip, Current(t)
  PROVE  Current(ResetUIForManualLogin(t, slip))
<1> DEFINE c == CancelIfBusy(t, slip)
           r == [c EXCEPT
                  !.button = "return",
                  !.shown = conf.showList /\ UserCount(t.list) > 0,
                  !.label = NoUser, !.page = "edit", !.enabled = TRUE,
                  !.list = SwitchOff(@), !.mode = "manual"]
<1>1. Current(c)
  BY CancelIfBusyIsCurrent
<1>2. ResetUIForManualLogin(t, slip) = AskName(r)
  BY DEF ResetUIForManualLogin
<1> HIDE DEF c
<1>3. SameQueue(c, r)
  BY <1>1 DEF Current, Shaped, SameQueue, Fields
<1> HIDE DEF r
<1>4. SameQueue(c, AskName(r))
  BY <1>3 DEF SameQueue, AskName, Fields
<1> QED BY <1>1, <1>2, <1>4, SameQueueIsCurrent

LEMMA ShowPromptIsCurrent ==
  ASSUME NEW t, Current(t)
  PROVE  Current(ShowPrompt(t))
<1> DEFINE r == ReturnIfManual(t)
<1>1. SameQueue(t, r)
  BY DEF Current, Shaped, SameQueue, Fields, ReturnIfManual
<1> HIDE DEF r
<1>2. SameQueue(t, [r EXCEPT !.enabled = TRUE, !.input = "respond", !.prompted = TRUE])
  BY <1>1 DEF SameQueue, Fields
<1> QED BY <1>2, SameQueueIsCurrent DEF ShowPrompt, r

LEMMA FailedIsCurrent ==
  ASSUME NEW t, NEW slip, Current(t)
  PROVE  Current(Failed(t, slip))
<1>1. SameQueue(t, [t EXCEPT !.page = "reauth"])
  BY DEF Current, Shaped, SameQueue, Fields
<1>2. Current([t EXCEPT !.page = "reauth"])
  BY <1>1, SameQueueIsCurrent
<1> QED BY <1>2, StartAuthUserIsCurrent DEF Failed

LEMMA RespondIsCurrent ==
  ASSUME NEW t, Current(t)
  PROVE  Current(Respond(t))
<1>1. SameQueue(t, [t EXCEPT !.waiting = FALSE])
  BY DEF Current, Shaped, SameQueue, Fields
<1> QED BY <1>1, SameQueueIsCurrent DEF Respond

\* Whatever happens to the list, the queue is the same.
LEMMA ListIsCurrent ==
  ASSUME NEW t, NEW l, Current(t)
  PROVE  Current([t EXCEPT !.list = l])
<1>1. SameQueue(t, [t EXCEPT !.list = l])
  BY DEF Current, Shaped, SameQueue, Fields
<1> QED BY <1>1, SameQueueIsCurrent

LEMMA RowInsertedIsCurrent ==
  ASSUME NEW t, NEW us, NEW i, NEW slip, Current(t)
  PROVE  /\ Current(WindowRowInserted(t, us))
         /\ Current(ListRowInserted(t, us, i, slip))
<1>1. SameQueue(t, [t EXCEPT !.shown = TRUE])
  BY DEF Current, Shaped, SameQueue, Fields
<1>2. Current(WindowRowInserted(t, us))
  BY <1>1, SameQueueIsCurrent DEF WindowRowInserted
<1>3. Current([t EXCEPT !.list = RowInserted(Silent(@), us, i)])
  BY ListIsCurrent
<1>4. Current(ListRowInserted(t, us, i, slip))
  BY <1>3, UserActivatedIsCurrent DEF ListRowInserted
<1> QED BY <1>2, <1>4

LEMMA RowRemovedIsCurrent ==
  ASSUME NEW t, NEW us, NEW i, NEW slip, Current(t)
  PROVE  /\ Current(WindowRowRemoved(t, us, slip))
         /\ Current(ListRowRemoved(t, i, slip))
<1> DEFINE r == [t EXCEPT !.list = RowRemoved(Silent(@), i)]
<1>1. Current(WindowRowRemoved(t, us, slip))
  BY ManualLoginIsCurrent DEF WindowRowRemoved
<1>2. Current(r)
  BY ListIsCurrent
<1>3. ListRowRemoved(t, i, slip) = IF r.list.emitted = "reset"
                                   THEN ResetUIForUserListLogin(r, slip)
                                   ELSE UserActivated(r, slip)
  BY DEF ListRowRemoved
<1> HIDE DEF r
<1>4. Current(ListRowRemoved(t, i, slip))
  BY <1>2, <1>3, ListLoginIsCurrent, UserActivatedIsCurrent
<1> QED BY <1>1, <1>4

-----------------------------------------------------------------------------
(* The daemon and the dispatcher: what moves through the queue *)

\* A message of the attempt under way may be added, and the attempt may end.
LEMMA AppendIsCurrent ==
  ASSUME NEW t, NEW r, NEW m \in Message, Current(t), m.attempt = t.attempt,
         DOMAIN r = Fields, r.pending = Append(t.pending, m),
         r.running = t.running, r.attempt = t.attempt, r.cancelled = t.cancelled,
         r.inAuth => t.inAuth
  PROVE  Current(r)
<1>1. t.pending \in Seq(Message)
  BY DEF Current, Shaped
<1>2. r.pending \in Seq(Message)
  BY <1>1
<1>3. ASSUME r.running, NEW i \in 1..Len(r.pending)
      PROVE  r.pending[i].attempt = r.attempt
  <2>1. \A j \in 1..Len(t.pending) : t.pending[j].attempt = t.attempt
    BY <1>3 DEF Current
  <2>2. r.pending[i] = IF i <= Len(t.pending) THEN t.pending[i] ELSE m
    BY <1>1, <1>3
  <2>3. i <= Len(t.pending) => i \in 1..Len(t.pending)
    BY <1>1, <1>3
  <2> QED BY <2>1, <2>2, <2>3
<1>4. r.inAuth /\ ~r.cancelled => r.running
  BY DEF Current
<1> QED BY <1>2, <1>3, <1>4 DEF Current, Shaped

\* The first message may be handed over.
LEMMA TailIsCurrent ==
  ASSUME NEW t, NEW r, Current(t), t.pending # <<>>,
         DOMAIN r = Fields, r.pending = Tail(t.pending),
         r.running = t.running, r.attempt = t.attempt, r.cancelled = t.cancelled,
         r.inAuth = t.inAuth
  PROVE  Current(r)
<1>1. t.pending \in Seq(Message)
  BY DEF Current, Shaped
<1>2. r.pending \in Seq(Message) /\ Len(r.pending) = Len(t.pending) - 1
  BY <1>1
<1>3. ASSUME r.running, NEW i \in 1..Len(r.pending)
      PROVE  r.pending[i].attempt = r.attempt
  <2>1. \A j \in 1..Len(t.pending) : t.pending[j].attempt = t.attempt
    BY <1>3 DEF Current
  <2>2. r.pending[i] = t.pending[i + 1] /\ i + 1 \in 1..Len(t.pending)
    BY <1>1, <1>2, <1>3
  <2> QED BY <2>1, <2>2
<1>4. r.inAuth /\ ~r.cancelled => r.running
  BY DEF Current
<1> QED BY <1>2, <1>3, <1>4 DEF Current, Shaped

-----------------------------------------------------------------------------
(* The specification *)

LEMMA ConstructedIsCurrent ==
  ASSUME NEW us
  PROVE  Current(Constructed(us))
<1>1. DOMAIN Constructed(us) = Fields
  BY DEF Constructed, Fields
<1>2. Constructed(us).pending = <<>> /\ Constructed(us).attempt = 0
  BY DEF Constructed
<1>3. Constructed(us).inAuth = FALSE
  BY DEF Constructed
<1> QED BY <1>1, <1>2, <1>3 DEF Current, Shaped

LEMMA InitIsCurrent == LoginInit => Current(s)
<1> SUFFICES ASSUME LoginInit PROVE Current(s)
  OBVIOUS
<1>1. Current(Constructed(users))
  BY ConstructedIsCurrent
<1>2. Current(InitSettings(users))
  BY <1>1, ListLoginIsCurrent, ManualLoginIsCurrent DEF InitSettings
<1> QED BY <1>2 DEF LoginInit

LEMMA DaemonKeepsCurrent ==
  ASSUME Current(s), Prompt \/ (\E ok \in BOOLEAN : End(ok)) \/ HandOver
  PROVE  Current(s')
<1>1. CASE Prompt
  <2> DEFINE m == [kind |-> "prompt", ok |-> FALSE, attempt |-> s.attempt]
  <2>1. m \in Message /\ m.attempt = s.attempt
    BY DEF Current, Shaped, Message
  <2>2. s' = [s EXCEPT !.waiting = TRUE, !.prompts = @ + 1, !.pending = Append(@, m)]
    BY <1>1 DEF Prompt
  <2> HIDE DEF m
  <2>3. /\ DOMAIN s' = Fields /\ s'.pending = Append(s.pending, m)
        /\ s'.running = s.running /\ s'.attempt = s.attempt
        /\ s'.cancelled = s.cancelled /\ s'.inAuth = s.inAuth
    BY <2>2 DEF Current, Shaped, Fields
  <2> QED BY <2>1, <2>3, AppendIsCurrent
<1>2. ASSUME NEW ok \in BOOLEAN, End(ok)
      PROVE  Current(s')
  <2> DEFINE m == [kind |-> "complete", ok |-> ok, attempt |-> s.attempt]
  <2>1. m \in Message /\ m.attempt = s.attempt
    BY DEF Current, Shaped, Message
  <2>2. s' = [s EXCEPT !.inAuth = FALSE, !.isAuth = ok, !.waiting = FALSE,
                       !.pending = Append(@, m)]
    BY <1>2 DEF End
  <2> HIDE DEF m
  <2>3. /\ DOMAIN s' = Fields /\ s'.pending = Append(s.pending, m)
        /\ s'.running = s.running /\ s'.attempt = s.attempt
        /\ s'.cancelled = s.cancelled /\ s'.inAuth = FALSE
    BY <2>2 DEF Current, Shaped, Fields
  <2> QED BY <2>1, <2>3, AppendIsCurrent
<1>3. CASE HandOver
  <2>1. /\ DOMAIN s' = Fields /\ s'.pending = Tail(s.pending)
        /\ s'.running = s.running /\ s'.attempt = s.attempt
        /\ s'.cancelled = s.cancelled /\ s'.inAuth = s.inAuth
    BY <1>3 DEF HandOver, Current, Shaped, Fields
  <2>2. s.pending # <<>>
    BY <1>3 DEF HandOver
  <2> QED BY <2>1, <2>2, TailIsCurrent
<1> QED BY <1>1, <1>2, <1>3

LEMMA TakenIsCurrent == Current(s) => Current(Taken)
<1>1. Current(s) => SameQueue(s, Taken)
  BY DEF Current, Shaped, SameQueue, Fields, Taken
<1> QED BY <1>1, SameQueueIsCurrent

LEMMA DeliveryKeepsCurrent ==
  ASSUME Current(s), WindowStep
  PROVE  Current(s')
<1>1. Current(Taken)
  BY TakenIsCurrent
<1>2. CASE PromptArrives
  BY <1>1, <1>2, ShowPromptIsCurrent DEF PromptArrives
<1>3. CASE FailureArrives
  BY <1>1, <1>3, FailedIsCurrent DEF FailureArrives, Becomes
<1>4. CASE SuccessArrives
  BY <1>1, <1>4 DEF SuccessArrives
<1> QED BY <1>2, <1>3, <1>4 DEF WindowStep

LEMMA UserKeepsCurrent ==
  ASSUME Current(s), UserStep \/ AutologinTimerExpired
  PROVE  Current(s')
<1>1. CASE Confirm
  BY <1>1, RespondIsCurrent, StartAuthUserIsCurrent DEF Confirm, Becomes
<1>2. CASE ButtonClicked
  BY <1>2, ListLoginIsCurrent, ManualLoginIsCurrent DEF ButtonClicked, Becomes
<1>3. CASE ReAuthClicked
  BY <1>3, ListLoginIsCurrent, ManualLoginIsCurrent DEF ReAuthClicked, Becomes
<1>4. CASE AutologinClicked
  BY <1>4, AuthenticateIsCurrent DEF AutologinClicked, Becomes
<1>5. CASE AutologinTimerExpired
  BY <1>5, AuthenticateIsCurrent DEF AutologinTimerExpired, Becomes
<1>6. CASE UserClicked
  <2>1. PICK i \in 1..UserCount(s.list), slip \in Slip :
          s' = UserActivated([s EXCEPT !.list = SetCurrentRow(Silent(@), i)], slip)
    BY <1>6 DEF UserClicked, Becomes
  <2>2. Current([s EXCEPT !.list = SetCurrentRow(Silent(@), i)])
    BY ListIsCurrent
  <2> QED BY <2>1, <2>2, UserActivatedIsCurrent
<1> QED BY <1>1, <1>2, <1>3, <1>4, <1>5, <1>6 DEF UserStep

LEMMA RowsKeepCurrent ==
  ASSUME Current(s), UserAdded \/ UserRemoved
  PROVE  Current(s')
<1>1. CASE UserAdded
  <2>1. PICK i \in 1..Len(users) + 1, slip \in Slip :
          \/ s' = ListRowInserted(WindowRowInserted(s, users'), users', i, slip)
          \/ s' = WindowRowInserted(ListRowInserted(s, users', i, slip), users')
    BY <1>1 DEF UserAdded, Becomes
  <2> QED BY <2>1, RowInsertedIsCurrent
<1>2. CASE UserRemoved
  <2>1. PICK i \in 1..Len(users), slip \in Slip :
          \/ s' = ListRowRemoved(WindowRowRemoved(s, users', slip), i, slip)
          \/ s' = WindowRowRemoved(ListRowRemoved(s, i, slip), users', slip)
    BY <1>2 DEF UserRemoved, Becomes
  <2> QED BY <2>1, RowRemovedIsCurrent
<1> QED BY <1>1, <1>2

LEMMA StepKeepsCurrent ==
  ASSUME Current(s), [LoginNext]_vars
  PROVE  Current(s')
<1>1. CASE LoginNext
  BY <1>1, DaemonKeepsCurrent, DeliveryKeepsCurrent, UserKeepsCurrent, RowsKeepCurrent
     DEF LoginNext
<1>2. CASE UNCHANGED vars
  BY <1>2 DEF vars
<1> QED BY <1>1, <1>2

\* No matter how clicks, prompts, completions, timers and changes of the list
\* of users follow each other: while the dispatcher is started there is nothing
\* in its queue of an attempt before the last (AuthProxy::authenticate() resets
\* it), and an attempt that is not cancelled finds it started.
THEOREM PendingCurrent == LoginSpec => []PendingIsCurrent
<1>1. Current(s) => PendingIsCurrent
  BY DEF Current, Shaped, PendingIsCurrent, Range
<1>2. LoginInit => Current(s)
  BY InitIsCurrent
<1>3. Current(s) /\ [LoginNext]_vars => Current(s)'
  BY StepKeepsCurrent
<1> QED BY <1>1, <1>2, <1>3, PTL DEF LoginSpec
-----------------------------------------------------------------------------
(* The window: what each of its functions does *)

\* What may be in a queue when n attempts have been started.
Msgs(n) == {m \in Message : m.attempt \in 1..n}

\* The invariant in parts, of any record t on its way through the functions of
\* the window. Types, ...
Typed(t) == /\ DOMAIN t = Fields /\ ListTyped(t.list)
            /\ t.mode \in {"list", "manual"} /\ t.button \in {"switch", "return"}
            /\ t.input \in {"unset", "name", "respond"}
            /\ t.page \in {"edit", "autologin", "reauth"}
            /\ t.label \in User \cup {NoUser} /\ t.user \in User \cup {NoUser}

\* ... of the queues, too: a report is of an attempt that was started.
Queued(t) == /\ t.attempt \in Nat
             /\ t.pending \in Seq(Msgs(t.attempt)) /\ t.posted \in Seq(Msgs(t.attempt))
             /\ t.inAuth => t.attempt > 0

\* ButtonsFitMode, and in manual mode the edit has got its purpose.
Buttons(t) == /\ t.button = "switch" <=> t.mode = "list"
              /\ t.list.on <=> t.mode = "list"
              /\ t.shown /\ t.button = "return" /\ t.input = "name" => conf.showList
              /\ t.mode = "manual" => t.input # "unset"

\* What every function of the window may rely on, wherever it is called from.
Sound(t) == Typed(t) /\ Queued(t) /\ Buttons(t) /\ Selecting(t.list)

\* With a list to choose from, the edit is only open for an answer.
Editable(t) == t.mode = "list" /\ t.list.rows # <<>> /\ t.page = "edit" /\ t.enabled
                 => t.input = "respond"

\* At the edit the label names the user under authentication, or, of one who has
\* succeeded already, nobody else.
Labelled(t) == t.page = "edit" => /\ t.inAuth /\ ~t.cancelled => t.label = t.user
                                  /\ t.isAuth => t.label \in {t.user, NoUser}

\* The selection is the user of the last attempt or the autologin user, and only
\* the latter is offered the button.
Chosen(t) == t.mode = "list" /\ t.list.rows # <<>> =>
               /\ t.list.sel \in {t.user, conf.hint}
               /\ t.page = "autologin" => t.list.sel = conf.hint

\* Of two states of the window: what the user sees is the same, ...
SameLook(t, r) == /\ DOMAIN r = Fields /\ r.list = t.list /\ r.mode = t.mode
                  /\ r.button = t.button /\ r.shown = t.shown /\ r.input = t.input
                  /\ r.page = t.page /\ r.enabled = t.enabled /\ r.label = t.label
                  /\ r.prompted = t.prompted

\* ... or the attempt and the queue are.
SameAttempt(t, r) == /\ DOMAIN r = Fields /\ r.attempt = t.attempt /\ r.user = t.user
                     /\ r.inAuth = t.inAuth /\ r.cancelled = t.cancelled
                     /\ r.isAuth = t.isAuth
                     /\ r.pending = t.pending /\ r.posted = t.posted

\* An attempt more leaves the messages what they are.
LEMMA MsgsGrow ==
  ASSUME NEW n \in Nat, NEW q \in Seq(Msgs(n))
  PROVE  q \in Seq(Msgs(n + 1))
<1>1. Msgs(n) \subseteq Msgs(n + 1)
  BY DEF Msgs
<1> QED BY <1>1

LEMMA StopEffect ==
  ASSUME NEW t, DOMAIN t = Fields, Queued(t), NEW slip \in Slip
  PROVE  LET r == StopDispatcher(t, slip)
         IN  /\ SameLook(t, r) /\ Queued(r)
             /\ r.attempt = t.attempt /\ r.user = t.user /\ r.inAuth = t.inAuth
             /\ r.cancelled = t.cancelled /\ r.isAuth = t.isAuth
<1> DEFINE out == IF t.running /\ t.pending # <<>> THEN slip ELSE 0
           p == t.posted \o SubSeq(t.pending, 1, out)
           r == [t EXCEPT !.posted = p, !.pending = <<>>, !.running = FALSE]
<1>1. p \in Seq(Msgs(t.attempt))
  <2>1. out = 0 \/ (out = 1 /\ Len(t.pending) >= 1)
    BY DEF Slip, Queued
  <2>2. SubSeq(t.pending, 1, out) \in Seq(Msgs(t.attempt))
    <3> HIDE DEF out
    <3> QED BY <2>1 DEF Queued
  <2> QED BY <2>2 DEF Queued
<1>2. StopDispatcher(t, slip) = r
  BY DEF StopDispatcher
<1> HIDE DEF p
<1>3. /\ SameLook(t, r) /\ r.posted = p /\ r.pending = <<>>
      /\ r.attempt = t.attempt /\ r.user = t.user /\ r.inAuth = t.inAuth
      /\ r.cancelled = t.cancelled /\ r.isAuth = t.isAuth
  BY DEF SameLook, Fields
<1> HIDE DEF r
<1> QED BY <1>1, <1>2, <1>3 DEF Queued

LEMMA AuthenticateEffect ==
  ASSUME NEW t, DOMAIN t = Fields, Queued(t), NEW u, NEW slip \in Slip
  PROVE  LET r == Authenticate(t, u, slip)
         IN  /\ SameLook(t, r) /\ Queued(r)
             /\ r.attempt = t.attempt + 1 /\ r.user = u
             /\ r.inAuth /\ ~r.cancelled /\ ~r.isAuth
<1> DEFINE q == StopDispatcher(t, slip)
           d == [q EXCEPT !.running = TRUE]
           a == [d EXCEPT !.attempt = @ + 1, !.user = u, !.inAuth = TRUE,
                          !.cancelled = FALSE, !.isAuth = FALSE, !.waiting = FALSE,
                          !.prompts = 0]
<1>1. SameLook(t, q) /\ Queued(q) /\ q.attempt = t.attempt
  BY StopEffect
<1>2. a = Authenticate(t, u, slip)
  BY DEF Authenticate, StartDispatcher
<1> HIDE DEF q
<1>3. /\ SameLook(t, d) /\ d.attempt = q.attempt /\ d.pending = q.pending
      /\ d.posted = q.posted
  BY <1>1 DEF SameLook, Fields
<1> HIDE DEF d
<1>4. /\ SameLook(t, a) /\ a.attempt = t.attempt + 1 /\ a.user = u
      /\ a.inAuth = TRUE /\ a.cancelled = FALSE /\ a.isAuth = FALSE
      /\ a.pending = q.pending /\ a.posted = q.posted
  BY <1>1, <1>3 DEF SameLook, Fields
<1> HIDE DEF a
<1>5. Queued(a)
  <2>1. PICK n \in Nat : n = t.attempt
    BY DEF Queued
  <2>2. q.pending \in Seq(Msgs(n)) /\ q.posted \in Seq(Msgs(n))
    BY <1>1, <2>1 DEF Queued
  <2>3. q.pending \in Seq(Msgs(n + 1)) /\ q.posted \in Seq(Msgs(n + 1))
    BY <2>2, MsgsGrow
  <2>4. n + 1 \in Nat /\ n + 1 > 0
    OBVIOUS
  <2> QED BY <1>4, <2>1, <2>3, <2>4 DEF Queued
<1> QED BY <1>2, <1>4, <1>5

LEMMA CancelEffect ==
  ASSUME NEW t, DOMAIN t = Fields, Queued(t), NEW slip \in Slip
  PROVE  LET r == CancelIfBusy(t, slip)
         IN  /\ SameLook(t, r) /\ Queued(r)
             /\ r.attempt = t.attempt /\ r.user = t.user /\ r.isAuth = t.isAuth
             /\ ~(r.inAuth /\ ~r.cancelled)
<1> DEFINE c == [t EXCEPT !.cancelled = TRUE, !.waiting = FALSE]
<1>1. /\ SameLook(t, c) /\ c.attempt = t.attempt /\ c.user = t.user
      /\ c.isAuth = t.isAuth /\ c.inAuth = t.inAuth /\ c.cancelled = TRUE
      /\ c.pending = t.pending /\ c.posted = t.posted
  BY DEF SameLook, Fields
<1>2. CancelIfBusy(t, slip) = IF t.inAuth THEN StopDispatcher(c, slip) ELSE t
  BY DEF CancelIfBusy
<1> HIDE DEF c
<1>3. DOMAIN c = Fields /\ Queued(c)
  BY <1>1 DEF Queued, SameLook
<1> DEFINE r == StopDispatcher(c, slip)
<1>4. /\ SameLook(c, r) /\ Queued(r) /\ r.attempt = c.attempt /\ r.user = c.user
      /\ r.cancelled = c.cancelled /\ r.isAuth = c.isAuth
  BY <1>3, StopEffect
<1> HIDE DEF r
<1>5. SameLook(t, r)
  BY <1>1, <1>4 DEF SameLook
<1>6. CASE t.inAuth
  <2>1. CancelIfBusy(t, slip) = r
    BY <1>2, <1>6 DEF r
  <2> QED BY <1>1, <1>4, <1>5, <2>1
<1>7. CASE ~t.inAuth
  <2>1. CancelIfBusy(t, slip) = t
    BY <1>2, <1>7
  <2> QED BY <1>7, <2>1 DEF SameLook
<1> QED BY <1>6, <1>7

LEMMA StartAuthUserEffect ==
  ASSUME NEW t, DOMAIN t = Fields, Queued(t), NEW u, NEW slip \in Slip
  PROVE  LET r == StartAuthUser(t, u, slip)
         IN
         /\ DOMAIN r = Fields /\ Queued(r)
         /\ r.list = t.list /\ r.mode = t.mode /\ r.button = t.button
         /\ r.shown = t.shown /\ r.input = t.input /\ r.label = u
         /\ \/ /\ u = conf.hint /\ r.page = "autologin"
               /\ r.attempt = t.attempt /\ r.user = t.user
            \/ /\ u # conf.hint /\ r.page = "edit" /\ ~r.enabled
               /\ r.attempt = t.attempt + 1 /\ r.user = u /\ ~r.isAuth
<1> DEFINE c == CancelIfBusy(t, slip)
           f == [c EXCEPT !.prompted = FALSE, !.label = u]
           a == [f EXCEPT !.page = "autologin"]
           e == [f EXCEPT !.page = "edit", !.enabled = FALSE]
<1>1. /\ SameLook(t, c) /\ Queued(c) /\ c.attempt = t.attempt /\ c.user = t.user
  BY CancelEffect
<1>2. StartAuthUser(t, u, slip) = IF u = conf.hint THEN a ELSE Authenticate(e, u, slip)
  BY DEF StartAuthUser
<1> HIDE DEF c
<1>3. /\ SameAttempt(c, f) /\ f.label = u /\ f.list = t.list /\ f.mode = t.mode
      /\ f.button = t.button /\ f.shown = t.shown /\ f.input = t.input
  BY <1>1 DEF SameAttempt, SameLook, Fields
<1> HIDE DEF f
<1>4. /\ SameAttempt(c, a) /\ a.label = u /\ a.list = t.list /\ a.mode = t.mode
      /\ a.button = t.button /\ a.shown = t.shown /\ a.input = t.input
      /\ a.page = "autologin"
  BY <1>3 DEF SameAttempt, Fields
<1>5. /\ SameAttempt(c, e) /\ e.label = u /\ e.list = t.list /\ e.mode = t.mode
      /\ e.button = t.button /\ e.shown = t.shown /\ e.input = t.input
      /\ e.page = "edit" /\ e.enabled = FALSE
  BY <1>3 DEF SameAttempt, Fields
<1> HIDE DEF a, e
<1>6. Queued(a) /\ Queued(e)
  BY <1>1, <1>4, <1>5 DEF Queued, SameAttempt
<1>7. CASE u = conf.hint
  <2>1. StartAuthUser(t, u, slip) = a
    BY <1>2, <1>7
  <2> QED BY <1>1, <1>4, <1>6, <1>7, <2>1 DEF SameAttempt
<1>8. CASE u # conf.hint
  <2> DEFINE r == Authenticate(e, u, slip)
  <2>1. StartAuthUser(t, u, slip) = r
    BY <1>2, <1>8
  <2>2. /\ SameLook(e, r) /\ Queued(r) /\ r.attempt = e.attempt + 1 /\ r.user = u
        /\ ~r.isAuth
    <3>1. DOMAIN e = Fields
      BY <1>5 DEF SameAttempt
    <3> QED BY <1>6, <3>1, AuthenticateEffect
  <2> HIDE DEF r
  <2>3. e.attempt = t.attempt
    BY <1>1, <1>5 DEF SameAttempt
  <2> QED BY <1>5, <1>8, <2>1, <2>2, <2>3 DEF SameLook
<1> QED BY <1>7, <1>8

-----------------------------------------------------------------------------
(* ... and what it keeps of the invariant *)

LEMMA StartAuthUserKeeps ==
  ASSUME NEW t, Sound(t), NEW u \in User \cup {NoUser}, NEW slip \in Slip
  PROVE  LET r == StartAuthUser(t, u, slip)
         IN  /\ Sound(r) /\ Editable(r) /\ Labelled(r)
             /\ (t.mode = "list" /\ t.list.rows # <<>> => t.list.sel \in {u, conf.hint})
                  => Chosen(r)
             /\ r.list = t.list /\ r.mode = t.mode
             /\ r.attempt = t.attempt \/ r.attempt = t.attempt + 1
<1> DEFINE r == StartAuthUser(t, u, slip)
<1>1. /\ DOMAIN r = Fields /\ Queued(r)
      /\ r.list = t.list /\ r.mode = t.mode /\ r.button = t.button
      /\ r.shown = t.shown /\ r.input = t.input /\ r.label = u
      /\ \/ /\ u = conf.hint /\ r.page = "autologin"
            /\ r.attempt = t.attempt /\ r.user = t.user
         \/ /\ u # conf.hint /\ r.page = "edit" /\ ~r.enabled
            /\ r.attempt = t.attempt + 1 /\ r.user = u /\ ~r.isAuth
  <2>1. DOMAIN t = Fields /\ Queued(t)
    BY DEF Sound, Typed
  <2> QED BY <2>1, StartAuthUserEffect
<1> HIDE DEF r
<1>2. Sound(r)
  BY <1>1 DEF Sound, Typed, Buttons
<1>3. Editable(r) /\ Labelled(r)
  BY <1>1 DEF Editable, Labelled
<1>4. ASSUME t.mode = "list" /\ t.list.rows # <<>> => t.list.sel \in {u, conf.hint}
      PROVE  Chosen(r)
  BY <1>1, <1>4 DEF Chosen
<1> QED BY <1>1, <1>2, <1>3, <1>4 DEF r

\* Whoever the list has just activated is authenticated; if it has not, what
\* holds of the window must hold already.
LEMMA UserActivatedKeeps ==
  ASSUME NEW t, Sound(t), NEW slip \in Slip,
         t.list.emitted # "activated" => Editable(t)
  PROVE  LET r == UserActivated(t, slip)
         IN  /\ Sound(r) /\ Editable(r)
             /\ (t.list.emitted # "activated" => Labelled(t)) => Labelled(r)
             /\ (t.list.emitted # "activated" => Chosen(t)) => Chosen(r)
             /\ r.list = t.list /\ r.mode = t.mode
             /\ t.list.emitted # "activated" => r = t
<1>1. CASE t.list.emitted = "activated"
  <2>1. UserActivated(t, slip) = StartAuthUser(t, t.list.sel, slip)
    BY <1>1 DEF UserActivated
  <2>2. t.list.sel \in User \cup {NoUser}
    BY SeqRange DEF Sound, Typed, ListTyped
  <2> DEFINE r == StartAuthUser(t, t.list.sel, slip)
  <2>3. /\ Sound(r) /\ Editable(r) /\ Labelled(r) /\ Chosen(r)
        /\ r.list = t.list /\ r.mode = t.mode
    BY <2>2, StartAuthUserKeeps
  <2> HIDE DEF r
  <2> QED BY <1>1, <2>1, <2>3 DEF r
<1>2. CASE t.list.emitted # "activated"
  <2>1. UserActivated(t, slip) = t
    BY <1>2 DEF UserActivated
  <2> QED BY <1>2, <2>1
<1> QED BY <1>1, <1>2

LEMMA ListLoginKeeps ==
  ASSUME NEW t, DOMAIN t = Fields, Typed(t), Queued(t), NEW slip \in Slip
  PROVE  LET r == ResetUIForUserListLogin(t, slip)
         IN  /\ Sound(r) /\ Editable(r) /\ Labelled(r) /\ Chosen(r)
             /\ r.list.rows = t.list.rows /\ r.mode = "list"
             /\ r.attempt = t.attempt \/ r.attempt = t.attempt + 1
<1> DEFINE c == CancelIfBusy(t, slip)
           l == SwitchOn(t.list)
           w == [c EXCEPT
                  !.button = "switch", !.shown = conf.noList, !.label = NoUser,
                  !.page = "edit", !.enabled = TRUE, !.mode = "list",
                  !.list = SwitchOn(@)]
<1>1. /\ SameLook(t, c) /\ Queued(c) /\ c.user = t.user /\ ~(c.inAuth /\ ~c.cancelled)
      /\ c.attempt = t.attempt
  BY CancelEffect
<1>2. ResetUIForUserListLogin(t, slip) =
        IF w.list.sel = NoUser THEN w ELSE StartAuthUser(w, w.list.sel, slip)
  BY DEF ResetUIForUserListLogin
<1> HIDE DEF c
<1>3. /\ ListTyped(l) /\ l.rows = t.list.rows /\ l.on /\ Selecting(l)
  BY SwitchOnEffect DEF Typed
<1>4. SwitchOn(c.list) = l
  BY <1>1 DEF SameLook
<1> HIDE DEF l
<1>5. /\ SameAttempt(c, w) /\ w.button = "switch" /\ w.label = NoUser
      /\ w.page = "edit" /\ w.mode = "list" /\ w.list = l /\ w.input = t.input
  BY <1>1, <1>4 DEF SameAttempt, SameLook, Fields
<1> HIDE DEF w
<1>6. Sound(w)
  <2>1. Queued(w)
    BY <1>1, <1>5 DEF Queued, SameAttempt
  <2>2. Typed(w)
    BY <1>1, <1>3, <1>5 DEF Typed, SameAttempt
  <2>3. Buttons(w)
    BY <1>3, <1>5 DEF Buttons
  <2> QED BY <1>3, <1>5, <2>1, <2>2, <2>3 DEF Sound
<1>7. CASE w.list.sel = NoUser
  <2>1. ResetUIForUserListLogin(t, slip) = w
    BY <1>2, <1>7
  <2>2. w.list.rows = <<>>
    BY <1>3, <1>5, <1>7 DEF Selecting
  <2>3. Labelled(w)
    BY <1>1, <1>5 DEF Labelled, SameAttempt
  <2> QED BY <1>1, <1>3, <1>5, <1>6, <2>1, <2>2, <2>3 DEF Editable, Chosen, SameAttempt
<1>8. CASE w.list.sel # NoUser
  <2>1. ResetUIForUserListLogin(t, slip) = StartAuthUser(w, w.list.sel, slip)
    BY <1>2, <1>8
  <2>2. w.list.sel \in User \cup {NoUser}
    BY <1>3, <1>5, SeqRange DEF ListTyped
  <2> DEFINE r == StartAuthUser(w, w.list.sel, slip)
  <2>3. /\ Sound(r) /\ Editable(r) /\ Labelled(r) /\ Chosen(r)
        /\ r.list = w.list /\ r.mode = w.mode
        /\ r.attempt = w.attempt \/ r.attempt = w.attempt + 1
    BY <1>6, <2>2, StartAuthUserKeeps
  <2> HIDE DEF r
  <2>4. w.attempt = t.attempt
    BY <1>1, <1>5 DEF SameAttempt
  <2> QED BY <1>3, <1>5, <2>1, <2>3, <2>4 DEF r
<1> QED BY <1>7, <1>8

LEMMA ManualLoginKeeps ==
  ASSUME NEW t, Typed(t), Queued(t), NEW slip \in Slip
  PROVE  LET r == ResetUIForManualLogin(t, slip)
         IN  /\ Sound(r) /\ Editable(r) /\ Labelled(r) /\ Chosen(r)
             /\ r.list.rows = t.list.rows /\ r.mode = "manual" /\ r.attempt = t.attempt
<1> DEFINE c == CancelIfBusy(t, slip)
           l == SwitchOff(t.list)
           b == conf.showList /\ UserCount(t.list) > 0
           w == [c EXCEPT
                  !.button = "return",
                  !.shown = conf.showList /\ UserCount(t.list) > 0,
                  !.label = NoUser, !.page = "edit", !.enabled = TRUE,
                  !.list = SwitchOff(@), !.mode = "manual"]
           r == [w EXCEPT !.input = "name"]
<1>1. /\ SameLook(t, c) /\ Queued(c) /\ c.user = t.user /\ ~(c.inAuth /\ ~c.cancelled)
      /\ c.attempt = t.attempt
  BY CancelEffect DEF Typed
<1>2. ResetUIForManualLogin(t, slip) = r
  BY DEF ResetUIForManualLogin, AskName
<1> HIDE DEF c
<1>3. ListTyped(l) /\ l.rows = t.list.rows /\ ~l.on /\ Selecting(l)
  BY SwitchOffEffect DEF Typed
<1>4. SwitchOff(c.list) = l
  BY <1>1 DEF SameLook
<1> HIDE DEF l
<1>5. /\ SameAttempt(c, w) /\ w.button = "return" /\ w.label = NoUser /\ w.shown = b
      /\ w.page = "edit" /\ w.mode = "manual" /\ w.list = l
  BY <1>1, <1>4 DEF SameAttempt, SameLook, Fields
<1> HIDE DEF w
<1>6. /\ SameAttempt(c, r) /\ r.button = "return" /\ r.label = NoUser
      /\ r.page = "edit" /\ r.mode = "manual" /\ r.list = l /\ r.input = "name"
      /\ r.shown = b
  BY <1>5 DEF SameAttempt, Fields
<1>7. b => conf.showList
  OBVIOUS
<1> HIDE DEF r, b
<1>8. Queued(r)
  BY <1>1, <1>6 DEF Queued, SameAttempt
<1>9. Typed(r)
  BY <1>1, <1>3, <1>6 DEF Typed, SameAttempt
<1>10. Buttons(r)
  BY <1>3, <1>6, <1>7 DEF Buttons
<1>11. Labelled(r)
  BY <1>1, <1>6 DEF Labelled, SameAttempt
<1>12. r.attempt = t.attempt
  BY <1>1, <1>6 DEF SameAttempt
<1> QED BY <1>2, <1>3, <1>6, <1>8, <1>9, <1>10, <1>11, <1>12 DEF Sound, Editable, Chosen

LEMMA ShowPromptKeeps ==
  ASSUME NEW t, Sound(t)
  PROVE  LET r == ShowPrompt(t)
         IN  /\ Sound(r) /\ Editable(r)
             /\ Labelled(t) => Labelled(r)
             /\ Chosen(t) => Chosen(r)
             /\ r.list = t.list /\ r.mode = t.mode /\ r.attempt = t.attempt
<1> DEFINE m == ReturnIfManual(t)
           r == [m EXCEPT !.enabled = TRUE, !.input = "respond", !.prompted = TRUE]
<1>1. /\ SameAttempt(t, m) /\ m.list = t.list /\ m.mode = t.mode /\ m.page = t.page
      /\ m.button \in {"switch", "return"}
      /\ m.button = "switch" <=> m.mode = "list"
      /\ m.label \in {t.label, t.user}
  <2>1. CASE t.mode = "manual"
    <3>1. m = [t EXCEPT !.label = t.user, !.button = "return", !.shown = TRUE]
      BY <2>1 DEF ReturnIfManual
    <3> HIDE DEF m
    <3> QED BY <2>1, <3>1 DEF Sound, Typed, SameAttempt, Fields
  <2>2. CASE t.mode # "manual"
    <3>1. m = t
      BY <2>2 DEF ReturnIfManual
    <3> HIDE DEF m
    <3> QED BY <3>1 DEF Sound, Typed, Buttons, SameAttempt
  <2> QED BY <2>1, <2>2
<1> HIDE DEF m
<1>2. /\ SameAttempt(t, r) /\ r.list = t.list /\ r.mode = t.mode /\ r.page = t.page
      /\ r.button = m.button /\ r.label = m.label /\ r.input = "respond"
  BY <1>1 DEF SameAttempt, Fields
<1>3. r = ShowPrompt(t)
  BY DEF ShowPrompt, m
<1> HIDE DEF r
<1>4. Typed(r)
  BY <1>1, <1>2 DEF Sound, Typed, SameAttempt
<1>5. Queued(r)
  BY <1>2 DEF Sound, Queued, SameAttempt
<1>6. Buttons(r)
  BY <1>1, <1>2 DEF Sound, Buttons
<1>7. Labelled(t) => Labelled(r)
  BY <1>1, <1>2 DEF Labelled, SameAttempt
<1>8. Chosen(t) => Chosen(r)
  BY <1>2 DEF Chosen, SameAttempt
<1>9. r.attempt = t.attempt
  BY <1>2 DEF SameAttempt
<1> QED BY <1>2, <1>3, <1>4, <1>5, <1>6, <1>7, <1>8, <1>9 DEF Sound, Editable

LEMMA FailedKeeps ==
  ASSUME NEW t, Sound(t), NEW slip \in Slip
  PROVE  LET r == Failed(t, slip)
         IN  /\ Sound(r) /\ Editable(r) /\ Labelled(r)
             /\ Chosen(t) => Chosen(r)
             /\ r.list = t.list /\ r.mode = t.mode
<1>1. CASE t.prompted
  <2>1. Failed(t, slip) = StartAuthUser(t, t.user, slip)
    BY <1>1 DEF Failed
  <2>2. t.user \in User \cup {NoUser}
    BY DEF Sound, Typed
  <2> QED BY <2>1, <2>2, StartAuthUserKeeps DEF Chosen
<1>2. CASE ~t.prompted
  <2> DEFINE r == [t EXCEPT !.page = "reauth"]
  <2>1. Failed(t, slip) = r
    BY <1>2 DEF Failed
  <2>2. /\ SameAttempt(t, r) /\ r.list = t.list /\ r.mode = t.mode /\ r.button = t.button
        /\ r.shown = t.shown /\ r.input = t.input /\ r.label = t.label /\ r.page = "reauth"
    BY DEF Sound, Typed, SameAttempt, Fields
  <2> HIDE DEF r
  <2>3. Typed(r) /\ Buttons(r)
    BY <2>2 DEF Sound, Typed, Buttons, SameAttempt
  <2>4. Queued(r)
    BY <2>2 DEF Sound, Queued, SameAttempt
  <2> QED BY <2>1, <2>2, <2>3, <2>4 DEF Sound, Editable, Labelled, Chosen, SameAttempt
<1> QED BY <1>1, <1>2

-----------------------------------------------------------------------------
(* Rows that come and go, in the list and in the window *)

\* A list that is sound and as enabled as before may take the place of the list.
LEMMA ListStepKeeps ==
  ASSUME NEW t, Typed(t), Queued(t), Buttons(t),
         NEW l, ListTyped(l), Selecting(l), l.on = t.list.on
  PROVE  LET r == [t EXCEPT !.list = l]
         IN  /\ Sound(r) /\ r.list = l /\ r.mode = t.mode /\ SameAttempt(t, r)
             /\ r.page = t.page /\ r.enabled = t.enabled /\ r.input = t.input
             /\ r.label = t.label
<1> DEFINE r == [t EXCEPT !.list = l]
<1>1. /\ SameAttempt(t, r) /\ r.list = l /\ r.mode = t.mode /\ r.button = t.button
      /\ r.shown = t.shown /\ r.input = t.input /\ r.label = t.label /\ r.page = t.page
      /\ r.enabled = t.enabled
  BY DEF Typed, SameAttempt, Fields
<1> HIDE DEF r
<1>2. Typed(r)
  BY <1>1 DEF Typed, SameAttempt
<1>3. Queued(r)
  BY <1>1 DEF Queued, SameAttempt
<1>4. Buttons(r)
  BY <1>1 DEF Buttons
<1> QED BY <1>1, <1>2, <1>3, <1>4 DEF r, Sound

LEMMA ListRowInsertedKeeps ==
  ASSUME NEW t, Sound(t), Editable(t), NEW i \in 1..Len(t.list.rows) + 1,
         NEW us, us[i] \in User, NEW slip \in Slip
  PROVE  LET r == ListRowInserted(t, us, i, slip)
         IN  /\ Sound(r) /\ Editable(r)
             /\ Labelled(t) => Labelled(r)
             /\ Chosen(t) => Chosen(r)
             /\ r.list.rows = InsertAt(t.list.rows, i, us[i])
             /\ r.mode = t.mode
             /\ t.mode = "manual" => /\ r.attempt = t.attempt /\ r.label = t.label
                                     /\ r.input = t.input
<1> DEFINE k == Silent(t.list)
           l == RowInserted(k, us, i)
           m == [t EXCEPT !.list = l]
           r == UserActivated(m, slip)
<1>1. ListRowInserted(t, us, i, slip) = r
  BY DEF ListRowInserted
<1>2. /\ ListTyped(k) /\ k.emitted = "none" /\ k.rows = t.list.rows /\ k.sel = t.list.sel
      /\ k.on = t.list.on
  BY SilentEffect DEF Sound, Typed
<1>3. Selecting(k)
  BY <1>2 DEF Sound, Selecting
<1> HIDE DEF k
<1>4. /\ ListTyped(l) /\ Selecting(l) /\ l.on = k.on
      /\ l.rows = InsertAt(k.rows, i, us[i]) /\ l.rows # <<>>
      /\ \/ l.emitted = "activated" /\ k.on /\ l.sel \in User
         \/ l.emitted = "none" /\ l.sel = k.sel /\ (k.on => k.rows # <<>>)
  BY <1>2, <1>3, RowInsertedEffect
<1> HIDE DEF l
<1>5. /\ Sound(m) /\ m.list = l /\ m.mode = t.mode /\ SameAttempt(t, m)
      /\ m.page = t.page /\ m.enabled = t.enabled /\ m.input = t.input /\ m.label = t.label
  BY <1>2, <1>4, ListStepKeeps DEF Sound
<1> HIDE DEF m
<1>6. l.emitted # "activated" => Editable(m)
  BY <1>2, <1>4, <1>5 DEF Editable, Sound, Buttons
<1>7. /\ Sound(r) /\ Editable(r)
      /\ (m.list.emitted # "activated" => Labelled(m)) => Labelled(r)
      /\ (m.list.emitted # "activated" => Chosen(m)) => Chosen(r)
      /\ r.list = m.list /\ r.mode = m.mode
      /\ m.list.emitted # "activated" => r = m
  BY <1>5, <1>6, UserActivatedKeeps
<1> HIDE DEF r
<1>8. Labelled(t) => Labelled(m)
  BY <1>5 DEF Labelled, SameAttempt
<1>9. Chosen(t) => (l.emitted # "activated" => Chosen(m))
  BY <1>2, <1>4, <1>5 DEF Chosen, SameAttempt, Sound, Buttons
<1>10. t.mode = "manual" => l.emitted # "activated"
  BY <1>2, <1>4 DEF Sound, Buttons
<1>11. t.mode = "manual" => /\ r.attempt = t.attempt /\ r.label = t.label
                            /\ r.input = t.input
  BY <1>5, <1>7, <1>10 DEF SameAttempt
<1> QED BY <1>1, <1>2, <1>4, <1>5, <1>7, <1>8, <1>9, <1>11

LEMMA ListRowRemovedKeeps ==
  ASSUME NEW t, Sound(t), Editable(t), NEW i \in 1..Len(t.list.rows), NEW slip \in Slip
  PROVE  LET r == ListRowRemoved(t, i, slip)
         IN  /\ Sound(r) /\ Editable(r)
             /\ Labelled(t) => Labelled(r)
             /\ Chosen(t) => Chosen(r)
             /\ r.list.rows = RemoveAt(t.list.rows, i)
             /\ r.mode = t.mode
             /\ t.mode = "manual" => /\ r.attempt = t.attempt /\ r.label = t.label
                                     /\ r.input = t.input
<1> DEFINE k == Silent(t.list)
           l == RowRemoved(k, i)
           m == [t EXCEPT !.list = l]
<1>1. ListRowRemoved(t, i, slip) =
        IF m.list.emitted = "reset" THEN ResetUIForUserListLogin(m, slip)
                                   ELSE UserActivated(m, slip)
  BY DEF ListRowRemoved
<1>2. /\ ListTyped(k) /\ k.emitted = "none" /\ k.rows = t.list.rows /\ k.sel = t.list.sel
      /\ k.on = t.list.on
  BY SilentEffect DEF Sound, Typed
<1>3. Selecting(k)
  BY <1>2 DEF Sound, Selecting
<1> HIDE DEF k
<1>4. /\ ListTyped(l) /\ Selecting(l) /\ l.on = k.on
      /\ l.rows = RemoveAt(k.rows, i)
      /\ \/ l.emitted = "activated" /\ k.on /\ l.sel \in User /\ l.rows # <<>>
         \/ l.emitted = "reset" /\ k.on /\ l.sel = NoUser /\ l.rows = <<>>
         \/ l.emitted = "none" /\ (k.on => l.sel = k.sel)
  BY <1>2, <1>3, RowRemovedEffect
<1> HIDE DEF l
<1>5. /\ Sound(m) /\ m.list = l /\ m.mode = t.mode /\ SameAttempt(t, m)
      /\ m.page = t.page /\ m.enabled = t.enabled /\ m.input = t.input /\ m.label = t.label
  BY <1>2, <1>4, ListStepKeeps DEF Sound
<1> HIDE DEF m
<1>6. t.list.rows # <<>>
  BY DEF Sound, Typed, ListTyped
<1>7. CASE l.emitted = "reset"
  <2> DEFINE r == ResetUIForUserListLogin(m, slip)
  <2>1. ListRowRemoved(t, i, slip) = r
    BY <1>1, <1>5, <1>7
  <2>2. /\ Sound(r) /\ Editable(r) /\ Labelled(r) /\ Chosen(r)
        /\ r.list.rows = m.list.rows /\ r.mode = "list"
    BY <1>5, ListLoginKeeps DEF Sound, Typed
  <2> HIDE DEF r
  <2>3. t.mode = "list"
    BY <1>2, <1>4, <1>7 DEF Sound, Buttons
  <2> QED BY <1>2, <1>4, <1>5, <2>1, <2>2, <2>3
<1>8. CASE l.emitted # "reset"
  <2> DEFINE r == UserActivated(m, slip)
  <2>1. ListRowRemoved(t, i, slip) = r
    BY <1>1, <1>5, <1>8
  <2>2. l.emitted # "activated" => Editable(m)
    BY <1>5, <1>6 DEF Editable
  <2>3. /\ Sound(r) /\ Editable(r)
        /\ (m.list.emitted # "activated" => Labelled(m)) => Labelled(r)
        /\ (m.list.emitted # "activated" => Chosen(m)) => Chosen(r)
        /\ r.list = m.list /\ r.mode = m.mode
        /\ m.list.emitted # "activated" => r = m
    BY <1>5, <2>2, UserActivatedKeeps
  <2> HIDE DEF r
  <2>4. Labelled(t) => Labelled(m)
    BY <1>5 DEF Labelled, SameAttempt
  <2>5. Chosen(t) => (l.emitted # "activated" => Chosen(m))
    BY <1>2, <1>4, <1>5, <1>6, <1>8 DEF Chosen, SameAttempt, Sound, Buttons
  <2>6. t.mode = "manual" => l.emitted # "activated"
    BY <1>2, <1>4 DEF Sound, Buttons
  <2>7. t.mode = "manual" => /\ r.attempt = t.attempt /\ r.label = t.label
                             /\ r.input = t.input
    BY <1>5, <2>3, <2>6 DEF SameAttempt
  <2> QED BY <1>2, <1>4, <1>5, <2>1, <2>3, <2>4, <2>5, <2>7
<1> QED BY <1>7, <1>8

LEMMA WindowRowInsertedKeeps ==
  ASSUME NEW t, Sound(t), Editable(t), NEW us
  PROVE  LET r == WindowRowInserted(t, us)
         IN  /\ Sound(r) /\ Editable(r)
             /\ Labelled(t) => Labelled(r)
             /\ Chosen(t) => Chosen(r)
             /\ r.list = t.list /\ r.mode = t.mode
             /\ r.attempt = t.attempt /\ r.label = t.label /\ r.input = t.input
<1> DEFINE w == [t EXCEPT !.shown = TRUE]
<1>1. /\ SameAttempt(t, w) /\ w.list = t.list /\ w.mode = t.mode /\ w.button = t.button
      /\ w.input = t.input /\ w.label = t.label /\ w.page = t.page /\ w.enabled = t.enabled
  BY DEF Sound, Typed, SameAttempt, Fields
<1>2. \/ WindowRowInserted(t, us) = w /\ conf.showList
      \/ WindowRowInserted(t, us) = t
  BY DEF WindowRowInserted
<1> HIDE DEF w
<1>3. ASSUME conf.showList
      PROVE  Sound(w)
  <2>1. Typed(w)
    BY <1>1 DEF Sound, Typed, SameAttempt
  <2>2. Queued(w)
    BY <1>1 DEF Sound, Queued, SameAttempt
  <2>3. Buttons(w)
    BY <1>1, <1>3 DEF Sound, Buttons
  <2> QED BY <1>1, <2>1, <2>2, <2>3 DEF Sound
<1>4. Editable(w)
  BY <1>1 DEF Editable
<1>5. (Labelled(t) => Labelled(w)) /\ (Chosen(t) => Chosen(w))
  BY <1>1 DEF Labelled, Chosen, SameAttempt
<1>6. CASE WindowRowInserted(t, us) = w /\ conf.showList
  BY <1>1, <1>3, <1>4, <1>5, <1>6 DEF SameAttempt
<1>7. CASE WindowRowInserted(t, us) = t
  BY <1>7
<1> QED BY <1>2, <1>6, <1>7

LEMMA WindowRowRemovedKeeps ==
  ASSUME NEW t, Sound(t), Editable(t), NEW us, NEW slip \in Slip
  PROVE  LET r == WindowRowRemoved(t, us, slip)
         IN  /\ Sound(r) /\ Editable(r)
             /\ Labelled(t) => Labelled(r)
             /\ Chosen(t) => Chosen(r)
             /\ r.list.rows = t.list.rows
             /\ us # <<>> => r = t
<1>1. CASE us = <<>>
  <2>1. WindowRowRemoved(t, us, slip) = ResetUIForManualLogin(t, slip)
    BY <1>1 DEF WindowRowRemoved
  <2> QED BY <1>1, <2>1, ManualLoginKeeps DEF Sound
<1>2. CASE us # <<>>
  <2>1. WindowRowRemoved(t, us, slip) = t
    BY <1>2 DEF WindowRowRemoved
  <2> QED BY <2>1
<1> QED BY <1>1, <1>2

-----------------------------------------------------------------------------
(* The invariant, and the steps that keep it *)

\* Between two events of the GUI thread. Once the autologin timer has started an
\* attempt of its own, label and selection may be anybody's.
WInv == /\ conf \in Settings
        /\ Sound(s) /\ Editable(s)
        /\ users \in Seq(User) /\ s.list.rows = users
        /\ timer # "expired" => Labelled(s) /\ Chosen(s)

\* conf never changes, so that what holds of s' with it holds in the next state.
LEMMA CarriesOver ==
  ASSUME conf \in Settings, conf' = conf, Sound(s'), Editable(s'),
         users' \in Seq(User), s'.list.rows = users',
         timer' # "expired" => Labelled(s') /\ Chosen(s')
  PROVE  WInv'
BY DEF WInv, Sound, Typed, Queued, Buttons, Selecting, Editable, Labelled, Chosen

LEMMA HintTyped == conf \in Settings => conf.hint \in User \cup {NoUser}
BY LoginAssumption DEF Settings

LEMMA SameLookKeeps ==
  ASSUME NEW t, Sound(t), Editable(t), NEW r, SameLook(t, r), r.user = t.user, Queued(r)
  PROVE  /\ Sound(r) /\ Editable(r) /\ r.list = t.list
         /\ Chosen(t) => Chosen(r)
<1>1. Typed(r) /\ Buttons(r)
  BY DEF Sound, Typed, Buttons, SameLook
<1>2. Editable(r) /\ (Chosen(t) => Chosen(r))
  BY DEF Editable, Chosen, SameLook
<1> QED BY <1>1, <1>2 DEF Sound, SameLook

LEMMA ConstructedSound ==
  ASSUME NEW us \in Seq(User)
  PROVE  Typed(Constructed(us)) /\ Queued(Constructed(us))
         /\ Constructed(us).list.rows = us
<1> DEFINE k == [rows |-> us, sel |-> NoUser,
                      on |-> TRUE, several |-> FALSE, emitted |-> "none"]
           c == Constructed(us)
<1>1. ListTyped(k) /\ k.rows = us
  BY DEF ListTyped, ListFields, Signal
<1>2. LoadUserList(us) = ShowIfSeveral(k)
  BY DEF LoadUserList
<1> HIDE DEF k
<1>3. ListTyped(LoadUserList(us)) /\ LoadUserList(us).rows = us
  BY <1>1, <1>2, ShowIfSeveralEffect
<1>4. /\ DOMAIN c = Fields /\ c.list = LoadUserList(us) /\ c.mode = "list"
      /\ c.button = "switch" /\ c.input = "unset" /\ c.page = "edit" /\ c.label = NoUser
      /\ c.user = NoUser /\ c.attempt = 0 /\ ~c.inAuth /\ c.pending = <<>> /\ c.posted = <<>>
  BY DEF Constructed, Fields
<1> HIDE DEF c
<1>5. Typed(c) /\ c.list.rows = us
  BY <1>3, <1>4 DEF Typed
<1>6. Queued(c)
  BY <1>4 DEF Queued
<1> QED BY <1>5, <1>6 DEF c

LEMMA InitWInv == LoginInit => WInv
<1> SUFFICES ASSUME LoginInit PROVE WInv
  OBVIOUS
<1>1. users \in Seq(User)
  <2>1. PICK n \in 0..2 : users \in [1..n -> User]
    BY DEF LoginInit, SeqOf
  <2>2. n \in Nat
    OBVIOUS
  <2> QED BY <2>1, <2>2
<1> DEFINE c == Constructed(users)
<1>2. Typed(c) /\ Queued(c) /\ c.list.rows = users
  BY <1>1, ConstructedSound
<1>3. s = ResetUIForUserListLogin(c, 0) \/ s = ResetUIForManualLogin(c, 0)
  BY DEF LoginInit, InitSettings
<1> HIDE DEF c
<1>4. 0 \in Slip
  BY DEF Slip
<1>5. CASE s = ResetUIForUserListLogin(c, 0)
  BY <1>1, <1>2, <1>4, <1>5, ListLoginKeeps DEF Typed, WInv, LoginInit
<1>6. CASE s = ResetUIForManualLogin(c, 0)
  BY <1>1, <1>2, <1>4, <1>6, ManualLoginKeeps DEF WInv, LoginInit
<1> QED BY <1>3, <1>5, <1>6

LEMMA DaemonKeepsWInv ==
  ASSUME WInv, Prompt \/ (\E ok \in BOOLEAN : End(ok)) \/ HandOver
  PROVE  WInv'
<1> DEFINE M == Msgs(s.attempt)
<1>0. /\ Sound(s) /\ Editable(s) /\ DOMAIN s = Fields /\ Queued(s)
      /\ s.pending \in Seq(M) /\ s.posted \in Seq(M) /\ s.attempt \in Nat
      /\ s.inAuth => s.attempt \in 1..s.attempt
  BY DEF WInv, Sound, Typed, Queued
<1>1. SUFFICES /\ SameLook(s, s') /\ s'.user = s.user /\ Queued(s')
               /\ conf' = conf /\ users' = users /\ timer' = timer
               /\ Labelled(s) => Labelled(s')
  <2>1. Sound(s') /\ Editable(s') /\ s'.list = s.list /\ (Chosen(s) => Chosen(s'))
    BY <1>0, <1>1, SameLookKeeps
  <2> QED BY <1>1, <2>1, CarriesOver DEF WInv
<1>2. CASE Prompt
  <2> DEFINE m == [kind |-> "prompt", ok |-> FALSE, attempt |-> s.attempt]
  <2>1. m \in M
    BY <1>0, <1>2 DEF Prompt, Msgs, Message
  <2>2. s' = [s EXCEPT !.waiting = TRUE, !.prompts = @ + 1, !.pending = Append(@, m)]
    BY <1>2 DEF Prompt
  <2> HIDE DEF m
  <2>3. /\ SameLook(s, s') /\ s'.user = s.user /\ s'.pending = Append(s.pending, m)
        /\ s'.posted = s.posted /\ s'.attempt = s.attempt /\ s'.inAuth = s.inAuth
        /\ s'.cancelled = s.cancelled /\ s'.isAuth = s.isAuth
    BY <1>0, <2>2 DEF SameLook, Fields
  <2>4. Append(s.pending, m) \in Seq(M)
    BY <1>0, <2>1
  <2>5. Queued(s')
    BY <1>0, <2>3, <2>4 DEF Queued
  <2>6. Labelled(s) => Labelled(s')
    BY <2>3 DEF Labelled, SameLook
  <2> QED BY <1>2, <2>3, <2>5, <2>6 DEF Prompt, Env
<1>3. ASSUME NEW ok \in BOOLEAN, End(ok)
      PROVE  /\ SameLook(s, s') /\ s'.user = s.user /\ Queued(s')
             /\ conf' = conf /\ users' = users /\ timer' = timer
             /\ Labelled(s) => Labelled(s')
  <2> DEFINE m == [kind |-> "complete", ok |-> ok, attempt |-> s.attempt]
  <2>1. m \in M
    BY <1>0, <1>3 DEF End, Msgs, Message
  <2>2. s' = [s EXCEPT !.inAuth = FALSE, !.isAuth = ok, !.waiting = FALSE,
                       !.pending = Append(@, m)]
    BY <1>3 DEF End
  <2> HIDE DEF m
  <2>3. /\ SameLook(s, s') /\ s'.user = s.user /\ s'.pending = Append(s.pending, m)
        /\ s'.posted = s.posted /\ s'.attempt = s.attempt /\ s'.inAuth = FALSE
        /\ s'.isAuth = ok
    BY <1>0, <2>2 DEF SameLook, Fields
  <2>4. Append(s.pending, m) \in Seq(M)
    BY <1>0, <2>1
  <2>5. Queued(s')
    BY <1>0, <2>3, <2>4 DEF Queued
  <2>6. ok => s.inAuth /\ ~s.cancelled
    BY <1>3 DEF End
  <2>7. Labelled(s) => Labelled(s')
    BY <2>3, <2>6 DEF Labelled, SameLook
  <2> QED BY <1>3, <2>3, <2>5, <2>7 DEF End, Env
<1>4. CASE HandOver
  <2>1. /\ SameLook(s, s') /\ s'.user = s.user /\ s'.pending = Tail(s.pending)
        /\ s'.posted = Append(s.posted, Head(s.pending)) /\ s'.attempt = s.attempt
        /\ s'.inAuth = s.inAuth /\ s'.cancelled = s.cancelled /\ s'.isAuth = s.isAuth
    BY <1>0, <1>4 DEF HandOver, SameLook, Fields
  <2>2. s.pending # <<>>
    BY <1>4 DEF HandOver
  <2>3. Tail(s.pending) \in Seq(M) /\ Head(s.pending) \in M
    <3> HIDE DEF M
    <3> QED BY <1>0, <2>2
  <2>4. Append(s.posted, Head(s.pending)) \in Seq(M)
    BY <1>0, <2>3
  <2>5. Queued(s')
    BY <1>0, <2>1, <2>3, <2>4 DEF Queued
  <2>6. Labelled(s) => Labelled(s')
    BY <2>1 DEF Labelled, SameLook
  <2> QED BY <1>4, <2>1, <2>5, <2>6 DEF HandOver, Env
<1> QED BY <1>2, <1>3, <1>4

LEMMA TakenSound ==
  ASSUME Sound(s), Editable(s), s.posted # <<>>
  PROVE  /\ Sound(Taken) /\ Editable(Taken) /\ Taken.list = s.list /\ Taken.mode = s.mode
         /\ Labelled(s) => Labelled(Taken)
         /\ Chosen(s) => Chosen(Taken)
         /\ Taken.attempt = s.attempt /\ SameLook(s, Taken)
<1> DEFINE M == Msgs(s.attempt)
<1>1. s.pending \in Seq(M) /\ s.posted \in Seq(M) /\ DOMAIN s = Fields
  BY DEF Sound, Typed, Queued
<1>2. Tail(s.posted) \in Seq(M)
  <2> HIDE DEF M
  <2> QED BY <1>1
<1>3. /\ SameLook(s, Taken) /\ Taken.user = s.user /\ Taken.posted = Tail(s.posted)
      /\ Taken.pending = s.pending /\ Taken.attempt = s.attempt /\ Taken.inAuth = s.inAuth
      /\ Taken.cancelled = s.cancelled /\ Taken.isAuth = s.isAuth
  BY <1>1 DEF Taken, SameLook, Fields
<1>4. Queued(Taken)
  BY <1>1, <1>2, <1>3 DEF Sound, Queued
<1>5. /\ Sound(Taken) /\ Editable(Taken) /\ Taken.list = s.list
      /\ Chosen(s) => Chosen(Taken)
  BY <1>3, <1>4, SameLookKeeps
<1>6. Labelled(s) => Labelled(Taken)
  BY <1>3 DEF Labelled, SameLook
<1> QED BY <1>3, <1>5, <1>6 DEF SameLook

LEMMA DeliveryKeepsWInv ==
  ASSUME WInv, WindowStep
  PROVE  WInv' /\ (PromptArrives \/ SuccessArrives => s'.attempt = s.attempt)
<1>1. Sound(s) /\ Editable(s) /\ s.posted # <<>>
  BY DEF WInv, WindowStep, PromptArrives, FailureArrives, SuccessArrives
<1>2. /\ Sound(Taken) /\ Editable(Taken) /\ Taken.list = s.list /\ Taken.mode = s.mode
      /\ Labelled(s) => Labelled(Taken)
      /\ Chosen(s) => Chosen(Taken)
      /\ Taken.attempt = s.attempt
  BY <1>1, TakenSound
<1>3. conf' = conf /\ users' = users /\ timer' = timer
  BY DEF WindowStep, PromptArrives, FailureArrives, SuccessArrives
<1>4. SUFFICES /\ Sound(s') /\ Editable(s') /\ s'.list = s.list
               /\ Labelled(s) => Labelled(s')
               /\ Chosen(s) => Chosen(s')
               /\ PromptArrives \/ SuccessArrives => s'.attempt = s.attempt
  BY <1>3, <1>4, CarriesOver DEF WInv
<1>5. CASE PromptArrives
  BY <1>2, <1>5, ShowPromptKeeps DEF PromptArrives
<1>6. CASE FailureArrives
  <2>1. PICK slip \in Slip : s' = Failed(Taken, slip)
    BY <1>6 DEF FailureArrives, Becomes
  <2>2. ~PromptArrives /\ ~SuccessArrives
    BY <1>6 DEF PromptArrives, SuccessArrives, FailureArrives
  <2> QED BY <1>2, <2>1, <2>2, FailedKeeps
<1>7. CASE SuccessArrives
  BY <1>2, <1>7 DEF SuccessArrives
<1> QED BY <1>5, <1>6, <1>7 DEF WindowStep

LEMMA ConfirmKeepsWInv ==
  ASSUME WInv, Confirm
  PROVE  WInv'
<1>1. Sound(s) /\ Editable(s)
  BY DEF WInv
<1>2. conf' = conf /\ users' = users /\ timer' = timer
  BY DEF Confirm
<1>3. CASE s' = Respond(s)
  <2> DEFINE w == [s EXCEPT !.waiting = FALSE]
  <2>1. SameLook(s, w) /\ SameAttempt(s, w)
    BY <1>1 DEF Sound, Typed, SameLook, SameAttempt, Fields
  <2>2. s' = w \/ s' = s
    BY <1>3 DEF Respond
  <2> HIDE DEF w
  <2>3. SameLook(s, s') /\ SameAttempt(s, s')
    BY <1>1, <2>1, <2>2 DEF SameLook, SameAttempt, Sound, Typed
  <2>4. Queued(s')
    BY <1>1, <2>3 DEF Sound, Queued, SameAttempt
  <2>5. Sound(s') /\ Editable(s') /\ s'.list = s.list /\ (Chosen(s) => Chosen(s'))
    BY <1>1, <2>3, <2>4, SameLookKeeps DEF SameAttempt
  <2>6. Labelled(s) => Labelled(s')
    BY <2>3 DEF Labelled, SameLook, SameAttempt
  <2> QED BY <1>2, <2>5, <2>6, CarriesOver DEF WInv
<1>4. ASSUME NEW u \in User, NEW slip \in Slip, s' = StartAuthUser(s, u, slip),
             s.page = "edit", s.enabled, s.input # "respond"
      PROVE  WInv'
  <2>1. s.mode = "list" => s.list.rows = <<>>
    BY <1>1, <1>4 DEF Editable
  <2>2. /\ Sound(s') /\ Editable(s') /\ Labelled(s') /\ Chosen(s') /\ s'.list = s.list
    BY <1>1, <1>4, <2>1, StartAuthUserKeeps
  <2> QED BY <1>2, <2>2, CarriesOver DEF WInv
<1> QED BY <1>3, <1>4 DEF Confirm, Becomes

LEMMA UserKeepsWInv ==
  ASSUME WInv, UserStep
  PROVE  WInv'
<1>1. Sound(s) /\ Editable(s) /\ Typed(s) /\ Queued(s) /\ DOMAIN s = Fields
  BY DEF WInv, Sound, Typed
<1>2. conf' = conf /\ users' = users /\ timer' = timer
  BY DEF UserStep, Confirm, ButtonClicked, ReAuthClicked, AutologinClicked, UserClicked
<1>3. ASSUME NEW slip \in Slip,
             \/ s' = ResetUIForUserListLogin(s, slip)
             \/ s' = ResetUIForManualLogin(s, slip)
      PROVE  WInv'
  <2>1. Sound(s') /\ Editable(s') /\ Labelled(s') /\ Chosen(s') /\ s'.list.rows = s.list.rows
    <3>1. CASE s' = ResetUIForUserListLogin(s, slip)
      BY <1>1, <3>1, ListLoginKeeps
    <3>2. CASE s' = ResetUIForManualLogin(s, slip)
      BY <1>1, <3>2, ManualLoginKeeps
    <3> QED BY <1>3, <3>1, <3>2
  <2> QED BY <1>2, <2>1, CarriesOver DEF WInv
<1>4. CASE Confirm
  BY <1>4, ConfirmKeepsWInv
<1>5. CASE ButtonClicked
  BY <1>3, <1>5 DEF ButtonClicked, Becomes
<1>6. CASE ReAuthClicked
  BY <1>3, <1>6 DEF ReAuthClicked, Becomes
<1>7. CASE AutologinClicked
  <2>1. PICK slip \in Slip : s' = Authenticate(s, conf.hint, slip)
    BY <1>7 DEF AutologinClicked, Becomes
  <2>2. s.page = "autologin"
    BY <1>7 DEF AutologinClicked
  <2> DEFINE r == Authenticate(s, conf.hint, slip)
  <2>3. /\ SameLook(s, r) /\ Queued(r) /\ r.user = conf.hint
    BY <1>1, AuthenticateEffect
  <2> HIDE DEF r
  <2>4. s' = r
    BY <2>1 DEF r
  <2>5. Typed(s') /\ Buttons(s') /\ Selecting(s'.list)
    BY <1>1, <2>3, <2>4, HintTyped DEF WInv, Sound, Typed, Buttons, SameLook
  <2>6. Editable(s') /\ Labelled(s') /\ s'.list = s.list
    BY <2>2, <2>3, <2>4 DEF Editable, Labelled, SameLook
  <2>7. Chosen(s) => Chosen(s')
    BY <2>2, <2>3, <2>4 DEF Chosen, SameLook
  <2> QED BY <1>2, <2>3, <2>4, <2>5, <2>6, <2>7, CarriesOver DEF WInv, Sound
<1>8. CASE UserClicked
  <2>1. PICK i \in 1..UserCount(s.list), slip \in Slip :
          s' = UserActivated([s EXCEPT !.list = SetCurrentRow(Silent(@), i)], slip)
    BY <1>8 DEF UserClicked, Becomes
  <2> DEFINE k == Silent(s.list)
             l == SetCurrentRow(k, i)
             m == [s EXCEPT !.list = l]
  <2>2. /\ ListTyped(k) /\ k.emitted = "none" /\ k.rows = s.list.rows /\ k.sel = s.list.sel
        /\ k.on = s.list.on
    BY <1>1, SilentEffect DEF Typed
  <2>3. i \in Nat \ {0} /\ Len(k.rows) >= i
    BY <1>1, <2>2 DEF UserCount, Typed, ListTyped
  <2> HIDE DEF k
  <2>4. /\ ListTyped(l) /\ l.rows = k.rows /\ l.on = k.on /\ l.sel \in User
        /\ (l = k \/ l.emitted = "activated")
    BY <2>2, <2>3, SetCurrentRowEffect
  <2> HIDE DEF l
  <2>5. Selecting(l)
    BY <2>4, UserAssumption DEF Selecting
  <2>6. /\ Sound(m) /\ m.list = l /\ m.mode = s.mode /\ SameAttempt(s, m)
        /\ m.page = s.page /\ m.enabled = s.enabled /\ m.input = s.input
        /\ m.label = s.label
    BY <1>1, <2>2, <2>4, <2>5, ListStepKeeps DEF Sound
  <2>7. s' = UserActivated(m, slip)
    BY <2>1 DEF m, l, k
  <2> HIDE DEF m
  <2>8. m.list.emitted # "activated" => Editable(m) /\ (Chosen(s) => Chosen(m))
    BY <1>1, <2>2, <2>4, <2>6 DEF Editable, Chosen, SameAttempt
  <2>9. Labelled(s) => Labelled(m)
    BY <2>6 DEF Labelled, SameAttempt
  <2>10. /\ Sound(s') /\ Editable(s') /\ s'.list = m.list
         /\ Labelled(s) => Labelled(s')
         /\ Chosen(s) => Chosen(s')
    BY <2>6, <2>7, <2>8, <2>9, UserActivatedKeeps
  <2> QED BY <1>2, <2>2, <2>4, <2>6, <2>10, CarriesOver DEF WInv
<1> QED BY <1>4, <1>5, <1>6, <1>7, <1>8 DEF UserStep

LEMMA RowsKeepWInv ==
  ASSUME WInv, UserAdded \/ UserRemoved
  PROVE  /\ WInv'
         /\ s.mode = "manual" /\ users' # <<>> =>
              /\ s'.attempt = s.attempt /\ s'.label = s.label /\ s'.input = s.input
              /\ s'.mode = "manual"
<1>1. Sound(s) /\ Editable(s) /\ users \in Seq(User) /\ s.list.rows = users
  BY DEF WInv
<1>2. conf' = conf /\ timer' = timer
  BY DEF UserAdded, UserRemoved
<1>3. SUFFICES /\ Sound(s') /\ Editable(s') /\ users' \in Seq(User) /\ s'.list.rows = users'
               /\ Labelled(s) => Labelled(s')
               /\ Chosen(s) => Chosen(s')
               /\ s.mode = "manual" /\ users' # <<>> =>
                    /\ s'.attempt = s.attempt /\ s'.label = s.label /\ s'.input = s.input
                    /\ s'.mode = "manual"
  BY <1>2, <1>3, CarriesOver DEF WInv
<1>4. CASE UserAdded
  <2>1. PICK u \in User, i \in 1..Len(users) + 1, slip \in Slip :
          /\ users' = InsertAt(users, i, u)
          /\ \/ s' = ListRowInserted(WindowRowInserted(s, users'), users', i, slip)
             \/ s' = WindowRowInserted(ListRowInserted(s, users', i, slip), users')
    BY <1>4 DEF UserAdded, Becomes
  <2> DEFINE us == users'
  <2>2. us \in Seq(User) /\ us[i] = u
    BY <1>1, <2>1, InsertAtSeq
  <2>3. InsertAt(users, i, us[i]) = us
    BY <2>1, <2>2
  <2> HIDE DEF us
  <2>4. us[i] \in User
    BY <2>2
  <2>5. CASE s' = ListRowInserted(WindowRowInserted(s, us), us, i, slip)
    <3> DEFINE w == WindowRowInserted(s, us)
               r == ListRowInserted(w, us, i, slip)
    <3>1. /\ Sound(w) /\ Editable(w)
          /\ Labelled(s) => Labelled(w)
          /\ Chosen(s) => Chosen(w)
          /\ w.list = s.list /\ w.mode = s.mode
          /\ w.attempt = s.attempt /\ w.label = s.label /\ w.input = s.input
      BY <1>1, WindowRowInsertedKeeps
    <3> HIDE DEF w
    <3>2. i \in 1..Len(w.list.rows) + 1
      BY <1>1, <3>1
    <3>3. /\ Sound(r) /\ Editable(r)
          /\ Labelled(w) => Labelled(r)
          /\ Chosen(w) => Chosen(r)
          /\ r.list.rows = InsertAt(w.list.rows, i, us[i])
          /\ r.mode = w.mode
          /\ w.mode = "manual" => /\ r.attempt = w.attempt /\ r.label = w.label
                                  /\ r.input = w.input
      BY <2>4, <3>1, <3>2, ListRowInsertedKeeps
    <3>4. s' = r
      BY <2>5 DEF w
    <3> HIDE DEF r
    <3> QED BY <1>1, <2>2, <2>3, <3>1, <3>3, <3>4 DEF us
  <2>6. CASE s' = WindowRowInserted(ListRowInserted(s, us, i, slip), us)
    <3> DEFINE w == ListRowInserted(s, us, i, slip)
               r == WindowRowInserted(w, us)
    <3>1. i \in 1..Len(s.list.rows) + 1
      BY <1>1
    <3>2. /\ Sound(w) /\ Editable(w)
          /\ Labelled(s) => Labelled(w)
          /\ Chosen(s) => Chosen(w)
          /\ w.list.rows = InsertAt(s.list.rows, i, us[i])
          /\ w.mode = s.mode
          /\ s.mode = "manual" => /\ w.attempt = s.attempt /\ w.label = s.label
                                  /\ w.input = s.input
      BY <1>1, <2>4, <3>1, ListRowInsertedKeeps
    <3> HIDE DEF w
    <3>3. /\ Sound(r) /\ Editable(r)
          /\ Labelled(w) => Labelled(r)
          /\ Chosen(w) => Chosen(r)
          /\ r.list = w.list /\ r.mode = w.mode
          /\ r.attempt = w.attempt /\ r.label = w.label /\ r.input = w.input
      BY <3>2, WindowRowInsertedKeeps
    <3>4. s' = r
      BY <2>6 DEF w
    <3> HIDE DEF r
    <3> QED BY <1>1, <2>2, <2>3, <3>2, <3>3, <3>4 DEF us
  <2> QED BY <2>1, <2>5, <2>6 DEF us
<1>5. CASE UserRemoved
  <2>1. PICK i \in 1..Len(users), slip \in Slip :
          /\ users' = RemoveAt(users, i)
          /\ \/ s' = ListRowRemoved(WindowRowRemoved(s, users', slip), i, slip)
             \/ s' = WindowRowRemoved(ListRowRemoved(s, i, slip), users', slip)
    BY <1>5 DEF UserRemoved, Becomes
  <2> DEFINE us == users'
  <2>2. us \in Seq(User)
    BY <1>1, <2>1, RemoveAtSeq
  <2> HIDE DEF us
  <2>3. CASE s' = ListRowRemoved(WindowRowRemoved(s, us, slip), i, slip)
    <3> DEFINE w == WindowRowRemoved(s, us, slip)
               r == ListRowRemoved(w, i, slip)
    <3>1. /\ Sound(w) /\ Editable(w)
          /\ Labelled(s) => Labelled(w)
          /\ Chosen(s) => Chosen(w)
          /\ w.list.rows = s.list.rows
          /\ us # <<>> => w = s
      BY <1>1, WindowRowRemovedKeeps
    <3> HIDE DEF w
    <3>2. i \in 1..Len(w.list.rows)
      BY <1>1, <3>1
    <3>3. /\ Sound(r) /\ Editable(r)
          /\ Labelled(w) => Labelled(r)
          /\ Chosen(w) => Chosen(r)
          /\ r.list.rows = RemoveAt(w.list.rows, i)
          /\ r.mode = w.mode
          /\ w.mode = "manual" => /\ r.attempt = w.attempt /\ r.label = w.label
                                  /\ r.input = w.input
      BY <3>1, <3>2, ListRowRemovedKeeps
    <3>4. s' = r
      BY <2>3 DEF w
    <3> HIDE DEF r
    <3> QED BY <1>1, <2>1, <2>2, <3>1, <3>3, <3>4 DEF us
  <2>4. CASE s' = WindowRowRemoved(ListRowRemoved(s, i, slip), us, slip)
    <3> DEFINE w == ListRowRemoved(s, i, slip)
               r == WindowRowRemoved(w, us, slip)
    <3>1. i \in 1..Len(s.list.rows)
      BY <1>1
    <3>2. /\ Sound(w) /\ Editable(w)
          /\ Labelled(s) => Labelled(w)
          /\ Chosen(s) => Chosen(w)
          /\ w.list.rows = RemoveAt(s.list.rows, i)
          /\ w.mode = s.mode
          /\ s.mode = "manual" => /\ w.attempt = s.attempt /\ w.label = s.label
                                  /\ w.input = s.input
      BY <1>1, <3>1, ListRowRemovedKeeps
    <3> HIDE DEF w
    <3>3. /\ Sound(r) /\ Editable(r)
          /\ Labelled(w) => Labelled(r)
          /\ Chosen(w) => Chosen(r)
          /\ r.list.rows = w.list.rows
          /\ us # <<>> => r = w
      BY <3>2, WindowRowRemovedKeeps
    <3>4. s' = r
      BY <2>4 DEF w
    <3> HIDE DEF r
    <3> QED BY <1>1, <2>1, <2>2, <3>2, <3>3, <3>4 DEF us
  <2> QED BY <2>1, <2>3, <2>4 DEF us
<1> QED BY <1>4, <1>5

LEMMA TimerKeepsWInv ==
  ASSUME WInv, AutologinTimerExpired
  PROVE  WInv'
<1>1. Sound(s) /\ Editable(s) /\ DOMAIN s = Fields /\ Queued(s)
  BY DEF WInv, Sound, Typed
<1>2. conf' = conf /\ users' = users /\ timer' = "expired"
  BY DEF AutologinTimerExpired
<1>3. PICK slip \in Slip : s' = s \/ s' = Authenticate(s, conf.hint, slip)
  BY DEF AutologinTimerExpired, Becomes
<1>4. CASE s' = s
  BY <1>1, <1>2, <1>4, CarriesOver DEF WInv
<1>5. CASE s' = Authenticate(s, conf.hint, slip)
  <2> DEFINE r == Authenticate(s, conf.hint, slip)
  <2>1. SameLook(s, r) /\ Queued(r) /\ r.user = conf.hint
    BY <1>1, AuthenticateEffect
  <2> HIDE DEF r
  <2>2. s' = r
    BY <1>5 DEF r
  <2>3. Sound(s')
    BY <1>1, <2>1, <2>2, HintTyped DEF WInv, Sound, Typed, Buttons, SameLook
  <2>4. Editable(s') /\ s'.list = s.list
    BY <1>1, <2>1, <2>2 DEF Editable, SameLook
  <2> QED BY <1>2, <2>3, <2>4, CarriesOver DEF WInv
<1> QED BY <1>3, <1>4, <1>5

LEMMA StepKeepsWInv ==
  ASSUME WInv, [LoginNext]_vars
  PROVE  WInv'
<1>1. CASE LoginNext
  BY <1>1, DaemonKeepsWInv, DeliveryKeepsWInv, UserKeepsWInv, TimerKeepsWInv, RowsKeepWInv
     DEF LoginNext
<1>2. CASE UNCHANGED vars
  BY <1>2, CarriesOver DEF vars, WInv
<1> QED BY <1>1, <1>2

\* What is left: the bound, the environment, and whose session is started.
EnvInv == /\ timer \in {"running", "off", "expired"}
          /\ session \in User \cup {NoUser}
          /\ s.attempt <= MaxAttempts
          /\ SessionIsShown

LEMMA InitEnvInv == LoginInit => EnvInv
<1> SUFFICES ASSUME LoginInit PROVE EnvInv
  OBVIOUS
<1>1. users \in Seq(User)
  BY InitWInv DEF WInv
<1> DEFINE c == Constructed(users)
<1>2. Typed(c) /\ Queued(c)
  BY <1>1, ConstructedSound
<1>3. c.attempt = 0
  BY DEF Constructed
<1>4. s = ResetUIForUserListLogin(c, 0) \/ s = ResetUIForManualLogin(c, 0)
  BY DEF LoginInit, InitSettings
<1> HIDE DEF c
<1>5. 0 \in Slip
  BY DEF Slip
<1>6. s.attempt \in {0, 1}
  <2>1. CASE s = ResetUIForUserListLogin(c, 0)
    <3>1. s.attempt = c.attempt \/ s.attempt = c.attempt + 1
      BY <1>2, <1>5, <2>1, ListLoginKeeps DEF Typed
    <3> QED BY <1>3, <3>1
  <2>2. CASE s = ResetUIForManualLogin(c, 0)
    BY <1>2, <1>3, <1>5, <2>2, ManualLoginKeeps
  <2> QED BY <1>4, <2>1, <2>2
<1>7. s.attempt <= MaxAttempts
  BY <1>6, LoginAssumption
<1> QED BY <1>7 DEF LoginInit, EnvInv, SessionIsShown

LEMMA StepKeepsEnvInv ==
  ASSUME WInv, EnvInv, [LoginNext]_vars
  PROVE  EnvInv'
<1>1. CASE LoginNext /\ SuccessArrives
  <2>1. s'.attempt = s.attempt
    BY <1>1, DeliveryKeepsWInv DEF WindowStep
  <2>2. /\ s' = Taken /\ timer' = timer /\ session' = IF s.isAuth THEN s.user ELSE NoUser
        /\ s.posted # <<>>
    BY <1>1 DEF SuccessArrives
  <2>3. s.user \in User \cup {NoUser} /\ Sound(s) /\ Editable(s)
    BY DEF WInv, Sound, Typed
  <2>4. s'.page = s.page /\ s'.label = s.label
    BY <2>2, <2>3, TakenSound DEF SameLook
  <2>5. SessionIsShown'
    BY <2>2, <2>4 DEF WInv, Labelled, SessionIsShown
  <2> QED BY <2>1, <2>2, <2>3, <2>5 DEF EnvInv
<1>2. CASE LoginNext /\ ~SuccessArrives
  <2>1. session' = NoUser
    BY <1>2 DEF LoginNext, WindowStep, PromptArrives, FailureArrives, UserStep, Confirm,
       ButtonClicked, ReAuthClicked, AutologinClicked, UserClicked, UserAdded, UserRemoved,
       AutologinTimerExpired, Prompt, End, HandOver, Env
  <2>2. timer' \in {timer, "expired"}
    BY <1>2 DEF LoginNext, WindowStep, PromptArrives, FailureArrives, UserStep, Confirm,
       ButtonClicked, ReAuthClicked, AutologinClicked, UserClicked, UserAdded, UserRemoved,
       AutologinTimerExpired, Prompt, End, HandOver, Env
  <2>3. s'.attempt = s.attempt \/ s'.attempt <= MaxAttempts
    <3>1. CASE Prompt \/ (\E ok \in BOOLEAN : End(ok)) \/ HandOver
      BY <3>1 DEF Prompt, End, HandOver, WInv, Sound, Typed, Fields
    <3>2. CASE PromptArrives
      BY <3>2, DeliveryKeepsWInv DEF WindowStep
    <3>3. CASE FailureArrives \/ ButtonClicked \/ ReAuthClicked \/ AutologinClicked
      BY <3>3 DEF FailureArrives, ButtonClicked, ReAuthClicked, AutologinClicked, Becomes
    <3>4. CASE Confirm
      BY <3>4 DEF Confirm, Becomes, Respond, WInv, Sound, Typed, Fields
    <3>5. CASE UserClicked \/ AutologinTimerExpired \/ UserAdded \/ UserRemoved
      BY <3>5 DEF UserClicked, AutologinTimerExpired, UserAdded, UserRemoved, Becomes
    <3> QED BY <1>2, <3>1, <3>2, <3>3, <3>4, <3>5 DEF LoginNext, WindowStep, UserStep
  <2>4. SessionIsShown'
    BY <2>1 DEF SessionIsShown
  <2> QED BY <2>1, <2>2, <2>3, <2>4 DEF EnvInv
<1>3. CASE UNCHANGED vars
  BY <1>3 DEF vars, EnvInv, SessionIsShown
<1> QED BY <1>1, <1>2, <1>3

\* The checked invariants follow from it.
LEMMA InvImplies ==
  ASSUME WInv, EnvInv
  PROVE  ControlsFitMode /\ AttemptIsShown /\ SessionIsShown
<1>1. LoginTypeOK
  <2>1. /\ users \in Seq(User) /\ conf \in Settings /\ timer \in {"running", "off", "expired"}
        /\ {s.label, s.user, session} \subseteq User \cup {NoUser}
        /\ s.list.rows \in Seq(User) /\ s.list.sel \in Range(s.list.rows) \cup {NoUser}
    BY DEF WInv, EnvInv, Sound, Typed, ListTyped
  <2>2. s.attempt \in 0..MaxAttempts
    BY LoginAssumption DEF WInv, EnvInv, Sound, Queued
  <2>3. \A k \in {"mode", "button", "input", "page"} :
          s[k] \in {"list", "manual", "switch", "return", "unset", "name",
                    "respond", "edit", "autologin", "reauth"}
    BY DEF WInv, Sound, Typed
  <2>4. ASSUME NEW q \in {s.pending, s.posted}, NEW m \in Range(q)
        PROVE  m \in Message /\ m.attempt \in 1..s.attempt
    <3>1. q \in Seq(Msgs(s.attempt))
      BY DEF WInv, Sound, Queued
    <3>2. m \in Msgs(s.attempt)
      BY <3>1, SeqRange
    <3> QED BY <3>2 DEF Msgs
  <2> QED BY <2>1, <2>2, <2>3, <2>4 DEF LoginTypeOK
<1>2. ButtonsFitMode
  BY DEF WInv, Sound, Buttons, ButtonsFitMode
<1>3. EditPurposeKnown
  BY DEF WInv, Sound, Typed, Buttons, Editable, EditPurposeKnown
<1>4. AttemptIsShown
  BY DEF WInv, Labelled, Chosen, AttemptIsShown, ShownIsAuthenticated, SelectedIsAuthenticated
<1> QED BY <1>1, <1>2, <1>3, <1>4 DEF ControlsFitMode, EnvInv

\* The whole invariant holds in every reachable state.
LEMMA WindowInvariant == LoginSpec => [](WInv /\ EnvInv)
<1>1. LoginInit => WInv /\ EnvInv
  BY InitWInv, InitEnvInv
<1>2. WInv /\ EnvInv /\ [LoginNext]_vars => WInv' /\ EnvInv'
  BY StepKeepsWInv, StepKeepsEnvInv
<1> QED BY <1>1, <1>2, PTL DEF LoginSpec

\* Whatever slots run in whatever order, button, list and edit are in one of the
\* combinations slotButtonClicked() and the reset of the list provide for.
THEOREM ControlsFit == LoginSpec => []ControlsFitMode
BY WindowInvariant, InvImplies, PTL

\* The name shown at the edit is that of the user under authentication, and the
\* user selected is that one or the autologin user, unless the autologin timer,
\* which asks nobody, has started the attempt.
THEOREM AttemptShown == LoginSpec => []AttemptIsShown
BY WindowInvariant, InvImplies, PTL

\* No session is started for anybody but the user named at the edit, although the
\* success may have been on its way while the user clicked on.
THEOREM SessionShown == LoginSpec => []SessionIsShown
BY WindowInvariant, InvImplies, PTL

\* A manual login goes on, with its attempt, name and purpose, while users are
\* added and removed, in whichever order window and list hear of it.
THEOREM ManualUndisturbed == LoginSpec => ManualIsLeftAlone
<1>1. ASSUME WInv, [LoginNext]_vars
      PROVE  [(users' # users /\ s.mode = "manual" /\ users' # <<>>) =>
                /\ s'.attempt = s.attempt /\ s'.label = s.label /\ s'.input = s.input
                /\ s'.mode = "manual"]_vars
  <2>1. CASE UserAdded \/ UserRemoved
    BY <1>1, <2>1, RowsKeepWInv
  <2>2. CASE UNCHANGED vars
    BY <2>2
  <2>3. CASE LoginNext /\ ~UserAdded /\ ~UserRemoved
    <3>1. users' = users
      BY <2>3 DEF LoginNext, WindowStep, PromptArrives, FailureArrives, SuccessArrives,
         UserStep, Confirm, ButtonClicked, ReAuthClicked, AutologinClicked, UserClicked,
         AutologinTimerExpired, Prompt, End, HandOver, Env
    <3> QED BY <3>1
  <2> QED BY <1>1, <2>1, <2>2, <2>3
<1> QED BY <1>1, WindowInvariant, PTL DEF LoginSpec, ManualIsLeftAlone
=============================================================================
