--------------------------- MODULE AuthPamProofs ---------------------------
(***************************************************************************)
(* Theorems about AuthPam for any number of attempts, prompts and replies. *)
(* The inductive invariant says of the parent that its handles and flags   *)
(* belong to the attempt under way (ParentInv), and of each child that its *)
(* pipe and its reports agree with how far it has come (ChildInv).         *)
(***************************************************************************)
EXTENDS AuthPam, TLAPS

\* The notifier lives as long as the attempt, a descriptor to the child is
\* open only then; success is never noted without completion; once the attempt
\* under way was reported, the parent knows; every open end is counted.
ParentInv == /\ notifier # 0 <=> inAuth
             /\ ~inAuth => wfd # "open"
             /\ isAuth => hasSend
             /\ inAuth /\ reported[notifier] # <<>> => hasSend
             /\ openFds >= OpenEnds
             /\ pid <= attempts

Early == {"unborn", "running", "asking", "verdict"}

NoVerdictSent(c) == \A i \in 1..Len(toParent[c]) : toParent[c][i] \notin Verdict

\* What was not yet forked has not happened. Before the Complete event is sent
\* nothing was reported, and before PAM has decided there is no verdict. A
\* Complete event carries the child's verdict and is the child's last event.
\* A report of success means that PAM accepted.
ChildInv(c) ==
  /\ c > attempts => proc[c] = "unborn" /\ toParent[c] = <<>>
  /\ proc[c] \in Early => NoVerdictSent(c) /\ reported[c] = <<>>
  /\ proc[c] \in Early \ {"verdict"} => verdict[c] = "none"
  /\ proc[c] = "verdict" => verdict[c] \in Verdict
  /\ \A i \in 1..Len(toParent[c]) : toParent[c][i] \in Verdict =>
       toParent[c][i] = verdict[c] /\ i = Len(toParent[c]) /\ reported[c] = <<>>
  /\ \A i \in 1..Len(reported[c]) : reported[c][i] => verdict[c] = "pass"
  /\ Len(reported[c]) <= 1

IInv == /\ TypeOK /\ LiveHandles /\ OnlyCurrentChildWorks /\ NoFdLeak
        /\ ParentInv
        /\ \A c \in Attempt : ChildInv(c)

-----------------------------------------------------------------------------
(* Facts about the helpers *)

\* The invariant bounds each history and every success in it.
LEMMA InvImplies == IInv => SuccessIsOwn /\ ReportedOnce
  BY DEF IInv, ChildInv, SuccessIsOwn, ReportedOnce

\* Dropping the pipes of one attempt only empties them.
LEMMA DropPipesFacts ==
  ASSUME TypeOK, DropPipes
  PROVE  /\ toParent' \in [Attempt -> Seq(Event)]
         /\ toChild' \in [Attempt -> Nat]
         /\ \A c \in Attempt : toParent'[c] = toParent[c] \/ toParent'[c] = <<>>
  BY DEF TypeOK, ChildType, DropPipes

\* Killing and reaping the child changes its state and no other.
LEMMA KillFacts ==
  ASSUME TypeOK
  PROVE  /\ KillAndReap(proc) \in [Attempt -> ProcState]
         /\ \A c \in Attempt : KillAndReap(proc)[c] =
              IF c = pid THEN "reaped" ELSE proc[c]
  BY DEF TypeOK, ParentType, ChildType, KillAndReap, Attempt, ProcState

\* The count of open ends, and that it is two while an attempt is under way.
LEMMA EndsFacts ==
  ASSUME TypeOK, LiveHandles, ParentInv
  PROVE  /\ OpenEnds \in 0..2 /\ openFds - OpenEnds \in Nat
         /\ inAuth => OpenEnds = 2
<1>1. OpenEnds \in 0..2 /\ (inAuth => OpenEnds = 2)
  BY DEF OpenEnds, One, LiveHandles
<1> QED
  BY <1>1 DEF ParentInv, TypeOK, ParentType

\* A child about which nothing changed, except that it may have ended and its
\* pipe may have gone, still satisfies its invariant.
LEMMA ChildInvKept ==
  ASSUME TypeOK, NEW c \in Attempt, ChildInv(c), attempts' \in Nat, attempts' >= attempts,
         verdict'[c] = verdict[c], reported'[c] = reported[c],
         toParent'[c] = toParent[c] \/ toParent'[c] = <<>>,
         proc'[c] = proc[c]
           \/ (c <= attempts /\ proc'[c] \in Ended \cup {"reaped"})
  PROVE  ChildInv(c)'
<1>1. c > attempts' => c > attempts
  BY DEF TypeOK, ParentType, Attempt
<1>2. c > attempts => proc'[c] = "unborn" /\ toParent'[c] = <<>>
  BY DEF ChildInv, TypeOK, ParentType, Attempt
<1>3. proc'[c] \in Early => proc'[c] = proc[c]
  BY DEF Early, Ended
<1>4. NoVerdictSent(c) => NoVerdictSent(c)'
  BY DEF NoVerdictSent
<1>5. \A i \in 1..Len(toParent'[c]) : toParent'[c][i] \in Verdict =>
        toParent'[c][i] = verdict[c] /\ i = Len(toParent'[c]) /\ reported[c] = <<>>
  BY DEF ChildInv
<1> QED
  BY <1>1, <1>2, <1>3, <1>4, <1>5 DEF ChildInv, Early

-----------------------------------------------------------------------------
(* The invariant holds initially *)

LEMMA InitInv == Init => IInv
<1> SUFFICES ASSUME Init PROVE IInv
  OBVIOUS
<1> USE PamAssumption DEF PamAssumption, Init
<1>1. FlagType
  BY DEF FlagType
<1>2. ParentType
  BY DEF ParentType, Fd
<1>3. ChildType
  BY DEF ChildType, ProcState
<1>4. LiveHandles /\ OnlyCurrentChildWorks
  BY DEF LiveHandles, OnlyCurrentChildWorks, Working
<1>5. NoFdLeak /\ ParentInv
  BY DEF NoFdLeak, ParentInv, OpenEnds, One
<1>6. ASSUME NEW c \in Attempt PROVE ChildInv(c)
  BY <1>6 DEF ChildInv, Attempt, Early, NoVerdictSent
<1> QED
  BY <1>1, <1>2, <1>3, <1>4, <1>5, <1>6 DEF IInv, TypeOK

-----------------------------------------------------------------------------
(* cancelAuthentication preserves the invariant *)

LEMMA CancelInv ==
  ASSUME IInv, CancelAuthentication, alive' \in BOOLEAN
  PROVE  IInv'
<1> USE PamAssumption DEF PamAssumption, IInv
<1>1. /\ proc' \in [Attempt -> ProcState]
      /\ \A c \in Attempt : proc'[c] = IF c = pid THEN "reaped" ELSE proc[c]
  BY KillFacts DEF CancelAuthentication
<1>2. /\ toParent' \in [Attempt -> Seq(Event)]
      /\ toChild' \in [Attempt -> Nat]
      /\ \A c \in Attempt : toParent'[c] = toParent[c] \/ toParent'[c] = <<>>
  BY DropPipesFacts DEF CancelAuthentication
<1>3. /\ OpenEnds \in 0..2 /\ openFds - OpenEnds \in Nat
      /\ inAuth => OpenEnds = 2
  BY EndsFacts
<1>4. TypeOK'
  <2>1. FlagType'
    BY DEF TypeOK, FlagType, CancelAuthentication
  <2>2. ParentType'
    BY <1>3 DEF TypeOK, ParentType, CancelAuthentication, Closed, Fd
  <2>3. ChildType'
    BY <1>1, <1>2 DEF TypeOK, ChildType, CancelAuthentication
  <2> QED
    BY <2>1, <2>2, <2>3 DEF TypeOK
<1>5. LiveHandles'
  BY DEF LiveHandles, CancelAuthentication
<1>6. OnlyCurrentChildWorks'
  BY <1>1 DEF OnlyCurrentChildWorks, CancelAuthentication, Working
<1>7. OpenEnds' = 0
  BY DEF CancelAuthentication, Closed, OpenEnds, One
<1>8. NoFdLeak'
  <2>1. openFds' = openFds - OpenEnds /\ inAuth' = FALSE /\ halfPipes' = halfPipes
    BY DEF CancelAuthentication
  <2> QED
    BY <1>3, <2>1 DEF NoFdLeak, TypeOK, ParentType
<1>9. ParentInv'
  <2>1. openFds' >= OpenEnds'
    BY <1>3, <1>7 DEF CancelAuthentication
  <2>2. pid' <= attempts'
    BY DEF CancelAuthentication, TypeOK, ParentType
  <2> QED
    BY <2>1, <2>2 DEF ParentInv, CancelAuthentication, Closed
<1>10. ASSUME NEW c \in Attempt PROVE ChildInv(c)'
  <2>1. attempts' = attempts /\ verdict' = verdict /\ reported' = reported
    BY DEF CancelAuthentication
  <2>2. c = pid => c <= attempts
    BY DEF ParentInv
  <2>3. attempts' \in Nat /\ attempts' >= attempts
    BY <2>1 DEF TypeOK, ParentType
  <2> QED
    BY <1>1, <1>2, <1>10, <2>1, <2>2, <2>3, ChildInvKept
<1> QED
  BY <1>4, <1>5, <1>6, <1>8, <1>9, <1>10

-----------------------------------------------------------------------------
(* authenticate preserves the invariant *)

\* Whether or not an attempt had to be cancelled first: no child works, what
\* changed of the children is that one may have been reaped, and the count of
\* descriptors covers those left open.
LEMMA NowFacts ==
  ASSUME IInv
  PROVE  /\ ProcNow \in [Attempt -> ProcState]
         /\ \A c \in Attempt :
              /\ (ProcNow[c] = proc[c] \/ (c <= attempts /\ ProcNow[c] = "reaped"))
              /\ ProcNow[c] \notin Working
         /\ PidNow \in 0..MaxAttempts /\ PidNow <= attempts
         /\ RfdNow \in Fd /\ WfdNow \in Fd \ {"open"}
         /\ OpenFdsNow \in Nat /\ OpenFdsNow <= 2 * halfPipes
         /\ OpenFdsNow >= One(RfdNow = "open")
<1> USE PamAssumption DEF PamAssumption, IInv
<1>1. /\ OpenEnds \in 0..2 /\ openFds - OpenEnds \in Nat
      /\ inAuth => OpenEnds = 2
  BY EndsFacts
<1>2. CASE inAuth
  <2>1. /\ ProcNow \in [Attempt -> ProcState]
        /\ \A c \in Attempt : ProcNow[c] = IF c = pid THEN "reaped" ELSE proc[c]
    BY <1>2, KillFacts DEF ProcNow
  <2>2. ASSUME NEW c \in Attempt
        PROVE  /\ (ProcNow[c] = proc[c] \/ (c <= attempts /\ ProcNow[c] = "reaped"))
               /\ ProcNow[c] \notin Working
    <3>1. CASE c = pid
      <4>1. pid <= attempts
        BY DEF ParentInv
      <4>2. ProcNow[c] = "reaped"
        BY <2>1, <3>1
      <4> QED
        BY <3>1, <4>1, <4>2 DEF Working
    <3>2. CASE c # pid
      BY <2>1, <3>2 DEF OnlyCurrentChildWorks
    <3> QED
      BY <3>1, <3>2
  <2>3. /\ PidNow \in 0..MaxAttempts /\ PidNow <= attempts
        /\ RfdNow = "stale" /\ WfdNow = "stale"
    BY <1>2 DEF PidNow, RfdNow, WfdNow, Closed, TypeOK, ParentType, LiveHandles
  <2>4. OpenFdsNow \in Nat /\ OpenFdsNow <= 2 * halfPipes
    BY <1>1, <1>2 DEF OpenFdsNow, NoFdLeak, TypeOK, ParentType
  <2>5. OpenFdsNow >= One(RfdNow = "open")
    BY <2>3, <2>4 DEF One
  <2>6. RfdNow \in Fd /\ WfdNow \in Fd \ {"open"}
    BY <2>3 DEF Fd
  <2> QED
    BY <2>1, <2>2, <2>3, <2>4, <2>5, <2>6
<1>3. CASE ~inAuth
  <2>1. ProcNow = proc /\ PidNow = pid /\ RfdNow = rfd /\ WfdNow = wfd
        /\ OpenFdsNow = openFds
    BY <1>3 DEF ProcNow, PidNow, RfdNow, WfdNow, OpenFdsNow
  <2>2. openFds <= 2 * halfPipes
    BY <1>3 DEF NoFdLeak, TypeOK, ParentType
  <2>3. openFds >= One(rfd = "open")
    BY <1>3 DEF ParentInv, OpenEnds, One, TypeOK, ParentType
  <2>4. wfd # "open" /\ pid <= attempts
    BY <1>3 DEF ParentInv
  <2>5. \A c \in Attempt : proc[c] \notin Working
    BY <1>3 DEF OnlyCurrentChildWorks
  <2>6. /\ proc \in [Attempt -> ProcState] /\ pid \in 0..MaxAttempts
        /\ rfd \in Fd /\ wfd \in Fd /\ openFds \in Nat
    BY DEF TypeOK, ParentType, ChildType
  <2>7. OpenFdsNow >= One(RfdNow = "open")
    BY <2>1, <2>3 DEF One
  <2> QED
    BY <2>1, <2>2, <2>4, <2>5, <2>6, <2>7
<1> QED
  BY <1>2, <1>3 DEF TypeOK, FlagType

LEMMA AuthenticateInv ==
  ASSUME IInv, Authenticate
  PROVE  IInv'
<1> USE PamAssumption DEF PamAssumption, IInv
<1>0. attempts \in Nat /\ attempts' = attempts + 1 /\ attempts' \in Attempt
  BY DEF Authenticate, TypeOK, ParentType, Attempt
<1>1. /\ ProcNow \in [Attempt -> ProcState]
      /\ \A c \in Attempt :
           /\ (ProcNow[c] = proc[c] \/ (c <= attempts /\ ProcNow[c] = "reaped"))
           /\ ProcNow[c] \notin Working
      /\ OpenFdsNow \in Nat /\ OpenFdsNow <= 2 * halfPipes
  BY NowFacts
<1>2. /\ toParent' \in [Attempt -> Seq(Event)]
      /\ toChild' \in [Attempt -> Nat]
      /\ \A c \in Attempt : toParent'[c] = toParent[c] \/ toParent'[c] = <<>>
  BY DropPipesFacts DEF Authenticate
<1>3. /\ proc' \in [Attempt -> ProcState]
      /\ \A c \in Attempt :
           proc'[c] = IF c = attempts' THEN "running" ELSE ProcNow[c]
  BY <1>0, <1>1 DEF Authenticate, ProcState, Working
<1>4. TypeOK'
  <2>1. FlagType'
    BY DEF TypeOK, FlagType, Authenticate, FlagsNow
  <2>2. ParentType'
    BY <1>0, <1>1 DEF TypeOK, ParentType, Authenticate, Attempt, Fd
  <2>3. ChildType'
    BY <1>2, <1>3 DEF TypeOK, ChildType, Authenticate
  <2> QED
    BY <2>1, <2>2, <2>3 DEF TypeOK
<1>5. LiveHandles'
  BY <1>0, <1>3 DEF LiveHandles, Authenticate, Working, Attempt
<1>6. OnlyCurrentChildWorks'
  BY <1>0, <1>1, <1>3 DEF OnlyCurrentChildWorks, Authenticate
<1>7. NoFdLeak'
  BY <1>1 DEF NoFdLeak, Authenticate, TypeOK, ParentType
<1>8. ParentInv'
  <2>1. OpenEnds' = 2
    BY DEF Authenticate, OpenEnds, One
  <2>2. openFds' >= OpenEnds'
    BY <1>1, <2>1 DEF Authenticate
  <2>3. isAuth' => hasSend'
    BY DEF ParentInv, Authenticate, FlagsNow
  <2>4. reported'[notifier'] = <<>>
    BY <1>0 DEF Authenticate, ChildInv, Early
  <2>5. notifier' # 0 /\ inAuth' /\ pid' = attempts'
    BY <1>0 DEF Authenticate, Attempt
  <2> QED
    BY <1>0, <2>2, <2>3, <2>4, <2>5 DEF ParentInv
<1>9. ASSUME NEW c \in Attempt PROVE ChildInv(c)'
  <2>1. verdict' = verdict /\ reported' = reported
    BY DEF Authenticate
  <2>2. CASE c = attempts'
    <3>1. c > attempts
      BY <1>0, <2>2
    <3>2. /\ toParent'[c] = <<>> /\ reported[c] = <<>> /\ verdict[c] = "none"
          /\ proc'[c] = "running"
      BY <1>2, <1>3, <2>2, <3>1 DEF ChildInv, Early
    <3> QED
      BY <2>1, <2>2, <3>2 DEF ChildInv, NoVerdictSent, Attempt
  <2>3. CASE c # attempts'
    <3>1. proc'[c] = proc[c] \/ (c <= attempts /\ proc'[c] = "reaped")
      BY <1>1, <1>3, <2>3
    <3>2. toParent'[c] = toParent[c] \/ toParent'[c] = <<>>
      BY <1>2
    <3>3. attempts' \in Nat /\ attempts' >= attempts
      BY <1>0
    <3>4. TypeOK /\ ChildInv(c) /\ verdict'[c] = verdict[c] /\ reported'[c] = reported[c]
      BY <2>1
    <3> HIDE DEF IInv
    <3> QED
      BY <3>1, <3>2, <3>3, <3>4, ChildInvKept
  <2> QED
    BY <2>2, <2>3
<1> QED
  BY <1>4, <1>5, <1>6, <1>7, <1>8, <1>9

\* The three ways to fail differ in the descriptors only.
LEMMA AuthenticateFailsInv ==
  ASSUME IInv, PipeFails \/ SecondPipeFails \/ ForkFails
  PROVE  IInv'
<1> USE PamAssumption DEF PamAssumption, IInv
<1>0. AuthenticateFails
  BY DEF PipeFails, SecondPipeFails, ForkFails
<1>1. /\ ProcNow \in [Attempt -> ProcState]
      /\ \A c \in Attempt :
           /\ (ProcNow[c] = proc[c] \/ (c <= attempts /\ ProcNow[c] = "reaped"))
           /\ ProcNow[c] \notin Working
      /\ PidNow \in 0..MaxAttempts /\ PidNow <= attempts
      /\ RfdNow \in Fd /\ WfdNow \in Fd \ {"open"}
      /\ OpenFdsNow \in Nat /\ OpenFdsNow <= 2 * halfPipes
      /\ OpenFdsNow >= One(RfdNow = "open")
  BY NowFacts
<1>2. /\ toParent' \in [Attempt -> Seq(Event)]
      /\ toChild' \in [Attempt -> Nat]
      /\ \A c \in Attempt : toParent'[c] = toParent[c] \/ toParent'[c] = <<>>
  BY <1>0, DropPipesFacts DEF AuthenticateFails
<1>3. /\ rfd' \in Fd /\ wfd' \in Fd \ {"open"}
      /\ openFds' \in Nat /\ halfPipes' \in Nat
      /\ openFds' <= 2 * halfPipes' /\ openFds' >= OpenEnds'
  <2>1. CASE PipeFails
    BY <1>1, <2>1 DEF PipeFails, OpenEnds, One, TypeOK, ParentType
  <2>2. CASE SecondPipeFails
    BY <1>1, <2>2 DEF SecondPipeFails, OpenEnds, One, TypeOK, ParentType, Fd
  <2>3. CASE ForkFails
    BY <1>1, <2>3 DEF ForkFails, OpenEnds, One, TypeOK, ParentType, Fd
  <2> QED
    BY <2>1, <2>2, <2>3
<1>4. TypeOK'
  <2>1. FlagType'
    BY <1>0 DEF TypeOK, FlagType, AuthenticateFails, FlagsNow
  <2>2. ParentType'
    BY <1>0, <1>1, <1>3 DEF TypeOK, ParentType, AuthenticateFails
  <2>3. ChildType'
    BY <1>0, <1>1, <1>2 DEF TypeOK, ChildType, AuthenticateFails
  <2> QED
    BY <2>1, <2>2, <2>3 DEF TypeOK
<1>5. LiveHandles'
  BY <1>0 DEF LiveHandles, AuthenticateFails
<1>6. OnlyCurrentChildWorks'
  BY <1>0, <1>1 DEF OnlyCurrentChildWorks, AuthenticateFails
<1>7. NoFdLeak'
  <2>1. ~inAuth'
    BY <1>0 DEF AuthenticateFails
  <2> QED
    BY <1>3, <2>1 DEF NoFdLeak
<1>8. ParentInv'
  <2>1. isAuth' => hasSend'
    BY <1>0 DEF ParentInv, AuthenticateFails, FlagsNow
  <2>2. notifier' = 0 /\ ~inAuth' /\ pid' <= attempts'
    BY <1>0, <1>1 DEF AuthenticateFails
  <2> QED
    BY <1>3, <2>1, <2>2 DEF ParentInv
<1>9. ASSUME NEW c \in Attempt PROVE ChildInv(c)'
  <2>1. attempts' = attempts /\ verdict' = verdict /\ reported' = reported
        /\ proc' = ProcNow
    BY <1>0 DEF AuthenticateFails
  <2>2. attempts' \in Nat /\ attempts' >= attempts
    BY <2>1 DEF TypeOK, ParentType
  <2> QED
    BY <1>1, <1>2, <2>1, <2>2, ChildInvKept
<1> QED
  BY <1>4, <1>5, <1>6, <1>7, <1>8, <1>9

-----------------------------------------------------------------------------
(* respond and the handler of the pipe preserve the invariant *)

\* Nothing but the pipes' contents changes, and no verdict appears in them.
LEMMA QuietInv ==
  ASSUME IInv, UNCHANGED <<parentVars, childVars, reported>>,
         toParent' \in [Attempt -> Seq(Event)], toChild' \in [Attempt -> Nat],
         \A c \in Attempt : ChildInv(c)'
  PROVE  IInv'
<1> USE DEF IInv, parentVars, childVars
<1>1. TypeOK'
  <2>1. FlagType'
    BY DEF TypeOK, FlagType
  <2>2. ParentType'
    BY DEF TypeOK, ParentType
  <2>3. ChildType'
    BY DEF TypeOK, ChildType
  <2> QED
    BY <2>1, <2>2, <2>3 DEF TypeOK
<1>2. LiveHandles' /\ OnlyCurrentChildWorks' /\ NoFdLeak'
  BY DEF LiveHandles, OnlyCurrentChildWorks, NoFdLeak
<1>3. ParentInv'
  BY DEF ParentInv, OpenEnds
<1> QED
  BY <1>1, <1>2, <1>3

LEMMA RespondInv ==
  ASSUME IInv, Respond
  PROVE  IInv'
<1> USE PamAssumption DEF PamAssumption, IInv
<1>1. toChild' \in [Attempt -> Nat]
  <2>1. toChild \in [Attempt -> Nat] /\ notifier \in Attempt
    <3>1. toChild \in [Attempt -> Nat] /\ notifier \in 0..MaxAttempts
      BY DEF TypeOK, ParentType, ChildType
    <3>2. notifier # 0
      BY DEF Respond, LiveHandles
    <3> QED
      BY <3>1, <3>2 DEF Attempt
  <2>2. toChild' = [toChild EXCEPT ![notifier] =
                      IF proc[notifier] \in Working THEN @ + 1 ELSE @]
    BY DEF Respond
  <2>3. (IF proc[notifier] \in Working THEN toChild[notifier] + 1 ELSE toChild[notifier]) \in Nat
    BY <2>1
  <2> QED
    BY <2>1, <2>2, <2>3
<1>2. UNCHANGED <<parentVars, childVars, toParent, reported>>
  BY DEF Respond
<1>3. toParent' \in [Attempt -> Seq(Event)]
  BY <1>2 DEF TypeOK, ChildType
<1>4. ASSUME NEW c \in Attempt PROVE ChildInv(c)'
  BY <1>2, <1>4 DEF ChildInv, NoVerdictSent, parentVars, childVars
<1> QED
  BY <1>1, <1>2, <1>3, <1>4, QuietInv

\* Reading an event takes the first one off the pipe of the attempt under way.
LEMMA ConsumeFacts ==
  ASSUME IInv, Readable, Consume
  PROVE  /\ notifier \in Attempt /\ inAuth /\ notifier = pid
         /\ toParent' \in [Attempt -> Seq(Event)]
         /\ \A c \in Attempt : c # notifier => toParent'[c] = toParent[c]
         /\ toParent'[notifier] = Tail(toParent[notifier])
         /\ Len(toParent'[notifier]) = Len(toParent[notifier]) - 1
         /\ \A i \in 1..Len(toParent'[notifier]) :
              toParent'[notifier][i] = toParent[notifier][i + 1]
         /\ Len(toParent[notifier]) >= 1
         /\ Head(toParent[notifier]) = toParent[notifier][1]
<1> USE DEF IInv
<1>1. notifier \in Attempt /\ inAuth /\ notifier = pid
  BY DEF Readable, TypeOK, ParentType, Attempt, ParentInv, LiveHandles
<1>2. toParent[notifier] \in Seq(Event) /\ toParent[notifier] # <<>>
  BY <1>1 DEF TypeOK, ChildType, Readable
<1>3. Tail(toParent[notifier]) \in Seq(Event)
  BY <1>2
<1>4. /\ toParent' \in [Attempt -> Seq(Event)]
      /\ \A c \in Attempt : c # notifier => toParent'[c] = toParent[c]
      /\ toParent'[notifier] = Tail(toParent[notifier])
  BY <1>1, <1>3 DEF Consume, TypeOK, ChildType
<1>5. /\ Len(Tail(toParent[notifier])) = Len(toParent[notifier]) - 1
      /\ \A i \in 1..Len(Tail(toParent[notifier])) :
           Tail(toParent[notifier])[i] = toParent[notifier][i + 1]
      /\ Len(toParent[notifier]) >= 1
      /\ Head(toParent[notifier]) = toParent[notifier][1]
  BY <1>2
<1> QED
  BY <1>1, <1>4, <1>5

LEMMA HandleEventInv ==
  ASSUME IInv, HandlePrompt \/ HandleMessage
  PROVE  IInv'
<1> USE DEF IInv
<1>1. Readable /\ Consume /\ UNCHANGED <<parentVars, childVars, toChild, reported>>
  BY DEF HandlePrompt, HandleMessage
<1>2. /\ notifier \in Attempt /\ inAuth /\ notifier = pid
      /\ toParent' \in [Attempt -> Seq(Event)]
      /\ \A c \in Attempt : c # notifier => toParent'[c] = toParent[c]
      /\ Len(toParent'[notifier]) = Len(toParent[notifier]) - 1
      /\ \A i \in 1..Len(toParent'[notifier]) :
           toParent'[notifier][i] = toParent[notifier][i + 1]
      /\ Len(toParent[notifier]) >= 1
  BY <1>1, ConsumeFacts
<1>3. toChild' \in [Attempt -> Nat]
  BY <1>1 DEF TypeOK, ChildType
<1>4. ASSUME NEW c \in Attempt PROVE ChildInv(c)'
  <2>1. /\ attempts' = attempts /\ proc'[c] = proc[c] /\ verdict'[c] = verdict[c]
        /\ reported'[c] = reported[c]
    BY <1>1 DEF parentVars, childVars
  <2>2. CASE c # notifier
    BY <1>2, <2>1, <2>2 DEF ChildInv, NoVerdictSent
  <2>3. CASE c = notifier
    <3>1. c <= attempts
      BY <1>2, <2>3 DEF ParentInv
    <3>2. toParent[c] \in Seq(Event)
      BY DEF TypeOK, ChildType
    <3>3. ASSUME NEW i \in 1..Len(toParent'[c]) 
          PROVE  i + 1 \in 1..Len(toParent[c]) /\ toParent'[c][i] = toParent[c][i + 1]
      BY <1>2, <2>3, <3>2, <3>3
    <3>4. NoVerdictSent(c) => NoVerdictSent(c)'
      BY <3>3 DEF NoVerdictSent
    <3>5. \A i \in 1..Len(toParent'[c]) : toParent'[c][i] \in Verdict =>
            /\ toParent'[c][i] = verdict[c] /\ i = Len(toParent'[c])
            /\ reported[c] = <<>>
      BY <1>2, <2>3, <3>2, <3>3 DEF ChildInv
    <3> QED
      BY <2>1, <3>1, <3>4, <3>5 DEF ChildInv, TypeOK, ParentType, Attempt
  <2> QED
    BY <2>2, <2>3
<1> QED
  BY <1>1, <1>2, <1>3, <1>4, QuietInv

LEMMA CompletionInv ==
  ASSUME IInv, NEW result \in BOOLEAN, result => Head(toParent[notifier]) = "pass",
         Readable, Consume, Head(toParent[notifier]) \in Verdict, NoteCompletion(result),
         UNCHANGED <<alive, pid, inAuth, notifier, rfd, wfd, attempts, openFds,
                     halfPipes, childVars, toChild>>
  PROVE  IInv'
<1> USE PamAssumption DEF PamAssumption, IInv
<1>1. /\ notifier \in Attempt /\ inAuth /\ notifier = pid
      /\ toParent' \in [Attempt -> Seq(Event)]
      /\ \A c \in Attempt : c # notifier => toParent'[c] = toParent[c]
      /\ Len(toParent'[notifier]) = Len(toParent[notifier]) - 1
      /\ Len(toParent[notifier]) >= 1
      /\ Head(toParent[notifier]) = toParent[notifier][1]
  BY ConsumeFacts
\* The verdict was the only event left and nothing was reported before it.
<1>2. /\ toParent[notifier][1] = verdict[notifier]
      /\ Len(toParent[notifier]) = 1 /\ reported[notifier] = <<>>
  <2>1. toParent[notifier] \in Seq(Event) /\ 1 \in 1..Len(toParent[notifier])
    BY <1>1 DEF TypeOK, ChildType
  <2>2. ChildInv(notifier) /\ toParent[notifier][1] \in Verdict
    BY <1>1
  <2> QED
    BY <2>1, <2>2 DEF ChildInv
<1>3. /\ reported' \in [Attempt -> Seq(BOOLEAN)]
      /\ \A c \in Attempt : c # notifier => reported'[c] = reported[c]
      /\ reported'[notifier] = <<result>> /\ Len(reported'[notifier]) = 1
  <2>1. reported' = [reported EXCEPT ![notifier] = Append(reported[notifier], result)]
    BY DEF NoteCompletion, EmitComplete
  <2>2. Append(reported[notifier], result) = <<result>>
    BY <1>2
  <2>3. <<result>> \in Seq(BOOLEAN)
    OBVIOUS
  <2>4. reported \in [Attempt -> Seq(BOOLEAN)]
    BY DEF TypeOK, ChildType
  <2> QED
    <3>1. Len(Append(reported[notifier], result)) = 1
      BY <1>1, <1>2, <2>4
    <3> QED
      BY <1>1, <2>1, <2>2, <2>3, <2>4, <3>1
<1>4. hasSend' = TRUE /\ isAuth' = result
  BY DEF NoteCompletion
<1>5. TypeOK'
  <2>1. FlagType'
    BY <1>4 DEF TypeOK, FlagType
  <2>2. ParentType'
    BY DEF TypeOK, ParentType
  <2>3. ChildType'
    BY <1>1, <1>3 DEF TypeOK, ChildType, childVars
  <2> QED
    BY <2>1, <2>2, <2>3 DEF TypeOK
<1>6. LiveHandles' /\ OnlyCurrentChildWorks' /\ NoFdLeak'
  BY DEF LiveHandles, OnlyCurrentChildWorks, NoFdLeak, childVars
<1>7. ParentInv'
  BY <1>4 DEF ParentInv, OpenEnds
<1>8. ASSUME NEW c \in Attempt PROVE ChildInv(c)'
  <2>1. /\ attempts' = attempts /\ proc'[c] = proc[c] /\ verdict'[c] = verdict[c]
    BY DEF childVars
  <2>2. CASE c # notifier
    <3>1. toParent'[c] = toParent[c] /\ reported'[c] = reported[c]
      BY <1>1, <1>3, <2>2
    <3>2. attempts' \in Nat /\ attempts' >= attempts
      BY <2>1 DEF TypeOK, ParentType
    <3> QED
      BY <1>8, <2>1, <3>1, <3>2, ChildInvKept
  <2>3. CASE c = notifier
    <3>1. toParent'[c] = <<>>
      BY <1>1, <1>2, <2>3
    <3>2. proc[c] \notin Early
      BY <1>1, <1>2, <2>3 DEF ChildInv, NoVerdictSent
    <3>3. \A i \in 1..Len(reported'[c]) : reported'[c][i] => verdict[c] = "pass"
      BY <1>1, <1>2, <1>3, <2>3
    <3>4. Len(reported'[c]) <= 1
      <4>1. Len(reported'[c]) = 1
        BY <1>3, <2>3, Zenon
      <4> QED
        BY <4>1
    <3>5. \A i \in 1..Len(toParent'[c]) : toParent'[c][i] \notin Verdict
      BY <3>1
    <3>6. c > attempts => proc[c] = "unborn"
      BY DEF ChildInv
    <3> QED
      BY <2>1, <3>1, <3>2, <3>3, <3>4, <3>5, <3>6 DEF ChildInv, NoVerdictSent, Early
  <2> QED
    BY <2>2, <2>3
<1> QED
  BY <1>5, <1>6, <1>7, <1>8

LEMMA HandleCompleteInv == IInv /\ HandleComplete => IInv'
<1> SUFFICES ASSUME IInv, HandleComplete PROVE IInv'
  OBVIOUS
<1>1. PICK result \in BOOLEAN : result = (Head(toParent[notifier]) = "pass")
  OBVIOUS
<1> QED
  BY <1>1, CompletionInv DEF HandleComplete

\* waitpid reaps one zombie or nothing.
LEMMA ReapFacts ==
  ASSUME IInv, ReapAny
  PROVE  /\ proc' \in [Attempt -> ProcState]
         /\ \A c \in Attempt : proc'[c] = proc[c]
              \/ (c <= attempts /\ proc[c] = "zombie" /\ proc'[c] = "reaped")
<1>1. proc \in [Attempt -> ProcState]
  BY DEF IInv, TypeOK, ChildType
<1>2. CASE UNCHANGED proc
  BY <1>1, <1>2
<1>3. CASE \E z \in Attempt : proc[z] = "zombie" /\ proc' = [proc EXCEPT ![z] = "reaped"]
  <2>1. PICK z \in Attempt : proc[z] = "zombie" /\ proc' = [proc EXCEPT ![z] = "reaped"]
    BY <1>3
  <2>2. z <= attempts
    BY <2>1 DEF IInv, ChildInv, TypeOK, ParentType, Attempt
  <2> QED
    BY <1>1, <2>1, <2>2 DEF ProcState
<1> QED
  BY <1>2, <1>3 DEF ReapAny

\* What the made-up completion adds, if anything, is a failure of an attempt
\* that was not reported before.
LEMMA MakeUpFacts ==
  ASSUME IInv, notifier \in Attempt, inAuth, MakeUpCompletion
  PROVE  /\ reported' \in [Attempt -> Seq(BOOLEAN)]
         /\ \A c \in Attempt : reported'[c] = reported[c]
              \/ (c = notifier /\ Len(reported'[c]) = 1 /\ reported'[c][1] = FALSE)
<1>1. reported \in [Attempt -> Seq(BOOLEAN)]
  BY DEF IInv, TypeOK, ChildType
<1>2. CASE hasSend
  BY <1>1, <1>2 DEF MakeUpCompletion
<1>3. CASE ~hasSend
  <2>1. reported[notifier] = <<>> /\ isAuth = FALSE
    BY <1>3 DEF IInv, ParentInv, TypeOK, FlagType
  <2>2. reported' = [reported EXCEPT ![notifier] = Append(reported[notifier], FALSE)]
    BY <1>3, <2>1 DEF MakeUpCompletion, EmitComplete
  <2>3. Append(reported[notifier], FALSE) = <<FALSE>>
    BY <2>1
  <2>4. <<FALSE>> \in Seq(BOOLEAN) /\ Len(<<FALSE>>) = 1 /\ <<FALSE>>[1] = FALSE
    OBVIOUS
  <2>5. reported' = [reported EXCEPT ![notifier] = <<FALSE>>]
    BY <2>2, <2>3
  <2>6. reported'[notifier] = <<FALSE>>
    BY <1>1, <2>5
  <2>7. Len(reported'[notifier]) = 1 /\ reported'[notifier][1] = FALSE
    BY <2>4, <2>6, Zenon
  <2>8. \A c \in Attempt : c # notifier => reported'[c] = reported[c]
    BY <1>1, <2>5
  <2>9. reported' \in [Attempt -> Seq(BOOLEAN)]
    BY <1>1, <2>4, <2>5
  <2> QED
    BY <2>7, <2>8, <2>9, Zenon
<1> QED
  BY <1>2, <1>3

LEMMA HandleChildExitInv ==
  ASSUME IInv, HandleChildExit
  PROVE  IInv'
<1> USE PamAssumption DEF PamAssumption, IInv
<1>0. notifier \in Attempt /\ inAuth /\ notifier = pid /\ notifier <= attempts
      /\ proc[notifier] \notin Working
  BY DEF HandleChildExit, EndOfFile, TypeOK, ParentType, Attempt, ParentInv, LiveHandles
<1>1. /\ proc' \in [Attempt -> ProcState]
      /\ \A c \in Attempt : proc'[c] = proc[c]
           \/ (c <= attempts /\ proc[c] = "zombie" /\ proc'[c] = "reaped")
  BY ReapFacts DEF HandleChildExit
<1>2. /\ reported' \in [Attempt -> Seq(BOOLEAN)]
      /\ \A c \in Attempt : reported'[c] = reported[c]
           \/ (c = notifier /\ Len(reported'[c]) = 1 /\ reported'[c][1] = FALSE)
  BY <1>0, MakeUpFacts DEF HandleChildExit
<1>3. /\ toParent' \in [Attempt -> Seq(Event)]
      /\ toChild' \in [Attempt -> Nat]
      /\ \A c \in Attempt : toParent'[c] = toParent[c] \/ toParent'[c] = <<>>
      /\ toParent'[notifier] = <<>>
  <2>1. toParent'[notifier] = <<>>
    BY <1>0 DEF HandleChildExit, DropPipes
  <2> QED
    BY <2>1, DropPipesFacts DEF HandleChildExit
<1>4. OpenEnds = 2 /\ openFds - OpenEnds \in Nat
  BY <1>0, EndsFacts
<1>5. TypeOK'
  <2>1. FlagType'
    BY DEF TypeOK, FlagType, HandleChildExit, EndAttempt
  <2>2. ParentType'
    BY <1>4 DEF TypeOK, ParentType, HandleChildExit, EndAttempt, Closed, Fd
  <2>3. ChildType'
    BY <1>1, <1>2, <1>3 DEF TypeOK, ChildType, HandleChildExit
  <2> QED
    BY <2>1, <2>2, <2>3 DEF TypeOK
<1>6. LiveHandles'
  BY DEF LiveHandles, HandleChildExit, EndAttempt
<1>7. OnlyCurrentChildWorks'
  BY <1>0, <1>1 DEF OnlyCurrentChildWorks, Working
<1>8. openFds' = openFds - OpenEnds /\ inAuth' = FALSE /\ halfPipes' = halfPipes
      /\ notifier' = 0 /\ wfd' # "open" /\ OpenEnds' = 0
  BY DEF HandleChildExit, EndAttempt, Closed, OpenEnds, One
<1>9. NoFdLeak'
  BY <1>0, <1>4, <1>8 DEF NoFdLeak, TypeOK, ParentType
<1>10. ParentInv'
  <2>1. (isAuth' => hasSend') /\ pid' <= attempts'
    BY DEF ParentInv, HandleChildExit
  <2>2. openFds' >= OpenEnds'
    BY <1>4, <1>8
  <2> QED
    BY <1>8, <2>1, <2>2 DEF ParentInv
<1>11. ASSUME NEW c \in Attempt PROVE ChildInv(c)'
  <2>1. /\ attempts' = attempts /\ verdict' = verdict
        /\ attempts' \in Nat /\ attempts' >= attempts
    BY DEF HandleChildExit, TypeOK, ParentType
  <2>2. proc'[c] = proc[c] \/ (c <= attempts /\ proc'[c] \in Ended \cup {"reaped"})
    BY <1>1
  <2>3. CASE reported'[c] = reported[c]
    BY <1>3, <1>11, <2>1, <2>2, <2>3, ChildInvKept
  <2>4. CASE c = notifier /\ Len(reported'[c]) = 1 /\ reported'[c][1] = FALSE
    <3>1. proc'[c] \notin Early /\ c <= attempts' /\ toParent'[c] = <<>>
      <4>1. proc[c] \in Ended /\ c <= attempts /\ c = notifier
        BY <1>0, <2>4 DEF LiveHandles
      <4>2. toParent'[c] = <<>>
        BY <1>3, <4>1, Zenon
      <4> QED
        BY <1>1, <2>1, <4>1, <4>2 DEF Early, Ended
    <3>2. \A i \in 1..Len(reported'[c]) : ~reported'[c][i]
      <4>1. \A i \in 1..Len(reported'[c]) : i = 1
        BY <2>4
      <4>2. ~reported'[c][1]
        BY <2>4, Zenon
      <4> QED
        BY <4>1, <4>2, Zenon
    <3>3. ~(c > attempts')
      BY <2>1, <3>1 DEF Attempt
    <3>4. \A i \in 1..Len(toParent'[c]) : toParent'[c][i] \notin Verdict
      BY <3>1
    <3>5. Len(reported'[c]) <= 1
      <4>1. Len(reported'[c]) = 1
        BY <2>4, Zenon
      <4> QED
        BY <4>1
    <3>6. "verdict" \in Early
      BY DEF Early
    <3>7. proc'[c] \notin Early \ {"verdict"} /\ proc'[c] # "verdict"
      BY <3>1, <3>6
    <3> QED
      BY <3>1, <3>2, <3>3, <3>4, <3>5, <3>7, Zenon DEF ChildInv
  <2> QED
    BY <1>2, <2>3, <2>4
<1> QED
  BY <1>5, <1>6, <1>7, <1>9, <1>10, <1>11

-----------------------------------------------------------------------------
(* The steps of the children preserve the invariant *)

\* A step of a child that has not been waited for changes that child only, and
\* does not bring one that has ended back to work.
LEMMA ChildFrame ==
  ASSUME IInv, NEW c \in Attempt, NEW state \in Working \cup Ended,
         proc[c] \in Working \cup Ended, state \in Working => proc[c] \in Working,
         Become(c, state), UNCHANGED <<parentVars, reported>>,
         verdict' \in [Attempt -> Verdict \cup {"none"}], talk' \in [Attempt -> Nat],
         toParent' \in [Attempt -> Seq(Event)], toChild' \in [Attempt -> Nat],
         \A d \in Attempt : d # c => verdict'[d] = verdict[d] /\ toParent'[d] = toParent[d],
         ChildInv(c)'
  PROVE  IInv'
<1> USE DEF IInv, parentVars
<1>1. /\ proc' \in [Attempt -> ProcState]
      /\ \A d \in Attempt : proc'[d] = IF d = c THEN state ELSE proc[d]
  BY DEF Become, TypeOK, ChildType, ProcState
<1>2. TypeOK'
  <2>1. FlagType'
    BY DEF TypeOK, FlagType
  <2>2. ParentType'
    BY DEF TypeOK, ParentType
  <2>3. ChildType'
    BY <1>1 DEF TypeOK, ChildType
  <2> QED
    BY <2>1, <2>2, <2>3 DEF TypeOK
<1>3. LiveHandles'
  <2>1. inAuth => pid \in Attempt
    BY DEF LiveHandles, TypeOK, ParentType, Attempt
  <2> QED
    BY <1>1, <2>1 DEF LiveHandles
<1>4. OnlyCurrentChildWorks'
  BY <1>1 DEF OnlyCurrentChildWorks
<1>5. NoFdLeak' /\ ParentInv'
  BY DEF NoFdLeak, ParentInv, OpenEnds
<1>6. ASSUME NEW d \in Attempt, d # c PROVE ChildInv(d)'
  <2>1. /\ attempts' = attempts /\ reported' = reported
        /\ attempts' \in Nat /\ attempts' >= attempts
    BY DEF TypeOK, ParentType
  <2> QED
    BY <1>1, <1>6, <2>1, ChildInvKept
<1> QED
  BY <1>2, <1>3, <1>4, <1>5, <1>6

\* Sending appends one event to the child's own pipe.
LEMMA SendFacts ==
  ASSUME IInv, NEW c \in Attempt, NEW event \in Event, Send(c, event)
  PROVE  /\ toParent' \in [Attempt -> Seq(Event)]
         /\ \A d \in Attempt : d # c => toParent'[d] = toParent[d]
         /\ Len(toParent'[c]) = Len(toParent[c]) + 1
         /\ toParent'[c][Len(toParent'[c])] = event
         /\ \A i \in 1..Len(toParent'[c]) :
              i # Len(toParent'[c]) =>
                i \in 1..Len(toParent[c]) /\ toParent'[c][i] = toParent[c][i]
<1>1. toParent \in [Attempt -> Seq(Event)] /\ toParent[c] \in Seq(Event)
  BY DEF IInv, TypeOK, ChildType
<1>2. Append(toParent[c], event) \in Seq(Event)
  BY <1>1
<1>3. /\ toParent' \in [Attempt -> Seq(Event)]
      /\ \A d \in Attempt : d # c => toParent'[d] = toParent[d]
      /\ toParent'[c] = Append(toParent[c], event)
  BY <1>1, <1>2 DEF Send
<1>4. /\ Len(Append(toParent[c], event)) = Len(toParent[c]) + 1
      /\ Append(toParent[c], event)[Len(toParent[c]) + 1] = event
      /\ \A i \in 1..Len(toParent[c]) + 1 : i # Len(toParent[c]) + 1 =>
           i \in 1..Len(toParent[c]) /\ Append(toParent[c], event)[i] = toParent[c][i]
  BY <1>1
<1> QED
  BY <1>3, <1>4

\* A prompt or a message is not a verdict, and is sent before there is one.
LEMMA TalkInv ==
  ASSUME IInv, NEW c \in Attempt, NEW event \in {"prompt", "message"},
         NEW state \in {"running", "asking"}, proc[c] = "running",
         Send(c, event), Become(c, state), talk' = [talk EXCEPT ![c] = @ + 1],
         UNCHANGED <<parentVars, verdict, toChild, reported>>
  PROVE  IInv'
<1> USE DEF IInv
<1>1. event \in Event /\ event \notin Verdict
  BY DEF Event, Verdict
<1>2. /\ toParent' \in [Attempt -> Seq(Event)]
      /\ \A d \in Attempt : d # c => toParent'[d] = toParent[d]
      /\ Len(toParent'[c]) = Len(toParent[c]) + 1
      /\ toParent'[c][Len(toParent'[c])] = event
      /\ \A i \in 1..Len(toParent'[c]) :
           i # Len(toParent'[c]) =>
             i \in 1..Len(toParent[c]) /\ toParent'[c][i] = toParent[c][i]
  BY <1>1, SendFacts
<1>3. talk' \in [Attempt -> Nat] /\ verdict' = verdict /\ toChild' = toChild
  BY DEF TypeOK, ChildType
<1>4. proc'[c] = state /\ attempts' = attempts /\ reported' = reported
  BY DEF Become, TypeOK, ChildType, parentVars
<1>5. ChildInv(c)'
  <2>1. NoVerdictSent(c) /\ reported[c] = <<>> /\ verdict[c] = "none" /\ ~(c > attempts)
    BY DEF ChildInv, Early
  <2>2. NoVerdictSent(c)'
    BY <1>1, <1>2, <2>1 DEF NoVerdictSent
  <2>3. /\ \A i \in 1..Len(reported[c]) : reported[c][i] => verdict[c] = "pass"
        /\ Len(reported[c]) <= 1
    BY DEF ChildInv
  <2>4. state # "verdict"
    OBVIOUS
  <2> QED
    BY <1>3, <1>4, <2>1, <2>2, <2>3, <2>4 DEF ChildInv, NoVerdictSent
<1>6. /\ proc[c] \in Working \cup Ended /\ proc[c] \in Working
      /\ state \in Working \cup Ended
  BY DEF Working
<1>7. toChild' \in [Attempt -> Nat] /\ verdict' \in [Attempt -> Verdict \cup {"none"}]
  BY <1>3 DEF TypeOK, ChildType
<1> QED
  BY <1>2, <1>3, <1>5, <1>6, <1>7, ChildFrame

LEMMA ChildAskInv ==
  ASSUME IInv, NEW c \in Attempt, ChildAsk(c)
  PROVE  IInv'
  BY TalkInv DEF ChildAsk

LEMMA ChildSayInv ==
  ASSUME IInv, NEW c \in Attempt, ChildSay(c)
  PROVE  IInv'
<1>1. Become(c, "running")
  BY DEF ChildSay, Become, IInv, TypeOK, ChildType
<1> QED
  BY <1>1, TalkInv DEF ChildSay

\* Steps that leave the pipe to the parent alone.
LEMMA SilentInv ==
  ASSUME IInv, NEW c \in Attempt, NEW state \in Working \cup Ended,
         proc[c] \in Working \cup Ended, state \in Working => proc[c] \in Working,
         Become(c, state), toChild' \in [Attempt -> Nat],
         state \in Early => state = "running" /\ proc[c] \in Early \ {"verdict"},
         UNCHANGED <<parentVars, verdict, talk, toParent, reported>>
  PROVE  IInv'
<1>1. /\ verdict' \in [Attempt -> Verdict \cup {"none"}] /\ talk' \in [Attempt -> Nat]
      /\ toParent' \in [Attempt -> Seq(Event)]
      /\ toParent' = toParent /\ verdict' = verdict
  BY DEF IInv, TypeOK, ChildType
<1>2. proc'[c] = state /\ attempts' = attempts /\ reported' = reported
  BY DEF Become, IInv, TypeOK, ChildType, parentVars
<1>3. ChildInv(c)'
  <2>1. proc[c] # "unborn"
    BY DEF Working, Ended
  <2>2. NoVerdictSent(c)' <=> NoVerdictSent(c)
    BY <1>1 DEF NoVerdictSent
  <2> QED
    BY <1>1, <1>2, <2>1, <2>2 DEF IInv, ChildInv, Early
<1> QED
  BY <1>1, <1>3, ChildFrame

LEMMA ChildReadReplyInv ==
  ASSUME IInv, NEW c \in Attempt, ChildReadReply(c)
  PROVE  IInv'
<1>1. toChild' \in [Attempt -> Nat]
  BY DEF ChildReadReply, IInv, TypeOK, ChildType
<1> QED
  BY <1>1, SilentInv DEF ChildReadReply, Working, Ended, Early

LEMMA ChildDieInv ==
  ASSUME IInv, NEW c \in Attempt, ChildDie(c)
  PROVE  IInv'
<1>1. toChild' \in [Attempt -> Nat]
  BY DEF ChildDie, pipeVars, IInv, TypeOK, ChildType
<1> QED
  BY <1>1, SilentInv DEF ChildDie, pipeVars, Working, Ended, Early

LEMMA ChildZombieInv ==
  ASSUME IInv, NEW c \in Attempt, ChildZombie(c)
  PROVE  IInv'
<1>1. toChild' \in [Attempt -> Nat]
  BY DEF ChildZombie, pipeVars, IInv, TypeOK, ChildType
<1> QED
  BY <1>1, SilentInv DEF ChildZombie, pipeVars, Working, Ended, Early

LEMMA ChildVerdictInv ==
  ASSUME IInv, NEW c \in Attempt, ChildVerdict(c)
  PROVE  IInv'
<1>1. PICK v \in Verdict : verdict' = [verdict EXCEPT ![c] = v]
  BY DEF ChildVerdict
<1>2. /\ verdict' \in [Attempt -> Verdict \cup {"none"}] /\ verdict'[c] = v
      /\ \A d \in Attempt : d # c => verdict'[d] = verdict[d]
  BY <1>1 DEF IInv, TypeOK, ChildType
<1>3. /\ talk' \in [Attempt -> Nat] /\ toParent' \in [Attempt -> Seq(Event)]
      /\ toChild' \in [Attempt -> Nat]
      /\ toParent' = toParent /\ reported' = reported /\ attempts' = attempts
  BY DEF IInv, TypeOK, ChildType, ChildVerdict, pipeVars, parentVars
<1>4. proc'[c] = "verdict"
  BY DEF ChildVerdict, Become, IInv, TypeOK, ChildType
<1>5. ChildInv(c)'
  <2>1. NoVerdictSent(c) /\ reported[c] = <<>> /\ ~(c > attempts)
    BY DEF IInv, ChildInv, Early, ChildVerdict
  <2>2. NoVerdictSent(c)'
    BY <1>3, <2>1 DEF NoVerdictSent
  <2>3. Len(reported[c]) <= 1 /\ \A i \in 1..Len(reported[c]) : FALSE
    BY <2>1
  <2> QED
    BY <1>2, <1>3, <1>4, <2>1, <2>2, <2>3 DEF ChildInv, Early, NoVerdictSent
<1> QED
  BY <1>2, <1>3, <1>5, ChildFrame DEF ChildVerdict, Working, Ended

LEMMA ChildCompleteInv ==
  ASSUME IInv, NEW c \in Attempt, ChildComplete(c)
  PROVE  IInv'
\* Nothing but prompts and messages was sent before, and nothing reported.
<1>1. /\ proc[c] = "verdict" /\ verdict[c] \in Verdict
      /\ NoVerdictSent(c) /\ reported[c] = <<>> /\ ~(c > attempts)
  BY DEF ChildComplete, IInv, ChildInv, Early
<1>2. /\ toParent' \in [Attempt -> Seq(Event)]
      /\ \A d \in Attempt : d # c => toParent'[d] = toParent[d]
      /\ toParent'[c][Len(toParent'[c])] = verdict[c]
      /\ \A i \in 1..Len(toParent'[c]) :
           i # Len(toParent'[c]) =>
             i \in 1..Len(toParent[c]) /\ toParent'[c][i] = toParent[c][i]
  BY <1>1, SendFacts DEF ChildComplete, Event
<1>3. /\ verdict' \in [Attempt -> Verdict \cup {"none"}] /\ talk' \in [Attempt -> Nat]
      /\ toChild' \in [Attempt -> Nat]
      /\ verdict' = verdict /\ reported' = reported /\ attempts' = attempts
  BY DEF IInv, TypeOK, ChildType, ChildComplete, parentVars
<1>4. proc'[c] = "sent"
  BY DEF ChildComplete, Become, IInv, TypeOK, ChildType
<1>5. ChildInv(c)'
  <2>1. \A i \in 1..Len(toParent'[c]) : toParent'[c][i] \in Verdict =>
          toParent'[c][i] = verdict[c] /\ i = Len(toParent'[c]) /\ reported[c] = <<>>
    BY <1>1, <1>2 DEF NoVerdictSent
  <2>2. Len(reported[c]) <= 1 /\ \A i \in 1..Len(reported[c]) : FALSE
    BY <1>1
  <2> QED
    BY <1>1, <1>3, <1>4, <2>1, <2>2 DEF ChildInv, Early
<1> QED
  BY <1>1, <1>2, <1>3, <1>5, ChildFrame DEF ChildComplete, Working, Ended

-----------------------------------------------------------------------------
(* Every step preserves the invariant *)

LEMMA NextInv == IInv /\ [Next]_vars => IInv'
<1> SUFFICES ASSUME IInv, [Next]_vars PROVE IInv'
  OBVIOUS
<1>1. CASE Authenticate
  BY <1>1, AuthenticateInv
<1>2. CASE PipeFails \/ SecondPipeFails \/ ForkFails
  BY <1>2, AuthenticateFailsInv
<1>3. CASE Cancel
  BY <1>3, CancelInv DEF Cancel, IInv, TypeOK, FlagType
<1>4. CASE Destroy
  BY <1>4, CancelInv DEF Destroy
<1>5. CASE Respond
  BY <1>5, RespondInv
<1>6. CASE HandlePipeActivated
  BY <1>6, HandleEventInv, HandleCompleteInv, HandleChildExitInv DEF HandlePipeActivated
<1>7. CASE \E c \in Attempt : ChildStep(c)
  BY <1>7, ChildAskInv, ChildReadReplyInv, ChildSayInv, ChildVerdictInv,
     ChildCompleteInv, ChildDieInv, ChildZombieInv DEF ChildStep
<1>8. CASE UNCHANGED vars
  <2>1. UNCHANGED <<parentVars, childVars, reported>> /\ UNCHANGED pipeVars
    BY <1>8 DEF vars
  <2>2. toParent' \in [Attempt -> Seq(Event)] /\ toChild' \in [Attempt -> Nat]
    BY <2>1 DEF pipeVars, IInv, TypeOK, ChildType
  <2>3. ASSUME NEW c \in Attempt PROVE ChildInv(c)'
    BY <2>1, <2>3 DEF IInv, ChildInv, NoVerdictSent, parentVars, childVars, pipeVars
  <2> QED
    BY <2>1, <2>2, <2>3, QuietInv
<1> QED
  BY <1>1, <1>2, <1>3, <1>4, <1>5, <1>6, <1>7, <1>8 DEF Next

\* The inductive invariant of the authentication attempts: the handles and
\* flags of AuthPam belong to the attempt under way, and every child's pipe and
\* reports agree with how far the child has come.
THEOREM InductiveInvariant == Spec => []IInv
  BY InitInv, NextInv, PTL DEF Spec

\* Every variable keeps its type: in particular a cancellation or the end of an
\* attempt never closes more descriptors than are open (openFds stays in Nat).
THEOREM TypeCorrect == Spec => []TypeOK
<1>1. IInv => TypeOK
  BY DEF IInv
<1> QED
  BY <1>1, InductiveInvariant, PTL

\* While an attempt is under way the pid and the descriptors AuthPam holds are
\* those of its own child, still unreaped: cancelAuthentication() kills nobody
\* else, and closes nothing else.
THEOREM HandlesAreLive == Spec => []LiveHandles
<1>1. IInv => LiveHandles
  BY DEF IInv
<1> QED
  BY <1>1, InductiveInvariant, PTL

\* Cancelling, restarting or failing to restart an attempt never leaves an
\* earlier child running in the background.
THEOREM NoBackgroundChild == Spec => []OnlyCurrentChildWorks
<1>1. IInv => OnlyCurrentChildWorks
  BY DEF IInv
<1> QED
  BY <1>1, InductiveInvariant, PTL

\* authenticate() does not reset m_isAuthenticated and handleChildExit() reports
\* it; nevertheless no attempt is reported as a success unless pam_authenticate()
\* returned success in the child of that very attempt.
THEOREM NoBorrowedSuccess == Spec => []SuccessIsOwn
<1>1. IInv => SuccessIsOwn
  BY InvImplies
<1> QED
  BY <1>1, InductiveInvariant, PTL

\* The Complete event and the end of file never both report the same attempt.
THEOREM OneReport == Spec => []ReportedOnce
<1>1. IInv => ReportedOnce
  BY InvImplies
<1> QED
  BY <1>1, InductiveInvariant, PTL

\* Any number of attempts, cancelled, failed, or run to the end of file in any
\* order, leaves open no more than the pipes of the attempt under way and two
\* ends for each call whose second pipe() failed.
THEOREM DescriptorsBounded == Spec => []NoFdLeak
<1>1. IInv => NoFdLeak
  BY DEF IInv
<1> QED
  BY <1>1, InductiveInvariant, PTL
=============================================================================
