------------------------- MODULE ScreenSaverProofs -------------------------
(***************************************************************************)
(* Theorems about ScreenSaver for any number of attempts, sessions and     *)
(* signals. Every step of the composition is a step of AuthPam or leaves   *)
(* its variables alone (Simulates), so the invariant of AuthPamProofs      *)
(* carries over; what is added ties the queue, the session and the page    *)
(* shown to the attempt last started. The heart is that a report closes an *)
(* attempt: nothing is appended behind its completion (QueueInv), so that  *)
(* the dialog starts over only when everything has been delivered.         *)
(***************************************************************************)
EXTENDS ScreenSaver, AuthPamProofs, SequenceTheorems

\* The attempt under way is the last one forked, and nothing is left to read
\* of an attempt that was reported.
PamLink == /\ inAuth => notifier = attempts
           /\ \A c \in Attempt : reported[c] # <<>> => toParent[c] = <<>>

Over == reported[attempts] # <<>>
Won  == \E i \in 1..Len(reported[attempts]) : reported[attempts][i]

\* Without a child there is nothing to wait for.
StartInv == /\ startOk => attempts # 0 /\ starts # 0
            /\ ~startOk => ~inAuth /\ sid = 0 /\ page = "edit" /\ ~unlocked

\* The handler of a prompt runs only in an attempt not yet reported.
HandlerInv == at # "idle" => /\ inAuth /\ startOk /\ ~Over
                             /\ at = "start" => sid # 0

\* The completion is the last message on its way.
QueueInv == \A i \in 1..Len(Pipeline) : Pipeline[i].kind = "complete" =>
              i = Len(Pipeline) /\ Over /\ (Pipeline[i].ok => Won)

SessionInv == /\ sid # 0 => madeFor[sid] = attempts
              /\ startOk /\ Over => sid = 0

\* When the dialog has acted on a completion, that was the end of the attempt.
PageInv == /\ page = "reauth" \/ unlocked => startOk /\ Over /\ Pipeline = <<>>
           /\ unlocked => Won /\ page = "edit"

PromptInv == havePrompt => shownFor = attempts

LinkInv == /\ StartInv /\ HandlerInv /\ SessionInv /\ PageInv /\ PromptInv
           /\ QueueInv /\ NothingStale

SInv == /\ IInv /\ PamLink
        /\ ProxyTypeOK /\ DialogTypeOK
        /\ LinkInv

-----------------------------------------------------------------------------
(* The backend's part *)

\* What is left of one.
LEMMA TailOfOne == ASSUME NEW S, NEW s \in Seq(S), Len(s) = 1 PROVE Tail(s) = <<>>
<1>1. Tail(s) \in Seq(S) /\ Len(Tail(s)) = 0
  OBVIOUS
<1> QED
  BY <1>1, EmptySeq

\* Every step of the composition is a step of AuthPam or none.
LEMMA Simulates == [SaverNext]_saverVars => [Next]_vars
<1> SUFFICES ASSUME [SaverNext]_saverVars PROVE [Next]_vars
  OBVIOUS
<1>1. CASE FirstStart \/ ReAuth \/ TryAgain
  BY <1>1 DEF FirstStart, ReAuth, TryAgain, StartAuth, StartBackend, Next
<1>2. CASE PamSpeaks
  BY <1>2 DEF PamSpeaks, HandlePipeActivated, Next
<1>3. CASE Confirm \/ ProxyReplies
  BY <1>3 DEF Confirm, ProxyReplies, Next
<1>4. CASE ShowPrompt \/ ShowMessage \/ Unlock \/ OfferReAuth \/ ProxyStep
  BY <1>4 DEF ShowPrompt, ShowMessage, Unlock, OfferReAuth, ProxyStep, vars
<1>5. CASE Environment
  BY <1>5 DEF Environment, Next
<1>6. CASE UNCHANGED saverVars
  BY <1>6 DEF saverVars
<1> QED
  BY <1>1, <1>2, <1>3, <1>4, <1>5, <1>6 DEF SaverNext, DialogStep

\* Once reported, an attempt is read out and its child speaks no more.
LEMMA PamLinkInv == IInv /\ PamLink /\ [Next]_vars => PamLink'
<1> SUFFICES ASSUME IInv, PamLink, [Next]_vars PROVE PamLink'
  OBVIOUS
<1> USE DEF PamLink
<1>0. /\ TypeOK /\ LiveHandles /\ ParentInv
      /\ \A c \in Attempt : ChildInv(c)
  BY DEF IInv
<1>1. CASE Authenticate
  <2>1. /\ notifier' = attempts' /\ reported' = reported
        /\ \A c \in Attempt : toParent'[c] \in {<<>>, toParent[c]}
    BY <1>1 DEF Authenticate, DropPipes
  <2> QED
    BY <2>1
<1>2. CASE PipeFails \/ SecondPipeFails \/ ForkFails \/ Cancel \/ Destroy
  <2>1. /\ inAuth' = FALSE /\ reported' = reported
        /\ \A c \in Attempt : toParent'[c] \in {<<>>, toParent[c]}
    BY <1>2 DEF PipeFails, SecondPipeFails, ForkFails, AuthenticateFails, Cancel,
       Destroy, CancelAuthentication, DropPipes
  <2> QED
    BY <2>1
<1>3. CASE Respond
  BY <1>3 DEF Respond, parentVars
<1>4. CASE HandlePrompt \/ HandleMessage
  <2>1. /\ UNCHANGED <<parentVars, reported>>
        /\ Readable /\ Consume
    BY <1>4 DEF HandlePrompt, HandleMessage
  <2>2. \A c \in Attempt : reported[c] # <<>> => toParent'[c] = toParent[c]
    BY <2>1, <1>0 DEF Readable, Consume, TypeOK, ParentType, ChildType, Attempt
  <2> QED
    BY <2>1, <2>2 DEF parentVars
<1>5. CASE HandleComplete
  <2>1. /\ UNCHANGED <<inAuth, notifier, attempts>>
        /\ Readable /\ Consume /\ Head(toParent[notifier]) \in Verdict
        /\ \A c \in Attempt : c # notifier => reported'[c] = reported[c]
    BY <1>5, <1>0 DEF HandleComplete, NoteCompletion, EmitComplete, TypeOK, ChildType
  <2>2. notifier \in Attempt /\ toParent[notifier] \in Seq(Event)
    BY <2>1, <1>0 DEF Readable, TypeOK, ParentType, ChildType, Attempt
  <2>3. toParent[notifier][1] \in Verdict /\ Len(toParent[notifier]) # 0
    BY <2>1, <2>2 DEF Readable
  <2>4. Len(toParent[notifier]) = 1
    <3>1. 1 \in 1..Len(toParent[notifier])
      BY <2>2, <2>3
    <3>2. ChildInv(notifier)
      BY <2>2, <1>0
    <3> QED
      BY <3>1, <3>2, <2>3 DEF ChildInv
  <2>5. toParent'[notifier] = <<>>
    <3>1. toParent'[notifier] = Tail(toParent[notifier])
      BY <2>1, <2>2, <1>0 DEF Consume, TypeOK, ChildType
    <3>2. Tail(toParent[notifier]) = <<>>
      BY <2>2, <2>4, TailOfOne
    <3> QED
      BY <3>1, <3>2
  <2>6. \A c \in Attempt : c # notifier => toParent'[c] = toParent[c]
    BY <2>1, <1>0 DEF Consume, TypeOK, ChildType
  <2> QED
    BY <2>1, <2>5, <2>6
<1>6. CASE HandleChildExit
  <2>1. /\ inAuth' = FALSE /\ EndOfFile
        /\ \A c \in Attempt : toParent'[c] \in {<<>>, toParent[c]}
        /\ \A c \in Attempt : c # notifier => reported'[c] = reported[c]
        /\ toParent' = [c \in Attempt |-> IF c = notifier THEN <<>> ELSE toParent[c]]
    BY <1>6, <1>0 DEF HandleChildExit, EndAttempt, DropPipes, MakeUpCompletion,
       EmitComplete, TypeOK, ChildType
  <2> QED
    BY <2>1
<1>7. CASE \E c \in Attempt : ChildStep(c)
  <2>1. PICK c \in Attempt : ChildStep(c)
    BY <1>7
  <2>2. UNCHANGED <<parentVars, reported>>
    BY <2>1 DEF ChildStep, ChildAsk, ChildReadReply, ChildSay, ChildVerdict,
       ChildComplete, ChildDie, ChildZombie
  <2>3. \A d \in Attempt : d # c => toParent'[d] = toParent[d]
    BY <2>1, <1>0 DEF ChildStep, ChildAsk, ChildReadReply, ChildSay, ChildVerdict,
       ChildComplete, ChildDie, ChildZombie, Send, pipeVars, TypeOK, ChildType
  <2>4. reported[c] # <<>> => toParent'[c] = toParent[c]
    <3>1. reported[c] # <<>> => proc[c] \notin Early
      BY <2>1, <1>0 DEF ChildInv
    <3> QED
      BY <3>1, <2>1 DEF ChildStep, ChildAsk, ChildReadReply, ChildSay, ChildVerdict,
         ChildComplete, ChildDie, ChildZombie, Early, pipeVars
  <2> QED
    BY <2>2, <2>3, <2>4 DEF parentVars
<1>8. CASE UNCHANGED vars
  BY <1>8 DEF vars, parentVars, pipeVars
<1> QED
  BY <1>1, <1>2, <1>3, <1>4, <1>5, <1>6, <1>7, <1>8 DEF Next, HandlePipeActivated

-----------------------------------------------------------------------------
(* Types *)

\* Whatever is put into a message has its type.
LEMMA MsgType ==
  ASSUME NEW kind \in Kind, NEW from \in Source, NEW ok \in BOOLEAN, NEW attempt \in Nat
  PROVE  Msg(kind, from, ok, attempt) \in Message
  BY DEF Msg, Message

LEMMA KindType == {"prompt"} \cup Severities \subseteq Kind
  BY ProxyAssumption DEF Kind

LEMMA EndSessionType == SessionType /\ EndSession =>
  /\ sessions' \in 0..MaxSessions /\ sid' \in 0..sessions'
  /\ service' \in [Session -> {"none", "created", "started", "stopped"}]
  /\ madeFor' \in [Session -> Nat]
  BY ProxyAssumption DEF SessionType, EndSession, StopAuth

\* The steps of the proxy: what it says and hears, ...
Speech(ok, attempt) == PromptShown(attempt) \/ MessageSaid(attempt) \/ HandleSignal
                       \/ Completed(ok, attempt)
Arrival == PromptArrives \/ MessageArrives \/ CompletionArrives
\* ... and what it does without.
Silence(attempt) == SessionCreated(attempt) \/ SessionRefused \/ Replied \/ StartSession
                    \/ PromptHandled \/ ServiceSignal

LEMMA SilenceType ==
  ASSUME SessionType, NEW attempt \in Nat, Silence(attempt) PROVE SessionType'
<1> USE DEF SessionType, Silence
<1>1. CASE SessionCreated(attempt)
  BY <1>1, ProxyAssumption DEF SessionCreated, HandlerAt, busVars, Session
<1>2. CASE SessionRefused \/ Replied \/ PromptHandled
  BY <1>2 DEF SessionRefused, Replied, PromptHandled, HandlerAt, busVars, sessionVars
<1>3. CASE StartSession
  BY <1>3 DEF StartSession, HandlerAt, busVars
<1>4. CASE ServiceSignal
  <2>1. UNCHANGED <<at, sid, promptFrom, sessionVars>> /\ signals' \in Nat
    BY <1>4 DEF ServiceSignal
  <2>2. bus' \in Seq(Signal)
    BY <1>4 DEF ServiceSignal, Signal
  <2> QED
    BY <2>1, <2>2 DEF sessionVars
<1> QED
  BY <1>1, <1>2, <1>3, <1>4

LEMMA SpeechType ==
  ASSUME SessionType, NEW attempt, NEW ok, Speech(ok, attempt) \/ Arrival \/ HandOver,
         QueueType
  PROVE  SessionType'
<1>1. CASE PromptShown(attempt) \/ MessageSaid(attempt) \/ MessageArrives \/ HandOver
  BY <1>1 DEF SessionType, PromptShown, MessageSaid, MessageArrives, HandOver,
     sessionVars, busVars
<1>2. CASE HandleSignal
  BY <1>2 DEF SessionType, HandleSignal, sessionVars
<1>3. CASE PromptArrives
  <2>1. Head(posted) \in Message
    BY <1>3 DEF PromptArrives, Arrives, QueueType
  <2> QED
    BY <1>3, <2>1 DEF SessionType, PromptArrives, sessionVars, busVars, Message
<1>4. CASE Completed(ok, attempt) \/ CompletionArrives
  BY <1>4, EndSessionType DEF SessionType, Completed, CompletionArrives, busVars
<1> QED
  BY <1>1, <1>2, <1>3, <1>4 DEF Speech, Arrival

\* What was appended: a message of the attempt, not a completion unless the
\* attempt was completed.
LEMMA Appended ==
  ASSUME QueueType, SessionType, NEW attempt \in Nat,
         \/ PromptShown(attempt) \/ MessageSaid(attempt)
         \/ HandleSignal /\ SignalTaken /\ attempt = madeFor[sid]
  PROVE  \E m \in Message : /\ pending' = Append(pending, m) /\ posted' = posted
                            /\ m.kind # "complete" /\ m.attempt = attempt
<1>1. CASE PromptShown(attempt)
  <2>1. Msg("prompt", "pam", FALSE, attempt) \in Message
    BY MsgType DEF Kind, Source
  <2>2. pending' = Append(pending, Msg("prompt", "pam", FALSE, attempt)) /\ posted' = posted
    BY <1>1 DEF PromptShown
  <2> QED
    BY <2>1, <2>2, Zenon DEF Msg
<1>2. CASE MessageSaid(attempt)
  <2>1. PICK k \in Severities : pending' = Append(pending, Msg(k, "pam", FALSE, attempt))
    BY <1>2 DEF MessageSaid
  <2>2. Msg(k, "pam", FALSE, attempt) \in Message
    BY MsgType, KindType DEF Source
  <2>3. k # "complete" /\ posted' = posted
    BY <1>2, ProxyAssumption DEF MessageSaid
  <2> QED
    BY <2>1, <2>2, <2>3, Zenon DEF Msg
<1>3. CASE HandleSignal /\ SignalTaken /\ attempt = madeFor[sid]
  <2>1. Head(bus) \in Signal
    BY <1>3 DEF HandleSignal, SessionType
  <2>2. Msg(Head(bus).kind, "service", FALSE, attempt) \in Message
    BY <2>1, MsgType, KindType DEF Signal, Source
  <2>3. Head(bus).kind # "complete" /\ posted' = posted
    BY <1>3, <2>1, ProxyAssumption DEF HandleSignal, Signal
  <2>4. pending' = Append(pending, Msg(Head(bus).kind, "service", FALSE, attempt))
    BY <1>3 DEF HandleSignal, SignalTaken
  <2> QED
    BY <2>2, <2>3, <2>4, Zenon DEF Msg
<1> QED
  BY <1>1, <1>2, <1>3

\* A completion comes alone or behind the error made up for it.
LEMMA CompletionAppended ==
  ASSUME QueueType, NEW attempt \in Nat, NEW ok \in BOOLEAN, Completed(ok, attempt)
  PROVE  \E m \in Message, q \in Seq(Message) :
           /\ pending' = Append(pending \o q, m) /\ posted' = posted
           /\ m.kind = "complete" /\ m.attempt = attempt /\ m.ok = ok
           /\ \A i \in 1..Len(q) : q[i].kind # "complete" /\ q[i].attempt = attempt
<1> DEFINE q == MadeUp(ok, attempt)
           m == Msg("complete", "pam", ok, attempt)
           e == Msg("made up", "pam", FALSE, attempt)
<1>1. m \in Message /\ e \in Message
  BY MsgType DEF Kind, Source
<1>2. q = <<>> \/ q = <<e>>
  BY Zenon DEF MadeUp
<1>3. e.kind # "complete" /\ e.attempt = attempt
  BY DEF Msg
<1>4. m.kind = "complete" /\ m.attempt = attempt /\ m.ok = ok
  BY Zenon DEF Msg
<1>5. pending' = pending \o q \o <<m>> /\ posted' = posted
  BY Zenon DEF Completed
<1> HIDE DEF q, m, e
<1>6. q \in Seq(Message)
  <2>1. <<e>> \in Seq(Message)
    BY <1>1
  <2>2. <<>> \in Seq(Message)
    OBVIOUS
  <2> QED
    BY <1>2, <2>1, <2>2, Zenon
<1>7. \A i \in 1..Len(q) : q[i].kind # "complete" /\ q[i].attempt = attempt
  BY <1>2, <1>3
<1>8. pending \o q \o <<m>> = Append(pending \o q, m)
  BY <1>1, <1>6 DEF QueueType
<1>9. pending' = Append(pending \o q, m) /\ posted' = posted
  BY <1>5, <1>8, Zenon
<1>10. /\ pending' = Append(pending \o q, m) /\ posted' = posted
       /\ m.kind = "complete" /\ m.attempt = attempt /\ m.ok = ok
       /\ \A i \in 1..Len(q) : q[i].kind # "complete" /\ q[i].attempt = attempt
  BY <1>4, <1>7, <1>9, Zenon
<1> QED
  BY <1>1, <1>6, <1>10, Zenon

\* With nothing queued there is nothing to slip out of a reset.
LEMMA ResetEmpty ==
  ASSUME QueueType, pending = <<>>, ResetQueue(<<>>)
  PROVE  pending' = <<>> /\ posted' = <<>>
<1>1. PICK n \in {0, 1} : n <= Len(pending) /\ posted' = <<>> \o SubSeq(pending, 1, n)
  BY DEF ResetQueue
<1>2. n = 0
  BY <1>1
<1>3. SubSeq(pending, 1, n) \in Seq(Message) /\ Len(SubSeq(pending, 1, n)) = 0
  BY <1>2 DEF QueueType
<1> QED
  BY <1>1, <1>3, EmptySeq DEF ResetQueue

-----------------------------------------------------------------------------
(* The pipeline *)

\* Handing over moves a message along the pipeline and changes nothing else.
LEMMA HandOverPipeline ==
  ASSUME QueueType, HandOver PROVE Pipeline' = Pipeline /\ QueueType'
<1>1. /\ pending # <<>> /\ posted' = Append(posted, Head(pending))
      /\ pending' = Tail(pending)
  BY DEF HandOver, Queue!HandOverOldest
<1>2. pending = <<Head(pending)>> \o Tail(pending)
  BY <1>1 DEF QueueType
<1> QED
  BY <1>1, <1>2 DEF QueueType, Pipeline

\* An arrival takes the head of the pipeline.
LEMMA ArrivalPipeline ==
  ASSUME QueueType, posted # <<>>, posted' = Tail(posted), pending' = pending
  PROVE  /\ Pipeline \in Seq(Message) /\ Pipeline # <<>>
         /\ Pipeline' = Tail(Pipeline) /\ Pipeline[1] = Head(posted)
         /\ QueueType'
  BY DEF QueueType, Pipeline

\* What is appended comes last.
LEMMA AppendPipeline ==
  ASSUME QueueType, NEW m \in Message, pending' = Append(pending, m), posted' = posted
  PROVE  Pipeline' = Append(Pipeline, m) /\ QueueType'
  BY DEF QueueType, Pipeline

LEMMA CompletionPipeline ==
  ASSUME QueueType, NEW m \in Message, NEW q \in Seq(Message),
         pending' = Append(pending \o q, m), posted' = posted
  PROVE  Pipeline' = Append(Pipeline \o q, m) /\ QueueType'
<1>1. pending \o q \in Seq(Message) /\ posted \in Seq(Message) /\ pending \in Seq(Message)
  BY DEF QueueType
<1>2. posted \o Append(pending \o q, m) = Append(posted \o (pending \o q), m)
  BY <1>1
<1>3. posted \o (pending \o q) = (posted \o pending) \o q
  BY <1>1
<1>4. Append(pending \o q, m) \in Seq(Message)
  BY <1>1
<1>5. QueueType'
  BY <1>1, <1>4, Zenon DEF QueueType
<1>6. Pipeline' = Append(Pipeline \o q, m)
  BY <1>2, <1>3, Zenon DEF Pipeline
<1> QED
  BY <1>5, <1>6

\* The pipeline is empty exactly when both of its parts are.
LEMMA EmptyPipeline ==
  ASSUME QueueType PROVE Pipeline = <<>> <=> posted = <<>> /\ pending = <<>>
<1>1. Len(Pipeline) = Len(posted) + Len(pending)
  BY DEF QueueType, Pipeline
<1>2. Pipeline \in Seq(Message)
  BY DEF QueueType, Pipeline
<1> QED
  BY <1>1, <1>2, EmptySeq DEF QueueType

-----------------------------------------------------------------------------
(* The links are kept *)

\* A step that adds nothing to the pipeline and neither starts nor reports an
\* attempt keeps the links.
LEMMA FrameInv ==
  ASSUME LinkInv, Pipeline' = Pipeline, UNCHANGED dialogVars,
         UNCHANGED <<attempts, reported, sid, madeFor>>,
         at' \in {at, "idle"},
         inAuth' = inAuth \/ (inAuth' = FALSE /\ at' = "idle")
  PROVE  LinkInv'
<1>1. StartInv' /\ HandlerInv' /\ SessionInv' /\ PromptInv'
  BY DEF LinkInv, StartInv, HandlerInv, SessionInv, PromptInv, dialogVars, Over
<1>2. PageInv' /\ QueueInv' /\ NothingStale'
  BY DEF LinkInv, PageInv, QueueInv, NothingStale, dialogVars, Over, Won
<1> QED
  BY <1>1, <1>2 DEF LinkInv

\* So does a message of an attempt not yet reported.
LEMMA GrowInv ==
  ASSUME LinkInv, QueueType, startOk, ~Over, UNCHANGED dialogVars,
         UNCHANGED <<attempts, reported, sid, madeFor, at, inAuth>>,
         NEW m \in Message, m.kind # "complete", m.attempt = attempts,
         pending' = Append(pending, m), posted' = posted
  PROVE  LinkInv'
<1>1. Pipeline' = Append(Pipeline, m) /\ Pipeline \in Seq(Message)
  BY AppendPipeline DEF QueueType, Pipeline
<1>2. StartInv' /\ HandlerInv' /\ SessionInv' /\ PromptInv'
  BY DEF LinkInv, StartInv, HandlerInv, SessionInv, PromptInv, dialogVars, Over
<1>3. PageInv'
  BY DEF LinkInv, PageInv, dialogVars, Over
<1>4. \A i \in 1..Len(Pipeline) : Pipeline[i].kind # "complete"
  BY DEF LinkInv, QueueInv
<1>5. QueueInv'
  BY <1>1, <1>4 DEF QueueInv
<1>6. NothingStale'
  BY <1>1 DEF LinkInv, NothingStale, dialogVars
<1> QED
  BY <1>2, <1>3, <1>5, <1>6 DEF LinkInv

\* A report puts the completion last and ends the session.
LEMMA CompleteInv ==
  ASSUME LinkInv, QueueType, startOk, ~Over, UNCHANGED dialogVars,
         UNCHANGED <<attempts, at>>, at = "idle", sid' = 0, Over',
         NEW m \in Message, NEW q \in Seq(Message),
         m.kind = "complete", m.attempt = attempts, m.ok => Won',
         \A i \in 1..Len(q) : q[i].kind # "complete" /\ q[i].attempt = attempts,
         pending' = Append(pending \o q, m), posted' = posted
  PROVE  LinkInv'
<1>0. Pipeline' = Append(Pipeline \o q, m)
  BY CompletionPipeline, Zenon
<1>1. Pipeline' = Append(Pipeline \o q, m) /\ Pipeline \in Seq(Message)
  BY <1>0 DEF QueueType, Pipeline
<1>2. StartInv' /\ HandlerInv' /\ SessionInv' /\ PromptInv'
  BY DEF LinkInv, StartInv, HandlerInv, SessionInv, PromptInv, dialogVars
<1>3. PageInv'
  BY DEF LinkInv, PageInv, dialogVars
<1>4. \A i \in 1..Len(Pipeline) : Pipeline[i].kind # "complete"
  BY DEF LinkInv, QueueInv
<1>5. \A i \in 1..Len(Pipeline') :
        \/ i <= Len(Pipeline) /\ Pipeline'[i] = Pipeline[i]
        \/ i - Len(Pipeline) \in 1..Len(q) /\ Pipeline'[i] = q[i - Len(Pipeline)]
        \/ i = Len(Pipeline') /\ Pipeline'[i] = m
  BY <1>1
<1>6. QueueInv'
  BY <1>1, <1>4, <1>5 DEF QueueInv
<1>7. NothingStale'
  BY <1>1, <1>5 DEF LinkInv, NothingStale, dialogVars
<1> QED
  BY <1>2, <1>3, <1>6, <1>7 DEF LinkInv

\* When a completion arrives it is all there was on its way.
LEMMA CompletionAlone ==
  ASSUME LinkInv, QueueType, Arrives({"complete"})
  PROVE  /\ startOk /\ Over /\ (Head(posted).ok => Won) /\ Head(posted).attempt = attempts
         /\ ~unlocked /\ page # "reauth"
         /\ pending = <<>> /\ Tail(posted) = <<>>
<1>1. /\ at = "idle" /\ posted # <<>> /\ Head(posted).kind = "complete"
      /\ Pipeline \in Seq(Message) /\ Pipeline # <<>> /\ Pipeline[1] = Head(posted)
  BY DEF Arrives, QueueType, Pipeline
<1>2. 1 \in 1..Len(Pipeline)
  BY <1>1
<1>3. startOk /\ Head(posted).attempt = attempts
  BY <1>1, <1>2 DEF LinkInv, NothingStale
<1>4. Len(Pipeline) = 1 /\ Over /\ (Head(posted).ok => Won)
  BY <1>1, <1>2 DEF LinkInv, QueueInv
<1>5. ~unlocked /\ page # "reauth"
  BY <1>1 DEF LinkInv, PageInv
<1>6. Len(posted) = 1 /\ Len(pending) = 0
  <2>1. Len(Pipeline) = 1
    BY <1>4
  <2>2. Len(Pipeline) = Len(posted) + Len(pending)
    BY DEF QueueType, Pipeline
  <2>3. posted # <<>> /\ posted \in Seq(Message) /\ pending \in Seq(Message)
    BY <1>1 DEF QueueType
  <2>4. Len(posted) # 0
    BY <2>3, EmptySeq
  <2>5. Len(posted) \in Nat /\ Len(pending) \in Nat
    BY <2>3
  <2> QED
    BY <2>1, <2>2, <2>4, <2>5
<1>7. pending = <<>>
  BY <1>6, EmptySeq DEF QueueType
<1>8. Tail(posted) = <<>>
  BY <1>6, TailOfOne DEF QueueType
<1> QED
  BY <1>3, <1>4, <1>5, <1>7, <1>8

-----------------------------------------------------------------------------
(* One lemma per group of steps *)

\* What the invariant of AuthPam says of the attempt under way.
LEMMA UnderWay ==
  ASSUME SInv PROVE /\ attempts \in Nat /\ notifier \in Nat
                    /\ notifier # 0 => inAuth /\ startOk /\ notifier = attempts
                                       /\ notifier \in Attempt
                    /\ inAuth => notifier # 0
<1>1. /\ notifier \in 0..MaxAttempts /\ attempts \in 0..MaxAttempts
      /\ notifier # 0 <=> inAuth
      /\ inAuth => notifier = attempts
      /\ inAuth => startOk
  BY DEF SInv, IInv, TypeOK, ParentType, ParentInv, PamLink, LinkInv, StartInv
<1> QED
  BY <1>1, PamAssumption DEF Attempt

\* A started attempt begins with an empty pipeline and no session.
LEMMA StartAuthInv ==
  ASSUME SInv, NEW before, StartAuth(before), before = <<>>, pending = <<>>,
         at = "idle", sid' = 0, ~unlocked
  PROVE  LinkInv'
<1>1. /\ pending' = <<>> /\ posted' = <<>>
      /\ at' = "idle" /\ page' = "edit" /\ starts' = starts + 1
      /\ havePrompt' = FALSE /\ unlocked' = FALSE
  <2>1. ResetQueue(<<>>) /\ at' = at
    BY DEF StartAuth, ProxyAuthenticate
  <2>2. pending' = <<>> /\ posted' = <<>>
    BY <2>1, ResetEmpty DEF SInv, ProxyTypeOK
  <2>3. /\ page' = "edit" /\ starts' = starts + 1
        /\ havePrompt' = FALSE /\ unlocked' = unlocked
    BY DEF StartAuth, ForgetPrompt
  <2>4. unlocked' = FALSE
    BY <2>3, Zenon DEF SInv, DialogTypeOK, DialogFlagType
  <2> QED
    BY <2>1, <2>2, <2>3, <2>4
<1>2. \/ startOk' = TRUE /\ attempts' = attempts + 1
      \/ startOk' = FALSE /\ inAuth' = FALSE
  BY DEF StartAuth, StartBackend, Authenticate, PipeFails, SecondPipeFails, ForkFails,
     AuthenticateFails
<1>3. starts' # 0 /\ (startOk' => attempts' # 0)
  <2>1. starts \in Nat /\ attempts \in Nat
    BY UnderWay DEF SInv, DialogTypeOK
  <2> QED
    BY <1>1, <1>2, <2>1
<1>4. Pipeline' = <<>>
  BY <1>1 DEF Pipeline
<1>5. QueueInv' /\ NothingStale'
  BY <1>4 DEF QueueInv, NothingStale
<1>6. StartInv' /\ HandlerInv' /\ SessionInv' /\ PageInv' /\ PromptInv'
  BY <1>1, <1>2, <1>3 DEF StartInv, HandlerInv, SessionInv, PageInv, PromptInv
<1> QED
  BY <1>5, <1>6 DEF LinkInv

LEMMA FirstStartInv == SInv /\ FirstStart => LinkInv'
<1> SUFFICES ASSUME SInv, FirstStart PROVE LinkInv'
  OBVIOUS
<1>1. LinkInv /\ QueueType
  BY DEF SInv, ProxyTypeOK
<1>2. ~startOk
  BY <1>1 DEF FirstStart, LinkInv, StartInv
<1>3. Pipeline \in Seq(Message)
  BY <1>1 DEF QueueType, Pipeline
<1>4. Pipeline = <<>>
  <2>1. Len(Pipeline) \in Nat /\ ~(1 \in 1..Len(Pipeline))
    BY <1>1, <1>2, <1>3 DEF LinkInv, NothingStale
  <2>2. Len(Pipeline) = 0
    BY <2>1
  <2> QED
    BY <1>3, <2>2, EmptySeq
<1>5. posted = <<>> /\ pending = <<>>
  BY <1>1, <1>4, EmptyPipeline
<1>6. at = "idle" /\ sid = 0 /\ ~unlocked /\ ~inAuth
  BY <1>1, <1>2 DEF LinkInv, StartInv, HandlerInv
<1>7. sid' = 0
  BY <1>6 DEF FirstStart, CancelSession, EndSession
<1> QED
  BY <1>5, <1>6, <1>7, StartAuthInv DEF FirstStart

LEMMA ReAuthInv == SInv /\ ReAuth => LinkInv'
<1> SUFFICES ASSUME SInv, ReAuth PROVE LinkInv'
  OBVIOUS
<1>1. LinkInv /\ QueueType /\ page = "reauth" /\ at = "idle"
  BY DEF SInv, ProxyTypeOK, ReAuth
<1>2. startOk /\ Over /\ Pipeline = <<>> /\ ~unlocked
  BY <1>1 DEF LinkInv, PageInv
<1>3. posted = <<>> /\ pending = <<>>
  BY <1>1, <1>2, EmptyPipeline
<1>4. sid = 0
  BY <1>1, <1>2 DEF LinkInv, SessionInv
<1>5. sid' = 0
  BY <1>4 DEF ReAuth, CancelSession, EndSession
<1> QED
  BY <1>1, <1>2, <1>3, <1>5, StartAuthInv DEF ReAuth

LEMMA TryAgainInv == SInv /\ TryAgain => LinkInv'
<1> SUFFICES ASSUME SInv, TryAgain PROVE LinkInv'
  OBVIOUS
<1>1. LinkInv /\ QueueType /\ Arrives({"complete"})
  BY DEF SInv, ProxyTypeOK, TryAgain
<1>2. ~unlocked /\ pending = <<>> /\ Tail(posted) = <<>>
  BY <1>1, CompletionAlone
<1>3. sid' = 0 /\ at = "idle"
  BY <1>1 DEF TryAgain, EndSession, Arrives
<1> QED
  BY <1>2, <1>3, StartAuthInv DEF TryAgain

\* A prompt or message that is read comes from an attempt not yet reported.
LEMMA ReadableOpen ==
  ASSUME SInv, Readable
  PROVE  notifier = attempts /\ notifier \in Attempt /\ inAuth /\ startOk /\ ~Over
<1>1. /\ notifier # 0 /\ notifier = attempts /\ notifier \in Attempt
      /\ inAuth /\ startOk
  BY UnderWay DEF Readable
<1> QED
  BY <1>1 DEF Readable, SInv, PamLink, Over

LEMMA HandlePromptInv ==
  SInv /\ at = "idle" /\ HandlePrompt /\ (PromptShown(notifier) \/ PromptHandled)
    /\ UNCHANGED dialogVars => LinkInv'
<1> SUFFICES ASSUME SInv, at = "idle", HandlePrompt,
                    PromptShown(notifier) \/ PromptHandled, UNCHANGED dialogVars
             PROVE  LinkInv'
  OBVIOUS
<1>1. /\ notifier = attempts /\ inAuth /\ startOk /\ ~Over /\ notifier \in Nat
      /\ LinkInv /\ QueueType /\ SessionType
  BY ReadableOpen, UnderWay DEF HandlePrompt, SInv, ProxyTypeOK
<1>2. UNCHANGED <<attempts, reported, inAuth>>
  BY DEF HandlePrompt, parentVars
<1>3. CASE PromptShown(notifier)
  <2>1. UNCHANGED <<sid, madeFor, at>>
    BY <1>3 DEF PromptShown, sessionVars
  <2>2. PICK m \in Message : /\ pending' = Append(pending, m) /\ posted' = posted
                             /\ m.kind # "complete" /\ m.attempt = notifier
    BY <1>1, <1>3, Appended
  <2> QED
    BY <1>1, <1>2, <2>1, <2>2, GrowInv
<1>4. CASE PromptHandled
  <2>1. UNCHANGED <<sid, madeFor, pending, posted>> /\ at' # "start"
    BY <1>4 DEF PromptHandled, sessionVars, queueVars
  <2>2. StartInv' /\ HandlerInv' /\ SessionInv' /\ PromptInv'
    BY <1>1, <1>2, <2>1 DEF LinkInv, StartInv, HandlerInv, SessionInv, PromptInv,
       dialogVars, Over
  <2>3. PageInv' /\ QueueInv' /\ NothingStale'
    BY <1>1, <1>2, <2>1 DEF LinkInv, PageInv, QueueInv, NothingStale, dialogVars, Over,
       Won, Pipeline
  <2> QED
    BY <2>2, <2>3 DEF LinkInv
<1> QED
  BY <1>3, <1>4

LEMMA HandleMessageInv ==
  SInv /\ HandleMessage /\ MessageSaid(notifier) /\ UNCHANGED dialogVars => LinkInv'
<1> SUFFICES ASSUME SInv, HandleMessage, MessageSaid(notifier), UNCHANGED dialogVars
             PROVE  LinkInv'
  OBVIOUS
<1>1. /\ notifier = attempts /\ inAuth /\ startOk /\ ~Over /\ notifier \in Nat
      /\ LinkInv /\ QueueType /\ SessionType
  BY ReadableOpen, UnderWay DEF HandleMessage, SInv, ProxyTypeOK
<1>2. UNCHANGED <<attempts, reported, inAuth, sid, madeFor, at>>
  BY DEF HandleMessage, parentVars, MessageSaid, sessionVars
<1>3. PICK m \in Message : /\ pending' = Append(pending, m) /\ posted' = posted
                           /\ m.kind # "complete" /\ m.attempt = notifier
  BY <1>1, Appended
<1> QED
  BY <1>1, <1>2, <1>3, GrowInv

\* What a report leaves in the history.
LEMMA ReportedFacts ==
  ASSUME SInv, notifier = attempts, notifier \in Attempt, attempts' = attempts,
         NEW ok \in BOOLEAN, EmitComplete(ok)
  PROVE  Over' /\ (ok => Won')
<1>1. reported[notifier] \in Seq(BOOLEAN) /\ reported \in [Attempt -> Seq(BOOLEAN)]
  BY DEF SInv, IInv, TypeOK, ChildType
<1>2. reported'[attempts'] = Append(reported[notifier], ok)
  BY <1>1, Zenon DEF EmitComplete
<1> DEFINE r == reported[notifier]
<1>3. /\ Append(r, ok) # <<>>
      /\ Len(r) + 1 \in 1..Len(Append(r, ok))
      /\ Append(r, ok)[Len(r) + 1] = ok
  BY <1>1
<1> QED
  BY <1>2, <1>3, Zenon DEF Over, Won

LEMMA ReportInv ==
  ASSUME SInv, at = "idle", UNCHANGED dialogVars,
         notifier = attempts, notifier \in Attempt, startOk, ~Over,
         attempts' = attempts, NEW ok \in BOOLEAN, EmitComplete(ok), Completed(ok, notifier)
  PROVE  LinkInv'
<1>1. LinkInv /\ QueueType /\ notifier \in Nat
  BY UnderWay DEF SInv, ProxyTypeOK
<1>2. Over' /\ (ok => Won')
  BY ReportedFacts
<1>3. sid' = 0 /\ at' = at
  BY DEF Completed, EndSession
<1>4. PICK m \in Message, q \in Seq(Message) :
           /\ pending' = Append(pending \o q, m) /\ posted' = posted
           /\ m.kind = "complete" /\ m.attempt = notifier /\ m.ok = ok
           /\ \A i \in 1..Len(q) : q[i].kind # "complete" /\ q[i].attempt = notifier
  BY <1>1, CompletionAppended
<1>5. m.ok => Won'
  BY <1>2, <1>4, Zenon
<1>6. \A i \in 1..Len(q) : q[i].kind # "complete" /\ q[i].attempt = attempts
  BY <1>4
<1>7. /\ pending' = Append(pending \o q, m) /\ posted' = posted
      /\ m.kind = "complete" /\ m.attempt = attempts
  BY <1>4, Zenon
<1> QED
  BY <1>1, <1>2, <1>3, <1>5, <1>6, <1>7, CompleteInv, Zenon

LEMMA HandleCompleteLink ==
  SInv /\ at = "idle" /\ HandleComplete /\ Completed(isAuth', notifier)
    /\ UNCHANGED dialogVars => LinkInv'
<1> SUFFICES ASSUME SInv, at = "idle", HandleComplete, Completed(isAuth', notifier),
                    UNCHANGED dialogVars
             PROVE  LinkInv'
  OBVIOUS
<1>1. /\ notifier = attempts /\ notifier \in Attempt /\ startOk /\ ~Over
  BY ReadableOpen DEF HandleComplete
<1>2. PICK ok \in BOOLEAN : ok = isAuth' /\ EmitComplete(ok)
  BY Zenon DEF HandleComplete, NoteCompletion
<1>3. attempts' = attempts
  BY DEF HandleComplete
<1>4. Completed(ok, notifier)
  BY <1>2, Zenon
<1> QED
  BY <1>1, <1>2, <1>3, <1>4, ReportInv

LEMMA HandleChildExitLink ==
  SInv /\ at = "idle" /\ HandleChildExit
    /\ (IF hasSend THEN UNCHANGED proxyVars ELSE Completed(MadeUpResult, notifier))
    /\ UNCHANGED dialogVars => LinkInv'
<1> SUFFICES ASSUME SInv, at = "idle", HandleChildExit, UNCHANGED dialogVars,
                    IF hasSend THEN UNCHANGED proxyVars
                    ELSE Completed(MadeUpResult, notifier)
             PROVE  LinkInv'
  OBVIOUS
<1>1. /\ notifier # 0 /\ notifier = attempts /\ notifier \in Attempt
      /\ inAuth /\ startOk
  BY UnderWay DEF HandleChildExit, EndOfFile
<1>2. inAuth' = FALSE /\ attempts' = attempts
  BY DEF HandleChildExit, EndAttempt
<1>3. CASE hasSend
  <2>1. UNCHANGED <<reported, sid, madeFor, at, pending, posted>>
    BY <1>3 DEF HandleChildExit, MakeUpCompletion, proxyVars, queueVars, sessionVars
  <2> QED
    BY <1>2, <2>1, FrameInv DEF SInv, Pipeline
<1>4. CASE ~hasSend
  <2>1. ~Over
    BY <1>1, <1>4 DEF SInv, IInv, ParentInv, Over
  <2>2. PICK ok \in BOOLEAN : ok = isAuth
    BY Zenon DEF SInv, IInv, TypeOK, FlagType
  <2>3. EmitComplete(ok) /\ Completed(ok, notifier)
    BY <1>4, <2>2, Zenon DEF HandleChildExit, MakeUpCompletion, MadeUpResult
  <2> QED
    BY <1>1, <1>2, <2>1, <2>3, ReportInv
<1> QED
  BY <1>3, <1>4

LEMMA PamSpeaksInv == SInv /\ PamSpeaks => LinkInv'
  BY HandlePromptInv, HandleMessageInv, HandleCompleteLink, HandleChildExitLink
     DEF PamSpeaks

\* The handler's own reply: a session it opens is the attempt's.
LEMMA ProxyRepliesInv == SInv /\ ProxyReplies => LinkInv'
<1> SUFFICES ASSUME SInv, ProxyReplies PROVE LinkInv'
  OBVIOUS
<1>1. /\ UNCHANGED dialogVars
      /\ UNCHANGED <<inAuth, attempts, reported>>
  BY DEF ProxyReplies, Respond, parentVars
<1>2. CASE SessionRefused \/ Replied
  <2>1. UNCHANGED <<sid, madeFor, pending, posted>> /\ at' = "idle"
    BY <1>2 DEF SessionRefused, Replied, sessionVars, queueVars
  <2> QED
    BY <1>1, <2>1, FrameInv DEF SInv, Pipeline
<1>3. CASE SessionCreated(notifier)
  <2>1. LinkInv /\ at = "create" /\ inAuth /\ startOk /\ ~Over /\ notifier = attempts
    BY <1>3, UnderWay DEF SInv, SessionCreated, LinkInv, HandlerInv, PamLink
  <2>2. /\ at' = "start" /\ sid' # 0 /\ madeFor'[sid'] = attempts
        /\ UNCHANGED <<pending, posted>>
    BY <1>3, <2>1, ProxyAssumption DEF SInv, ProxyTypeOK, SessionType, SessionCreated,
       Session, queueVars
  <2>3. StartInv' /\ HandlerInv' /\ SessionInv' /\ PromptInv'
    BY <1>1, <2>1, <2>2 DEF LinkInv, StartInv, HandlerInv, SessionInv, PromptInv,
       dialogVars, Over
  <2>4. PageInv' /\ QueueInv' /\ NothingStale'
    BY <1>1, <2>1, <2>2 DEF LinkInv, PageInv, QueueInv, NothingStale, dialogVars, Over,
       Won, Pipeline
  <2> QED
    BY <2>3, <2>4 DEF LinkInv
<1> QED
  BY <1>2, <1>3 DEF ProxyReplies

LEMMA ConfirmInv == SInv /\ Confirm => LinkInv'
<1> SUFFICES ASSUME SInv, Confirm PROVE LinkInv'
  OBVIOUS
<1>1. /\ UNCHANGED <<proxyVars, havePrompt, page, enabled, unlocked, starts, startOk,
                     shownFor>>
      /\ UNCHANGED <<inAuth, attempts, reported>>
  BY DEF Confirm, Respond, vars, parentVars
<1>2. UNCHANGED <<sid, madeFor, at, pending, posted>>
  BY <1>1 DEF proxyVars, queueVars, sessionVars
<1>3. StartInv' /\ HandlerInv' /\ SessionInv' /\ PromptInv'
  BY <1>1, <1>2 DEF SInv, LinkInv, StartInv, HandlerInv, SessionInv, PromptInv, Over
<1>4. PageInv' /\ QueueInv' /\ NothingStale'
  BY <1>1, <1>2 DEF SInv, LinkInv, PageInv, QueueInv, NothingStale, Over, Won, Pipeline
<1> QED
  BY <1>3, <1>4 DEF LinkInv

\* Taking the head keeps what is said of the rest.
LEMMA TailInv ==
  ASSUME LinkInv, QueueType, Pipeline # <<>>, Pipeline' = Tail(Pipeline),
         UNCHANGED <<attempts, reported, startOk>>
  PROVE  QueueInv' /\ NothingStale'
<1>1. /\ Pipeline \in Seq(Message) /\ Len(Pipeline) \in Nat
      /\ Len(Pipeline') = Len(Pipeline) - 1
      /\ \A i \in 1..Len(Pipeline') :
            i + 1 \in 1..Len(Pipeline) /\ Pipeline'[i] = Pipeline[i + 1]
  BY DEF QueueType, Pipeline
<1>2. NothingStale'
  BY <1>1 DEF LinkInv, NothingStale
<1>3. QueueInv'
  <2>1. (Over' <=> Over) /\ (Won' <=> Won)
    BY DEF Over, Won
  <2> SUFFICES ASSUME NEW i \in 1..Len(Pipeline'), Pipeline'[i].kind = "complete"
               PROVE  i = Len(Pipeline') /\ Over' /\ (Pipeline'[i].ok => Won')
    BY Zenon DEF QueueInv
  <2>2. PICK j \in 1..Len(Pipeline) : j = i + 1 /\ Pipeline'[i] = Pipeline[j]
    BY <1>1
  <2>3. Pipeline[j].kind = "complete"
    BY <2>2
  <2>4. j = Len(Pipeline) /\ Over /\ (Pipeline[j].ok => Won)
    <3>1. QueueInv
      BY Zenon DEF LinkInv
    <3> QED
      BY <2>3, <3>1, Zenon DEF QueueInv
  <2>5. i = Len(Pipeline')
    <3>1. j = Len(Pipeline)
      BY <2>4, Zenon
    <3>2. i \in Nat /\ j = i + 1
      BY <1>1, <2>2
    <3> QED
      BY <1>1, <3>1, <3>2
  <2>6. Pipeline'[i].ok => Won'
    BY <2>1, <2>2, <2>4, Zenon
  <2> QED
    BY <2>1, <2>4, <2>5, <2>6, Zenon
<1> QED
  BY <1>2, <1>3

LEMMA ShowPromptInv == SInv /\ ShowPrompt => LinkInv' /\ shownFor' = attempts
<1> SUFFICES ASSUME SInv, ShowPrompt PROVE LinkInv' /\ shownFor' = attempts
  OBVIOUS
<1>1. LinkInv /\ QueueType
  BY DEF SInv, ProxyTypeOK
<1>2. /\ posted # <<>> /\ posted' = Tail(posted) /\ pending' = pending
      /\ UNCHANGED <<sid, madeFor, at>>
  BY DEF ShowPrompt, PromptArrives, Arrives, Queue!DeliverOldest, sessionVars
<1>3. /\ Pipeline # <<>> /\ Pipeline' = Tail(Pipeline) /\ Pipeline[1] = Head(posted)
      /\ Pipeline \in Seq(Message)
  BY <1>1, <1>2, ArrivalPipeline
<1>4. /\ UNCHANGED <<inAuth, attempts, reported, page, unlocked, starts, startOk>>
      /\ shownFor' = Head(posted).attempt
  BY DEF ShowPrompt, vars, parentVars
<1>5. shownFor' = attempts
  <2>1. 1 \in 1..Len(Pipeline)
    BY <1>3
  <2> QED
    BY <1>1, <1>3, <1>4, <2>1 DEF LinkInv, NothingStale
<1>6. QueueInv' /\ NothingStale'
  BY <1>1, <1>3, <1>4, TailInv
<1>7. StartInv' /\ HandlerInv' /\ SessionInv' /\ PromptInv' /\ PageInv'
  BY <1>1, <1>2, <1>3, <1>4, <1>5 DEF LinkInv, StartInv, HandlerInv, SessionInv,
     PromptInv, PageInv, Over
<1> QED
  BY <1>5, <1>6, <1>7 DEF LinkInv

LEMMA ShowMessageInv == SInv /\ ShowMessage => LinkInv'
<1> SUFFICES ASSUME SInv, ShowMessage PROVE LinkInv'
  OBVIOUS
<1>1. LinkInv /\ QueueType
  BY DEF SInv, ProxyTypeOK
<1>2. /\ posted # <<>> /\ posted' = Tail(posted) /\ pending' = pending
      /\ UNCHANGED <<sid, madeFor, at>>
  BY DEF ShowMessage, MessageArrives, Arrives, Queue!DeliverOldest, sessionVars
<1>3. Pipeline # <<>> /\ Pipeline' = Tail(Pipeline)
  BY <1>1, <1>2, ArrivalPipeline
<1>4. UNCHANGED <<inAuth, attempts, reported, page, unlocked, starts, startOk, shownFor,
                  havePrompt>>
  BY DEF ShowMessage, vars, parentVars, dialogVars
<1>5. QueueInv' /\ NothingStale'
  BY <1>1, <1>3, <1>4, TailInv
<1>6. StartInv' /\ HandlerInv' /\ SessionInv' /\ PromptInv' /\ PageInv'
  BY <1>1, <1>2, <1>3, <1>4 DEF LinkInv, StartInv, HandlerInv, SessionInv, PromptInv,
     PageInv, Over
<1> QED
  BY <1>5, <1>6 DEF LinkInv

\* A completion empties the pipeline, and is acted upon once.
LEMMA VerdictShownInv == SInv /\ (Unlock \/ OfferReAuth) => LinkInv'
<1> SUFFICES ASSUME SInv, Unlock \/ OfferReAuth PROVE LinkInv'
  OBVIOUS
<1>1. LinkInv /\ QueueType /\ Arrives({"complete"})
  BY DEF SInv, ProxyTypeOK, Unlock, OfferReAuth, CompletionArrives
<1>2. /\ startOk /\ Over /\ (Head(posted).ok => Won)
      /\ ~unlocked /\ page # "reauth" /\ pending = <<>> /\ Tail(posted) = <<>>
  BY <1>1, CompletionAlone
<1>3. /\ posted' = Tail(posted) /\ pending' = pending /\ sid' = 0 /\ at' = at
      /\ UNCHANGED <<inAuth, attempts, reported, starts, startOk, shownFor, havePrompt>>
      /\ at = "idle"
  BY <1>1 DEF Unlock, OfferReAuth, CompletionArrives, Arrives, Queue!DeliverOldest,
     EndSession, vars, parentVars, dialogVars
<1>4. Pipeline' = <<>>
  BY <1>2, <1>3 DEF Pipeline
<1>5. QueueInv' /\ NothingStale'
  BY <1>4 DEF QueueInv, NothingStale
<1>6. StartInv' /\ HandlerInv' /\ SessionInv' /\ PromptInv'
  BY <1>1, <1>2, <1>3 DEF LinkInv, StartInv, HandlerInv, SessionInv, PromptInv, Over
<1>7. PageInv'
  <2>1. CASE Unlock
    <3>1. page' = page /\ Head(posted).ok
      BY <2>1 DEF Unlock
    <3>2. page = "edit"
      BY <1>2 DEF SInv, DialogTypeOK
    <3>3. Won'
      BY <1>2, <1>3, <3>1 DEF Won
    <3> QED
      BY <1>2, <1>3, <1>4, <3>1, <3>2, <3>3 DEF PageInv, Over
  <2>2. CASE OfferReAuth
    BY <1>2, <1>3, <1>4, <2>2 DEF PageInv, Over, OfferReAuth
  <2> QED
    BY <2>1, <2>2
<1> QED
  BY <1>5, <1>6, <1>7 DEF LinkInv

\* A signal of the session the proxy knows is about the attempt under way.
LEMMA HandleSignalInv ==
  SInv /\ HandleSignal /\ UNCHANGED <<vars, dialogVars>> => LinkInv'
<1> SUFFICES ASSUME SInv, HandleSignal, UNCHANGED <<vars, dialogVars>> PROVE LinkInv'
  OBVIOUS
<1>1. LinkInv /\ QueueType /\ SessionType
  BY DEF SInv, ProxyTypeOK
<1>2. /\ UNCHANGED <<attempts, reported, inAuth, sid, madeFor, at, posted>>
      /\ UNCHANGED dialogVars
  BY DEF HandleSignal, vars, parentVars, sessionVars
<1>3. CASE ~SignalTaken
  <2>1. pending' = pending
    BY <1>3 DEF HandleSignal
  <2> QED
    BY <1>1, <1>2, <2>1, FrameInv DEF Pipeline
<1>4. CASE SignalTaken
  <2>1. Head(bus) \in Signal
    BY <1>1 DEF HandleSignal, SessionType
  <2>2. sid \in Session
    BY <1>4, <2>1 DEF SignalTaken, Signal
  <2>3. sid # 0
    BY <2>2 DEF Session
  <2>4. startOk /\ ~Over /\ madeFor[sid] = attempts
    BY <1>1, <2>3 DEF LinkInv, StartInv, SessionInv
  <2>5. madeFor[sid] \in Nat
    BY <1>1, <2>2 DEF SessionType
  <2>6. PICK m \in Message : /\ pending' = Append(pending, m) /\ posted' = posted
                             /\ m.kind # "complete" /\ m.attempt = madeFor[sid]
    BY <1>1, <1>4, <2>5, Appended
  <2> QED
    BY <1>1, <1>2, <2>4, <2>6, GrowInv
<1> QED
  BY <1>3, <1>4

LEMMA ProxyStepInv == SInv /\ ProxyStep => LinkInv'
<1> SUFFICES ASSUME SInv, ProxyStep PROVE LinkInv'
  OBVIOUS
<1>1. /\ LinkInv /\ QueueType /\ UNCHANGED <<vars, dialogVars>>
      /\ UNCHANGED <<attempts, reported, inAuth>>
  BY DEF SInv, ProxyTypeOK, ProxyStep, vars, parentVars
<1>2. CASE HandOver
  <2>1. Pipeline' = Pipeline /\ UNCHANGED <<at, sid, madeFor>>
    BY <1>1, <1>2, HandOverPipeline DEF HandOver, sessionVars
  <2> QED
    BY <1>1, <2>1, FrameInv
<1>3. CASE StartSession
  <2>1. UNCHANGED <<pending, posted, sid, madeFor>> /\ at' = "idle"
    BY <1>3 DEF StartSession, queueVars
  <2> QED
    BY <1>1, <2>1, FrameInv DEF Pipeline
<1>4. CASE HandleSignal
  BY <1>1, <1>4, HandleSignalInv
<1> QED
  BY <1>2, <1>3, <1>4 DEF ProxyStep

LEMMA EnvironmentInv == SInv /\ (Environment \/ UNCHANGED saverVars) => LinkInv'
<1> SUFFICES ASSUME SInv, Environment \/ UNCHANGED saverVars PROVE LinkInv'
  OBVIOUS
<1>1. UNCHANGED dialogVars
  BY DEF Environment, saverVars
<1>2. UNCHANGED <<attempts, reported, inAuth>>
  BY DEF Environment, saverVars, vars, parentVars, ChildStep, ChildAsk, ChildReadReply,
     ChildSay, ChildVerdict, ChildComplete, ChildDie, ChildZombie
<1>3. UNCHANGED <<at, sid, madeFor, pending, posted>>
  BY DEF Environment, saverVars, proxyVars, queueVars, sessionVars, ServiceSignal
<1> QED
  BY <1>1, <1>2, <1>3, FrameInv DEF SInv, Pipeline

LEMMA LinkNext == SInv /\ [SaverNext]_saverVars => LinkInv'
  BY FirstStartInv, ReAuthInv, ConfirmInv, PamSpeaksInv, ProxyRepliesInv, ShowPromptInv,
     ShowMessageInv, VerdictShownInv, TryAgainInv, ProxyStepInv, EnvironmentInv
     DEF SaverNext, DialogStep

-----------------------------------------------------------------------------
(* The types are kept *)

LEMMA ProxySame == ProxyTypeOK /\ UNCHANGED proxyVars => ProxyTypeOK'
<1> SUFFICES ASSUME ProxyTypeOK, UNCHANGED proxyVars PROVE ProxyTypeOK'
  OBVIOUS
<1>1. UNCHANGED queueVars /\ UNCHANGED sessionVars /\ UNCHANGED busVars
      /\ UNCHANGED <<at, sid, promptFrom, errorSaid>>
  BY DEF proxyVars
<1>2. QueueType'
  BY <1>1 DEF ProxyTypeOK, QueueType, queueVars
<1>3. SessionType'
  BY <1>1 DEF ProxyTypeOK, SessionType, sessionVars, busVars
<1>4. errorSaid' \in BOOLEAN
  BY <1>1, Zenon DEF ProxyTypeOK
<1> QED
  BY <1>2, <1>3, <1>4 DEF ProxyTypeOK

LEMMA SilenceInv ==
  ASSUME ProxyTypeOK, NEW attempt \in Nat, Silence(attempt) PROVE ProxyTypeOK'
<1>1. SessionType'
  BY SilenceType DEF ProxyTypeOK
<1>2. UNCHANGED queueVars /\ UNCHANGED errorSaid
  BY DEF Silence, SessionCreated, SessionRefused, Replied, StartSession, PromptHandled,
     ServiceSignal
<1>3. QueueType'
  BY <1>2 DEF ProxyTypeOK, QueueType, queueVars
<1>4. errorSaid' \in BOOLEAN
  BY <1>2, Zenon DEF ProxyTypeOK
<1> QED
  BY <1>1, <1>3, <1>4 DEF ProxyTypeOK

LEMMA SpeechInv ==
  ASSUME ProxyTypeOK, NEW attempt \in Nat, NEW ok \in BOOLEAN,
         Speech(ok, attempt) \/ Arrival \/ HandOver
  PROVE  ProxyTypeOK'
<1>1. QueueType /\ SessionType
  BY DEF ProxyTypeOK
<1>2. SessionType'
  BY <1>1, SpeechType
<1>3. errorSaid' \in BOOLEAN
  <2>1. CASE MessageSaid(attempt)
    BY <2>1, Zenon DEF ProxyTypeOK, MessageSaid
  <2>2. CASE HandleSignal
    BY <2>2, Zenon DEF ProxyTypeOK, HandleSignal
  <2>3. CASE PromptShown(attempt) \/ Completed(ok, attempt) \/ Arrival \/ HandOver
    <3>1. errorSaid' = errorSaid
      BY <2>3 DEF PromptShown, Completed, Arrival, PromptArrives, MessageArrives,
         CompletionArrives, HandOver
    <3> QED
      BY <3>1, Zenon DEF ProxyTypeOK
  <2> QED
    BY <2>1, <2>2, <2>3 DEF Speech
<1>4. QueueType'
  <2>1. CASE PromptShown(attempt) \/ MessageSaid(attempt)
    BY <1>1, <2>1, Appended, AppendPipeline
  <2>2. CASE HandleSignal /\ SignalTaken
    <3>1. Head(bus) \in Signal
      BY <1>1, <2>2 DEF HandleSignal, SessionType
    <3>2. madeFor[sid] \in Nat
      BY <1>1, <2>2, <3>1 DEF SignalTaken, Signal, SessionType
    <3> QED
      BY <1>1, <2>2, <3>2, Appended, AppendPipeline
  <2>3. CASE HandleSignal /\ ~SignalTaken
    BY <1>1, <2>3 DEF HandleSignal, QueueType
  <2>4. CASE Completed(ok, attempt)
    <3>1. PICK m \in Message, q \in Seq(Message) :
            pending' = Append(pending \o q, m) /\ posted' = posted
      BY <1>1, <2>4, CompletionAppended, Zenon
    <3> QED
      BY <1>1, <3>1, CompletionPipeline
  <2>5. CASE Arrival
    <3>1. posted # <<>> /\ posted' = Tail(posted) /\ pending' = pending
      BY <2>5 DEF Arrival, PromptArrives, MessageArrives, CompletionArrives, Arrives,
         Queue!DeliverOldest
    <3> QED
      BY <1>1, <3>1, ArrivalPipeline
  <2>6. CASE HandOver
    BY <1>1, <2>6, HandOverPipeline
  <2> QED
    BY <2>1, <2>2, <2>3, <2>4, <2>5, <2>6 DEF Speech
<1> QED
  BY <1>2, <1>3, <1>4 DEF ProxyTypeOK

\* A start resets the queue, and the session ends or there is none.
LEMMA StartType ==
  ASSUME ProxyTypeOK, NEW before \in Seq(Message), ProxyAuthenticate(before),
         EndSession \/ UNCHANGED <<sid, sessionVars>>
  PROVE  ProxyTypeOK'
<1>1. QueueType /\ SessionType
  BY DEF ProxyTypeOK
<1>2. UNCHANGED <<at, promptFrom>> /\ UNCHANGED busVars
  BY DEF ProxyAuthenticate
<1>3. SessionType'
  <2>1. CASE EndSession
    BY <1>1, <1>2, <2>1, EndSessionType DEF SessionType, busVars
  <2>2. CASE UNCHANGED <<sid, sessionVars>>
    BY <1>1, <1>2, <2>2 DEF SessionType, sessionVars, busVars
  <2> QED
    BY <2>1, <2>2
<1>4. QueueType'
  <2>1. PICK n \in {0, 1} : n <= Len(pending) /\ posted' = before \o SubSeq(pending, 1, n)
    BY DEF ProxyAuthenticate, ResetQueue
  <2>2. SubSeq(pending, 1, n) \in Seq(Message)
    BY <1>1, <2>1 DEF QueueType
  <2>3. posted' \in Seq(Message)
    BY <2>1, <2>2
  <2> QED
    BY <2>3 DEF QueueType, ProxyAuthenticate, ResetQueue
<1>5. errorSaid' \in BOOLEAN
  BY DEF ProxyAuthenticate
<1> QED
  BY <1>3, <1>4, <1>5 DEF ProxyTypeOK

LEMMA ProxyTypeInv == SInv /\ [SaverNext]_saverVars => ProxyTypeOK'
<1> SUFFICES ASSUME SInv, [SaverNext]_saverVars PROVE ProxyTypeOK'
  OBVIOUS
<1>1. ProxyTypeOK /\ notifier \in Nat /\ posted \in Seq(Message)
  BY UnderWay DEF SInv, ProxyTypeOK, QueueType
<1>2. CASE FirstStart \/ ReAuth
  BY <1>1, <1>2, StartType DEF FirstStart, ReAuth, StartAuth, CancelSession
<1>3. CASE TryAgain
  <2>1. Tail(posted) \in Seq(Message)
    BY <1>1, <1>3 DEF TryAgain, Arrives
  <2> QED
    BY <1>1, <1>3, <2>1, StartType DEF TryAgain, StartAuth
<1>4. CASE PamSpeaks
  <2>1. ASSUME NEW ok \in BOOLEAN, Completed(ok, notifier) PROVE ProxyTypeOK'
    <3>1. Speech(ok, notifier)
      BY <2>1, Zenon DEF Speech
    <3> QED
      BY <1>1, <3>1, SpeechInv, Zenon
  <2>2. CASE PromptShown(notifier) \/ MessageSaid(notifier)
    <3>1. Speech(FALSE, notifier)
      BY <2>2 DEF Speech
    <3> QED
      BY <1>1, <3>1, SpeechInv
  <2>3. CASE PromptHandled
    BY <1>1, <2>3, SilenceInv DEF Silence
  <2>4. CASE HandleComplete /\ Completed(isAuth', notifier)
    <3>1. isAuth' \in BOOLEAN
      BY <2>4, Zenon DEF HandleComplete, NoteCompletion
    <3> QED
      BY <2>1, <2>4, <3>1, Zenon
  <2>5. CASE Completed(MadeUpResult, notifier)
    <3>1. MadeUpResult \in BOOLEAN
      BY Zenon DEF MadeUpResult, SInv, IInv, TypeOK, FlagType
    <3> QED
      BY <2>1, <2>5, <3>1, Zenon
  <2>6. CASE UNCHANGED proxyVars
    BY <1>1, <2>6, ProxySame
  <2> QED
    BY <1>4, <2>2, <2>3, <2>4, <2>5, <2>6, Zenon DEF PamSpeaks
<1>5. CASE ProxyReplies
  BY <1>1, <1>5, SilenceInv DEF ProxyReplies, Silence
<1>6. CASE ShowPrompt \/ ShowMessage \/ Unlock \/ OfferReAuth
  BY <1>1, <1>6, SpeechInv DEF ShowPrompt, ShowMessage, Unlock, OfferReAuth, Arrival
<1>7. CASE ProxyStep
  BY <1>1, <1>7, SpeechInv, SilenceInv DEF ProxyStep, Speech, Silence
<1>8. CASE Confirm \/ Environment \/ UNCHANGED saverVars
  BY <1>1, <1>8, SilenceInv, ProxySame DEF Confirm, Environment, saverVars, Silence
<1> QED
  BY <1>2, <1>3, <1>4, <1>5, <1>6, <1>7, <1>8 DEF SaverNext, DialogStep

LEMMA DialogTypeInv == SInv /\ [SaverNext]_saverVars => DialogTypeOK'
<1> SUFFICES ASSUME SInv, [SaverNext]_saverVars PROVE DialogTypeOK'
  OBVIOUS
<1>1. DialogTypeOK /\ attempts \in 0..MaxAttempts
  BY DEF SInv, IInv, TypeOK, ParentType
<1>2. CASE FirstStart \/ ReAuth \/ TryAgain
  <2>1. /\ UNCHANGED <<enabled, unlocked, shownFor>> /\ starts' = starts + 1
        /\ confirms' = 0 /\ page' = "edit" /\ havePrompt' = FALSE
    BY <1>2 DEF FirstStart, ReAuth, TryAgain, StartAuth, ForgetPrompt
  <2>2. startOk' \in BOOLEAN
    BY <1>2 DEF FirstStart, ReAuth, TryAgain, StartAuth, StartBackend
  <2>3. DialogFlagType'
    BY <1>1, <2>1, <2>2, Zenon DEF DialogTypeOK, DialogFlagType
  <2> QED
    BY <1>1, <2>1, <2>3, SaverAssumption DEF DialogTypeOK
<1>3. CASE ShowPrompt
  <2>1. UNCHANGED <<page, unlocked, starts, startOk, confirms>> /\ shownFor' = attempts
        /\ havePrompt' = TRUE /\ enabled' = TRUE
    BY <1>3, ShowPromptInv DEF ShowPrompt
  <2>2. DialogFlagType'
    BY <1>1, <2>1, Zenon DEF DialogTypeOK, DialogFlagType
  <2> QED
    BY <1>1, <2>1, <2>2 DEF DialogTypeOK
<1>4. CASE Unlock \/ OfferReAuth
  <2>1. UNCHANGED <<havePrompt, starts, startOk, shownFor, confirms>>
        /\ unlocked' \in {TRUE, unlocked} /\ enabled' \in {TRUE, enabled}
        /\ page' \in {page, "reauth"}
    BY <1>4 DEF Unlock, OfferReAuth
  <2>2. DialogFlagType'
    BY <1>1, <2>1, Zenon DEF DialogTypeOK, DialogFlagType
  <2> QED
    BY <1>1, <2>1, <2>2 DEF DialogTypeOK
<1>5. CASE Confirm
  <2>1. /\ UNCHANGED <<havePrompt, page, enabled, unlocked, starts, startOk, shownFor>>
        /\ confirms' = confirms + 1 /\ confirms < MaxConfirms
    BY <1>5 DEF Confirm
  <2>2. DialogFlagType'
    BY <1>1, <2>1, Zenon DEF DialogTypeOK, DialogFlagType
  <2> QED
    BY <1>1, <2>1, <2>2, SaverAssumption DEF DialogTypeOK
<1>6. CASE PamSpeaks \/ ProxyReplies \/ ShowMessage \/ ProxyStep \/ Environment
           \/ UNCHANGED saverVars
  <2>1. UNCHANGED <<havePrompt, enabled, unlocked, startOk>>
        /\ UNCHANGED <<page, starts, shownFor, confirms>>
    BY <1>6 DEF PamSpeaks, ProxyReplies, ShowMessage, ProxyStep, Environment, saverVars,
       dialogVars
  <2>2. DialogFlagType'
    BY <1>1, <2>1, Zenon DEF DialogTypeOK, DialogFlagType
  <2> QED
    BY <1>1, <2>1, <2>2 DEF DialogTypeOK
<1> QED
  BY <1>2, <1>3, <1>4, <1>5, <1>6 DEF SaverNext, DialogStep

-----------------------------------------------------------------------------
(* The theorems *)

LEMMA SInitInv == SaverInit => SInv
<1> SUFFICES ASSUME SaverInit PROVE SInv
  OBVIOUS
<1>1. IInv /\ Init /\ ProxyInit
  BY InitInv DEF SaverInit
<1>2. PamLink
  BY <1>1 DEF PamLink, Init
<1>3. ProxyTypeOK
  <2>1. QueueType
    BY <1>1 DEF QueueType, ProxyInit
  <2>2. SessionType
    BY <1>1, ProxyAssumption DEF SessionType, ProxyInit, HandlerAt, Source
  <2>3. errorSaid \in BOOLEAN
    BY <1>1, Zenon DEF ProxyInit
  <2> QED
    BY <2>1, <2>2, <2>3 DEF ProxyTypeOK
<1>4. DialogTypeOK
  <2>1. DialogFlagType
    BY Zenon DEF SaverInit, DialogFlagType
  <2>2. page \in {"edit", "reauth"} /\ starts \in Nat /\ shownFor = 0 /\ confirms = 0
    BY DEF SaverInit
  <2> QED
    BY <2>1, <2>2, PamAssumption, SaverAssumption DEF DialogTypeOK
<1>5. Pipeline = <<>>
  BY <1>1 DEF Pipeline, ProxyInit
<1>6. LinkInv
  <2>1. QueueInv /\ NothingStale
    BY <1>5 DEF QueueInv, NothingStale
  <2>2. StartInv /\ HandlerInv /\ SessionInv /\ PageInv /\ PromptInv
    BY <1>1 DEF StartInv, HandlerInv, SessionInv, PageInv, PromptInv, SaverInit, Init,
       ProxyInit
  <2> QED
    BY <2>1, <2>2 DEF LinkInv
<1> QED
  BY <1>1, <1>2, <1>3, <1>4, <1>6 DEF SInv

LEMMA SNextInv == SInv /\ [SaverNext]_saverVars => SInv'
<1> SUFFICES ASSUME SInv, [SaverNext]_saverVars PROVE SInv'
  OBVIOUS
<1>1. [Next]_vars /\ IInv /\ PamLink
  BY Simulates DEF SInv
<1>2. IInv' /\ PamLink'
  BY <1>1, NextInv, PamLinkInv
<1> QED
  BY <1>2, ProxyTypeInv, DialogTypeInv, LinkNext DEF SInv

\* The composition implements the authentication attempts: whatever the proxy
\* and the dialog do, the backend only ever takes steps of AuthPam, so its
\* theorems hold of the screen saver, too.
THEOREM Implements == SaverSpec => Spec
<1>1. SaverInit => Init
  BY DEF SaverInit
<1> QED
  BY <1>1, Simulates, PTL DEF SaverSpec, Spec

\* The inductive invariant of the composition: the queue, the event loop, the
\* session and the page shown agree with the attempt last started.
THEOREM SaverInvariant == SaverSpec => []SInv
  BY SInitInv, SNextInv, PTL DEF SaverSpec

\* Every variable of the dialog, its proxy and its backend keeps its type.
THEOREM SaverTypeCorrect == SaverSpec => []SaverTypeOK
<1>1. SInv => SaverTypeOK
  BY DEF SInv, IInv, SaverTypeOK
<1> QED
  BY <1>1, SaverInvariant, PTL

\* The screen is unlocked only when PAM has accepted in the attempt last
\* started, whatever restarts left in the queue, the event loop or the flags.
THEOREM UnlockEarned == SaverSpec => []UnlockIsEarned
<1>1. SInv => UnlockIsEarned
  <2> SUFFICES ASSUME SInv, unlocked PROVE attempts # 0 /\ verdict[attempts] = "pass"
    BY DEF UnlockIsEarned
  <2>1. startOk /\ Won
    BY DEF SInv, LinkInv, PageInv
  <2>2. attempts # 0
    BY <2>1 DEF SInv, LinkInv, StartInv
  <2>3. attempts \in Attempt
    BY <2>2, PamAssumption DEF SInv, IInv, TypeOK, ParentType, Attempt
  <2>4. SuccessIsOwn
    BY InvImplies DEF SInv
  <2>5. verdict[attempts] = "pass"
    BY <2>1, <2>3, <2>4, Zenon DEF Won, SuccessIsOwn
  <2> QED
    BY <2>2, <2>5
<1> QED
  BY <1>1, SaverInvariant, PTL

\* Restarting the dispatcher and taking signals of the current session only is
\* enough: what reaches the dialog was said in the attempt under way.
THEOREM NoStale == SaverSpec => []NothingStale
<1>1. SInv => NothingStale
  BY DEF SInv, LinkInv
<1> QED
  BY <1>1, SaverInvariant, PTL

\* A session of the biometric service that the proxy knows belongs to the
\* current attempt and does not outlive its completion.
THEOREM SessionCurrent == SaverSpec => []SessionIsCurrent
<1>1. SInv => SessionIsCurrent
  BY DEF SInv, LinkInv, StartInv, SessionInv, QueueInv, SessionIsCurrent
<1> QED
  BY <1>1, SaverInvariant, PTL

\* The dialog never starts over by itself after an attempt that failed without
\* a prompt, so it cannot loop through failures the user does not see.
THEOREM SpinFree == SaverSpec => NoSpin
<1>1. SInv /\ [SaverNext]_saverVars =>
        [starts' # starts => starts = 0 \/ page = "reauth" \/ shownFor = attempts]_saverVars
  <2> SUFFICES ASSUME SInv, [SaverNext]_saverVars, starts' # starts
               PROVE  starts = 0 \/ page = "reauth" \/ shownFor = attempts
    OBVIOUS
  <2>1. FirstStart \/ ReAuth \/ TryAgain
    BY DEF SaverNext, DialogStep, ProxyStep, Environment, PamSpeaks, ProxyReplies, Confirm,
       ShowPrompt, ShowMessage, Unlock, OfferReAuth, saverVars, dialogVars
  <2>2. CASE FirstStart
    BY <2>2 DEF FirstStart
  <2>3. CASE ReAuth
    BY <2>3 DEF ReAuth
  <2>4. CASE TryAgain
    BY <2>4 DEF TryAgain, SInv, LinkInv, PromptInv
  <2> QED
    BY <2>1, <2>2, <2>3, <2>4
<1> QED
  BY <1>1, SaverInvariant, PTL DEF SaverSpec, NoSpin
=============================================================================
