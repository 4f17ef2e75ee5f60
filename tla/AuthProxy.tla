----------------------------- MODULE AuthProxy -----------------------------
(***************************************************************************)
(* lib/auth-proxy/auth-proxy.cpp: what stands between an authentication    *)
(* backend (AuthPam, AuthLightdm) and a dialog. It passes the backend's    *)
(* prompts, messages and completions through the message queue, opens a    *)
(* session of the biometric authentication service on D-Bus when the       *)
(* backend asks for one, and sends replies to whoever asked.               *)
(*                                                                         *)
(* All of it runs on the GUI thread. The operators below are the proxy's   *)
(* part of a step; a dialog's module composes them with its own part and   *)
(* with the backend's. The service and its signals are the environment.    *)
(* A call of the service blocks the GUI thread: the step before it sets    *)
(* `at', and only children, the dispatcher and the service move meanwhile. *)
(***************************************************************************)
EXTENDS Naturals, Sequences

CONSTANTS Severities,    \* MessageType of the messages said
          MaxSessions,   \* bound: sessions the service creates
          MaxSignals     \* bound: signals it sends

ASSUME ProxyAssumption == /\ Severities \subseteq {"info", "error"}
                          /\ MaxSessions \in Nat
                          /\ MaxSignals \in Nat

VARIABLES
  at,           \* where the handler of a prompt is, see HandlerAt
  sid,          \* m_authSessionID, 0 when empty
  promptFrom,   \* m_promptFrom
  pending,      \* messages in the queue, the dispatcher's hand included
  posted,       \* messages in the GUI's event loop
  errorSaid,    \* history: an error message was passed on in this attempt
  sessions,     \* number of sessions the service has created
  service,      \* state of each of them
  madeFor,      \* history: the attempt that asked for each of them
  bus,          \* signals of the service on their way
  signals       \* number of signals sent

queueVars   == <<pending, posted>>
sessionVars == <<sessions, service, madeFor>>
busVars     == <<bus, signals>>
proxyVars   == <<at, sid, promptFrom, queueVars, errorSaid, sessionVars, busVars>>

HandlerAt == {"idle", "reply", "create", "start"}
Source    == {"pam", "service"}
Session   == 1..MaxSessions
Kind      == {"prompt", "info", "error", "made up", "complete"}
Message   == [kind : Kind, from : Source, ok : BOOLEAN, attempt : Nat]
Signal    == [sid : Session, kind : {"prompt"} \cup Severities]

Queue == INSTANCE OrderedDelivery WITH open <- TRUE

ProxyInit == /\ at = "idle" /\ sid = 0 /\ promptFrom = "pam"
             /\ pending = <<>> /\ posted = <<>>
             /\ errorSaid = FALSE
             /\ sessions = 0
             /\ service = [s \in Session |-> "none"]
             /\ madeFor = [s \in Session |-> 0]
             /\ bus = <<>> /\ signals = 0

-----------------------------------------------------------------------------
(* Sessions of the service *)

\* Mutant: StopAuth is called with an empty session id, too.
StopAuthUnchecked ==
  service' = [s \in Session \cup {sid} |-> IF s = sid THEN "stopped" ELSE service[s]]

\* StopAuth, if there is a session. When it fails the session goes on.
StopAuth == IF sid = 0 THEN UNCHANGED service
            ELSE \/ service' = [service EXCEPT ![sid] = "stopped"]
                 \/ UNCHANGED service

\* Mutant: the session is stopped and its id kept.
EndSessionKeepId == StopAuth /\ UNCHANGED <<sid, sessions, madeFor>>

\* stopAuthSession(): the id is cleared whatever StopAuth said.
EndSession == StopAuth /\ sid' = 0 /\ UNCHANGED <<sessions, madeFor>>

\* createAuthSession() returned a session, its id goes to the backend.
SessionCreated(attempt) ==
  /\ at = "create" /\ sessions < MaxSessions
  /\ sessions' = sessions + 1
  /\ sid' = sessions'
  /\ service' = [service EXCEPT ![sessions'] = "created"]
  /\ madeFor' = [madeFor EXCEPT ![sessions'] = attempt]
  /\ at' = "start"
  /\ UNCHANGED <<promptFrom, queueVars, errorSaid, busVars>>

\* It failed: the backend gets an empty answer.
SessionRefused == /\ at = "create"
                  /\ at' = "idle"
                  /\ UNCHANGED <<sid, promptFrom, queueVars, errorSaid, sessionVars,
                                 busVars>>

\* startAuthSession(): an error is logged and nothing else.
StartSession == /\ at = "start"
                /\ \/ service' = [service EXCEPT ![sid] = "started"]
                   \/ UNCHANGED service
                /\ at' = "idle"
                /\ UNCHANGED <<sid, promptFrom, queueVars, errorSaid, sessions, madeFor,
                               busVars>>

\* The service prompts or talks in a session it has started.
ServiceSignal == /\ signals < MaxSignals
                 /\ \E s \in Session : \E k \in {"prompt"} \cup Severities :
                      /\ service[s] = "started"
                      /\ bus' = Append(bus, [sid |-> s, kind |-> k])
                 /\ signals' = signals + 1
                 /\ UNCHANGED <<at, sid, promptFrom, queueVars, errorSaid, sessionVars>>

-----------------------------------------------------------------------------
(* Into the queue *)

Msg(kind, from, ok, attempt) ==
  [kind |-> kind, from |-> from, ok |-> ok, attempt |-> attempt]

\* Mutant: signals of any session are taken.
SignalTakenAny == TRUE

SignalTaken == Head(bus).sid = sid

\* A signal arrives. It is dropped unless it comes from the current session.
HandleSignal ==
  /\ at = "idle" /\ bus # <<>>
  /\ bus' = Tail(bus)
  /\ IF SignalTaken
     THEN LET signal == Head(bus)
          IN  /\ pending' = Append(pending, Msg(signal.kind, "service", FALSE,
                                                madeFor[signal.sid]))
              /\ errorSaid' = (errorSaid \/ signal.kind = "error")
     ELSE UNCHANGED <<pending, errorSaid>>
  /\ UNCHANGED <<at, sid, promptFrom, posted, sessionVars, signals>>

\* The backend prompts: a text to show, ...
PromptShown(attempt) ==
  /\ pending' = Append(pending, Msg("prompt", "pam", FALSE, attempt))
  /\ UNCHANGED <<at, sid, promptFrom, posted, errorSaid, sessionVars, busVars>>

\* ... a request for a session of the service, or one that the proxy answers
\* at once (ASK_FACE, ASK_FPINT).
PromptHandled ==
  /\ at' \in {"create", "reply"}
  /\ UNCHANGED <<sid, promptFrom, queueVars, errorSaid, sessionVars, busVars>>

Replied == /\ at = "reply"
           /\ at' = "idle"
           /\ UNCHANGED <<sid, promptFrom, queueVars, errorSaid, sessionVars, busVars>>

\* handlePamAuthShowMessage()
MessageSaid(attempt) ==
  /\ \E k \in Severities :
       /\ pending' = Append(pending, Msg(k, "pam", FALSE, attempt))
       /\ errorSaid' = (errorSaid \/ k = "error")
  /\ UNCHANGED <<at, sid, promptFrom, posted, sessionVars, busVars>>

\* The error made up for a failure; m_haveErrorMsg is never set.
MadeUp(ok, attempt) ==
  IF ok THEN <<>> ELSE <<Msg("made up", "pam", FALSE, attempt)>>

\* handlePamAuthComplete()
Completed(ok, attempt) ==
  /\ EndSession
  /\ pending' = pending \o MadeUp(ok, attempt)
                        \o <<Msg("complete", "pam", ok, attempt)>>
  /\ UNCHANGED <<at, promptFrom, posted, errorSaid, busVars>>

-----------------------------------------------------------------------------
(* Out of the queue, and its reset *)

\* The dispatcher hands over a message, see AuthMsgQueue.
HandOver == Queue!HandOverOldest /\ UNCHANGED <<at, sid, promptFrom, errorSaid, sessionVars,
                                          busVars>>

Arrives(kinds) == at = "idle" /\ posted # <<>> /\ Head(posted).kind \in kinds

\* handleAuthQueueShowPrompt()
PromptArrives == /\ Arrives({"prompt"})
                 /\ Queue!DeliverOldest
                 /\ promptFrom' = Head(posted).from
                 /\ UNCHANGED <<at, sid, errorSaid, sessionVars, busVars>>

\* handleAuthQueueShowMessage()
MessageArrives == /\ Arrives({"info", "error", "made up"})
                  /\ Queue!DeliverOldest
                  /\ UNCHANGED <<at, sid, promptFrom, errorSaid, sessionVars, busVars>>

\* handleAuthQueueComplete()
CompletionArrives == /\ Arrives({"complete"})
                     /\ Queue!DeliverOldest
                     /\ EndSession
                     /\ UNCHANGED <<at, promptFrom, errorSaid, busVars>>

\* stopDispatcher() and startDispatcher(): the queue is emptied, and the
\* oldest message may still slip out behind `before', what the event loop holds.
ResetQueue(before) ==
  /\ pending' = <<>>
  /\ \E n \in {0, 1} : /\ n <= Len(pending)
                       /\ posted' = before \o SubSeq(pending, 1, n)

\* authenticate(), without the backend's part.
ProxyAuthenticate(before) == /\ ResetQueue(before)
                             /\ errorSaid' = FALSE
                             /\ UNCHANGED <<at, promptFrom, busVars>>

-----------------------------------------------------------------------------
QueueType == pending \in Seq(Message) /\ posted \in Seq(Message)

SessionType == /\ at \in HandlerAt /\ promptFrom \in Source
               /\ sessions \in 0..MaxSessions
               /\ sid \in 0..sessions
               /\ service \in [Session -> {"none", "created", "started", "stopped"}]
               /\ madeFor \in [Session -> Nat]
               /\ bus \in Seq(Signal) /\ signals \in Nat

ProxyTypeOK == QueueType /\ SessionType /\ errorSaid \in BOOLEAN
=============================================================================
