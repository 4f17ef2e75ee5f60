------------------------------ MODULE AuthPam ------------------------------
(***************************************************************************)
(* lib/auth-proxy/auth-pam.cpp and its child,                              *)
(* libexec/session-guard-checkpass/main.cpp: one attempt to authenticate   *)
(* is one child process, forked with a pipe in each direction, that runs   *)
(* PAM and reports through checkpass-common/pam-message.cpp. The parent is *)
(* single-threaded and event-driven; children, the kernel's process table  *)
(* and pipes change between any two of its steps.                          *)
(*                                                                         *)
(* Attempts are numbered by successful forks and a child is named by its   *)
(* attempt. A descriptor variable of the parent is "unset" (0), "open" or  *)
(* "stale": closed, its number still in the variable. What PAM asks, says  *)
(* and decides is the environment's choice.                                *)
(***************************************************************************)
EXTENDS Naturals, Sequences, FiniteSets

CONSTANTS MaxAttempts,   \* bound: forks
          MaxTalk,       \* bound: prompts and messages of one child
          MaxReplies,    \* bound: replies waiting in one pipe
          MaxHalfPipes   \* bound: failures of the second pipe() only

ASSUME PamAssumption == /\ MaxAttempts \in Nat
                        /\ MaxTalk \in Nat
                        /\ MaxReplies \in Nat
                        /\ MaxHalfPipes \in Nat

VARIABLES
  alive,       \* AuthProxy, the owner, has not been destroyed
  pid,         \* m_authPid
  inAuth,      \* m_inAuthenticating
  isAuth,      \* m_isAuthenticated
  hasSend,     \* m_hasSendCompleteSignal
  notifier,    \* attempt whose pipe m_socketNotifier watches, 0 when null
  rfd,         \* m_toParentPipe[CHANNEL_READ]
  wfd,         \* m_toChildPipe[CHANNEL_WRITE]
  attempts,    \* number of forks
  openFds,     \* pipe ends the parent holds open
  halfPipes,   \* history: calls of authenticate() whose second pipe() failed
  proc,        \* state of each child
  verdict,     \* history: what pam_authenticate() returned in each child
  talk,        \* prompts and messages each child has sent
  toParent,    \* events in each child's pipe to the parent
  toChild,     \* number of replies in the pipe to each child
  reported     \* history: results of the authenticationComplete() signals

parentVars == <<alive, pid, inAuth, isAuth, hasSend, notifier, rfd, wfd,
                attempts, openFds, halfPipes>>
childVars  == <<proc, verdict, talk>>
pipeVars   == <<toParent, toChild>>
vars == <<parentVars, childVars, pipeVars, reported>>

Attempt == 1..MaxAttempts
Verdict == {"pass", "fail"}
Event   == {"prompt", "message"} \cup Verdict      \* a verdict is a Complete event
Fd      == {"unset", "open", "stale"}

Working == {"running", "asking", "verdict", "sent"}   \* the child executes
Ended   == {"closed", "zombie"}                       \* it closed its pipe ends
ProcState == {"unborn", "reaped"} \cup Working \cup Ended

Init == /\ alive = TRUE
        /\ pid = 0 /\ notifier = 0 /\ attempts = 0
        /\ inAuth = FALSE /\ isAuth = FALSE /\ hasSend = FALSE
        /\ rfd = "unset" /\ wfd = "unset" /\ openFds = 0 /\ halfPipes = 0
        /\ proc = [c \in Attempt |-> "unborn"]
        /\ verdict = [c \in Attempt |-> "none"]
        /\ talk = [c \in Attempt |-> 0]
        /\ toParent = [c \in Attempt |-> <<>>]
        /\ toChild = [c \in Attempt |-> 0]
        /\ reported = [c \in Attempt |-> <<>>]

-----------------------------------------------------------------------------
(* The parent: cancelAuthentication and authenticate *)

\* Mutant: the child is neither killed nor waited for.
KillAndReapNot(p) == p

\* kill(m_authPid) and waitpid(m_authPid): a child of ours is gone for good.
\* A pid that was reaped before is not ours any more, the calls are lost on it.
KillAndReap(p) == IF pid = 0 THEN p ELSE [p EXCEPT ![pid] = "reaped"]

One(b) == IF b THEN 1 ELSE 0

\* Mutant: two ends are taken to be open in any case.
OpenEndsTwo == 2

\* The pipe ends that closing both descriptor variables really closes.
OpenEnds == One(rfd = "open") + One(wfd = "open")

Closed(fd) == IF fd = "unset" THEN "unset" ELSE "stale"

\* The pipes of the attempt under way go with their last descriptors.
DropPipes == /\ toParent' = [c \in Attempt |-> IF c = notifier THEN <<>> ELSE toParent[c]]
             /\ toChild' = [c \in Attempt |-> IF c = notifier THEN 0 ELSE toChild[c]]

\* Mutant: the result of the attempt survives the cancellation.
CancelKeepingResult ==
  /\ proc' = KillAndReap(proc)
  /\ pid' = 0
  /\ rfd' = Closed(rfd) /\ wfd' = Closed(wfd)
  /\ openFds' = openFds - OpenEnds
  /\ inAuth' = FALSE /\ hasSend' = FALSE
  /\ notifier' = 0
  /\ DropPipes
  /\ UNCHANGED <<isAuth, attempts, halfPipes, verdict, talk, reported>>

\* cancelAuthentication(), whoever calls it.
CancelAuthentication ==
  /\ proc' = KillAndReap(proc)
  /\ pid' = 0
  /\ rfd' = Closed(rfd) /\ wfd' = Closed(wfd)
  /\ openFds' = openFds - OpenEnds
  /\ isAuth' = FALSE /\ inAuth' = FALSE /\ hasSend' = FALSE
  /\ notifier' = 0
  /\ DropPipes
  /\ UNCHANGED <<attempts, halfPipes, verdict, talk, reported>>

\* AuthProxy cancels, which its users do only while an attempt is under way.
Cancel == alive /\ inAuth /\ CancelAuthentication /\ UNCHANGED alive

\* ~AuthProxy() cancels in any case; nothing happens afterwards.
Destroy == alive /\ CancelAuthentication /\ alive' = FALSE

\* What authenticate() finds after its first statement, which cancels an
\* attempt that is under way.
ProcNow    == IF inAuth THEN KillAndReap(proc) ELSE proc
PidNow     == IF inAuth THEN 0 ELSE pid
RfdNow     == IF inAuth THEN Closed(rfd) ELSE rfd
WfdNow     == IF inAuth THEN Closed(wfd) ELSE wfd
OpenFdsNow == IF inAuth THEN openFds - OpenEnds ELSE openFds

\* No flag is reset unless an attempt was cancelled.
FlagsNow == /\ isAuth' = (isAuth /\ ~inAuth)
            /\ hasSend' = (hasSend /\ ~inAuth)

\* Both pipes and the fork succeed.
Authenticate ==
  /\ alive /\ attempts < MaxAttempts
  /\ attempts' = attempts + 1
  /\ pid' = attempts'
  /\ notifier' = attempts'
  /\ inAuth' = TRUE
  /\ FlagsNow
  /\ rfd' = "open" /\ wfd' = "open"
  /\ openFds' = OpenFdsNow + 2
  /\ proc' = [ProcNow EXCEPT ![attempts'] = "running"]
  /\ DropPipes
  /\ UNCHANGED <<alive, halfPipes, verdict, talk, reported>>

\* authenticate() returns false: an attempt under way is cancelled all the same.
AuthenticateFails ==
  /\ alive
  /\ inAuth' = FALSE
  /\ FlagsNow
  /\ pid' = PidNow
  /\ notifier' = 0
  /\ proc' = ProcNow
  /\ DropPipes
  /\ UNCHANGED <<alive, attempts, verdict, talk, reported>>

\* The first pipe() fails.
PipeFails == /\ AuthenticateFails
             /\ rfd' = RfdNow /\ wfd' = WfdNow
             /\ openFds' = OpenFdsNow
             /\ UNCHANGED halfPipes

\* Only the second pipe() fails: the ends of the first stay open.
SecondPipeFails == /\ halfPipes < MaxHalfPipes
                   /\ AuthenticateFails
                   /\ rfd' = "open" /\ wfd' = WfdNow
                   /\ openFds' = OpenFdsNow + 2
                   /\ halfPipes' = halfPipes + 1

\* Mutant: the ends of the pipes are not closed.
ForkFailsOpen == /\ AuthenticateFails
                 /\ rfd' = "stale" /\ wfd' = "stale"
                 /\ openFds' = OpenFdsNow + 4
                 /\ UNCHANGED halfPipes

\* fork() fails: all four ends are closed, their numbers stay.
ForkFails == /\ AuthenticateFails
             /\ rfd' = "stale" /\ wfd' = "stale"
             /\ openFds' = OpenFdsNow
             /\ UNCHANGED halfPipes

-----------------------------------------------------------------------------
(* The parent: respond and the handler of its end of the pipe *)

\* respond() writes whether or not the child has asked; to a child that has
\* ended the write fails and is ignored.
Respond == /\ alive /\ inAuth
           /\ toChild[notifier] < MaxReplies
           /\ toChild' = [toChild EXCEPT ![notifier] =
                            IF proc[notifier] \in Working THEN @ + 1 ELSE @]
           /\ UNCHANGED <<parentVars, childVars, toParent, reported>>

Readable == alive /\ notifier # 0 /\ toParent[notifier] # <<>>
EndOfFile == /\ alive /\ notifier # 0 /\ toParent[notifier] = <<>>
             /\ proc[notifier] \notin Working

Consume == toParent' = [toParent EXCEPT ![notifier] = Tail(@)]

\* PromptRequest and Message events are passed on as signals.
HandlePrompt == /\ Readable /\ Head(toParent[notifier]) = "prompt"
                /\ Consume
                /\ UNCHANGED <<parentVars, childVars, toChild, reported>>

HandleMessage == /\ Readable /\ Head(toParent[notifier]) = "message"
                 /\ Consume
                 /\ UNCHANGED <<parentVars, childVars, toChild, reported>>

\* The owner's slot reads isAuthenticated() while the signal is emitted.
EmitComplete(result) ==
  reported' = [reported EXCEPT ![notifier] = Append(@, result)]

\* Mutant: the completion is emitted and not noted.
NoteCompletionNot(result) == isAuth' = result /\ EmitComplete(result) /\ UNCHANGED hasSend

\* m_hasSendCompleteSignal, m_isAuthenticated and the signal.
NoteCompletion(result) == hasSend' = TRUE /\ isAuth' = result /\ EmitComplete(result)

HandleComplete ==
  /\ Readable /\ Head(toParent[notifier]) \in Verdict
  /\ Consume
  /\ NoteCompletion(Head(toParent[notifier]) = "pass")
  /\ UNCHANGED <<alive, pid, inAuth, notifier, rfd, wfd, attempts, openFds,
                 halfPipes, childVars, toChild>>

\* waitpid(-1, WNOHANG) reaps some child that is a zombie by now, if any.
ReapAny == LET zombies == {c \in Attempt : proc[c] = "zombie"}
           IN  IF zombies = {} THEN UNCHANGED proc
               ELSE \E z \in zombies : proc' = [proc EXCEPT ![z] = "reaped"]

\* Mutant: the attempt still counts as under way.
EndAttemptNot == /\ rfd' = Closed(rfd) /\ wfd' = Closed(wfd)
                 /\ openFds' = openFds - OpenEnds
                 /\ notifier' = 0
                 /\ UNCHANGED inAuth

\* The descriptors are closed and the notifier deleted.
EndAttempt == /\ inAuth' = FALSE
              /\ rfd' = Closed(rfd) /\ wfd' = Closed(wfd)
              /\ openFds' = openFds - OpenEnds
              /\ notifier' = 0

\* Mutant: a child that dies without a Complete event goes unreported.
MakeUpNothing == UNCHANGED reported

\* The completion is made up when none was reported since the flag was last
\* reset.
MakeUpCompletion == IF hasSend THEN UNCHANGED reported ELSE EmitComplete(isAuth)

\* End of file: handleChildExit().
HandleChildExit ==
  /\ EndOfFile
  /\ ReapAny
  /\ EndAttempt
  /\ MakeUpCompletion
  /\ DropPipes
  /\ UNCHANGED <<alive, pid, isAuth, hasSend, attempts, halfPipes, verdict, talk>>

HandlePipeActivated == \/ HandlePrompt \/ HandleMessage \/ HandleComplete
                       \/ HandleChildExit

-----------------------------------------------------------------------------
(* The children *)

Send(c, event) == toParent' = [toParent EXCEPT ![c] = Append(@, event)]
Become(c, state) == proc' = [proc EXCEPT ![c] = state]

\* conversation(): a prompt is sent and the child blocks for one reply.
ChildAsk(c) == /\ proc[c] = "running" /\ talk[c] < MaxTalk
               /\ Send(c, "prompt")
               /\ Become(c, "asking")
               /\ talk' = [talk EXCEPT ![c] = @ + 1]
               /\ UNCHANGED <<parentVars, verdict, toChild, reported>>

ChildReadReply(c) == /\ proc[c] = "asking" /\ toChild[c] > 0
                     /\ toChild' = [toChild EXCEPT ![c] = @ - 1]
                     /\ Become(c, "running")
                     /\ UNCHANGED <<parentVars, verdict, talk, toParent, reported>>

\* conversation(): errors and information are sent without an answer.
ChildSay(c) == /\ proc[c] = "running" /\ talk[c] < MaxTalk
               /\ Send(c, "message")
               /\ talk' = [talk EXCEPT ![c] = @ + 1]
               /\ UNCHANGED <<parentVars, proc, verdict, toChild, reported>>

\* pam_authenticate() returns.
ChildVerdict(c) == /\ proc[c] = "running"
                   /\ \E v \in Verdict : verdict' = [verdict EXCEPT ![c] = v]
                   /\ Become(c, "verdict")
                   /\ UNCHANGED <<parentVars, talk, pipeVars, reported>>

ChildComplete(c) == /\ proc[c] = "verdict"
                    /\ Send(c, verdict[c])
                    /\ Become(c, "sent")
                    /\ UNCHANGED <<parentVars, verdict, talk, toChild, reported>>

\* The child exits (after the Complete event, or early on one of main()'s
\* error returns) or crashes: its ends of the pipes are closed first, ...
ChildDie(c) == /\ proc[c] \in Working
               /\ Become(c, "closed")
               /\ UNCHANGED <<parentVars, verdict, talk, pipeVars, reported>>

\* ... waitpid() can see it only later.
ChildZombie(c) == /\ proc[c] = "closed"
                  /\ Become(c, "zombie")
                  /\ UNCHANGED <<parentVars, verdict, talk, pipeVars, reported>>

ChildStep(c) == \/ ChildAsk(c) \/ ChildReadReply(c) \/ ChildSay(c)
                \/ ChildVerdict(c) \/ ChildComplete(c) \/ ChildDie(c)
                \/ ChildZombie(c)

-----------------------------------------------------------------------------
Next == \/ Authenticate \/ PipeFails \/ SecondPipeFails \/ ForkFails
        \/ Cancel \/ Destroy \/ Respond \/ HandlePipeActivated
        \/ \E c \in Attempt : ChildStep(c)

Spec == Init /\ [][Next]_vars

\* The parent's event loop serves the pipe, and a child that has sent its
\* result exits. Nobody is obliged to reply, and PAM may take for ever.
FairSpec == /\ Spec
            /\ WF_vars(HandlePipeActivated)
            /\ \A c \in Attempt : WF_vars(proc[c] = "sent" /\ ChildDie(c))

-----------------------------------------------------------------------------
(* Properties *)

FlagType == /\ alive \in BOOLEAN
            /\ inAuth \in BOOLEAN /\ isAuth \in BOOLEAN /\ hasSend \in BOOLEAN

ParentType == /\ pid \in 0..MaxAttempts /\ notifier \in 0..MaxAttempts
              /\ attempts \in 0..MaxAttempts
              /\ rfd \in Fd /\ wfd \in Fd
              /\ openFds \in Nat /\ halfPipes \in Nat

ChildType == /\ proc \in [Attempt -> ProcState]
             /\ verdict \in [Attempt -> Verdict \cup {"none"}]
             /\ talk \in [Attempt -> Nat]
             /\ toParent \in [Attempt -> Seq(Event)]
             /\ toChild \in [Attempt -> Nat]
             /\ reported \in [Attempt -> Seq(BOOLEAN)]

TypeOK == FlagType /\ ParentType /\ ChildType

\* While an attempt is under way the parent's handles are those of its own
\* child, which nobody has reaped: a cancellation kills that child and no
\* stranger, closes descriptors that are open, and a reply reaches its pipe.
LiveHandles ==
  inAuth => /\ pid # 0 /\ pid = notifier
            /\ proc[pid] \in Working \cup Ended
            /\ rfd = "open" /\ wfd = "open"

\* No child works on in the background: only the child of the attempt under
\* way executes.
OnlyCurrentChildWorks ==
  \A c \in Attempt : proc[c] \in Working => inAuth /\ pid = c

\* Success is reported for an attempt only if PAM accepted in that attempt's
\* own child, whatever flags earlier attempts have left behind.
SuccessIsOwn ==
  \A c \in Attempt : \A i \in 1..Len(reported[c]) :
     reported[c][i] => verdict[c] = "pass"

\* The owner is told of the end of an attempt at most once.
ReportedOnce == \A c \in Attempt : Len(reported[c]) <= 1

\* Attempts do not leak descriptors: apart from the pipes left by a half
\* failed authenticate(), those of the attempt under way are the only ones.
NoFdLeak == openFds <= IF inAuth THEN 2 * halfPipes + 2 ELSE 2 * halfPipes

\* When the child has ended while no completion is noted, the owner is told,
\* unless the attempt is cancelled first.
EndIsReported ==
  \A c \in Attempt :
    (inAuth /\ pid = c /\ proc[c] \in Ended /\ ~hasSend)
      ~> (reported[c] # <<>> \/ pid # c)

\* However the child of an attempt ends, the owner is told of a completion,
\* unless the attempt is cancelled first.
EveryEndIsReported ==
  \A c \in Attempt :
    (inAuth /\ pid = c /\ proc[c] \in Ended) ~> (reported[c] # <<>> \/ pid # c)
=============================================================================
