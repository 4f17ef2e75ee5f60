---------------------------- MODULE AuthMsgQueue ----------------------------
(***************************************************************************)
(* lib/auth-proxy/auth-msg-queue.cpp: the queue that paces authentication  *)
(* messages. Two threads share it. The GUI thread appends messages, starts *)
(* and stops the dispatcher and delivers what was posted to its event      *)
(* loop; the dispatcher thread takes messages one by one, keeps m_interval *)
(* seconds between them and posts them to the GUI's event loop (signals    *)
(* emitted by DispatcherWorker reach AuthMsgQueue as queued connections).  *)
(*                                                                         *)
(* One action is one step between two points where the other thread can    *)
(* intervene. m_cancelWaitMutex orders nothing: no caller locks it before  *)
(* waiting on it or unlocking it, so it is not modelled.                   *)
(***************************************************************************)
EXTENDS Naturals, Sequences

CONSTANTS Kinds,      \* AuthMsgType, "prompt" among them
          Interval,   \* m_interval, seconds
          Hz,         \* ticks of the model's clock per second
          MaxMsgs,    \* bound: messages ever appended
          MaxStops    \* bound: calls of stopDispatcher()

ASSUME QueueAssumption == /\ "prompt" \in Kinds
                          /\ Interval \in Nat \ {0}
                          /\ Hz \in Nat \ {0}
                          /\ MaxMsgs \in Nat
                          /\ MaxStops \in Nat

VARIABLES
  gui,           \* where the GUI thread is, see GuiAt
  round,         \* which of stopDispatcher()'s two cancelAndStop() calls runs
  avail,         \* what m_queueSem.available() returned
  epoch,         \* number of stopDispatcher() calls that have returned
  nextId,        \* id of the next message appended
  queue,         \* m_queue
  sem,           \* permits of m_queueSem
  running,       \* m_dispatcherThread->isRunning()
  interrupted,   \* interruption requested since the thread was started
  exited,        \* quit() called since the thread was started
  calls,         \* doDispatcher calls posted to the dispatcher thread
  worker,        \* where the dispatcher thread is, see WorkerAt
  held,          \* the message fetched and not yet emitted: <<>> or <<msg>>
  havePrompted,  \* m_havePrompted
  age,           \* whole seconds of uptime since m_msgShowTime, saturated
  phase,         \* ticks into the current second of uptime
  remain,        \* ticks left of the wait on m_cancelWaitCond
  since,         \* history: ticks since the last emission of this run
  leaked,        \* history: emissions since stopDispatcher() was entered
  posted         \* signals posted to the GUI's event loop, oldest first

guiVars    == <<gui, round, avail, epoch, leaked>>
queueVars  == <<queue, sem>>
threadVars == <<running, interrupted, exited, calls>>
workerVars == <<worker, held, havePrompted>>
timeVars   == <<age, phase, remain, since>>
vars == <<guiVars, nextId, queueVars, threadVars, workerVars, timeVars, posted>>

Message == [id : 1..MaxMsgs, kind : Kinds, epoch : 0..MaxStops]

\* Labels inside append() and stopDispatcher(); "idle" is the event loop.
GuiAt == {"idle", "release", "available", "acquire", "clear", "wake", "reset",
          "quit", "join", "return"}

\* Labels of the dispatcher thread; "loop" is its event loop.
WorkerAt == {"none", "loop", "top", "fetch", "dequeue", "decide", "enter",
             "waiting", "woken", "dispatch"}

Stopping == gui \notin {"idle", "release"}

Saturate(n, limit) == IF n < limit THEN n ELSE limit

Quiet == Interval * Hz      \* `since' when nothing constrains the next emission

Init == /\ gui = "idle" /\ round = 1 /\ avail = 0 /\ epoch = 0 /\ nextId = 1
        /\ queue = <<>> /\ sem = 0
        /\ running = FALSE /\ interrupted = FALSE /\ exited = FALSE /\ calls = 0
        /\ worker = "none" /\ held = <<>> /\ havePrompted = FALSE
        /\ age = Interval /\ phase \in 0..(Hz - 1) /\ remain = 0
        /\ since = Quiet /\ leaked = 0
        /\ posted = <<>>

-----------------------------------------------------------------------------
(* The GUI thread: startDispatcher, append, the event loop *)

\* start() clears the thread's interruption and exit flags; doDispatcher is
\* posted to the new thread. A running dispatcher is left alone.
StartDispatcher == /\ gui = "idle" /\ ~running
                   /\ running' = TRUE /\ interrupted' = FALSE /\ exited' = FALSE
                   /\ calls' = calls + 1
                   /\ worker' = "loop"
                   /\ UNCHANGED <<guiVars, nextId, queueVars, held, havePrompted,
                                  timeVars, posted>>

\* append(): enqueue under m_queueLock ...
Enqueue == /\ gui = "idle" /\ nextId <= MaxMsgs
           /\ \E k \in Kinds :
                queue' = Append(queue, [id |-> nextId, kind |-> k, epoch |-> epoch])
           /\ nextId' = nextId + 1
           /\ gui' = "release"
           /\ UNCHANGED <<round, avail, epoch, leaked, sem, threadVars, workerVars,
                          timeVars, posted>>

\* Mutant: the permit is forgotten.
ReleaseNothing == /\ gui = "release"
                  /\ gui' = "idle"
                  /\ UNCHANGED <<round, avail, epoch, leaked, nextId, queueVars,
                                 threadVars, workerVars, timeVars, posted>>

\* ... then release one permit.
Release == /\ gui = "release"
           /\ sem' = sem + 1
           /\ gui' = "idle"
           /\ UNCHANGED <<round, avail, epoch, leaked, nextId, queue, threadVars,
                          workerVars, timeVars, posted>>

\* The event loop delivers the oldest posted signal to AuthProxy.
Deliver == /\ gui = "idle" /\ posted # <<>>
           /\ posted' = Tail(posted)
           /\ UNCHANGED <<guiVars, nextId, queueVars, threadVars, workerVars, timeVars>>

-----------------------------------------------------------------------------
(* The GUI thread: stopDispatcher, with the cancelAndStop it calls twice *)

\* requestInterruption(), unless the thread is not running.
StopDispatcher == /\ gui = "idle" /\ epoch < MaxStops
                  /\ gui' = "available"
                  /\ round' = IF running THEN 1 ELSE 2
                  /\ interrupted' = (running \/ interrupted)
                  /\ leaked' = 0
                  /\ UNCHANGED <<avail, epoch, nextId, queueVars, running, exited,
                                 calls, workerVars, timeVars, posted>>

\* m_queueSem.acquire(m_queueSem.available()): two calls, not one step.
CancelAvailable == /\ gui = "available"
                   /\ avail' = sem
                   /\ gui' = "acquire"
                   /\ UNCHANGED <<round, epoch, leaked, nextId, queueVars, threadVars,
                                  workerVars, timeVars, posted>>

\* Blocks while there are fewer permits than asked for.
CancelAcquire == /\ gui = "acquire" /\ sem >= avail
                 /\ sem' = sem - avail
                 /\ gui' = "clear"
                 /\ UNCHANGED <<round, avail, epoch, leaked, nextId, queue, threadVars,
                                workerVars, timeVars, posted>>

\* Mutant: the queue is not emptied with the semaphore.
CancelClearNothing == /\ gui = "clear"
                      /\ gui' = "wake"
                      /\ UNCHANGED <<round, avail, epoch, leaked, nextId, queueVars,
                                     threadVars, workerVars, timeVars, posted>>

CancelClear == /\ gui = "clear"
               /\ queue' = <<>>
               /\ gui' = "wake"
               /\ UNCHANGED <<round, avail, epoch, leaked, nextId, sem, threadVars,
                              workerVars, timeVars, posted>>

\* wakeAll(): only a thread that is already waiting is woken.
CancelWake == /\ gui = "wake"
              /\ worker' = IF worker = "waiting" THEN "woken" ELSE worker
              /\ gui' = "reset"
              /\ UNCHANGED <<round, avail, epoch, leaked, nextId, queueVars,
                             threadVars, held, havePrompted, timeVars, posted>>

\* m_msgShowTime = 0: the interval is over as far as the code can tell.
CancelReset == /\ gui = "reset"
               /\ age' = Interval
               /\ since' = Quiet
               /\ gui' = IF round = 1 THEN "quit" ELSE "return"
               /\ UNCHANGED <<round, avail, epoch, leaked, nextId, queueVars,
                              threadVars, workerVars, phase, remain, posted>>

\* Mutant: the thread's event loop is not told to end.
ThreadQuitNot == /\ gui = "quit"
                 /\ gui' = "join"
                 /\ UNCHANGED <<round, avail, epoch, leaked, nextId, queueVars,
                                threadVars, workerVars, timeVars, posted>>

ThreadQuit == /\ gui = "quit"
              /\ exited' = TRUE
              /\ gui' = "join"
              /\ UNCHANGED <<round, avail, epoch, leaked, nextId, queueVars, running,
                             interrupted, calls, workerVars, timeVars, posted>>

\* Mutant: stopDispatcher() does not wait for the thread to end.
ThreadWaitNot == /\ gui = "join"
                 /\ gui' = "available"
                 /\ round' = 2
                 /\ UNCHANGED <<avail, epoch, leaked, nextId, queueVars, threadVars,
                                workerVars, timeVars, posted>>

ThreadWait == /\ gui = "join" /\ ~running
              /\ gui' = "available"
              /\ round' = 2
              /\ UNCHANGED <<avail, epoch, leaked, nextId, queueVars, threadVars,
                             workerVars, timeVars, posted>>

StopReturn == /\ gui = "return"
              /\ gui' = "idle"
              /\ epoch' = epoch + 1
              /\ UNCHANGED <<round, avail, leaked, nextId, queueVars, threadVars,
                             workerVars, timeVars, posted>>

StopStep == \/ CancelAvailable \/ CancelAcquire \/ CancelClear \/ CancelWake
            \/ CancelReset \/ ThreadQuit \/ ThreadWait \/ StopReturn

-----------------------------------------------------------------------------
(* The dispatcher thread *)

\* Its event loop calls a posted doDispatcher ...
LoopCall == /\ worker = "loop" /\ calls > 0
            /\ calls' = calls - 1
            /\ worker' = "top"
            /\ UNCHANGED <<guiVars, nextId, queueVars, running, interrupted, exited,
                           held, havePrompted, timeVars, posted>>

\* ... and ends once quit() was called, maybe before it made the call.
LoopExit == /\ worker = "loop" /\ exited
            /\ running' = FALSE
            /\ worker' = "none"
            /\ UNCHANGED <<guiVars, nextId, queueVars, interrupted, exited, calls,
                           held, havePrompted, timeVars, posted>>

\* Mutant: doDispatcher() never looks at the interruption request.
CheckInterruptionNot == /\ worker = "top"
                        /\ worker' = "fetch"
                        /\ UNCHANGED <<guiVars, nextId, queueVars, threadVars, held,
                                       havePrompted, timeVars, posted>>

CheckInterruption == /\ worker = "top"
                     /\ worker' = IF interrupted THEN "loop" ELSE "fetch"
                     /\ UNCHANGED <<guiVars, nextId, queueVars, threadVars, held,
                                    havePrompted, timeVars, posted>>

\* Mutant: a permit is taken that may not be there.
TryAcquireUnchecked == /\ worker = "fetch"
                       /\ sem' = sem - 1
                       /\ worker' = "dequeue"
                       /\ UNCHANGED <<guiVars, nextId, queue, threadVars, held,
                                      havePrompted, timeVars, posted>>

\* m_queueSem.tryAcquire(1, 300)
TryAcquire == /\ worker = "fetch" /\ sem > 0
              /\ sem' = sem - 1
              /\ worker' = "dequeue"
              /\ UNCHANGED <<guiVars, nextId, queue, threadVars, held, havePrompted,
                             timeVars, posted>>

TryAcquireTimeout == /\ worker = "fetch" /\ sem = 0
                     /\ worker' = "top"
                     /\ UNCHANGED <<guiVars, nextId, queueVars, threadVars, held,
                                    havePrompted, timeVars, posted>>

\* Mutant: the head is read and stays in the queue.
DequeueByPeek == /\ worker = "dequeue"
                 /\ IF queue = <<>>
                    THEN worker' = "top" /\ UNCHANGED held
                    ELSE worker' = "decide" /\ held' = <<Head(queue)>>
                 /\ UNCHANGED <<guiVars, nextId, queueVars, threadVars, havePrompted,
                                timeVars, posted>>

\* Under m_queueLock; the queue may have been cleared since the permit was
\* taken.
Dequeue == /\ worker = "dequeue"
           /\ IF queue = <<>>
              THEN worker' = "top" /\ UNCHANGED <<queue, held>>
              ELSE /\ worker' = "decide"
                   /\ held' = <<Head(queue)>>
                   /\ queue' = Tail(queue)
           /\ UNCHANGED <<guiVars, nextId, sem, threadVars, havePrompted, timeVars,
                          posted>>

FirstPrompt == held[1].kind = "prompt" /\ ~havePrompted

\* Mutant: the last second of the interval is not waited for.
MustWaitLess == ~FirstPrompt /\ age + 1 < Interval

\* The first prompt does not wait, everything else waits until m_interval
\* seconds of uptime have passed since m_msgShowTime.
MustWait == ~FirstPrompt /\ age < Interval

Decide == /\ worker = "decide"
          /\ IF MustWait
             THEN worker' = "enter" /\ remain' = (Interval - age) * Hz
             ELSE worker' = "dispatch" /\ UNCHANGED remain
          /\ UNCHANGED <<guiVars, nextId, queueVars, threadVars, held, havePrompted,
                         age, phase, since, posted>>

EnterWait == /\ worker = "enter"
             /\ worker' = "waiting"
             /\ UNCHANGED <<guiVars, nextId, queueVars, threadVars, held, havePrompted,
                            timeVars, posted>>

\* The wait ends with a timeout and the message is shown, ...
WaitTimeout == /\ worker = "waiting" /\ remain = 0
               /\ worker' = "dispatch"
               /\ UNCHANGED <<guiVars, nextId, queueVars, threadVars, held,
                              havePrompted, timeVars, posted>>

\* ... or it was cut short and the message is dropped.
WaitWoken == /\ worker = "woken"
             /\ worker' = "top"
             /\ held' = <<>>
             /\ remain' = 0
             /\ UNCHANGED <<guiVars, nextId, queueVars, threadVars, havePrompted, age,
                            phase, since, posted>>

\* m_msgShowTime = getUpTime() and the emission, posted to the GUI thread.
Dispatch == /\ worker = "dispatch"
            /\ age' = 0
            /\ since' = 0
            /\ remain' = 0
            /\ havePrompted' = (havePrompted \/ held[1].kind = "prompt")
            /\ posted' = posted \o held
            /\ held' = <<>>
            /\ leaked' = IF Stopping THEN leaked + 1 ELSE leaked
            /\ worker' = "top"
            /\ UNCHANGED <<gui, round, avail, epoch, nextId, queueVars, threadVars,
                           phase>>

WorkerStep == \/ LoopCall \/ LoopExit \/ CheckInterruption \/ TryAcquire
              \/ TryAcquireTimeout \/ Dequeue \/ Decide \/ EnterWait \/ WaitTimeout
              \/ WaitWoken \/ Dispatch

-----------------------------------------------------------------------------
\* Time passes. sysinfo() reports whole seconds, so `age' moves only when a
\* second of uptime is completed, while the wait is timed in ticks.
Tick == /\ phase' = (phase + 1) % Hz
        /\ age' = IF phase' = 0 THEN Saturate(age + 1, Interval) ELSE age
        /\ since' = Saturate(since + 1, Quiet)
        /\ remain' = IF worker = "waiting" /\ remain > 0 THEN remain - 1 ELSE remain
        /\ UNCHANGED <<guiVars, nextId, queueVars, threadVars, workerVars, posted>>

Next == \/ StartDispatcher \/ Enqueue \/ Release \/ Deliver \/ StopDispatcher
        \/ StopStep \/ WorkerStep \/ Tick

Spec == Init /\ [][Next]_vars

\* Both threads keep running and time passes; nothing obliges the owner to
\* append, start or stop.
FairSpec == Spec /\ WF_vars(Release \/ Deliver \/ StopStep) /\ WF_vars(WorkerStep)
                 /\ WF_vars(Tick)

-----------------------------------------------------------------------------
(* Properties *)

FlagType == /\ running \in BOOLEAN /\ interrupted \in BOOLEAN
            /\ exited \in BOOLEAN /\ havePrompted \in BOOLEAN

ControlType == /\ gui \in GuiAt /\ round \in {1, 2} /\ worker \in WorkerAt
               /\ avail \in Nat /\ calls \in Nat /\ leaked \in Nat

MessageType == /\ epoch \in 0..MaxStops /\ nextId \in 1..(MaxMsgs + 1)
               /\ queue \in Seq(Message) /\ sem \in Nat
               /\ held \in Seq(Message) /\ Len(held) <= 1
               /\ posted \in Seq(Message)

TimeType == /\ age \in 0..Interval /\ phase \in 0..(Hz - 1)
            /\ remain \in 0..Quiet /\ since \in 0..Quiet

TypeOK == FlagType /\ ControlType /\ MessageType /\ TimeType

One(b) == IF b THEN 1 ELSE 0

\* Outside stopDispatcher() the semaphore counts the queue: a message is
\* never left without the permit that will fetch it, and no permit is left
\* without its message, whatever the dispatcher did while a stop ran.
PermitPerMessage ==
  ~Stopping => Len(queue) = sem + One(worker = "dequeue") + One(gui = "release")

\* When stopDispatcher() is about to return, the dispatcher has ended and
\* nothing of the past survives: no message queued or held, no permit, no
\* display time left to wait out.
CleanAfterStop ==
  gui = "return" => /\ ~running /\ worker = "none"
                    /\ queue = <<>> /\ held = <<>> /\ sem = 0
                    /\ age = Interval

\* After requestInterruption() the dispatcher emits at most the one message
\* it is already working on; everything else appended is discarded.
StopLeaksAtMostOne == leaked <= 1

\* Pacing: two messages are emitted less than m_interval - 1 seconds apart
\* (the uptime is read in whole seconds) only if the later one is the first
\* prompt or a stop came between them.
Spacing ==
  [][(posted' # posted /\ held # held') =>
       FirstPrompt \/ since > (Interval - 1) * Hz]_vars

Ids(s) == {s[i].id : i \in 1..Len(s)}

\* While the dispatcher runs and is not stopped, every message appended is
\* eventually emitted: no permit is lost and no wait lasts for ever.
EventuallyEmitted ==
  \A i \in 1..MaxMsgs :
    (i \in Ids(queue) \cup Ids(held) /\ running) ~> (i \in Ids(posted) \/ Stopping)

\* stopDispatcher() returns, unless the dispatcher took a permit between the
\* GUI's two calls of the semaphore: that race is the only way to hang it.
StopReturnsUnlessRace ==
  Stopping ~> (gui = "idle" \/ (gui = "acquire" /\ avail > sem))

\* stopDispatcher() stops the dispatch and comes back to its caller.
StopReturns == Stopping ~> gui = "idle"

\* Once stopDispatcher() has returned, no message appended before it is
\* delivered any more.
StoppedMeansSilent == [][Deliver => Head(posted).epoch = epoch]_vars

\* The queue keeps the promise of OrderedDelivery: what the worker holds is
\* the oldest pending message.
Promise == INSTANCE OrderedDelivery
             WITH pending <- held \o queue, posted <- posted, open <- ~Stopping

KeepsPromise == Promise!Spec
=============================================================================
