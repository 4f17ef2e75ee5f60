------------------------- MODULE AuthMsgQueueProofs -------------------------
(***************************************************************************)
(* Theorems about AuthMsgQueue for any kinds of messages, interval, clock  *)
(* rate and bounds: the invariants of the queue, the pacing of what it     *)
(* emits, and that the two threads together implement OrderedDelivery.     *)
(***************************************************************************)
EXTENDS AuthMsgQueue, SequenceTheorems, TLAPS

\* The dispatcher thread runs while it is somewhere; the first cancelAndStop
\* leads to quit and join, the second to the return and only once the thread
\* has ended; a thread that runs during a stop has been interrupted. (The last
\* conjunct is the bound on the number of stops.)
ControlInv == /\ running <=> worker # "none"
              /\ gui \in {"quit", "join"} => round = 1
              /\ gui = "return" => round = 2
              /\ Stopping /\ round = 2 => ~running
              /\ Stopping /\ running => interrupted
              /\ Stopping => epoch < MaxStops

Holding == {"decide", "enter", "waiting", "woken", "dispatch"}

\* A message is held from its dequeue to its emission or its loss, and is lost
\* only to a wake-up, which happens with the queue already emptied.
HeldInv == /\ held = <<>> <=> worker \notin Holding
           /\ worker = "woken" => gui \in {"reset", "quit", "join"}

\* Permits count messages up to the moment stopDispatcher() takes them; by the
\* time it wakes the thread there are neither.
PermitInv ==
  /\ gui \in {"idle", "release", "available", "acquire"} =>
       Len(queue) = sem + One(worker = "dequeue") + One(gui = "release")
  /\ gui = "acquire" => sem <= avail
  /\ gui = "clear" => sem = 0
  /\ gui \in {"wake", "reset", "quit", "join", "return"} => sem = 0 /\ queue = <<>>

\* Having emitted one message during a stop, the thread finds the interruption
\* request before it can fetch another.
LeakInv == /\ leaked <= 1
           /\ Stopping /\ leaked = 1 => worker \in {"none", "loop", "top"}

\* The clock of whole seconds runs less than a second ahead of the time since
\* the last emission; a wait makes up the difference to the interval.
PaceInv ==
  /\ gui = "return" => age = Interval
  /\ age > 0 => since >= (age - 1) * Hz + phase + 1 \/ since = Quiet
  /\ worker \in {"enter", "waiting"} => since + remain > (Interval - 1) * Hz
  /\ worker = "dispatch" => FirstPrompt \/ since > (Interval - 1) * Hz

IInv == /\ TypeOK /\ ControlInv /\ HeldInv /\ PermitInv /\ LeakInv /\ PaceInv

-----------------------------------------------------------------------------
LEMMA InitInv == Init => IInv
<1> SUFFICES ASSUME Init PROVE IInv
  OBVIOUS
<1> USE QueueAssumption DEF QueueAssumption, Init
<1>1. FlagType
  BY DEF FlagType
<1>2. ControlType
  BY DEF ControlType, GuiAt, WorkerAt
<1>3. MessageType
  BY DEF MessageType
<1>4. TimeType /\ PaceInv
  BY DEF TimeType, PaceInv, Quiet
<1>5. ControlInv
  BY DEF ControlInv, Stopping
<1>6. HeldInv
  BY DEF HeldInv, Holding
<1>7. PermitInv
  BY DEF PermitInv, One
<1>8. LeakInv
  BY DEF LeakInv, Stopping
<1> QED
  BY <1>1, <1>2, <1>3, <1>4, <1>5, <1>6, <1>7, <1>8 DEF IInv, TypeOK

\* 
\* The head of the queue goes to the holder, the tail stays.
LEMMA DequeueFacts ==
  ASSUME MessageType, Dequeue
  PROVE  /\ queue' \in Seq(Message) /\ held' \in Seq(Message) /\ Len(held') <= 1
         /\ queue = <<>> => queue' = <<>> /\ held' = held
         /\ queue # <<>> => /\ held' = <<Head(queue)>> /\ held' # <<>> /\ Len(held') = 1
                            /\ queue' = Tail(queue) /\ Len(queue) = Len(queue') + 1
<1>1. CASE queue = <<>>
  BY <1>1 DEF MessageType, Dequeue
<1>2. CASE queue # <<>>
  <2>1. Head(queue) \in Message /\ Tail(queue) \in Seq(Message)
        /\ Len(queue) = Len(Tail(queue)) + 1
    BY <1>2 DEF MessageType
  <2>2. <<Head(queue)>> \in Seq(Message) /\ <<Head(queue)>> # <<>>
        /\ Len(<<Head(queue)>>) = 1
    BY <2>1
  <2> QED
    <3>1. held' = <<Head(queue)>> /\ queue' = Tail(queue)
      BY <1>2 DEF Dequeue
    <3>2. Len(held') = 1
      BY <2>2, <3>1, Zenon
    <3>3. Len(held') <= 1
      BY <3>2
    <3> QED
      BY <1>2, <2>1, <2>2, <3>1, <3>2, <3>3
<1> QED
  BY <1>1, <1>2

-----------------------------------------------------------------------------
(* Every step preserves the invariant, one part of it at a time *)

\* No action gives a flag another value than TRUE or FALSE.
LEMMA FlagTypeKept == FlagType /\ [Next]_vars => FlagType'
<1> SUFFICES ASSUME FlagType, [Next]_vars PROVE FlagType'
  OBVIOUS
<1> USE DEF FlagType
<1>1. CASE StartDispatcher \/ Enqueue \/ Release \/ Deliver \/ StopDispatcher \/
   CancelAvailable \/ CancelAcquire \/ CancelClear \/ CancelWake \/ CancelReset \/
   ThreadQuit \/ ThreadWait \/ StopReturn \/ LoopCall \/ LoopExit \/ CheckInterruption \/
   TryAcquire \/ TryAcquireTimeout \/ Dequeue \/ Decide \/ EnterWait \/ WaitTimeout \/
   WaitWoken \/ Dispatch \/ Tick
  BY <1>1 DEF StartDispatcher, Enqueue, Release, Deliver, StopDispatcher, CancelAvailable,
     CancelAcquire, CancelClear, CancelWake, CancelReset, ThreadQuit, ThreadWait,
     StopReturn, LoopCall, LoopExit, CheckInterruption, TryAcquire, TryAcquireTimeout,
     Dequeue, Decide, EnterWait, WaitTimeout, WaitWoken, Dispatch, Tick, guiVars, queueVars,
     threadVars, workerVars, timeVars
<1>2. CASE UNCHANGED vars
  BY <1>2 DEF vars, guiVars, queueVars, threadVars, workerVars, timeVars
<1> QED
  BY <1>1, <1>2 DEF Next, StopStep, WorkerStep

\* Both threads stay at their labels.
LEMMA ControlTypeKept == IInv /\ [Next]_vars => ControlType'
<1> SUFFICES ASSUME IInv, [Next]_vars PROVE ControlType'
  OBVIOUS
<1>0. ControlType /\ sem \in Nat /\ held \in Seq(Message)
  BY DEF IInv, TypeOK, MessageType
<1> USE DEF ControlType, GuiAt, WorkerAt
<1>1. CASE Release
  BY <1>0, <1>1 DEF Release, guiVars, queueVars, threadVars, workerVars, timeVars
<1>2. CASE CancelAvailable
  BY <1>0, <1>2 DEF CancelAvailable, guiVars, queueVars, threadVars, workerVars, timeVars
<1>3. CASE CancelReset
  BY <1>0, <1>3 DEF CancelReset, guiVars, queueVars, threadVars, workerVars, timeVars
<1>4. CASE LoopCall
  BY <1>0, <1>4 DEF LoopCall, guiVars, queueVars, threadVars, workerVars, timeVars
<1>5. CASE Dispatch
  BY <1>0, <1>5 DEF Dispatch, guiVars, queueVars, threadVars, workerVars, timeVars
<1>6a. CASE Enqueue \/ Deliver \/ StartDispatcher \/ CancelAcquire
  BY <1>0, <1>6a DEF Enqueue, Deliver, StartDispatcher, CancelAcquire, guiVars, queueVars,
     threadVars, workerVars, timeVars
<1>6b. CASE CancelClear \/ CancelWake \/ ThreadQuit \/ ThreadWait
  BY <1>0, <1>6b DEF CancelClear, CancelWake, ThreadQuit, ThreadWait, guiVars, queueVars,
     threadVars, workerVars, timeVars
<1>6c. CASE StopReturn \/ StopDispatcher
  BY <1>0, <1>6c DEF StopReturn, StopDispatcher, guiVars, queueVars, threadVars, workerVars,
     timeVars
<1>7a. CASE LoopExit \/ CheckInterruption \/ TryAcquire \/ TryAcquireTimeout
  BY <1>0, <1>7a DEF LoopExit, CheckInterruption, TryAcquire, TryAcquireTimeout, guiVars,
     queueVars, threadVars, workerVars, timeVars
<1>7b. CASE Dequeue \/ Decide \/ EnterWait \/ WaitTimeout
  BY <1>0, <1>7b DEF Dequeue, Decide, EnterWait, WaitTimeout, guiVars, queueVars, threadVars,
     workerVars, timeVars
<1>7c. CASE WaitWoken \/ Tick
  BY <1>0, <1>7c DEF WaitWoken, Tick, guiVars, queueVars, threadVars, workerVars, timeVars
<1>8. CASE UNCHANGED vars
  BY <1>0, <1>8 DEF vars, guiVars, queueVars, threadVars, workerVars, timeVars
<1> QED
  BY <1>1, <1>2, <1>3, <1>4, <1>5, <1>6a, <1>6b, <1>6c, <1>7a, <1>7b, <1>7c, <1>8 DEF Next,
     StopStep, WorkerStep

\* The queue, what is held and what is posted stay sequences of messages.
LEMMA MessageTypeKept == IInv /\ [Next]_vars => MessageType'
<1> SUFFICES ASSUME IInv, [Next]_vars PROVE MessageType'
  OBVIOUS
<1> USE QueueAssumption DEF QueueAssumption, IInv, TypeOK, ControlType, MessageType
<1>1. CASE Enqueue
  BY <1>1 DEF Enqueue, guiVars, queueVars, threadVars, workerVars, timeVars, Message
<1>2. CASE Release
  BY <1>2 DEF Release, guiVars, queueVars, threadVars, workerVars, timeVars, Message
<1>3. CASE Deliver
  BY <1>3 DEF Deliver, guiVars, queueVars, threadVars, workerVars, timeVars, Message
<1>4. CASE CancelAcquire
  BY <1>4 DEF CancelAcquire, guiVars, queueVars, threadVars, workerVars, timeVars, Message
<1>5. CASE CancelClear
  BY <1>5 DEF CancelClear, guiVars, queueVars, threadVars, workerVars, timeVars, Message
<1>6. CASE StopReturn
  BY <1>6 DEF StopReturn, guiVars, queueVars, threadVars, workerVars, timeVars,
     ControlInv, Stopping
<1>7. CASE TryAcquire
  BY <1>7 DEF TryAcquire, guiVars, queueVars, threadVars, workerVars, timeVars, Message
<1>8. CASE Dequeue
  BY <1>8, DequeueFacts DEF Dequeue, guiVars
<1>9. CASE WaitWoken
  BY <1>9 DEF WaitWoken, guiVars, queueVars, threadVars, workerVars, timeVars, Message
<1>10. CASE Dispatch
  BY <1>10 DEF Dispatch, guiVars, queueVars, threadVars, workerVars, timeVars, Message
<1>11a. CASE StartDispatcher \/ StopDispatcher \/ CancelAvailable \/ CancelWake
  BY <1>11a DEF StartDispatcher, StopDispatcher, CancelAvailable, CancelWake, guiVars,
     queueVars, threadVars, workerVars, timeVars, Message
<1>11b. CASE CancelReset \/ ThreadQuit \/ ThreadWait \/ LoopCall
  BY <1>11b DEF CancelReset, ThreadQuit, ThreadWait, LoopCall, guiVars, queueVars,
     threadVars, workerVars, timeVars, Message
<1>11c. CASE LoopExit \/ CheckInterruption \/ TryAcquireTimeout \/ Decide
  BY <1>11c DEF LoopExit, CheckInterruption, TryAcquireTimeout, Decide, guiVars, queueVars,
     threadVars, workerVars, timeVars, Message
<1>11d. CASE EnterWait \/ WaitTimeout \/ Tick
  BY <1>11d DEF EnterWait, WaitTimeout, Tick, guiVars, queueVars, threadVars, workerVars,
     timeVars, Message
<1>12. CASE UNCHANGED vars
  BY <1>12 DEF vars, guiVars, queueVars, threadVars, workerVars, timeVars, Message
<1> QED
  BY <1>1, <1>2, <1>3, <1>4, <1>5, <1>6, <1>7, <1>8, <1>9, <1>10, <1>11a, <1>11b, <1>11c,
     <1>11d, <1>12 DEF Next, StopStep, WorkerStep

\* Only starting and stopping relate the thread's flags to the GUI's place.
LEMMA ControlKept == IInv /\ [Next]_vars => ControlInv'
<1> SUFFICES ASSUME IInv, [Next]_vars PROVE ControlInv'
  OBVIOUS
<1> USE DEF IInv, TypeOK, FlagType, ControlType, MessageType, ControlInv, Stopping
<1>1. CASE StartDispatcher
  BY <1>1 DEF StartDispatcher, guiVars, queueVars, threadVars, workerVars, timeVars
<1>2. CASE StopDispatcher
  BY <1>2 DEF StopDispatcher, guiVars, queueVars, threadVars, workerVars, timeVars
<1>3. CASE CancelReset
  BY <1>3 DEF CancelReset, guiVars, queueVars, threadVars, workerVars, timeVars
<1>4. CASE ThreadWait
  BY <1>4 DEF ThreadWait, guiVars, queueVars, threadVars, workerVars, timeVars
<1>5. CASE StopReturn
  BY <1>5 DEF StopReturn, guiVars, queueVars, threadVars, workerVars, timeVars
<1>6. CASE LoopExit
  BY <1>6 DEF LoopExit, guiVars, queueVars, threadVars, workerVars, timeVars
<1>7a. CASE Release \/ Enqueue \/ Deliver \/ CancelAvailable
  BY <1>7a DEF Release, Enqueue, Deliver, CancelAvailable, guiVars, queueVars, threadVars,
     workerVars, timeVars
<1>7b. CASE CancelAcquire \/ CancelClear \/ CancelWake \/ ThreadQuit
  BY <1>7b DEF CancelAcquire, CancelClear, CancelWake, ThreadQuit, guiVars, queueVars,
     threadVars, workerVars, timeVars
<1>8. CASE LoopCall \/ CheckInterruption \/ TryAcquire \/ TryAcquireTimeout
  BY <1>8 DEF LoopCall, CheckInterruption, TryAcquire, TryAcquireTimeout, guiVars,
     queueVars, threadVars, workerVars, timeVars
<1>9. CASE Dequeue \/ Decide \/ EnterWait \/ WaitTimeout
  BY <1>9 DEF Dequeue, Decide, EnterWait, WaitTimeout, guiVars, queueVars, threadVars,
     workerVars, timeVars
<1>10. CASE WaitWoken \/ Dispatch \/ Tick
  BY <1>10 DEF WaitWoken, Dispatch, Tick, guiVars, queueVars, threadVars, workerVars,
     timeVars
<1>11. CASE UNCHANGED vars
  BY <1>11 DEF vars, guiVars, queueVars, threadVars, workerVars, timeVars
<1> QED
  BY <1>1, <1>2, <1>3, <1>4, <1>5, <1>6, <1>7a, <1>7b, <1>8, <1>9, <1>10, <1>11
     DEF Next, StopStep, WorkerStep

\* The message goes through dequeue, decision, wait and emission with its holder.
LEMMA HeldKept == IInv /\ [Next]_vars => HeldInv'
<1> SUFFICES ASSUME IInv, [Next]_vars PROVE HeldInv'
  OBVIOUS
<1> USE DEF IInv, TypeOK, ControlType, MessageType, ControlInv, HeldInv, Holding, Stopping
<1>1. CASE CancelWake
  BY <1>1 DEF CancelWake, guiVars, queueVars, threadVars, workerVars, timeVars
<1>2. CASE CancelReset
  BY <1>2 DEF CancelReset, guiVars, queueVars, threadVars, workerVars, timeVars
<1>3. CASE ThreadWait
  BY <1>3 DEF ThreadWait, guiVars, queueVars, threadVars, workerVars, timeVars
<1>4. CASE Dequeue
  BY <1>4, DequeueFacts DEF Dequeue, guiVars
<1>5. CASE Decide
  BY <1>5 DEF Decide, guiVars, queueVars, threadVars, workerVars, timeVars
<1>6. CASE WaitWoken
  BY <1>6 DEF WaitWoken, guiVars, queueVars, threadVars, workerVars, timeVars
<1>7. CASE Dispatch
  BY <1>7 DEF Dispatch, guiVars, queueVars, threadVars, workerVars, timeVars
<1>8a. CASE Release \/ Enqueue \/ Deliver \/ CancelAvailable
  BY <1>8a DEF Release, Enqueue, Deliver, CancelAvailable, guiVars, queueVars, threadVars,
     workerVars, timeVars
<1>8b. CASE CancelAcquire \/ CancelClear \/ ThreadQuit
  BY <1>8b DEF CancelAcquire, CancelClear, ThreadQuit, guiVars, queueVars, threadVars,
     workerVars, timeVars
<1>9a. CASE StartDispatcher \/ StopDispatcher \/ StopReturn \/ LoopCall
  BY <1>9a DEF StartDispatcher, StopDispatcher, StopReturn, LoopCall, guiVars, queueVars,
     threadVars, workerVars, timeVars
<1>9b. CASE LoopExit \/ CheckInterruption \/ TryAcquire \/ TryAcquireTimeout
  BY <1>9b DEF LoopExit, CheckInterruption, TryAcquire, TryAcquireTimeout, guiVars,
     queueVars, threadVars, workerVars, timeVars
<1>9c. CASE EnterWait \/ WaitTimeout \/ Tick
  BY <1>9c DEF EnterWait, WaitTimeout, Tick, guiVars, queueVars, threadVars, workerVars,
     timeVars
<1>10. CASE UNCHANGED vars
  BY <1>10 DEF vars, guiVars, queueVars, threadVars, workerVars, timeVars
<1> QED
  BY <1>1, <1>2, <1>3, <1>4, <1>5, <1>6, <1>7, <1>8a, <1>8b, <1>9a, <1>9b, <1>9c, <1>10 DEF
     Next, StopStep, WorkerStep

\* Permit and message come and go in the order that keeps the count.
LEMMA PermitKept == IInv /\ [Next]_vars => PermitInv'
<1> SUFFICES ASSUME IInv, [Next]_vars PROVE PermitInv'
  OBVIOUS
<1> USE DEF IInv, TypeOK, ControlType, MessageType, ControlInv, PermitInv, One, Stopping
<1>1. CASE StartDispatcher
  BY <1>1 DEF StartDispatcher, guiVars, queueVars, threadVars, workerVars, timeVars
<1>2. CASE Enqueue
  BY <1>2 DEF Enqueue, guiVars, queueVars, threadVars, workerVars, timeVars
<1>3. CASE Release
  BY <1>3 DEF Release, guiVars, queueVars, threadVars, workerVars, timeVars
<1>4. CASE CancelAvailable
  BY <1>4 DEF CancelAvailable, guiVars, queueVars, threadVars, workerVars, timeVars
<1>5. CASE CancelAcquire
  BY <1>5 DEF CancelAcquire, guiVars, queueVars, threadVars, workerVars, timeVars
<1>6. CASE CancelClear
  BY <1>6 DEF CancelClear, guiVars, queueVars, threadVars, workerVars, timeVars
<1>7. CASE CancelWake
  BY <1>7 DEF CancelWake, guiVars, queueVars, threadVars, workerVars, timeVars
<1>8. CASE ThreadWait
  BY <1>8 DEF ThreadWait, guiVars, queueVars, threadVars, workerVars, timeVars
<1>9. CASE StopReturn
  BY <1>9 DEF StopReturn, guiVars, queueVars, threadVars, workerVars, timeVars
<1>10. CASE TryAcquire
  BY <1>10 DEF TryAcquire, guiVars, queueVars, threadVars, workerVars, timeVars
<1>11. CASE Dequeue
  BY <1>11 DEF Dequeue, guiVars, queueVars, threadVars, workerVars, timeVars
<1>12. CASE StopDispatcher \/ Deliver \/ CancelReset \/ ThreadQuit
  BY <1>12 DEF StopDispatcher, Deliver, CancelReset, ThreadQuit, guiVars, queueVars,
     threadVars, workerVars, timeVars
<1>13a. CASE LoopCall \/ LoopExit \/ CheckInterruption \/ TryAcquireTimeout
  BY <1>13a DEF LoopCall, LoopExit, CheckInterruption, TryAcquireTimeout, guiVars,
     queueVars, threadVars, workerVars, timeVars
<1>13b. CASE Decide \/ EnterWait \/ WaitTimeout \/ WaitWoken
  BY <1>13b DEF Decide, EnterWait, WaitTimeout, WaitWoken, guiVars, queueVars, threadVars,
     workerVars, timeVars
<1>13c. CASE Dispatch \/ Tick
  BY <1>13c DEF Dispatch, Tick, guiVars, queueVars, threadVars, workerVars, timeVars
<1>14. CASE UNCHANGED vars
  BY <1>14 DEF vars, guiVars, queueVars, threadVars, workerVars, timeVars
<1> QED
  BY <1>1, <1>2, <1>3, <1>4, <1>5, <1>6, <1>7, <1>8, <1>9, <1>10, <1>11, <1>12, <1>13a,
     <1>13b, <1>13c, <1>14 DEF Next, StopStep, WorkerStep

\* The second message of a stop never gets past the interruption check.
LEMMA LeakKept == IInv /\ [Next]_vars => LeakInv'
<1> SUFFICES ASSUME IInv, [Next]_vars PROVE LeakInv'
  OBVIOUS
<1> USE DEF IInv, TypeOK, ControlType, ControlInv, LeakInv, Stopping
<1>1. CASE StopDispatcher
  BY <1>1 DEF StopDispatcher, guiVars, queueVars, threadVars, workerVars, timeVars
<1>2. CASE CheckInterruption
  BY <1>2 DEF CheckInterruption, guiVars, queueVars, threadVars, workerVars, timeVars
<1>3. CASE Dispatch
  BY <1>3 DEF Dispatch, guiVars, queueVars, threadVars, workerVars, timeVars
<1>4a. CASE Release \/ Enqueue \/ Deliver \/ CancelAvailable
  BY <1>4a DEF Release, Enqueue, Deliver, CancelAvailable, guiVars, queueVars, threadVars,
     workerVars, timeVars
<1>4b. CASE CancelAcquire \/ CancelClear \/ CancelWake \/ CancelReset
  BY <1>4b DEF CancelAcquire, CancelClear, CancelWake, CancelReset, guiVars, queueVars,
     threadVars, workerVars, timeVars
<1>4c. CASE ThreadQuit \/ ThreadWait \/ StopReturn \/ StartDispatcher
  BY <1>4c DEF ThreadQuit, ThreadWait, StopReturn, StartDispatcher, guiVars, queueVars,
     threadVars, workerVars, timeVars
<1>5a. CASE LoopCall \/ LoopExit \/ TryAcquire \/ TryAcquireTimeout
  BY <1>5a DEF LoopCall, LoopExit, TryAcquire, TryAcquireTimeout, guiVars, queueVars,
     threadVars, workerVars, timeVars
<1>5b. CASE Dequeue \/ Decide \/ EnterWait \/ WaitTimeout
  BY <1>5b DEF Dequeue, Decide, EnterWait, WaitTimeout, guiVars, queueVars, threadVars,
     workerVars, timeVars
<1>5c. CASE WaitWoken \/ Tick
  BY <1>5c DEF WaitWoken, Tick, guiVars, queueVars, threadVars, workerVars, timeVars
<1>6. CASE UNCHANGED vars
  BY <1>6 DEF vars, guiVars, queueVars, threadVars, workerVars, timeVars
<1> QED
  BY <1>1, <1>2, <1>3, <1>4a, <1>4b, <1>4c, <1>5a, <1>5b, <1>5c, <1>6 DEF Next, StopStep,
     WorkerStep

\* The products with Hz that the pacing argument compares.
LEMMA Products ==
  /\ Quiet \in Nat /\ (Interval - 1) * Hz \in Nat /\ Quiet > (Interval - 1) * Hz
  /\ \A a \in 0..Interval : (Interval - a) * Hz \in 0..Quiet
  /\ \A a \in 1..Interval : (a - 1) * Hz \in Nat
  /\ \A a \in 1..Interval : (a - 1) * Hz + (Interval - a) * Hz = (Interval - 1) * Hz
  /\ \A a \in 1..(Interval - 1) : a * Hz = (a - 1) * Hz + Hz
<1> USE QueueAssumption DEF QueueAssumption, Quiet
<1>1. Quiet \in Nat /\ (Interval - 1) * Hz \in Nat /\ Quiet > (Interval - 1) * Hz
  OBVIOUS
<1>2. ASSUME NEW a \in 0..Interval PROVE (Interval - a) * Hz \in 0..Quiet
  <2>1. (Interval - a) * Hz = Interval * Hz - a * Hz
    OBVIOUS
  <2>2. a * Hz >= 0 /\ (Interval - a) * Hz >= 0
    OBVIOUS
  <2> QED
    BY <2>1, <2>2
<1>3. ASSUME NEW a \in 1..Interval
      PROVE  /\ (a - 1) * Hz \in Nat
             /\ (a - 1) * Hz + (Interval - a) * Hz = (Interval - 1) * Hz
  OBVIOUS
<1>4. ASSUME NEW a \in 1..(Interval - 1) PROVE a * Hz = (a - 1) * Hz + Hz
  OBVIOUS
<1> QED
  BY <1>1, <1>2, <1>3, <1>4

LEMMA TimeTypeKept == IInv /\ [Next]_vars => TimeType'
<1> SUFFICES ASSUME IInv, [Next]_vars PROVE TimeType'
  OBVIOUS
<1> USE QueueAssumption, Products DEF QueueAssumption, IInv, TypeOK, TimeType
<1>1. CASE CancelReset
  BY <1>1 DEF CancelReset
<1>2. CASE Decide
  BY <1>2 DEF Decide, MustWait
<1>3. CASE WaitWoken \/ Dispatch
  BY <1>3 DEF WaitWoken, Dispatch
<1>4. CASE Tick
  BY <1>4 DEF Tick, Saturate
<1>5. CASE UNCHANGED timeVars
  BY <1>5 DEF timeVars
<1> QED
  BY <1>1, <1>2, <1>3, <1>4, <1>5 DEF vars, Next, StopStep, WorkerStep,
     StartDispatcher, Enqueue, Release, Deliver, StopDispatcher, CancelAvailable,
     CancelAcquire, CancelClear, CancelWake, ThreadQuit, ThreadWait, StopReturn,
     LoopCall, LoopExit, CheckInterruption, TryAcquire, TryAcquireTimeout, Dequeue,
     EnterWait, WaitTimeout

\* The clock of whole seconds after a tick still runs less than a second ahead
\* of the time since the last emission.
LEMMA AgeArithmetic ==
  ASSUME NEW a \in 0..Interval, NEW p \in 0..(Hz - 1), NEW s \in 0..Quiet,
         NEW a1, NEW p1, NEW s1,
         s1 = Saturate(s + 1, Quiet), p1 = (p + 1) % Hz,
         a1 = IF p1 = 0 THEN Saturate(a + 1, Interval) ELSE a,
         a > 0 => s >= (a - 1) * Hz + p + 1 \/ s = Quiet
  PROVE  a1 > 0 => s1 >= (a1 - 1) * Hz + p1 + 1 \/ s1 = Quiet
<1> USE QueueAssumption DEF QueueAssumption
<1>1. Quiet \in Nat /\ Hz \in Nat /\ Interval \in Nat /\ p \in Nat /\ s \in Nat /\ s <=
   Quiet
  BY Products
<1> SUFFICES ASSUME a1 > 0, s1 # Quiet PROVE s1 >= (a1 - 1) * Hz + p1 + 1
  OBVIOUS
<1>2. s1 = s + 1 /\ s < Quiet
  BY <1>1 DEF Saturate
<1>3. IF p = Hz - 1 THEN p1 = 0 ELSE p1 = p + 1
  BY <1>1
<1>4. CASE a1 = a
  <2>1. PICK n \in Nat : n = (a - 1) * Hz
    BY <1>4, Products
  <2>2. s >= n + p + 1 /\ p1 <= p + 1
    BY <1>1, <1>2, <1>3, <1>4, <2>1
  <2> QED
    BY <1>1, <1>2, <1>3, <1>4, <2>1, <2>2
<1>5. CASE a1 = a + 1 /\ p = Hz - 1 /\ p1 = 0
  <2>1. CASE a = 0
    <3>1. (a1 - 1) * Hz = 0
      BY <1>5, <2>1
    <3> QED
      BY <1>1, <1>2, <1>5, <3>1
  <2>2. CASE a > 0
    <3>1. a1 <= Interval
      BY <1>5 DEF Saturate
    <3>2. PICK n \in Nat : n = (a - 1) * Hz /\ (a1 - 1) * Hz = n + Hz
      BY <1>5, <2>2, <3>1, Products
    <3>3. s >= n + p + 1
      BY <1>1, <1>2, <2>2, <3>2
    <3> QED
      BY <1>1, <1>2, <1>5, <3>2, <3>3
  <2> QED
    BY <2>1, <2>2
<1> QED
  BY <1>3, <1>4, <1>5 DEF Saturate

\* What a wait loses in a tick, the time since the last emission gains.
LEMMA WaitArithmetic ==
  ASSUME NEW s \in 0..Quiet, NEW r \in 0..Quiet, NEW s1, NEW r1,
         s1 = Saturate(s + 1, Quiet), r1 = r \/ (r > 0 /\ r1 = r - 1)
  PROVE  /\ s > (Interval - 1) * Hz => s1 > (Interval - 1) * Hz
         /\ s + r > (Interval - 1) * Hz => s1 + r1 > (Interval - 1) * Hz
<1>1. PICK least \in Nat : least = (Interval - 1) * Hz /\ Quiet > least
  BY Products
<1>2. Quiet \in Nat
  BY Products
<1>3. s1 = Quiet \/ s1 = s + 1
  BY <1>2 DEF Saturate
<1>4. /\ s > least => s1 > least
      /\ s + r > least => s1 + r1 > least
  BY <1>1, <1>2, <1>3
<1> QED
  BY <1>1, <1>4

LEMMA TickKeepsPace ==
  ASSUME IInv, Tick
  PROVE  /\ age = Interval => age' = Interval
         /\ age' > 0 => since' >= (age' - 1) * Hz + phase' + 1 \/ since' = Quiet
         /\ since > (Interval - 1) * Hz => since' > (Interval - 1) * Hz
         /\ worker \in {"enter", "waiting"} => since' + remain' > (Interval - 1) * Hz
<1>1. /\ age \in 0..Interval /\ phase \in 0..(Hz - 1)
      /\ remain \in 0..Quiet /\ since \in 0..Quiet
  BY DEF IInv, TypeOK, TimeType
<1>2. PICK s1, p1, a1, r1 :
        /\ s1 = since' /\ p1 = phase' /\ a1 = age' /\ r1 = remain'
        /\ s1 = Saturate(since + 1, Quiet) /\ p1 = (phase + 1) % Hz
        /\ a1 = IF p1 = 0 THEN Saturate(age + 1, Interval) ELSE age
        /\ r1 = remain \/ (remain > 0 /\ r1 = remain - 1)
  BY DEF Tick
<1>3. age > 0 => since >= (age - 1) * Hz + phase + 1 \/ since = Quiet
  BY DEF IInv, PaceInv
<1>4. a1 > 0 => s1 >= (a1 - 1) * Hz + p1 + 1 \/ s1 = Quiet
  BY <1>1, <1>2, <1>3, AgeArithmetic
<1>5. /\ since > (Interval - 1) * Hz => s1 > (Interval - 1) * Hz
      /\ since + remain > (Interval - 1) * Hz => s1 + r1 > (Interval - 1) * Hz
  BY <1>1, <1>2, WaitArithmetic
<1>6. worker \in {"enter", "waiting"} => since + remain > (Interval - 1) * Hz
  BY DEF IInv, PaceInv
<1>7. age = Interval => age' = Interval
  BY <1>1, <1>2, QueueAssumption DEF Saturate, QueueAssumption
<1> QED
  BY <1>2, <1>4, <1>5, <1>6, <1>7, Zenon

\* A wait begun makes up the difference, and so does a wait that ran out.
LEMMA PaceKept == IInv /\ [Next]_vars => PaceInv'
<1> SUFFICES ASSUME IInv, [Next]_vars PROVE PaceInv'
  OBVIOUS
<1> USE QueueAssumption, Products DEF QueueAssumption, IInv, TypeOK, TimeType, PaceInv
<1>1. CASE StopReturn
  BY <1>1 DEF StopReturn, FirstPrompt, workerVars, timeVars
<1>2. CASE CancelReset
  BY <1>2 DEF CancelReset, FirstPrompt, workerVars
<1>3. CASE Decide
  <2>1. CASE MustWait
    <3>1. age < Interval /\ remain' = (Interval - age) * Hz /\ since' = since
          /\ worker' = "enter" /\ age' = age /\ phase' = phase /\ gui' = gui
      BY <1>3, <2>1 DEF Decide, MustWait, guiVars
    <3>2. since' + remain' > (Interval - 1) * Hz
      BY <3>1
    <3> QED
      BY <3>1, <3>2
  <2>2. CASE ~MustWait
    <3>1. FirstPrompt \/ age = Interval
      BY <2>2 DEF MustWait
    <3>2. since' = since /\ worker' = "dispatch" /\ age' = age /\ phase' = phase
          /\ gui' = gui /\ held' = held /\ havePrompted' = havePrompted
      BY <1>3, <2>2 DEF Decide, guiVars
    <3>3. age = Interval => since > (Interval - 1) * Hz
      OBVIOUS
    <3> QED
      BY <3>1, <3>2, <3>3 DEF FirstPrompt
  <2> QED
    BY <2>1, <2>2
<1>4. CASE EnterWait \/ WaitTimeout
  BY <1>4 DEF EnterWait, WaitTimeout, FirstPrompt, guiVars, timeVars
<1>5. CASE Dispatch
  BY <1>5 DEF Dispatch, ControlInv, Stopping
<1>6. CASE Tick
  BY <1>6, TickKeepsPace DEF Tick, FirstPrompt, guiVars, workerVars
<1>7. CASE \/ LoopCall \/ LoopExit \/ CheckInterruption \/ TryAcquire
           \/ TryAcquireTimeout \/ Dequeue \/ WaitWoken
  BY <1>7 DEF LoopCall, LoopExit, CheckInterruption, TryAcquire, TryAcquireTimeout,
     Dequeue, WaitWoken, guiVars, timeVars
<1>8. CASE StartDispatcher \/ CancelWake
  BY <1>8 DEF StartDispatcher, CancelWake, FirstPrompt, guiVars, timeVars
<1>9. CASE UNCHANGED <<timeVars, workerVars>> /\ (gui' = "return" => gui = "return")
  BY <1>9 DEF timeVars, workerVars, FirstPrompt
<1>10. CASE \/ Enqueue \/ Release \/ Deliver \/ StopDispatcher \/ CancelAvailable
            \/ CancelAcquire \/ CancelClear \/ ThreadQuit \/ ThreadWait
            \/ UNCHANGED vars
  BY <1>9, <1>10 DEF Enqueue, Release, Deliver, StopDispatcher, CancelAvailable,
     CancelAcquire, CancelClear, ThreadQuit, ThreadWait, vars, guiVars
<1> QED
  BY <1>1, <1>2, <1>3, <1>4, <1>5, <1>6, <1>7, <1>8, <1>10 DEF Next, StopStep, WorkerStep

LEMMA NextInv == IInv /\ [Next]_vars => IInv'
  BY FlagTypeKept, ControlTypeKept, MessageTypeKept, TimeTypeKept, ControlKept,
     HeldKept, PermitKept, LeakKept, PaceKept DEF IInv, TypeOK

-----------------------------------------------------------------------------
(* The theorems *)

\* The inductive invariant of the two threads: labels, flags, permits, the
\* message in hand and the clocks agree with each other at every step.
THEOREM InductiveInvariant == Spec => []IInv
  BY InitInv, NextInv, PTL DEF Spec

\* Every variable keeps its type; in particular neither thread takes a permit
\* that is not there, and the worker never holds two messages.
THEOREM TypeCorrect == Spec => []TypeOK
<1>1. IInv => TypeOK
  BY DEF IInv
<1> QED
  BY <1>1, InductiveInvariant, PTL

\* However often the dispatcher is stopped and restarted, with messages in any
\* place, m_queueSem and m_queue agree again when the owner may append.
THEOREM PermitsCountMessages == Spec => []PermitPerMessage
<1>1. IInv => PermitPerMessage
  BY DEF IInv, TypeOK, ControlType, GuiAt, PermitInv, PermitPerMessage, Stopping
<1> QED
  BY <1>1, InductiveInvariant, PTL

\* The second cancelAndStop() of stopDispatcher() finishes what the first could
\* not: nothing is left for the next start.
THEOREM StopCleansUp == Spec => []CleanAfterStop
<1>1. IInv => CleanAfterStop
  BY DEF IInv, ControlInv, HeldInv, Holding, PermitInv, PaceInv, CleanAfterStop, Stopping
<1> QED
  BY <1>1, InductiveInvariant, PTL

\* A dispatcher asked to stop gets at most one more message out.
THEOREM AtMostOneLeak == Spec => []StopLeaksAtMostOne
<1>1. IInv => StopLeaksAtMostOne
  BY DEF IInv, LeakInv, StopLeaksAtMostOne
<1> QED
  BY <1>1, InductiveInvariant, PTL

\* For every interval and clock rate the messages are paced: reading the uptime
\* in whole seconds costs less than one second of the interval.
THEOREM Paced == Spec => Spacing
<1>1. IInv /\ [Next]_vars =>
        [posted' # posted /\ held # held' =>
           FirstPrompt \/ since > (Interval - 1) * Hz]_vars
  <2> SUFFICES ASSUME IInv, Next, posted' # posted, held # held'
               PROVE  FirstPrompt \/ since > (Interval - 1) * Hz
    OBVIOUS
  <2>1. worker = "dispatch"
    BY DEF Next, StopStep, WorkerStep, guiVars, queueVars, threadVars, workerVars,
       StartDispatcher, Enqueue, Release, Deliver, StopDispatcher, CancelAvailable,
       CancelAcquire, CancelClear, CancelWake, CancelReset, ThreadQuit, ThreadWait,
       StopReturn, LoopCall, LoopExit, CheckInterruption, TryAcquire,
       TryAcquireTimeout, Dequeue, Decide, EnterWait, WaitTimeout, WaitWoken,
       Dispatch, Tick
  <2> QED
    BY <2>1 DEF IInv, PaceInv
<1> QED
  BY <1>1, InductiveInvariant, PTL DEF Spec, Spacing

-----------------------------------------------------------------------------
(* AuthMsgQueue implements OrderedDelivery *)

\* A sequence of at most one message is empty or that message.
LEMMA AtMostOne ==
  ASSUME NEW s \in Seq(Message), Len(s) <= 1
  PROVE  s = <<>> \/ \E m \in Message : s = <<m>>
<1> SUFFICES ASSUME s # <<>> PROVE \E m \in Message : s = <<m>>
  OBVIOUS
<1>1. Len(s) \in Nat \ {0}
  BY EmptySeq
<1>2. Len(s) = 1
  <2>1. ASSUME NEW n \in Nat \ {0}, n <= 1 PROVE n = 1
    BY <2>1
  <2> QED
    BY <1>1, <2>1, Zenon
<1>3. Head(s) \in Message /\ Tail(s) \in Seq(Message) /\ Len(Tail(s)) = 0
  BY <1>2
<1>4. s = <<Head(s)>> \o Tail(s)
  OBVIOUS
<1>5. Tail(s) = <<>>
  BY <1>3, EmptySeq
<1>6. s = <<Head(s)>>
  BY <1>3, <1>4, <1>5
<1> QED
  BY <1>3, <1>6

\* What the worker holds, if anything, is one message.
LEMMA HeldIsOne == MessageType => held = <<>> \/ \E m \in Message : held = <<m>>
  BY AtMostOne DEF MessageType

\* How one message in front of a sequence behaves.
LEMMA OneInFront ==
  ASSUME NEW q \in Seq(Message), NEW m \in Message
  PROVE  /\ <<m>> \o q # <<>> /\ Head(<<m>> \o q) = m /\ Tail(<<m>> \o q) = q
         /\ Len(<<m>> \o q) = Len(q) + 1
         /\ SubSeq(<<m>> \o q, 1, 1) = <<m>>
<1>1. <<m>> \o q # <<>> /\ Head(<<m>> \o q) = m /\ Tail(<<m>> \o q) = q
  OBVIOUS
<1>2. <<m>> \in Seq(Message) /\ Len(<<m>>) = 1
  OBVIOUS
<1>3. Len(<<m>> \o q) = Len(q) + 1
  BY <1>2, ConcatProperties
<1>4. SubSeq(<<m>> \o q, 1, 1) = SubSeq(<<m>>, 1, 1)
  BY <1>2, SubSeqOfConcat1
<1>5. SubSeq(<<m>>, 1, 1) = <<m>>
  BY <1>2, SubSeqFull
<1> QED
  BY <1>1, <1>3, <1>4, <1>5

\* Appending behind what is held is appending to what is pending.
LEMMA AddStep == IInv /\ Enqueue => Promise!Add
<1> SUFFICES ASSUME IInv, Enqueue PROVE Promise!Add
  OBVIOUS
<1> USE DEF IInv, TypeOK, MessageType
<1>1. PICK k \in Kinds : queue' = Append(queue, [id |-> nextId, kind |-> k, epoch |->
   epoch])
  BY DEF Enqueue
<1>2. [id |-> nextId, kind |-> k, epoch |-> epoch] \in Message
  BY QueueAssumption DEF QueueAssumption, Enqueue, Message
<1>3. held' \o queue' = Append(held \o queue, [id |-> nextId, kind |-> k, epoch |-> epoch])
  BY <1>1, <1>2 DEF Enqueue, workerVars
<1>4. posted' = posted /\ ~Stopping /\ ~Stopping'
  BY DEF Enqueue, Stopping
<1> QED
  BY <1>2, <1>3, <1>4 DEF Promise!Add

\* The worker hands over what it holds, which is the oldest pending message.
LEMMA HandOverStep == IInv /\ Dispatch => Promise!HandOver
<1> SUFFICES ASSUME IInv, Dispatch PROVE Promise!HandOver
  OBVIOUS
<1>1. PICK m \in Message : held = <<m>>
  BY HeldIsOne DEF IInv, TypeOK, HeldInv, Holding, Dispatch
<1>2. queue \in Seq(Message) /\ posted \in Seq(Message)
  BY DEF IInv, TypeOK, MessageType
<1>3. /\ held \o queue # <<>> /\ Head(held \o queue) = m /\ Tail(held \o queue) = queue
  BY <1>1, <1>2, OneInFront
<1>4. /\ posted' = posted \o <<m>> /\ held' = <<>> /\ queue' = queue
      /\ (Stopping' <=> Stopping)
  BY <1>1 DEF Dispatch, queueVars, Stopping
<1>5. posted' = Append(posted, m) /\ held' \o queue' = queue
  BY <1>2, <1>4
<1> QED
  BY <1>3, <1>4, <1>5 DEF Promise!HandOver, Promise!HandOverOldest

\* A wake-up loses the message the worker holds when nothing else is pending.
LEMMA WokenStep == IInv /\ WaitWoken => Promise!Discard
<1> SUFFICES ASSUME IInv, WaitWoken PROVE Promise!Discard
  OBVIOUS
<1>1. PICK m \in Message : held = <<m>>
  BY HeldIsOne DEF IInv, TypeOK, HeldInv, Holding, WaitWoken
<1>2. queue = <<>> /\ Stopping
  BY DEF IInv, HeldInv, PermitInv, WaitWoken, Stopping
<1>3. held \o queue = <<m>> /\ Len(<<m>>) = 1
  BY <1>1, <1>2
<1>4. /\ held' = <<>> /\ queue' = <<>> /\ posted' = posted
      /\ (Stopping' <=> Stopping)
  BY <1>2 DEF WaitWoken, queueVars, guiVars, Stopping
<1>5. held' \o queue' = <<>> /\ SubSeq(<<m>>, 1, 0) = <<>>
  BY <1>4
<1> QED
  BY <1>2, <1>3, <1>4, <1>5 DEF Promise!Discard

\* Clearing m_queue discards everything but what the worker holds.
LEMMA ClearStep == IInv /\ CancelClear => Promise!Discard \/ UNCHANGED Promise!vars
<1> SUFFICES ASSUME IInv, CancelClear PROVE Promise!Discard \/ UNCHANGED Promise!vars
  OBVIOUS
<1>1. /\ queue' = <<>> /\ held' = held /\ posted' = posted
      /\ Stopping /\ Stopping'
  BY DEF CancelClear, workerVars, Stopping
<1>2. queue \in Seq(Message) /\ held \in Seq(Message)
  BY DEF IInv, TypeOK, MessageType
<1>3. CASE queue = <<>>
  BY <1>1, <1>3 DEF Promise!vars
<1>4. CASE queue # <<>> /\ held = <<>>
  <2>1. held \o queue = queue /\ Len(queue) > 0 /\ SubSeq(queue, 1, 0) = <<>>
    BY <1>2, <1>4, EmptySeq
  <2>2. held' \o queue' = <<>>
    BY <1>1, <1>4
  <2> QED
    BY <1>1, <2>1, <2>2 DEF Promise!Discard
<1>5. CASE queue # <<>> /\ held # <<>>
  <2>1. PICK m \in Message : held = <<m>>
    BY <1>5, HeldIsOne DEF IInv, TypeOK
  <2>2. Len(queue) > 0
    BY <1>2, <1>5, EmptySeq
  <2>3. Len(held \o queue) > 1 /\ SubSeq(held \o queue, 1, 1) = <<m>>
    BY <1>2, <2>1, <2>2, OneInFront
  <2>4. held' \o queue' = <<m>>
    BY <1>1, <2>1
  <2> QED
    BY <1>1, <2>3, <2>4 DEF Promise!Discard
<1> QED
  BY <1>3, <1>4, <1>5

\* Taking the head of m_queue into the hand leaves the pending messages as
\* they were.
LEMMA DequeueStep == IInv /\ Dequeue => UNCHANGED Promise!vars
<1> SUFFICES ASSUME IInv, Dequeue PROVE UNCHANGED Promise!vars
  OBVIOUS
<1>1. queue \in Seq(Message) /\ held = <<>>
  BY DEF IInv, TypeOK, MessageType, HeldInv, Holding, Dequeue
<1>2. posted' = posted /\ (Stopping' <=> Stopping)
  BY DEF Dequeue, guiVars, Stopping
<1>3. held' \o queue' = held \o queue
  <2>1. CASE queue = <<>>
    BY <2>1 DEF Dequeue
  <2>2. CASE queue # <<>>
    <3>1. held' = <<Head(queue)>> /\ queue' = Tail(queue)
      BY <2>2 DEF Dequeue
    <3>2. <<Head(queue)>> \o Tail(queue) = queue
      BY <1>1, <2>2
    <3>3. held \o queue = queue
      BY <1>1
    <3> QED
      BY <3>1, <3>2, <3>3
  <2> QED
    BY <2>1, <2>2
<1> QED
  BY <1>2, <1>3 DEF Promise!vars

\* Nothing is left when stopDispatcher() returns.
LEMMA EndStopStep == IInv /\ StopReturn => Promise!EndStop
<1> SUFFICES ASSUME IInv, StopReturn PROVE Promise!EndStop
  OBVIOUS
<1>1. held = <<>> /\ queue = <<>>
  BY DEF IInv, ControlInv, HeldInv, Holding, PermitInv, StopReturn, Stopping
<1>2. UNCHANGED <<held, queue, posted>> /\ Stopping /\ ~Stopping'
  BY DEF StopReturn, workerVars, queueVars, Stopping
<1>3. held \o queue = <<>>
  BY <1>1
<1> QED
  BY <1>2, <1>3 DEF Promise!EndStop

\* Every step of the two threads is a step of the promise or none at all.
LEMMA StepSimulation == IInv /\ [Next]_vars => [Promise!Next]_(Promise!vars)
<1> SUFFICES ASSUME IInv, [Next]_vars PROVE Promise!Next \/ UNCHANGED Promise!vars
  OBVIOUS
<1>1. CASE Enqueue
  BY <1>1, AddStep DEF Promise!Next
<1>2. CASE Dispatch
  BY <1>2, HandOverStep DEF Promise!Next
<1>3. CASE WaitWoken
  BY <1>3, WokenStep DEF Promise!Next
<1>4. CASE CancelClear
  BY <1>4, ClearStep DEF Promise!Next
<1>5. CASE Dequeue
  BY <1>5, DequeueStep
<1>6. CASE StopReturn
  BY <1>6, EndStopStep DEF Promise!Next
<1>7. CASE Deliver
  BY <1>7 DEF Deliver, guiVars, queueVars, workerVars, Stopping, Promise!Next,
     Promise!Deliver, Promise!DeliverOldest
<1>8. CASE StopDispatcher
  BY <1>8 DEF StopDispatcher, queueVars, workerVars, Stopping, Promise!Next,
     Promise!BeginStop
<1>9. CASE UNCHANGED <<held, queue, posted>> /\ (Stopping' <=> Stopping)
  BY <1>9 DEF Promise!vars
<1>10. CASE \/ StartDispatcher \/ Release \/ CancelAvailable \/ CancelAcquire
            \/ CancelWake \/ CancelReset \/ ThreadQuit \/ ThreadWait
  BY <1>9, <1>10 DEF StartDispatcher, Release, CancelAvailable, CancelAcquire,
     CancelWake, CancelReset, ThreadQuit, ThreadWait, guiVars, queueVars,
     workerVars, Stopping
<1>11. CASE \/ LoopCall \/ LoopExit \/ CheckInterruption \/ TryAcquire
            \/ TryAcquireTimeout \/ Decide \/ EnterWait \/ WaitTimeout \/ Tick
            \/ UNCHANGED vars
  BY <1>9, <1>11 DEF LoopCall, LoopExit, CheckInterruption, TryAcquire,
     TryAcquireTimeout, Decide, EnterWait, WaitTimeout, Tick, vars, guiVars,
     queueVars, workerVars, Stopping
<1> QED
  BY <1>1, <1>2, <1>3, <1>4, <1>5, <1>6, <1>7, <1>8, <1>10, <1>11
  DEF Next, StopStep, WorkerStep

\* The two-thread queue keeps the promise: in order, each message at most once,
\* nothing lost outside a stop, nothing left in the dispatcher after one.
THEOREM Implements == Spec => KeepsPromise
<1>1. Init => Promise!Init
  BY DEF Init, Promise!Init, Stopping
<1> QED
  BY <1>1, StepSimulation, InductiveInvariant, PTL DEF Spec, KeepsPromise, Promise!Spec
=============================================================================
