------------------------------ MODULE CapsLock ------------------------------
(***************************************************************************)
(* lightdm-greeter/src/capslock-snoop.cpp: the login window shows whether  *)
(* Caps Lock is on. The state is read once; a thread of its own then       *)
(* records the key presses of the X server (external), toggles its copy at *)
(* each press of the key and calls back. The window starts the thread when *)
(* it is constructed and stops it when it is destroyed.                    *)
(***************************************************************************)
EXTENDS Naturals, FiniteSets

CONSTANTS MaxPresses,  \* bound: presses of Caps Lock
          MaxWindows   \* bound: windows constructed one after the other

CapsLockAssumption == MaxPresses \in Nat /\ MaxWindows \in Nat \ {0}

Display == {"ctrl", "data", "key"}
Handle  == Display \cup {"range", "context"}

VARIABLES
  lock,      \* Caps Lock of the X server
  presses,   \* so far
  recording, \* the server has enabled the context
  pending,   \* presses recorded and not yet handled by the thread
  main,      \* where the main thread is
  thread,    \* where the recording thread is
  isRunning,
  held,      \* displays, range and context, non-null
  capsLockIsOn,
  ui,        \* the window's widgets exist
  label,     \* what label_capsLock shows
  argument,  \* what each thread is about to show
  windows,   \* constructed so far
  missed,    \* history: presses since the state was read that nobody records
  raced      \* history: a toggle was shown between argument and callback of start()

mainVars   == <<main, isRunning, held, ui, windows>>
threadVars == <<thread, capsLockIsOn, pending>>
shownVars  == <<label, argument, raced>>
serverVars == <<lock, presses, recording>>
vars       == <<mainVars, threadVars, shownVars, serverVars, missed>>

\* initLockStatus() turns Caps Lock off, if the keyboard has a modifier of that
\* name to be found.
CapsLockMask == BOOLEAN
InitLockStatus(on) == {IF found THEN FALSE ELSE on : found \in CapsLockMask}

Init == /\ \E on \in BOOLEAN : lock \in InitLockStatus(on)
        /\ presses = 0 /\ recording = FALSE /\ pending = 0
        /\ main = "idle" /\ thread = "none" /\ isRunning = FALSE /\ held = {}
        /\ capsLockIsOn = FALSE /\ ui = FALSE /\ label = FALSE
        /\ argument = [main |-> FALSE, thread |-> FALSE]
        /\ windows = 0 /\ missed = 0 /\ raced = FALSE

-----------------------------------------------------------------------------
(* The main thread *)

\* The constructor of GreeterLoginWindow up to start(); the private structure
\* is all zero.
Construct == /\ main = "idle" /\ ~ui /\ windows < MaxWindows
             /\ windows' = windows + 1 /\ ui' = TRUE /\ label' = FALSE
             /\ main' = "open" /\ missed' = 0 /\ raced' = FALSE /\ capsLockIsOn' = FALSE
             /\ UNCHANGED <<thread, pending, isRunning, held, argument, serverVars>>

\* start(): three displays, the range and the context are had one by one.
Open == /\ main = "open" /\ held' = Handle /\ main' = "read"
        /\ UNCHANGED <<isRunning, ui, windows, threadVars, shownVars, serverVars, missed>>

\* Anything before the thread may fail. What there is is released and forgotten
\* (the third display only forgotten).
Fail == /\ main \in {"open", "read", "create"} /\ main' = "idle"
        /\ held' = {} /\ capsLockIsOn' = FALSE
        /\ UNCHANGED <<isRunning, ui, windows, thread, pending, shownVars, serverVars, missed>>

\* getCapsLockCurrentState()
ReadState == /\ main = "read" /\ main' = "create" /\ capsLockIsOn' = lock /\ missed' = 0
             /\ UNCHANGED <<isRunning, held, ui, windows, thread, pending, shownVars,
                            serverVars>>

CreateThread == /\ main = "create" /\ main' = "argument" /\ thread' = "created"
                /\ UNCHANGED <<isRunning, held, ui, windows, capsLockIsOn, pending,
                               shownVars, serverVars, missed>>

\* The callback of start() itself, in two steps: another thread may toggle.
TakeArgument == /\ main = "argument" /\ main' = "callback"
                /\ argument' = [argument EXCEPT !.main = capsLockIsOn]
                /\ UNCHANGED <<isRunning, held, ui, windows, threadVars, label, raced,
                               serverVars, missed>>

StartCallback == /\ main = "callback" /\ main' = "idle" /\ isRunning' = TRUE
                 /\ label' = argument.main /\ raced' = (argument.main # capsLockIsOn)
                 /\ UNCHANGED <<held, ui, windows, threadVars, argument, serverVars, missed>>

\* Mutant: the thread is not waited for.
StopsAtRelease == "release"

\* stop() waits for the thread before it closes the displays.
StopsAt == "join"

\* Mutant: the context is freed while it records.
DisableNot == recording' = recording

\* XRecordDisableContext()
Disable == recording' = FALSE

\* ~GreeterLoginWindow() calls stop() first, which does nothing if start() has
\* failed. A freed context cannot be enabled any more.
Destroy == /\ main = "idle" /\ ui
           /\ IF isRunning THEN /\ main' = StopsAt /\ Disable
                                /\ held' = held \ {"context"}
              ELSE main' = "delete" /\ UNCHANGED <<recording, held>>
           /\ UNCHANGED <<isRunning, ui, windows, threadVars, shownVars, lock, presses,
                          missed>>

Join == /\ main = "join" /\ thread = "ended" /\ main' = "release" /\ thread' = "none"
        /\ UNCHANGED <<isRunning, held, ui, windows, capsLockIsOn, pending, shownVars,
                       serverVars, missed>>

Release == /\ main = "release" /\ main' = "delete"
           /\ held' = {} /\ isRunning' = FALSE /\ capsLockIsOn' = FALSE
           /\ UNCHANGED <<ui, windows, thread, pending, shownVars, serverVars, missed>>

DeleteUi == /\ main = "delete" /\ main' = "idle" /\ ui' = FALSE
            /\ UNCHANGED <<isRunning, held, windows, threadVars, shownVars, serverVars,
                           missed>>

-----------------------------------------------------------------------------
(* The recording thread *)

\* XRecordEnableContext(): a context that has been freed cannot be enabled; one
\* that is disabled only later is recorded until then.
Enable == /\ thread = "created"
          /\ IF "context" \in held THEN thread' = "waiting" /\ recording' = TRUE
             ELSE thread' = "ended" /\ recording' = recording
          /\ UNCHANGED <<mainVars, capsLockIsOn, pending, shownVars, lock, presses, missed>>

\* Mutant: the state is read from the server, which may be ahead.
ToggleRead == capsLockIsOn' = lock

\* record_intercept_proc_callback()
ToggleState == capsLockIsOn' = ~capsLockIsOn

Intercept == /\ thread = "waiting" /\ pending > 0 /\ pending' = pending - 1
             /\ ToggleState /\ thread' = "callback"
             /\ argument' = [argument EXCEPT !.thread = capsLockIsOn']
             /\ UNCHANGED <<mainVars, label, raced, serverVars, missed>>

\* Mutant: the label is only ever turned on.
ShowOn(on) == label' = (label \/ on)

\* capsLockStatusChanged(), on this thread
Show(on) == label' = on

ThreadCallback == /\ thread = "callback" /\ thread' = "waiting" /\ Show(argument.thread)
                  /\ UNCHANGED <<mainVars, capsLockIsOn, pending, argument, raced, serverVars,
                                 missed>>

\* The data ends when the context is disabled, after what was recorded before.
End == /\ thread = "waiting" /\ ~recording /\ pending = 0 /\ thread' = "ended"
       /\ UNCHANGED <<mainVars, capsLockIsOn, pending, shownVars, serverVars, missed>>

-----------------------------------------------------------------------------
(* The keyboard *)

KeyPress == /\ presses < MaxPresses /\ presses' = presses + 1 /\ lock' = ~lock
            /\ IF recording THEN pending' = pending + 1 /\ missed' = missed
                            ELSE pending' = pending /\ missed' = missed + 1
            /\ UNCHANGED <<mainVars, thread, capsLockIsOn, shownVars, recording>>

MainStep   == \/ Construct \/ Open \/ Fail \/ ReadState \/ CreateThread \/ TakeArgument
              \/ StartCallback \/ Destroy \/ Join \/ Release \/ DeleteUi
ThreadStep == Enable \/ Intercept \/ ThreadCallback \/ End

Next == MainStep \/ ThreadStep \/ KeyPress

Spec == Init /\ [][Next]_vars

\* Both threads are scheduled; a join that can return does.
Fairness == WF_vars(ThreadStep) /\ WF_vars(Join)

FairSpec == Spec /\ Fairness

-----------------------------------------------------------------------------
(* Properties *)

Odd(n) == n % 2 = 1

\* Types; there is a thread while the observer runs or is about to.
TypeOK == /\ {lock, recording, isRunning, capsLockIsOn, ui, label, raced} \subseteq BOOLEAN
          /\ argument \in [main : BOOLEAN, thread : BOOLEAN]
          /\ presses \in 0..MaxPresses /\ pending \in 0..MaxPresses /\ missed \in 0..MaxPresses
          /\ windows \in 0..MaxWindows /\ held \subseteq Handle
          /\ main \in {"idle", "open", "read", "create", "argument", "callback", "join",
                       "release", "delete"}
          /\ (thread # "none") = (main \in {"argument", "callback", "join"}
                                    \/ (isRunning /\ main = "idle"))
          /\ thread \in {"none", "created", "waiting", "callback", "ended"}

\* The copy is as far from the truth as there are presses still on their way,
\* or missed between reading the state and recording.
MirrorTracks == recording => capsLockIsOn = (lock # Odd(pending + missed))

\* At rest the label shows the copy, unless start() showed what it had taken
\* before the thread toggled and called back.
LabelIsCopy == (isRunning /\ main = "idle" /\ thread = "waiting" /\ ~raced)
                 => label = capsLockIsOn

\* The thread has its displays as long as it lives, and calls back into a
\* window that still exists.
ThreadHasItsWindow == /\ thread # "none" => Display \subseteq held
                      /\ thread = "callback" => ui

\* Stopping the observer comes to an end, wherever the thread is.
StopEnds == main = "join" ~> main = "release"
=============================================================================
