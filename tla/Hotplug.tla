------------------------------- MODULE Hotplug -------------------------------
(***************************************************************************)
(* lightdm-greeter/src/app-native-event-filter.cpp together with Screens.  *)
(* The X server (external) lights an output only when it is told to. The   *)
(* greeter sees RandR's events before Qt does; when an output's connection *)
(* has changed it waits 300 ms and runs "xrandr --auto". Qt makes a screen *)
(* of an output that is connected and lit.                                 *)
(***************************************************************************)
EXTENDS Screens, Sequences

CONSTANT MaxPlugs   \* bound: times a cable is plugged in or out

HotplugAssumption == MaxPlugs \in Nat

VARIABLES
  plugged,    \* outputs with a screen at the other end
  lit,        \* outputs the server drives
  notices,    \* XCB_RANDR_NOTIFY_OUTPUT_CHANGE events on their way
  connected,  \* m_outputConnectedMap, FALSE for what is not in it
  timer,      \* m_reconfigureOutputTimer is active
  plugs       \* so far

filterVars  == <<connected, timer>>
serverVars  == <<plugged, lit, plugs>>
hotplugVars == <<vars, serverVars, notices, filterVars>>

Notice == [output : Screen, on : BOOLEAN, lit : BOOLEAN]

NoticeOf(s, on, ll) == [output |-> s, on |-> on, lit |-> s \in ll]

\* The server lights what is plugged in when it starts.
HotplugInit == /\ Init /\ plugged = screens /\ lit = screens
               /\ notices = <<>> /\ connected = [s \in Screen |-> FALSE]
               /\ timer = FALSE /\ plugs = 0

Plug(s) == /\ plugs < MaxPlugs /\ plugs' = plugs + 1
           /\ plugged' = IF s \in plugged THEN plugged \ {s} ELSE plugged \cup {s}
           /\ notices' = Append(notices, NoticeOf(s, s \in plugged', lit))
           /\ lit' = lit /\ UNCHANGED <<vars, filterVars>>

\* Mutant: the timer is started only for an output that is unplugged.
StartsTimerOff(n) == connected[n.output] /\ ~n.on

StartsTimer(n) == connected[n.output] # n.on

\* nativeEventFilter()
Filter(n) == /\ connected' = [connected EXCEPT ![n.output] = n.on]
             /\ timer' = (timer \/ StartsTimer(n))

\* Qt's xcb plugin, with the same event
QtHandles(n) == IF n.output \in screens
                THEN IF n.on /\ n.lit THEN UNCHANGED vars ELSE ScreenRemoved(n.output)
                ELSE IF n.on /\ n.lit THEN ScreenAdded(n.output) ELSE UNCHANGED vars

NoticeRead == /\ notices # <<>> /\ notices' = Tail(notices)
              /\ Filter(Head(notices)) /\ QtHandles(Head(notices))
              /\ UNCHANGED serverVars

\* The outputs xrandr has changed are told of in some order.
Orders(ss) == {q \in [1..Cardinality(ss) -> ss] : \A i, j \in DOMAIN q : q[i] = q[j] => i = j}

\* Mutant: "xrandr --auto" lights only outputs the filter has seen connected.
AutoKnown == {s \in Screen : connected[s]} \cap lit

\* "xrandr --auto": what is plugged in is lit, what is not is not.
Auto == plugged

\* reconfigureOutputs(): the event loop waits for the process.
Reconfigure ==
  /\ timer /\ timer' = FALSE /\ lit' = Auto
  /\ \E q \in Orders((lit \ lit') \cup (lit' \ lit)) :
       notices' = notices \o [i \in DOMAIN q |-> NoticeOf(q[i], q[i] \in plugged, lit')]
  /\ UNCHANGED <<vars, plugged, plugs, connected>>

MouseMoves == (MouseEnter \/ Deleted) /\ UNCHANGED <<serverVars, notices, filterVars>>

HotplugNext == (\E s \in Screen : Plug(s)) \/ NoticeRead \/ Reconfigure \/ MouseMoves

HotplugSpec == HotplugInit /\ [][HotplugNext]_hotplugVars

\* The event loop runs: events are read, timers fire, deletions happen.
HotplugFairness ==
  /\ WF_hotplugVars(NoticeRead) /\ WF_hotplugVars(Reconfigure)
  /\ WF_hotplugVars(Deleted /\ UNCHANGED <<serverVars, notices, filterVars>>)

HotplugFairSpec == HotplugSpec /\ HotplugFairness

-----------------------------------------------------------------------------
(* Properties *)

\* Types; Qt has a screen for each output that is lit, but for events unread.
HotplugTypeOK == /\ TypeOK /\ plugged \subseteq Screen /\ lit \subseteq Screen
                 /\ notices \in Seq(Notice) /\ connected \in [Screen -> BOOLEAN]
                 /\ timer \in BOOLEAN /\ plugs \in 0..MaxPlugs
                 /\ notices = <<>> => screens = plugged \cap lit

\* Nothing is plugged in and dark at rest: whatever order cables, events and
\* the delayed xrandr come in, a timer is due or an event is unread as long as
\* an output lacks its screen.
NothingDark == notices = <<>> /\ ~timer => plugged \subseteq screens

\* A screen that is plugged in becomes one of Qt's, and so gets a background.
PluggedShows == \A s \in Screen :
  s \in plugged ~> (s \notin plugged \/ s \in screens)

\* With all screens unplugged and one plugged in again, the login window comes
\* back.
WindowReturns == (screens = {} /\ plugged # {}) ~> (plugged = {} \/ parent # NoBg)
=============================================================================
