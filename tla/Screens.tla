------------------------------- MODULE Screens -------------------------------
(***************************************************************************)
(* lightdm-greeter/src/greeter-screen-manager.cpp and greeter-background.cpp*)
(* There is one login window and a background for each screen. The window  *)
(* is the child of one of them: the primary screen's at first, the one the *)
(* mouse enters later, another when its screen is removed.                 *)
(***************************************************************************)
EXTENDS Naturals, FiniteSets

CONSTANTS Screen, NoScreen,
          Size,             \* sizes of a screen
          MaxBackgrounds    \* bound: backgrounds at a time, those to be
                            \* deleted among them

ScreensAssumption == /\ NoScreen \notin Screen /\ IsFiniteSet(Screen) /\ Size # {}
                            /\ MaxBackgrounds \in Nat

Bg   == 1..MaxBackgrounds   \* GreeterBackground objects
NoBg == 0                   \* not in m_BackgroundWidgetMap; the parent nullptr

VARIABLES
  screens,     \* qApp->screens()
  primary,     \* qApp->primaryScreen()
  size,        \* geometry of each screen
  background,  \* m_BackgroundWidgetMap
  bgSize,      \* of each background
  dying,       \* backgrounds hidden, whose deletion is posted
  parent,      \* of m_greeterWindow
  windowSize,
  mouse        \* background the mouse has entered last

screenVars == <<screens, primary, size>>
bgVars     == <<background, bgSize, dying>>
windowVars == <<parent, windowSize, mouse>>
vars       == <<screenVars, bgVars, windowVars>>

Live == {background[s] : s \in Screen} \ {NoBg}

BackgroundOf(s) == IF s = NoScreen THEN NoBg ELSE background[s]

-----------------------------------------------------------------------------
(* The window *)

\* Mutant: the window keeps its size.
SetOnBackgroundAsIs(b) == parent' = b /\ windowSize' = windowSize

\* setGreeterOnBackground(), once the backgrounds are what they will be
SetOnBackground(b) == parent' = b /\ windowSize' = bgSize'[b]

\* Both slots end like this: a window that is nowhere goes to the background of
\* the primary screen, if it has one.
ToPrimary(nowhere) ==
  LET b == IF primary' = NoScreen THEN NoBg ELSE background'[primary']
  IN  IF nowhere /\ b # NoBg THEN SetOnBackground(b)
      ELSE parent' = (IF nowhere THEN NoBg ELSE parent) /\ windowSize' = windowSize

\* newScreenBackgroundWidget(). A background has its screen's geometry from the
\* start.
NewBackground(s) ==
  LET unused == Bg \ (Live \cup dying)
      b == CHOOSE u \in unused : \A v \in unused : u <= v
  IN  /\ unused # {}
      /\ background' = [background EXCEPT ![s] = b]
      /\ bgSize' = [bgSize EXCEPT ![b] = size'[s]]

\* init(): screens without a physical size are ignored. The n-th of the others
\* has the n-th background.
Numbering(ss) == {f \in [ss -> 1..Cardinality(ss)] : \A s, t \in ss : f[s] = f[t] => s = t}

InitWith(ss, valid) ==
  /\ screens = ss /\ size \in [Screen -> Size]
  /\ primary \in IF ss = {} THEN {NoScreen} ELSE ss
  /\ \E f \in Numbering(valid) :
       background = [s \in Screen |-> IF s \in valid THEN f[s] ELSE NoBg]
  /\ dying = {}
  /\ \E z \in Size :
       /\ bgSize = [b \in Bg |-> IF b \in Live
                                 THEN size[CHOOSE s \in Screen : background[s] = b] ELSE z]
       /\ windowSize = IF BackgroundOf(primary) = NoBg THEN z ELSE bgSize[BackgroundOf(primary)]
  /\ parent = BackgroundOf(primary) /\ mouse = NoBg

Init == \E ss \in SUBSET Screen : \E valid \in SUBSET ss :
          Cardinality(valid) <= MaxBackgrounds /\ InitWith(ss, valid)

-----------------------------------------------------------------------------
(* Signals *)

\* Mutant: every new primary screen takes the window.
NowhereAfterAddAlways == parent = NoBg \/ primary' # primary

NowhereAfterAdd == parent = NoBg

\* slotScreenAdded(). The new screen may be the primary one.
ScreenAdded(s) ==
  /\ s \notin screens /\ screens' = screens \cup {s}
  /\ primary' \in IF primary = NoScreen THEN {s} ELSE {primary, s}
  /\ size' \in {[size EXCEPT ![s] = z] : z \in Size}
  /\ NewBackground(s) /\ ToPrimary(NowhereAfterAdd)
  /\ UNCHANGED <<dying, mouse>>

\* Mutant: the window stays with the background that is deleted.
NowhereAfterRemovalNot(b) == parent = NoBg

\* Mutant: only a removed background makes the window look for another.
NowhereAfterOwnRemoval(b) == parent = b /\ b # NoBg

NowhereAfterRemoval(b) == parent \in {NoBg, b}

\* Mutant: the entry of the removed screen is left in the map.
EraseNot(s) == background' = background

\* m_BackgroundWidgetMap.erase()
Erase(s) == background' = [background EXCEPT ![s] = NoBg]

\* slotScreenRemoved(). By then Qt has another primary screen.
ScreenRemoved(s) ==
  LET b == background[s]
  IN  /\ s \in screens /\ screens' = screens \ {s}
      /\ primary' \in IF screens' = {} THEN {NoScreen}
                      ELSE IF primary = s THEN screens' ELSE {primary}
      /\ Erase(s)
      /\ dying' = dying \cup ({b} \ {NoBg})
      /\ mouse' = (IF mouse = b THEN NoBg ELSE mouse) /\ UNCHANGED <<size, bgSize>>
      /\ ToPrimary(NowhereAfterRemoval(b))

\* primaryScreenChanged() is connected to nothing.
PrimaryChanged == /\ primary' \in screens \ {primary}
                  /\ UNCHANGED <<screens, size, bgVars, windowVars>>

\* Mutant: the window is not told of the background's new size.
ResizeEventAlone(b, z) == windowSize' = windowSize

\* resizeEvent(): the window is not in a layout.
ResizeEvent(b, z) == windowSize' = IF parent = b THEN z ELSE windowSize

\* slotScreenGeometryChanged()
GeometryChanged(s) ==
  \E z \in Size \ {size[s]} :
    /\ s \in screens /\ size' = [size EXCEPT ![s] = z]
    /\ IF background[s] = NoBg THEN UNCHANGED <<bgSize, windowSize>>
       ELSE /\ bgSize' = [bgSize EXCEPT ![background[s]] = z]
            /\ ResizeEvent(background[s], z)
    /\ UNCHANGED <<screens, primary, background, dying, parent, mouse>>

\* enterEvent(), mouseEnterInWindow(). A hidden background is not entered.
MouseEnter == \E b \in Live :
  /\ mouse # b /\ mouse' = b
  /\ bgSize' = bgSize
  /\ IF parent # b THEN SetOnBackground(b) ELSE UNCHANGED <<parent, windowSize>>
  /\ UNCHANGED <<screenVars, background, dying>>

\* The event loop deletes a background, and its children with it.
Deleted == \E b \in dying : /\ dying' = dying \ {b}
                            /\ UNCHANGED <<screenVars, background, bgSize, windowVars>>

OtherNext == PrimaryChanged \/ MouseEnter \/ Deleted

Next == \/ \E s \in Screen : ScreenAdded(s) \/ ScreenRemoved(s) \/ GeometryChanged(s)
        \/ OtherNext

Spec == Init /\ [][Next]_vars

-----------------------------------------------------------------------------
(* Properties *)

\* Types; no background is shared, and those to be deleted are out of the map.
TypeOK == /\ screens \subseteq Screen /\ primary \in screens \cup {NoScreen}
          /\ (primary = NoScreen) = (screens = {})
          /\ size \in [Screen -> Size] /\ bgSize \in [Bg -> Size] /\ windowSize \in Size
          /\ background \in [Screen -> Bg \cup {NoBg}]
          /\ \A s, t \in Screen : background[s] = background[t] => s = t \/ background[s] = NoBg
          /\ \A s \in Screen \ screens : background[s] = NoBg
          /\ dying \subseteq Bg \ Live
          /\ {parent, mouse} \subseteq Bg \cup {NoBg}

\* The login window is never a child of a background that is to be deleted: it
\* would be deleted as well, and m_greeterWindow would dangle.
OnLiveBackground == parent # NoBg => parent \in Live

\* There is a login window to be seen whenever there is a screen and init() has
\* ignored none of those that are there, whatever is plugged in and out. With an
\* ignored one among them the window may be nowhere although another has room:
\* only the primary screen is asked.
ShownUnlessIgnored ==
  screens # {} /\ (\A s \in screens : background[s] # NoBg) => parent # NoBg

\* The window fits the screen it is on, although only its parents are resized.
WindowFits == \A s \in screens : background[s] # NoBg =>
                /\ bgSize[background[s]] = size[s]
                /\ parent = background[s] => windowSize = size[s]

\* The window is taken from under the user's hands only if its screen goes.
StaysPut == [][(parent # NoBg /\ parent' # parent) => (parent \in dying' \/ mouse' # mouse)]_vars

\* Whatever was ignored: once a screen has come or gone, the window is to be
\* seen if the screen that is now the primary one has a background.
ShownAfterChange ==
  [][screens' # screens /\ BackgroundOf(primary)' # NoBg => parent' # NoBg]_vars
=============================================================================
