-------------------------------- MODULE Menus --------------------------------
(***************************************************************************)
(* The menus of the login window (session and power) and of the screen     *)
(* saver's dialog (power). A menu is a child widget here, no window, so the*)
(* windows themselves hide it, with a filter that sees every press of the  *)
(* mouse in the application first. Sources: greeter-login-window.cpp,      *)
(* greeter-menu-item.cpp, screensaver-dialog.cpp.                          *)
(***************************************************************************)
EXTENDS Integers, FiniteSets

CONSTANTS Session, NoSession,
          Origins     \* where the window may be on the desktop

MenusAssumption == NoSession \notin Session /\ Origins \subseteq Int /\ 0 \in Origins

\* A picture of a window: places in it, in window coordinates.
Menu == {"session", "power"}
AreaOf == [session |-> 10..11, power |-> 13..14]
ButtonOf == [session |-> 20, power |-> 22]
Place == AreaOf["session"] \cup AreaOf["power"] \cup {20, 22, 30}

VARIABLES
  window,     \* "greeter" or "saver"
  origin,     \* its position
  sessions,   \* sessions offered
  powerButton,\* the button of the power menu is shown
  powerItems, \* the power menu has entries
  open,       \* menus that are visible
  mSession,   \* m_session
  checked,    \* item whose check box is checked
  place,      \* history: where the last press was; 0 for a key
  acted       \* history: what became of it

vars == <<window, origin, sessions, powerButton, powerItems, open, mSession, checked, place, acted>>

Menus == IF window = "greeter" THEN Menu ELSE {"power"}

-----------------------------------------------------------------------------
(* Sessions *)

\* initMenu(): the first session that is not hidden is checked, which makes it
\* m_session, and no other is.
Default(ss) == IF ss = {} THEN {NoSession} ELSE ss

\* Mutant: the choice is shown but not kept.
CheckOnly(s) == checked' = s /\ mSession' = mSession

\* GreeterMenuItem::mousePressEvent(), sigChecked. The boxes are exclusive.
Check(s) == IF checked # s THEN checked' = s /\ mSession' = s
            ELSE UNCHANGED <<checked, mSession>>

Init == /\ window \in {"greeter", "saver"} /\ origin \in Origins
        /\ sessions \in IF window = "greeter" THEN SUBSET Session ELSE {{}}
        /\ powerButton \in BOOLEAN /\ powerItems = (window = "saver" /\ powerButton)
        /\ open = {} /\ place = 0 /\ acted = "nothing"
        /\ mSession \in Default(sessions) /\ checked = mSession

-----------------------------------------------------------------------------
(* The filter *)

\* Mutant: the login window does not map the point either.
PointUnmapped(p) == p + origin

\* The login window maps the point of the press into its own coordinates, the
\* saver's dialog takes it as it is on the desktop.
Point(p) == IF window = "greeter" THEN p ELSE p + origin

\* eventFilter(): menus the press is not in are hidden, and then the press goes
\* no further.
Missed(p) == {m \in open : Point(p) \notin AreaOf[m]}

\* Mutant: the press that hides a menu is delivered as well.
FilteredNot(p) == FALSE

Filtered(p) == Missed(p) # {}

-----------------------------------------------------------------------------
(* Widgets *)

\* The login window fills its power menu each time it is opened, with what the
\* preferences and LightDM both allow; that may be nothing.
Refilled(m, left) == powerItems' \in IF window = "greeter" /\ m = "power" /\ m \notin left
                                    THEN BOOLEAN ELSE {powerItems}

\* The slots of the two buttons
Toggle(m, left) == IF m \in left THEN open' = left \ {m} /\ acted' = "closed"
                   ELSE open' = left \cup {m} /\ acted' = "opened"

\* Mutant: a button without a menu behind it.
ShownAlways(m) == m \in Menus

\* The power button is hidden if the preferences allow no entry.
Shown(m) == m \in Menus /\ (m = "power" => powerButton)

SameWindow == UNCHANGED <<window, origin, sessions, powerButton>>

SameItems == UNCHANGED <<mSession, checked, powerItems>>

\* An item of the session menu: it is chosen, and the menu hides.
PressSession(left) ==
  /\ \E s \in sessions : Check(s)
  /\ open' = left \ {"session"} /\ acted' = "item" /\ UNCHANGED powerItems

PressPower(left) == /\ powerItems /\ open' = left \ {"power"} /\ acted' = "item"
                    /\ SameItems

PressButton(m, left) == Toggle(m, left) /\ Refilled(m, left) /\ UNCHANGED <<mSession, checked>>

PressNothing(left) == open' = left /\ acted' = "nothing" /\ SameItems

\* A menu without entries is a small empty box.
NoItems(m) == IF m = "session" THEN sessions = {} ELSE ~powerItems

\* What is under the mouse gets the press.
Delivered(p, left) ==
  \/ "session" \in left /\ p \in AreaOf["session"] /\ PressSession(left)
  \/ "power" \in left /\ p \in AreaOf["power"] /\ PressPower(left)
  \/ \E m \in Menus : Shown(m) /\ p = ButtonOf[m] /\ PressButton(m, left)
  \/ /\ \A m \in left : p \notin AreaOf[m]
     /\ \A m \in Menus : Shown(m) => p # ButtonOf[m]
     /\ PressNothing(left)
  \/ \E m \in left : p \in AreaOf[m] /\ NoItems(m) /\ PressNothing(left)

Swallowed(left) == open' = left /\ acted' = "closed" /\ SameItems

Press == \E p \in Place :
  LET left == open \ Missed(p)
  IN  /\ place' = p /\ SameWindow
      /\ IF Filtered(p) THEN Swallowed(left) ELSE Delivered(p, left)

\* A button with the focus is pressed with the space bar: no filter sees it.
KeyOnButton == \E m \in Menus :
  /\ Shown(m) /\ PressButton(m, open) /\ place' = 0 /\ SameWindow

Next == Press \/ KeyOnButton

Spec == Init /\ [][Next]_vars

-----------------------------------------------------------------------------
(* Properties *)

\* Types; a menu whose button is hidden is not opened.
TypeOK == /\ window \in {"greeter", "saver"} /\ origin \in Origins
          /\ sessions \subseteq Session /\ {powerButton, powerItems} \subseteq BOOLEAN
          /\ open \subseteq Menus /\ ("power" \in open => powerButton)
          /\ {mSession, checked} \subseteq sessions \cup {NoSession}
          /\ place \in Place \cup {0}
          /\ acted \in {"nothing", "item", "opened", "closed"}

\* The session that will be started is the one the menu shows as checked, from
\* the start and whatever is pressed; there is one if any is offered.
SessionIsChecked == mSession = checked /\ (mSession = NoSession) = (sessions = {})

\* Whether the filter looks at the right point.
Mapped == window = "greeter" \/ origin = 0

\* A press outside the open menus closes them and does nothing else, as the
\* comment of eventFilter() has it: it does not press a button below, and so
\* does not open again what it has closed.
OutsideOnlyCloses ==
  [][(Mapped /\ place' # 0 /\ open # {} /\ (\A m \in open : place' \notin AreaOf[m]))
       => open' = {} /\ acted' = "closed"]_vars

\* A press in the only menu that is open acts on its item.
InsideActs ==
  [][(Mapped /\ \E m \in open : open = {m} /\ place' \in AreaOf[m] /\ place' # 0
                                /\ ~NoItems(m))
       => acted' = "item" /\ open' = {}]_vars
=============================================================================
