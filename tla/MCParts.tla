------------------------------ MODULE MCParts ------------------------------
(***************************************************************************)
(* The parts around the login, each by itself on a small instance: the     *)
(* user list, hotplugging, the caps lock observer, the fades of the screen *)
(* saver, the prompt edit, the menus, the tips and the framing of events.    *)
(* They share no state (the list is composed with its window in            *)
(* LoginWindow), so a behaviour is one of the part it starts with; the     *)
(* others rest where they begin.                                           *)
(***************************************************************************)
EXTENDS Integers, SequencesExt

CONSTANTS User, NoUser,
          Screen, NoScreen, Size, MaxBackgrounds, MaxPlugs,
          MaxPresses, MaxWindows,
          Full, MaxCalls,
          Text, Empty, MaxConfirms,
          Session, NoSession, Origins,
          TimerId, NoTimer, Timeouts, Longest,
          Sizes, PipeBuf, Capacity, MaxEvents

VARIABLES part,
  users, list, focus,
  screens, primary, size, background, bgSize, dying, parent, windowSize, mouse,
  plugged, lit, notices, connected, timer, plugs,
  lock, presses, recording, pending, main, thread, isRunning, held, capsLockIsOn,
  ui, label, argument, windows, missed, raced,
  fadeVisible, animationEnabled, delayTimer, anim, time, opacity, calls, cut,
  visible, enabled, editEnabled, focused, echo, text, style, spacing,
  animationTimer, icon, sent,
  window, origin, sessions, powerButton, powerItems, open, mSession, checked,
  place, acted,
  tipVisible, type, timeout, hideTimer, left, age, wait, gone,
  sizes, out, pipe, reader, length, received, failed, writer

listVars  == <<users, list, focus>>
plugVars  == <<screens, primary, size, background, bgSize, dying, parent, windowSize,
               mouse, plugged, lit, notices, connected, timer, plugs>>
capsVars  == <<lock, presses, recording, pending, main, thread, isRunning, held,
               capsLockIsOn, ui, label, argument, windows, missed, raced>>
fadeVars  == <<fadeVisible, animationEnabled, delayTimer, anim, time, opacity, calls, cut>>
editVars  == <<visible, enabled, editEnabled, focused, echo, text, style, spacing,
               animationTimer, icon, sent>>
menuVars  == <<window, origin, sessions, powerButton, powerItems, open, mSession,
               checked, place, acted>>
tipVars   == <<tipVisible, type, timeout, hideTimer, left, age, wait, gone>>
pipeVars  == <<sizes, out, pipe, reader, length, received, failed, writer>>
partVars  == <<part, listVars, plugVars, capsVars, fadeVars, editVars, menuVars, tipVars,
               pipeVars>>

Users  == INSTANCE UserList
Plugs  == INSTANCE Hotplug
Caps   == INSTANCE CapsLock
Fades  == INSTANCE Fade
Edit   == INSTANCE PromptEdit
Menu   == INSTANCE Menus
Tips   == INSTANCE HoverTips
Frames == INSTANCE Framing

ASSUME PartsAssumption == /\ NoUser \notin User
                          /\ Plugs!ScreensAssumption /\ Plugs!HotplugAssumption
                          /\ Caps!CapsLockAssumption /\ Fades!FadeAssumption
                          /\ Edit!PromptEditAssumption /\ Menu!MenusAssumption
                          /\ Tips!HoverTipsAssumption /\ Frames!FramingAssumption

Part == {"users", "plugs", "caps", "fades", "edit", "menus", "tips", "frames"}

\* A part that does not run has one of its initial states.
Init ==
  /\ part \in Part
  /\ Users!ListInit /\ (part # "users" => users = <<>>)
  /\ Plugs!HotplugInit /\ (part # "plugs" => screens = {})
  /\ Caps!Init /\ (part # "caps" => ~lock)
  /\ Fades!Init
  /\ Edit!Init
  /\ Menu!Init /\ (part # "menus" => window = "saver" /\ origin = 0 /\ powerButton)
  /\ Tips!Init /\ (part # "tips" => type = "info" /\ timeout = Longest)
  /\ Frames!FramingInit

Only(p) == part = p /\ UNCHANGED part

UsersStep == /\ Only("users") /\ Users!ListNext
             /\ UNCHANGED <<plugVars, capsVars, fadeVars, editVars, menuVars, tipVars, pipeVars>>
PlugsStep == /\ Only("plugs") /\ Plugs!HotplugNext
             /\ UNCHANGED <<listVars, capsVars, fadeVars, editVars, menuVars, tipVars, pipeVars>>
CapsStep  == /\ Only("caps") /\ Caps!Next
             /\ UNCHANGED <<listVars, plugVars, fadeVars, editVars, menuVars, tipVars, pipeVars>>
FadesStep == /\ Only("fades") /\ Fades!Next
             /\ UNCHANGED <<listVars, plugVars, capsVars, editVars, menuVars, tipVars, pipeVars>>
EditStep  == /\ Only("edit") /\ Edit!Next
             /\ UNCHANGED <<listVars, plugVars, capsVars, fadeVars, menuVars, tipVars, pipeVars>>
MenuStep  == /\ Only("menus") /\ Menu!Next
             /\ UNCHANGED <<listVars, plugVars, capsVars, fadeVars, editVars, tipVars, pipeVars>>
TipsStep  == /\ Only("tips") /\ Tips!Next
             /\ UNCHANGED <<listVars, plugVars, capsVars, fadeVars, editVars, menuVars,
                            pipeVars>>

FrameStep == /\ Only("frames") /\ Frames!FramingNext
             /\ UNCHANGED <<listVars, plugVars, capsVars, fadeVars, editVars, menuVars, tipVars>>

Next == \/ UsersStep \/ PlugsStep \/ CapsStep \/ FadesStep
        \/ EditStep \/ MenuStep \/ TipsStep \/ FrameStep

\* Each part is as fair as its own specification says.
Fairness == /\ Plugs!HotplugFairness /\ Caps!Fairness /\ Fades!Fairness
            /\ Tips!Fairness /\ Frames!FramingFairness

Spec == Init /\ [][Next]_partVars /\ Fairness

-----------------------------------------------------------------------------
(* What each part promises *)

\* The user list follows the users who come and go: its rows are the model's,
\* whoever has a choice sees it, a list that is on has a selection, one that is
\* off activates nobody, and nobody who stays loses the selection to another.
ListFollowsUsers ==
  /\ [](/\ Users!ListTypeOK /\ Users!MirrorsModel
        /\ Users!SomebodySelected /\ Users!ChoiceIsShown)
  /\ Users!OffIsSilent
  /\ Users!SelectionStays

\* Cables may be pulled and plugged at any moment: at rest no output that is
\* plugged in is dark. All the while the login window is on no background that
\* is to be deleted, has the size of the screen it is on, and is on one whenever
\* there is a screen and none of those present was ignored by init().
PluggedIsShown ==
  /\ Plugs!HotplugTypeOK /\ Plugs!NothingDark
  /\ Plugs!OnLiveBackground /\ Plugs!ShownUnlessIgnored /\ Plugs!WindowFits

\* The copy of Caps Lock is off only by what is on its way or was missed at the
\* start, the label shows the copy, and the recording thread never loses what it
\* uses.
LabelFollowsLock ==
  /\ Caps!TypeOK /\ Caps!MirrorTracks
  /\ Caps!LabelIsCopy /\ Caps!ThreadHasItsWindow

\* What timers show and hide: a dialog at rest is seen if and only if the last
\* fade was a fade in, a fade goes the right way, and a tip that goes by itself
\* was seen for its time.
ShownAsMeant ==
  /\ Fades!TypeOK /\ Fades!Settled /\ Fades!RightWay
  /\ Tips!TypeOK /\ Tips!TipHasItsTime

\* The edit is locked from a confirmation until it is reset, the text sent is
\* the one that was asked for, not empty where it is shown, and dots have their
\* font.
OneAnswerPerPrompt ==
  /\ Edit!TypeOK /\ Edit!BusyUntilReset /\ Edit!SentIsText
  /\ Edit!StyleFits /\ Edit!NoEmptyName

\* The session shown as checked is the one that will be started; a press outside
\* the open menus closes them and does nothing else, one inside acts.
PressesMeetMenus ==
  /\ [](Menu!TypeOK /\ Menu!SessionIsChecked)
  /\ Menu!OutsideOnlyCloses
  /\ Menu!InsideActs

\* Events that are short enough arrive whole, in order and once, until the pipe
\* ends; longer ones may be lost, but not doubled.
EventsArriveWhole ==
  /\ Frames!FramingTypeOK /\ Frames!FirstSentFirst
  /\ Frames!NothingTwice /\ Frames!FailsOnlyOnLong

\* What was begun ends: an output that stays plugged in is shown and the login
\* window comes back with the first screen, stopping the recording thread ends,
\* and so does a fade; no tip stays for ever, and the GUI thread does not wait
\* for ever between a length and its text.
PartsGoOn ==
  /\ Plugs!PluggedShows /\ Plugs!WindowReturns
  /\ Caps!StopEnds /\ Fades!FadeEnds /\ Tips!TipGoes /\ Frames!TextFollows
=============================================================================
