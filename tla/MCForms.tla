------------------------------ MODULE MCForms ------------------------------
(***************************************************************************)
(* The two pages of the settings window and the screens of the greeter on  *)
(* small instances. They share nothing, so there is nothing to learn from  *)
(* their interleavings: a behaviour is one of the part it starts with. The *)
(* pages have most of their variables' names in common.                    *)
(***************************************************************************)
EXTENDS Naturals, FiniteSets, TLC

CONSTANTS Image, NoImage, Default, MaxExternal, MaxUnanswered,
          User, Root, NoUser, Timeout, MaxUInt, NoDelay,
          Screen, NoScreen, Size, MaxBackgrounds

VARIABLES part,
  stored, orig, form, pc, hasError, tip, external, touched, loaded, answered,
  asked, clicked, disturbed, items,
  screens, primary, size, background, bgSize, dying, parent, windowSize, mouse

pageVars    == <<stored, orig, form, pc, hasError, tip, external, touched, loaded,
                 answered, asked, clicked, disturbed, items>>
desktopVars == <<screens, primary, size, background, bgSize, dying, parent, windowSize, mouse>>
vars        == <<part, pageVars, desktopVars>>

General   == INSTANCE SettingsWindow
Autologin == INSTANCE AutologinPage
Desktop   == INSTANCE Screens

ASSUME FormsAssumption == /\ General!SettingsAssumption
                          /\ Autologin!AutologinAssumption
                          /\ Desktop!ScreensAssumption

\* No page is open, there is no screen.
NoPage == /\ stored = {} /\ orig = {} /\ form = {} /\ pc = {} /\ hasError = {}
          /\ tip = {} /\ external = {} /\ touched = {} /\ loaded = {}
          /\ answered = {} /\ asked = {} /\ clicked = {} /\ disturbed = {}

NoDesktop == /\ screens = {} /\ primary = {} /\ size = {} /\ background = {}
             /\ bgSize = {} /\ dying = {} /\ windowSize = {}
             /\ parent = Desktop!NoBg /\ mouse = Desktop!NoBg

Init == \/ part = "general" /\ General!Init /\ items = {} /\ NoDesktop
        \/ part = "autologin" /\ Autologin!Init /\ NoDesktop
        \/ part = "desktop" /\ Desktop!Init /\ NoPage /\ items = {}

Only(p) == part = p /\ UNCHANGED part

Next == \/ Only("general")   /\ General!Next   /\ UNCHANGED <<items, desktopVars>>
        \/ Only("autologin") /\ Autologin!Next /\ UNCHANGED desktopVars
        \/ Only("desktop")   /\ Desktop!Next   /\ UNCHANGED pageVars

Spec == Init /\ [][Next]_vars

-----------------------------------------------------------------------------
(* What each part promises *)

\* The general page shows what was loaded until it is touched, its two switches
\* are both off only if they were loaded so, and saving it leaves alone what was
\* not touched.
UntouchedIsKept ==
  part = "general" => /\ General!TypeOK /\ General!ShowsWhatWasLoaded
                      /\ General!BothOffIsBackend /\ General!UntouchedIsKept

\* On both pages, whatever a save changes unasked is as it was when the form was
\* loaded: what another program has changed since is not overwritten, unless the
\* change comes during the save, was not answered when it was read at the load or
\* at the click, or cannot be told from what was loaded (an unknown scale mode, a
\* user the combo box does not have).
OverwritesOnlySeen == /\ [][part = "general"   => General!OverwritesSeen]_vars
                      /\ [][part = "autologin" => Autologin!OverwritesSeen]_vars

\* The tip that all is saved is true, on both pages.
SavedMeansStored == /\ part = "general"   => General!SavedMeansStored
                    /\ part = "autologin" => Autologin!SavedMeansStored

\* A new delay leaves the user who is logged in automatically, a new user leaves
\* the delay, and no delay is stored for a user it was not meant for.
AutologinIsKept ==
  part = "autologin" => /\ Autologin!TypeOK /\ Autologin!UserIsKept
                        /\ Autologin!DelayIsKept /\ Autologin!NoDelayWithoutUser

\* The login window is never deleted with a background, is on a screen whenever
\* there is one and none of those present was ignored, fits it, and stays there
\* unless its screen goes or the mouse calls it. If some were ignored, it is at
\* least on a screen after each change of the screens that leaves the primary
\* one with a background; it may be nowhere while only other screens have one.
WindowHasItsScreen ==
  /\ [](part = "desktop" => /\ Desktop!TypeOK /\ Desktop!OnLiveBackground
                            /\ Desktop!ShownUnlessIgnored /\ Desktop!WindowFits)
  /\ Desktop!ShownAfterChange /\ Desktop!StaysPut
=============================================================================
