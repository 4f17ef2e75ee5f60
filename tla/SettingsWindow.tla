--------------------------- MODULE SettingsWindow ---------------------------
(***************************************************************************)
(* lightdm-greeter/kiran-cpanel-greeter/src/greeter-setting-window.cpp: the*)
(* page of general settings of the greeter. The form is loaded from a      *)
(* D-Bus service that other programs change as well; saving reads the      *)
(* service again, asks if somebody else has changed it, writes one setting *)
(* after the other and loads the form anew. The writes are blocking calls, *)
(* each a step; the reads of one load are one step. Any call may fail.     *)
(***************************************************************************)
EXTENDS Naturals, FiniteSets

CONSTANTS Image,        \* background pictures
          NoImage,      \* no background is set
          Default,      \* DEFAULT_BACKGROUND, or what it is a link to
          MaxExternal,  \* bound: changes by other programs
          MaxUnanswered \* bound: calls not answered when all is read

SettingsAssumption == /\ NoImage \notin Image /\ Default \in Image
                             /\ MaxExternal \in Nat /\ MaxUnanswered \in Nat

\* Scale modes of the combo box, and one the service may have beyond them.
Scale == {"auto", "manual"}

\* What the service keeps: struct GeneralSetting, the factor left out.
Setting == [image : Image \cup {NoImage}, hide : BOOLEAN, allow : BOOLEAN,
            scale : Scale \cup {"unknown"}]

\* What the widgets show.
Form == [image : Image, show : BOOLEAN, manual : BOOLEAN, scale : Scale]

Field == {"image", "show", "manual", "scale"}

VARIABLES
  stored,    \* the settings of the service
  orig,      \* m_origSettingInfo.appearanceInfo
  form,      \* the widgets
  pc,        \* where saveGeneralSettings() is: "idle", "asking", a field
             \* about to be written, "reload"
  hasError,  \* of that call
  tip,       \* what m_hoverTips was told to say by the last step
  external,  \* changes by others so far
  touched,   \* history: fields changed by hand since the form was loaded
  loaded,    \* history: what was stored when the form was loaded, until asked
  answered,  \* history: the settings that were answered then, and each time
             \* they were read since, until asked
  asked,     \* history: the user chose to overwrite
  clicked,   \* history: what was stored when Save was clicked, until asked
  disturbed  \* history: others have changed something during this save

formVars == <<orig, form, touched, loaded, answered>>
saveVars == <<pc, hasError, asked, clicked, disturbed>>
vars     == <<stored, external, tip, formVars, saveVars>>

-----------------------------------------------------------------------------
(* Loading the form *)

\* getGeneralSettingInfoFromBackend(): an unknown scale mode becomes "auto".
FromBackend(v) == IF v.scale \in Scale THEN v ELSE [v EXCEPT !.scale = "auto"]

\* Each property is read by a call of its own; one that is not answered reads
\* as the default of its type.
NoAnswer == [image |-> NoImage, hide |-> FALSE, allow |-> FALSE, scale |-> "auto"]

Members == {"image", "hide", "allow", "scale"}

Got == {got \in SUBSET Members : Cardinality(Members \ got) <= MaxUnanswered}

Reads(v, got) == FromBackend([m \in Members |-> IF m \in got THEN v[m] ELSE NoAnswer[m]])

Other(k) == IF k = "show" THEN "manual" ELSE "show"

\* Mutant: the switch that was turned off is turned on again.
ForcedOnSame(f, k) == [f EXCEPT ![k] = TRUE]

\* onLoginOptionsChanged(): with both switches off, the other is turned on.
ForcedOn(f, k) == [f EXCEPT ![Other(k)] = TRUE]

\* Mutant: both switches may be off.
SwitchedFreely(f, k, on) == [f EXCEPT ![k] = on]

\* setChecked(), or a click: toggled() is emitted if the switch changes.
Switched(f, k, on) ==
  LET g == [f EXCEPT ![k] = on]
  IN  IF f[k] # on /\ ~g.show /\ ~g.manual THEN ForcedOn(g, k) ELSE g

\* Mutant: an empty background is selected as it is.
ImageShownEmpty(v) == v.image

ImageShown(v) == IF v.image = NoImage THEN Default ELSE v.image

\* resetGeneralSettings() for the settings v
Loaded(f, v) ==
  LET switched == Switched(Switched(f, "show", ~v.hide), "manual", v.allow)
  IN  [switched EXCEPT !.image = ImageShown(v), !.scale = v.scale]

\* onLoginOptionsChanged() warns when it turns a switch on.
Warns(f, k, on) == f[k] /\ ~on /\ ~f[Other(k)]

LoadWarns(f, v) == \/ Warns(f, "show", ~v.hide)
                   \/ Warns(Switched(f, "show", ~v.hide), "manual", v.allow)

\* Mutant: m_origSettingInfo stays as it is.
LoadFormOnly == \E got \in Got :
                  /\ form' = Loaded(form, Reads(stored, got)) /\ orig' = orig
                  /\ touched' = {} /\ loaded' = stored /\ answered' = got

\* The form and m_origSettingInfo are what the service answers.
Load == \E got \in Got :
          LET v == Reads(stored, got)
          IN  /\ orig' = v /\ form' = Loaded(form, v)
              /\ touched' = {} /\ loaded' = stored /\ answered' = got

TipAfterLoad == tip' = IF LoadWarns(form, orig') THEN "warning" ELSE "none"

Init == /\ stored \in Setting
        /\ \E got \in Got :
             LET v == Reads(stored, got)
             IN  /\ orig = v /\ loaded = stored /\ answered = got
                 /\ form = Loaded([image |-> Default, show |-> FALSE, manual |-> FALSE,
                                   scale |-> "auto"], v)
        /\ pc = "idle" /\ hasError = FALSE /\ tip = "none" /\ external = 0
        /\ touched = {} /\ asked = FALSE /\ clicked = orig /\ disturbed = FALSE

-----------------------------------------------------------------------------
(* The user at the form, while nothing is being saved *)

ImageSelected == /\ pc = "idle"
                 /\ \E i \in Image : form' = [form EXCEPT !.image = i]
                 /\ touched' = touched \cup {"image"} /\ tip' = "none"
                 /\ UNCHANGED <<stored, external, orig, loaded, answered, saveVars>>

ScaleSelected == /\ pc = "idle"
                 /\ \E m \in Scale : form' = [form EXCEPT !.scale = m]
                 /\ touched' = touched \cup {"scale"} /\ tip' = "none"
                 /\ UNCHANGED <<stored, external, orig, loaded, answered, saveVars>>

\* A click that turns off the last switch that is on turns on the other.
SwitchClicked ==
  /\ pc = "idle"
  /\ \E k \in {"show", "manual"} :
       /\ form' = Switched(form, k, ~form[k])
       /\ tip' = IF Warns(form, k, ~form[k]) THEN "warning" ELSE "none"
  /\ touched' = touched \cup {f \in Field : form'[f] # form[f]}
  /\ UNCHANGED <<stored, external, orig, loaded, answered, saveVars>>

\* The button, or the page is opened again.
ResetClicked == /\ pc = "idle" /\ Load /\ TipAfterLoad
                /\ clicked' = orig'
                /\ UNCHANGED <<stored, external, pc, hasError, asked, disturbed>>

\* Mutant: operator== forgets the scale mode.
SameButScale(v, w) == [v EXCEPT !.scale = w.scale] = w

\* GeneralSetting::operator==
Same(v, w) == v = w

SaveClicked ==
  /\ pc = "idle"
  /\ \E got \in Got :
       /\ pc' = IF Same(Reads(stored, got), orig) THEN "image" ELSE "asking"
       /\ answered' = answered \cap got
  /\ clicked' = stored
  /\ tip' = "none"
  /\ UNCHANGED <<stored, external, orig, form, touched, loaded, hasError, asked, disturbed>>

\* The message box has an event loop of its own.
Overwrite == /\ pc = "asking" /\ pc' = "image" /\ asked' = TRUE /\ tip' = "none"
             /\ clicked' = orig /\ loaded' = orig /\ answered' = {}
             /\ UNCHANGED <<stored, external, orig, form, touched, hasError, disturbed>>

\* The save is over, and with it what is known of it.
Over == /\ pc' = "idle" /\ Load /\ TipAfterLoad
        /\ hasError' = FALSE /\ asked' = FALSE /\ clicked' = orig' /\ disturbed' = FALSE

Discard == pc = "asking" /\ Over /\ UNCHANGED <<stored, external>>

-----------------------------------------------------------------------------
(* Writing *)

Written(v, k) == CASE k = "image"  -> [v EXCEPT !.image = form.image]
                   [] k = "show"   -> [v EXCEPT !.hide = ~form.show]
                   [] k = "manual" -> [v EXCEPT !.allow = form.manual]
                   [] k = "scale"  -> [v EXCEPT !.scale = form.scale]

NextField(k) == CASE k = "image" -> "show" [] k = "show" -> "manual"
                  [] k = "manual" -> "scale" [] k = "scale" -> "reload"

\* Mutant: the result of the last call counts.
NoteErrorLast(failed) == hasError' = failed

\* An error of any call is remembered.
NoteError(failed) == hasError' = (hasError \/ failed)

Verdict(error) == IF error THEN "failed" ELSE "saved"

\* A call that fails may have been carried out, if only the reply is late. The
\* first one that fails ends the save.
Write(k) ==
  /\ pc = k
  /\ \E failed \in BOOLEAN :
       /\ stored' \in IF failed THEN {stored, Written(stored, k)} ELSE {Written(stored, k)}
       /\ NoteError(failed)
       /\ pc' = IF failed /\ k = "image" THEN "reload" ELSE NextField(k)
       /\ tip' = IF pc' = "reload" THEN Verdict(hasError') ELSE "none"
  /\ UNCHANGED <<external, formVars, asked, clicked, disturbed>>

Reload == pc = "reload" /\ Over /\ UNCHANGED <<stored, external>>

\* Another program changes a setting.
OtherProgram ==
  /\ external < MaxExternal /\ external' = external + 1
  /\ stored' \in {[stored EXCEPT ![m] = v[m]] : m \in Members, v \in Setting} \ {stored}
  /\ disturbed' = (pc # "idle")
  /\ UNCHANGED <<tip, formVars, pc, hasError, asked, clicked>>

Next == \/ ImageSelected \/ ScaleSelected \/ SwitchClicked \/ ResetClicked
        \/ SaveClicked \/ Overwrite \/ Discard
        \/ (\E k \in Field : Write(k)) \/ Reload \/ OtherProgram

Spec == Init /\ [][Next]_vars

-----------------------------------------------------------------------------
(* Properties *)

BothOff(v) == v.hide /\ ~v.allow

\* Settings the form can show as they are.
Plain(v) == v.image # NoImage /\ v.scale \in Scale /\ ~BothOff(v)

Shown(f) == [image |-> f.image, hide |-> ~f.show, allow |-> f.manual, scale |-> f.scale]

\* Types.
TypeOK == /\ stored \in Setting /\ orig \in Setting
          /\ loaded \in Setting /\ clicked \in Setting
          /\ form \in Form /\ touched \subseteq Field
          /\ pc \in Field \cup {"idle", "asking", "reload"}
          /\ tip \in {"none", "warning", "saved", "failed"}
          /\ {hasError, asked, disturbed} \subseteq BOOLEAN /\ answered \subseteq Members
          /\ external \in 0..MaxExternal

\* A form nobody has touched shows what was loaded, whatever it showed before:
\* the two switches, each of which may turn on the other, end as they should.
ShowsWhatWasLoaded == touched = {} /\ Plain(orig) => Shown(form) = orig

\* Both switches are off only if they were loaded so when the window opened.
BothOffIsBackend == ~form.show /\ ~form.manual => BothOff(orig)

\* A save that is not interfered with and asks nothing leaves alone what the
\* user has not touched.
UntouchedIsKept ==
  (pc = "reload" /\ ~asked /\ ~disturbed /\ Plain(clicked) /\ answered = Members)
    => /\ "image"  \notin touched => stored.image = clicked.image
       /\ "show"   \notin touched => stored.hide = clicked.hide
       /\ "manual" \notin touched => stored.allow = clicked.allow
       /\ "scale"  \notin touched => stored.scale = clicked.scale

\* The tip that all is saved is true, although every call may fail by itself.
SavedMeansStored ==
  pc = "reload" /\ tip = "saved" /\ ~disturbed => stored = Shown(form)

\* The comment in saveGeneralSettings(): if the service was changed other than
\* by this window, the user is asked before it is overwritten. A setting that a
\* save changes without a question is still as it was when the form was loaded,
\* whatever has happened since. There are three exceptions, in which a change is
\* overwritten unseen: it comes during the save; the setting was not answered at
\* the load or at the click, and so read as a default; it is between "auto" and
\* a scale mode that this page does not know and takes for "auto". (Only a step
\* of another program changes external.)
OverwritesSeen ==
  (stored' # stored /\ external' = external /\ ~asked /\ ~disturbed)
    => \A m \in answered : stored'[m] # stored[m] =>
         FromBackend(stored)[m] = FromBackend(loaded)[m]

OverwritesOnlySeen == [][OverwritesSeen]_vars
=============================================================================
