---------------------------- MODULE AutologinPage ----------------------------
(***************************************************************************)
(* The other page of greeter-setting-window.cpp: the user who is logged in *)
(* automatically, chosen from a combo box that dbusapi.cpp fills once from *)
(* the accounts service, and the delay, a text that is read as a number.   *)
(* Saving goes as in SettingsWindow.                                       *)
(***************************************************************************)
EXTENDS Naturals, FiniteSets

CONSTANTS User,         \* users of the accounts service, root among them
          Root, NoUser, \* NoUser: the empty name, nobody is logged in
          Timeout,      \* delays the service may keep, 64 bits wide
          MaxUInt,      \* the widest number QString::toUInt() reads
          NoDelay,      \* an empty edit
          MaxExternal   \* bound: changes by other programs

AutologinAssumption == /\ Root \in User /\ NoUser \notin User
                              /\ Timeout \subseteq Nat /\ 0 \in Timeout
                              /\ NoDelay \notin Nat
                              /\ MaxUInt \in Nat /\ MaxExternal \in Nat

\* struct AutoLoginSetting, and what the two widgets show. The edit may be empty.
Setting == [user : User \cup {NoUser}, timeout : Timeout]
Form    == [user : User \cup {NoUser}, delay : Timeout \cup {NoDelay}]

VARIABLES
  items,     \* texts of m_comboAutoLoginUser
  stored, orig, form,
  pc,        \* "idle", "asking", "user", "timeout", "reload"
  hasError, tip, external,
  touched,   \* history: widgets changed by hand since the last load
  loaded,    \* history: what was stored at the last load, until asked
  answered,  \* history: the properties answered each time they were read since
             \* then, until asked
  asked,     \* history: the user chose to overwrite
  clicked,   \* history: what was stored when Save was clicked
  disturbed  \* history: others have changed something during this save

formVars == <<items, orig, form, touched, loaded, answered>>
vars     == <<formVars, stored, pc, hasError, tip, external, asked, clicked, disturbed>>

-----------------------------------------------------------------------------
(* The combo box *)

\* Whether a call to the accounts service is answered within its 300 ms, and
\* by what is expected.
ListCachedUsers == BOOLEAN
FindUserByName  == BOOLEAN
GetProperty     == BOOLEAN

\* Name and icon of a user; those who lack one of them are left out.
Answering(users) == {{u \in users : name[u] /\ icon[u]} :
                       name \in [users -> GetProperty], icon \in [users -> GetProperty]}

\* getRootIconFileProperty()
RootIcon == {found /\ icon : found \in FindUserByName, icon \in GetProperty}

\* initUserComboBox(): without the list, or the icon of root, it stays empty;
\* otherwise root and the empty name are added to what the service listed.
Items == {IF listed /\ root THEN us \cup {Root, NoUser} ELSE {} :
            listed \in ListCachedUsers, root \in RootIcon, us \in Answering(User \ {Root})}

\* setCurrentText(): a text among the items is shown; an empty combo box shows
\* an empty text. FromBackend() has made sure there is no other.
ShownUser(v) == IF v.user \in items THEN v.user ELSE NoUser

-----------------------------------------------------------------------------
(* Loading *)

\* Mutant: a user the combo box does not have is believed in.
FromBackendAny(v) == v

\* getAutologinSettingInfoFromBackend(): a user the combo box does not have is
\* nobody.
FromBackend(v) == IF v.user \in items THEN v ELSE [v EXCEPT !.user = NoUser]

\* Each property is read by a call of its own; one that is not answered reads
\* as the default of its type.
NoAnswer == [user |-> NoUser, timeout |-> 0]

Member == {"user", "timeout"}

Reads(v, got) == FromBackend([m \in Member |-> IF m \in got THEN v[m] ELSE NoAnswer[m]])

\* resetAutoLoginSettings()
Load == \E got \in SUBSET Member :
          LET v == Reads(stored, got)
          IN  /\ orig' = v /\ form' = [user |-> ShownUser(v), delay |-> v.timeout]
              /\ touched' = {} /\ loaded' = stored /\ answered' = got

Init == /\ stored \in Setting /\ items \in Items
        /\ \E got \in SUBSET Member :
             LET v == Reads(stored, got)
             IN  /\ orig = v /\ form = [user |-> ShownUser(v), delay |-> v.timeout]
                 /\ loaded = stored /\ answered = got
        /\ touched = {} /\ pc = "idle" /\ hasError = FALSE /\ tip = "none" /\ external = 0
        /\ asked = FALSE /\ clicked = orig /\ disturbed = FALSE

-----------------------------------------------------------------------------
(* The user *)

UserSelected == /\ pc = "idle"
                /\ \E u \in items : form' = [form EXCEPT !.user = u]
                /\ touched' = touched \cup {"user"} /\ tip' = "none"
                /\ UNCHANGED <<items, orig, loaded, answered, stored, pc, hasError,
                               external, asked, clicked, disturbed>>

\* The validator lets in numbers up to INT_MAX, and no text at all.
DelayEdited ==
  /\ pc = "idle"
  /\ \E d \in {t \in Timeout : 2 * t <= MaxUInt} \cup {NoDelay} : form' = [form EXCEPT !.delay = d]
  /\ touched' = touched \cup {"timeout"} /\ tip' = "none"
  /\ UNCHANGED <<items, orig, loaded, answered, stored, pc, hasError, external, asked,
                 clicked, disturbed>>

ResetClicked == /\ pc = "idle" /\ Load /\ tip' = "none" /\ clicked' = orig'
                /\ UNCHANGED <<items, stored, pc, hasError, external, asked, disturbed>>

\* Mutant: operator== forgets the user.
SameTimeout(v, w) == v.timeout = w.timeout

\* AutoLoginSetting::operator==
Same(v, w) == v = w

SaveClicked ==
  /\ pc = "idle" /\ clicked' = stored /\ tip' = "none"
  /\ \E got \in SUBSET Member :
       /\ pc' = IF Same(Reads(stored, got), orig) THEN "user" ELSE "asking"
       /\ answered' = (answered \cap got)
  /\ UNCHANGED <<items, orig, form, touched, loaded, stored, hasError, external, asked,
                 disturbed>>

Overwrite == /\ pc = "asking" /\ pc' = "user" /\ asked' = TRUE
             /\ clicked' = orig /\ loaded' = orig /\ answered' = {} /\ tip' = "none"
             /\ UNCHANGED <<items, orig, form, touched, stored, hasError, external, disturbed>>

Over == /\ pc' = "idle" /\ Load /\ tip' = "none"
        /\ hasError' = FALSE /\ asked' = FALSE /\ clicked' = orig' /\ disturbed' = FALSE

Discard == pc = "asking" /\ Over /\ UNCHANGED <<items, stored, external>>

-----------------------------------------------------------------------------
(* Writing *)

\* Mutant: toInt() for toUInt().
ToInt(d) == IF d = NoDelay \/ 2 * d > MaxUInt THEN 0 ELSE d

\* QString::toUInt(): no number, or one that is too wide, is 0.
ToUInt(d) == IF d = NoDelay \/ d > MaxUInt THEN 0 ELSE d

Written(v, k) == IF k = "user" THEN [v EXCEPT !.user = form.user]
                 ELSE [v EXCEPT !.timeout = ToUInt(form.delay)]

\* Mutant: a user who could not be set does not end the save.
AfterWriteGoesOn(k, failed) == IF k = "user" THEN "timeout" ELSE "reload"

AfterWrite(k, failed) == IF k = "user" /\ ~failed THEN "timeout" ELSE "reload"

\* Mutant: an error is only logged.
NoteErrorNot(failed) == hasError' = hasError

NoteError(failed) == hasError' = (hasError \/ failed)

Write(k) ==
  /\ pc = k
  /\ \E failed \in BOOLEAN :
       /\ stored' \in IF failed THEN {stored, Written(stored, k)} ELSE {Written(stored, k)}
       /\ NoteError(failed)
       /\ pc' = AfterWrite(k, failed)
       /\ tip' = IF pc' # "reload" THEN "none" ELSE IF hasError' THEN "failed" ELSE "saved"
  /\ UNCHANGED <<formVars, external, asked, clicked, disturbed>>

Reload == pc = "reload" /\ Over /\ UNCHANGED <<items, stored, external>>

OtherProgram == /\ external < MaxExternal /\ external' = external + 1
                /\ stored' \in Setting \ {stored}
                /\ disturbed' = (pc # "idle")
                /\ UNCHANGED <<formVars, pc, hasError, tip, asked, clicked>>

Next == \/ UserSelected \/ DelayEdited \/ ResetClicked \/ SaveClicked \/ Overwrite \/ Discard
        \/ (\E k \in {"user", "timeout"} : Write(k)) \/ Reload \/ OtherProgram

Spec == Init /\ [][Next]_vars

-----------------------------------------------------------------------------
(* Properties *)

\* Types; the user shown, and believed to be stored, is one of the items.
TypeOK == /\ stored \in Setting /\ orig \in Setting
          /\ loaded \in Setting /\ clicked \in Setting /\ form \in Form
          /\ items \in Items /\ {form.user, orig.user} \subseteq items \cup {NoUser}
          /\ touched \subseteq {"user", "timeout"}
          /\ pc \in {"idle", "asking", "user", "timeout", "reload"}
          /\ tip \in {"none", "saved", "failed"}
          /\ {hasError, asked, disturbed} \subseteq BOOLEAN /\ answered \subseteq Member
          /\ external \in 0..MaxExternal

\* Changing the delay does not change who is logged in automatically, unless
\* the combo box never had that user (then a save makes it nobody, unasked).
UserIsKept ==
  (pc = "reload" /\ ~asked /\ ~disturbed /\ "user" \in answered
   /\ "user" \notin touched /\ clicked.user \in items) => stored.user = clicked.user

\* Choosing a user does not change the delay, unless it is so long that the
\* text of the edit is not read as a number (then a save makes it 0, unasked).
DelayIsKept ==
  (pc = "reload" /\ ~asked /\ ~disturbed /\ "timeout" \in answered
   /\ "timeout" \notin touched /\ clicked.timeout <= MaxUInt)
    => stored.timeout = clicked.timeout

\* The tip that all is saved is true, although each call may fail by itself.
SavedMeansStored ==
  pc = "reload" /\ tip = "saved" /\ ~disturbed
    => stored = [user |-> form.user, timeout |-> ToUInt(form.delay)]

\* Nobody is logged in automatically after a delay that was meant for another:
\* while the user cannot be set, the delay stays as well.
NoDelayWithoutUser ==
  (pc = "reload" /\ ~disturbed /\ stored.timeout # clicked.timeout /\ ~asked)
    => stored.user = form.user

\* The comment in saveAutoLoginSettings(), as on the other page: what a save
\* changes without a question is still as it was when the form was loaded, unless
\* the change came during the save, the setting was not answered when it was
\* read, or the change is between nobody and a user the combo box does not have.
OverwritesSeen ==
  (stored' # stored /\ external' = external /\ ~asked /\ ~disturbed)
    => \A m \in answered : stored'[m] # stored[m] =>
         FromBackend(stored)[m] = FromBackend(loaded)[m]

OverwritesOnlySeen == [][OverwritesSeen]_vars
=============================================================================
