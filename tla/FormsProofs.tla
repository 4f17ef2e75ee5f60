----------------------------- MODULE FormsProofs -----------------------------
(***************************************************************************)
(* The two pages of the settings window, for all images, users and delays  *)
(* and whatever bounds: what they promise, proved from one inductive       *)
(* invariant for each. A page is the form, which is loaded and touched,    *)
(* and the save, which writes one field after the other; the invariants    *)
(* say, for each place a save may be at, which fields are written by now.  *)
(***************************************************************************)
EXTENDS MCForms, TLAPS

-----------------------------------------------------------------------------
(* The general page *)

\* A save is writing, or has written all it will.
Writing == pc \in General!Field \cup {"reload"}

\* What has not been touched is as it was loaded, if it can be shown at all.
FormShowsOrig ==
  General!Plain(orig) =>
    /\ "image"  \notin touched => form.image = orig.image
    /\ "show"   \notin touched => form.show = ~orig.hide
    /\ "manual" \notin touched => form.manual = orig.allow
    /\ "scale"  \notin touched => form.scale = orig.scale

\* Outside a save nothing is known of one.
NoSaveIdle == pc = "idle" => ~asked /\ ~disturbed /\ ~hasError

\* What the service answered is what the page believes to be stored.
OrigIsLoaded == \A m \in answered : orig[m] = General!FromBackend(loaded)[m]

\* A save that asks nothing has seen in the service what was loaded.
SeenIsLoaded ==
  Writing /\ ~asked /\ ~disturbed
    => \A m \in answered : General!FromBackend(clicked)[m] = orig[m]

\* Every setting is as it was found, or as the form shows it; those that are
\* still to be written are as they were found.
FoundOrWritten ==
  Writing /\ ~asked /\ ~disturbed =>
    /\ stored.image \in {clicked.image, form.image}
    /\ stored.hide \in {clicked.hide, ~form.show}
    /\ stored.allow \in {clicked.allow, form.manual}
    /\ stored.scale \in {clicked.scale, form.scale}
    /\ pc = "image" => stored.image = clicked.image
    /\ pc \in {"image", "show"} => stored.hide = clicked.hide
    /\ pc \in {"image", "show", "manual"} => stored.allow = clicked.allow
    /\ pc # "reload" => stored.scale = clicked.scale

\* Without an error all fields before the next one are written.
WrittenSoFar ==
  Writing /\ ~disturbed /\ ~hasError =>
    /\ pc # "image" => stored.image = form.image
    /\ pc \in {"manual", "scale", "reload"} => stored.hide = ~form.show
    /\ pc \in {"scale", "reload"} => stored.allow = form.manual
    /\ pc = "reload" => stored.scale = form.scale

SavedIsVerdict == tip = "saved" => pc = "reload" /\ ~hasError

GeneralInv == /\ General!TypeOK /\ General!BothOffIsBackend
              /\ FormShowsOrig /\ NoSaveIdle /\ OrigIsLoaded /\ SeenIsLoaded
              /\ FoundOrWritten /\ WrittenSoFar /\ SavedIsVerdict

-----------------------------------------------------------------------------
(* The page of the automatic login *)

\* The combo box is empty, or has the empty name.
ItemsFit == items \subseteq User \cup {NoUser} /\ (items = {} \/ NoUser \in items)

EditShowsOrig == /\ "user" \notin touched => form.user = Autologin!ShownUser(orig)
                 /\ "timeout" \notin touched => form.delay = orig.timeout

\* What the service answered is what the page believes to be stored.
AnswersAreOrig ==
  /\ "user" \in answered => Autologin!FromBackend(loaded).user = orig.user
  /\ "timeout" \in answered => loaded.timeout = orig.timeout

\* The answers of a save that asks nothing are what was loaded.
AnswersAreLoaded ==
  pc \in {"user", "timeout", "reload"} /\ ~asked /\ ~disturbed =>
    /\ "user" \in answered => Autologin!FromBackend(clicked).user = orig.user
    /\ "timeout" \in answered => clicked.timeout = orig.timeout

\* The user is as it was found until it is written, and so is the delay, which
\* is written only after a user who could be set.
UserThenDelay ==
  ~disturbed =>
    /\ ~asked /\ pc = "user" => stored = clicked
    /\ ~asked /\ pc = "timeout" => stored.timeout = clicked.timeout
    /\ pc = "timeout" => stored.user = form.user
    /\ ~asked /\ pc = "reload" =>
         /\ stored.user \in {clicked.user, form.user}
         /\ stored.timeout \in {clicked.timeout, Autologin!ToUInt(form.delay)}
         /\ stored.timeout # clicked.timeout => stored.user = form.user
    /\ pc = "reload" /\ ~hasError =>
         stored = [user |-> form.user, timeout |-> Autologin!ToUInt(form.delay)]

AutologinInv == /\ Autologin!TypeOK /\ ItemsFit /\ NoSaveIdle /\ EditShowsOrig
                /\ AnswersAreOrig /\ AnswersAreLoaded /\ UserThenDelay /\ SavedIsVerdict

FormsInv == /\ part = "general" => GeneralInv
            /\ part = "autologin" => AutologinInv

-----------------------------------------------------------------------------
(* The functions of the general page *)

\* Only the scale mode is changed on the way.
LEMMA FromBackendEffect ==
  ASSUME NEW v \in General!Setting
  PROVE  LET w == General!FromBackend(v)
         IN  /\ w \in General!Setting /\ w.scale \in General!Scale
             /\ w.image = v.image /\ w.hide = v.hide /\ w.allow = v.allow
             /\ w.scale = IF v.scale \in General!Scale THEN v.scale ELSE "auto"
BY DEF General!FromBackend, General!Setting, General!Scale

LEMMA ReadsGeneral ==
  ASSUME NEW v \in General!Setting, NEW got \in General!Got
  PROVE  LET r == General!Reads(v, got)
         IN  /\ r \in General!Setting /\ r.scale \in General!Scale
             /\ got \subseteq General!Members
             /\ \A m \in got : r[m] = General!FromBackend(v)[m]
<1> DEFINE a == [m \in General!Members |-> IF m \in got THEN v[m] ELSE General!NoAnswer[m]]
<1>1. /\ a \in General!Setting
      /\ "image" \in got => a.image = v.image
      /\ "hide"  \in got => a.hide = v.hide
      /\ "allow" \in got => a.allow = v.allow
      /\ "scale" \in got => a.scale = v.scale
  BY DEF General!Members, General!NoAnswer, General!Setting, General!Scale
<1> HIDE DEF a
<1>2. General!Reads(v, got) = General!FromBackend(a) /\ got \subseteq General!Members
  BY DEF General!Reads, General!Got, a
<1> QED BY <1>1, <1>2, FromBackendEffect DEF General!Members

\* Two switches that turn each other on: both are off afterwards only if they
\* were before, and the one that was switched did not change.
LEMMA SwitchedShow ==
  ASSUME NEW f \in General!Form, NEW on \in BOOLEAN
  PROVE  LET g == General!Switched(f, "show", on)
         IN  /\ g \in General!Form /\ g.image = f.image /\ g.scale = f.scale
             /\ g.show = on
             /\ g.manual = (f.manual \/ (f.show /\ ~on))
BY DEF General!Switched, General!ForcedOn, General!Other, General!Form

LEMMA SwitchedManual ==
  ASSUME NEW f \in General!Form, NEW on \in BOOLEAN
  PROVE  LET g == General!Switched(f, "manual", on)
         IN  /\ g \in General!Form /\ g.image = f.image /\ g.scale = f.scale
             /\ g.manual = on
             /\ g.show = (f.show \/ (f.manual /\ ~on))
BY DEF General!Switched, General!ForcedOn, General!Other, General!Form

\* Whatever it showed before, the form shows what is loaded, as far as it can.
LEMMA LoadedEffect ==
  ASSUME NEW f \in General!Form, NEW v \in General!Setting, v.scale \in General!Scale
  PROVE  LET g == General!Loaded(f, v)
         IN  /\ g \in General!Form
             /\ g.image = General!ImageShown(v) /\ g.scale = v.scale
             /\ ~General!BothOff(v) => g.show = ~v.hide /\ g.manual = v.allow
<1> DEFINE a == General!Switched(f, "show", ~v.hide)
           b == General!Switched(a, "manual", v.allow)
           g == General!Loaded(f, v)
<1>0. v.hide \in BOOLEAN /\ v.allow \in BOOLEAN /\ v.image \in Image \cup {NoImage}
  BY DEF General!Setting
<1>1. a \in General!Form /\ a.show = ~v.hide /\ a.manual = (f.manual \/ (f.show /\ v.hide))
  BY <1>0, SwitchedShow
<1> HIDE DEF a
<1>2. b \in General!Form /\ b.manual = v.allow /\ b.show = (a.show \/ (a.manual /\ ~v.allow))
  BY <1>0, <1>1, SwitchedManual
<1> HIDE DEF b
<1>3. General!ImageShown(v) \in Image
  BY <1>0, FormsAssumption DEF General!SettingsAssumption, General!ImageShown
<1>4. g = [b EXCEPT !.image = General!ImageShown(v), !.scale = v.scale]
  BY DEF General!Loaded, a, b
<1>5. /\ g \in General!Form /\ g.image = General!ImageShown(v) /\ g.scale = v.scale
      /\ g.show = b.show /\ g.manual = b.manual
  BY <1>2, <1>3, <1>4 DEF General!Form
<1>6. ~General!BothOff(v) => b.show = ~v.hide /\ b.manual = v.allow
  BY <1>0, <1>1, <1>2 DEF General!BothOff
<1> QED BY <1>5, <1>6

-----------------------------------------------------------------------------
(* The general page keeps its invariant *)

\* A load makes the form anew.
Fresh == /\ orig \in General!Setting /\ orig.scale \in General!Scale
         /\ form \in General!Form /\ answered \subseteq General!Members
         /\ loaded \in General!Setting /\ touched = {}
         /\ General!BothOffIsBackend /\ FormShowsOrig /\ OrigIsLoaded

LEMMA GeneralFresh ==
  ASSUME NEW f \in General!Form, NEW v \in General!Setting, NEW got \in General!Got,
         orig = General!Reads(v, got), form = General!Loaded(f, orig),
         answered = got, loaded = v, touched = {}
  PROVE  Fresh
<1>1. /\ orig \in General!Setting /\ orig.scale \in General!Scale
      /\ answered \subseteq General!Members
      /\ \A m \in answered : orig[m] = General!FromBackend(loaded)[m]
  BY ReadsGeneral
<1>2. /\ form \in General!Form
      /\ form.image = General!ImageShown(orig) /\ form.scale = orig.scale
      /\ ~General!BothOff(orig) => form.show = ~orig.hide /\ form.manual = orig.allow
  BY <1>1, LoadedEffect
<1>3. orig.hide \in BOOLEAN /\ orig.allow \in BOOLEAN
  BY <1>1 DEF General!Setting
<1>4. General!BothOffIsBackend
  BY <1>2, <1>3 DEF General!BothOffIsBackend, General!BothOff
<1>5. FormShowsOrig
  BY <1>2, <1>3 DEF FormShowsOrig, General!Plain, General!ImageShown
<1> QED BY <1>1, <1>2, <1>4, <1>5 DEF Fresh, OrigIsLoaded

LEMMA GeneralFreshStep ==
  ASSUME NEW f \in General!Form, NEW v \in General!Setting, NEW got \in General!Got,
         orig' = General!Reads(v, got), form' = General!Loaded(f, orig'),
         answered' = got, loaded' = v, touched' = {}
  PROVE  Fresh'
<1>1. /\ orig' \in General!Setting /\ orig'.scale \in General!Scale
      /\ answered' \subseteq General!Members
      /\ \A m \in answered' : orig'[m] = General!FromBackend(loaded')[m]
  BY ReadsGeneral
<1>2. /\ form' \in General!Form
      /\ form'.image = General!ImageShown(orig') /\ form'.scale = orig'.scale
      /\ ~General!BothOff(orig') => form'.show = ~orig'.hide /\ form'.manual = orig'.allow
  BY <1>1, LoadedEffect
<1>3. orig'.hide \in BOOLEAN /\ orig'.allow \in BOOLEAN
  BY <1>1 DEF General!Setting
<1>4. General!BothOffIsBackend'
  BY <1>2, <1>3 DEF General!BothOffIsBackend, General!BothOff
<1>5. FormShowsOrig'
  BY <1>2, <1>3 DEF FormShowsOrig, General!Plain, General!ImageShown
<1> QED BY <1>1, <1>2, <1>4, <1>5 DEF Fresh, OrigIsLoaded

LEMMA GeneralInit == General!Init => GeneralInv
<1> SUFFICES ASSUME General!Init PROVE GeneralInv
  OBVIOUS
<1> DEFINE blank == [image |-> Default, show |-> FALSE, manual |-> FALSE, scale |-> "auto"]
<1>1. blank \in General!Form
  BY FormsAssumption DEF General!SettingsAssumption, General!Form, General!Scale
<1> HIDE DEF blank
<1>2. PICK got \in General!Got : /\ orig = General!Reads(stored, got)
                                 /\ answered = got /\ loaded = stored
                                 /\ form = General!Loaded(blank, orig)
  BY DEF General!Init, blank
<1>3. stored \in General!Setting /\ touched = {}
  BY DEF General!Init
<1>4. Fresh
  BY <1>1, <1>2, <1>3, GeneralFresh
<1>5. pc = "idle" /\ ~hasError /\ hasError \in BOOLEAN /\ tip = "none" /\ external = 0
      /\ ~asked /\ asked \in BOOLEAN /\ clicked = orig /\ ~disturbed /\ disturbed \in BOOLEAN
  BY DEF General!Init
<1>6. General!TypeOK
  BY <1>3, <1>4, <1>5, FormsAssumption DEF General!SettingsAssumption, General!TypeOK, Fresh
<1> QED
  BY <1>4, <1>5, <1>6 DEF GeneralInv, Fresh, NoSaveIdle, SeenIsLoaded, FoundOrWritten,
     WrittenSoFar, SavedIsVerdict, Writing, General!Field

LEMMA GeneralLoads ==
  ASSUME GeneralInv, General!Load
  PROVE  Fresh'
<1>1. PICK got \in General!Got : /\ orig' = General!Reads(stored, got)
                                 /\ answered' = got /\ loaded' = stored
                                 /\ form' = General!Loaded(form, orig') /\ touched' = {}
  BY DEF General!Load
<1>2. stored \in General!Setting /\ form \in General!Form
  BY DEF GeneralInv, General!TypeOK
<1> QED BY <1>1, <1>2, GeneralFreshStep

\* Choosing a picture or a scale mode.
LEMMA GeneralSelects ==
  ASSUME GeneralInv, General!ImageSelected \/ General!ScaleSelected
  PROVE  GeneralInv'
<1>1. /\ pc = "idle" /\ tip' = "none"
      /\ UNCHANGED <<stored, external, orig, loaded, answered, General!saveVars>>
  BY DEF General!ImageSelected, General!ScaleSelected
<1>2. /\ form' \in General!Form /\ touched' \subseteq General!Field
      /\ touched \subseteq touched'
      /\ form'.show = form.show /\ form'.manual = form.manual
      /\ "image" \notin touched' => form'.image = form.image
      /\ "scale" \notin touched' => form'.scale = form.scale
  BY DEF General!ImageSelected, General!ScaleSelected, GeneralInv, General!TypeOK,
     General!Form, General!Field
<1>3. General!TypeOK'
  BY <1>1, <1>2 DEF GeneralInv, General!TypeOK, General!saveVars
<1>4. General!BothOffIsBackend' /\ FormShowsOrig'
  BY <1>1, <1>2 DEF GeneralInv, General!BothOffIsBackend, FormShowsOrig
<1> QED BY <1>1, <1>3, <1>4 DEF GeneralInv, NoSaveIdle, OrigIsLoaded, SeenIsLoaded,
           FoundOrWritten, WrittenSoFar, SavedIsVerdict, Writing, General!Field, General!saveVars

\* A click on a switch.
LEMMA GeneralSwitches ==
  ASSUME GeneralInv, General!SwitchClicked
  PROVE  GeneralInv'
<1>1. /\ pc = "idle" /\ tip' \in {"none", "warning"}
      /\ touched' = touched \cup {f \in General!Field : form'[f] # form[f]}
      /\ UNCHANGED <<stored, external, orig, loaded, answered, General!saveVars>>
  BY DEF General!SwitchClicked
<1>2. form \in General!Form /\ form.show \in BOOLEAN /\ form.manual \in BOOLEAN
  BY DEF GeneralInv, General!TypeOK, General!Form
<1>3. /\ form' \in General!Form /\ (form'.show \/ form'.manual)
      /\ form'.image = form.image /\ form'.scale = form.scale
  <2>1. CASE form' = General!Switched(form, "show", ~form.show)
    BY <1>2, <2>1, SwitchedShow
  <2>2. CASE form' = General!Switched(form, "manual", ~form.manual)
    BY <1>2, <2>2, SwitchedManual
  <2> QED BY <2>1, <2>2 DEF General!SwitchClicked
<1>4. General!TypeOK'
  BY <1>1, <1>3 DEF GeneralInv, General!TypeOK, General!saveVars
<1>5. General!BothOffIsBackend' /\ FormShowsOrig'
  BY <1>1, <1>3 DEF GeneralInv, General!BothOffIsBackend, FormShowsOrig, General!Field
<1> QED BY <1>1, <1>4, <1>5 DEF GeneralInv, NoSaveIdle, OrigIsLoaded, SeenIsLoaded,
           FoundOrWritten, WrittenSoFar, SavedIsVerdict, Writing, General!Field, General!saveVars

\* The end of a save, and a reset.
LEMMA GeneralReloads ==
  ASSUME GeneralInv,
         General!ResetClicked \/ General!Discard \/ General!Reload
  PROVE  GeneralInv'
<1>1. Fresh'
  BY GeneralLoads DEF General!ResetClicked, General!Discard, General!Reload, General!Over
<1>2. /\ pc' = "idle" /\ hasError' = FALSE /\ asked' = FALSE /\ disturbed' = FALSE
      /\ clicked' = orig' /\ tip' \in {"warning", "none"}
      /\ stored' = stored /\ external' = external
  <2>1. CASE General!ResetClicked
    <3>1. hasError = FALSE /\ asked = FALSE /\ disturbed = FALSE
      BY <2>1 DEF General!ResetClicked, GeneralInv, NoSaveIdle, General!TypeOK
    <3> QED BY <2>1, <3>1 DEF General!ResetClicked, General!TipAfterLoad
  <2>2. CASE General!Discard \/ General!Reload
    BY <2>2 DEF General!Discard, General!Reload, General!Over, General!TipAfterLoad
  <2> QED BY <2>1, <2>2, Zenon
<1>3. General!TypeOK'
  BY <1>1, <1>2 DEF GeneralInv, General!TypeOK, Fresh
<1> QED BY <1>1, <1>2, <1>3 DEF GeneralInv, Fresh, NoSaveIdle, SeenIsLoaded,
           FoundOrWritten, WrittenSoFar, SavedIsVerdict, Writing, General!Field

\* The start of a save.
LEMMA GeneralSaves ==
  ASSUME GeneralInv, General!SaveClicked
  PROVE  GeneralInv'
<1>1. PICK got \in General!Got :
        /\ pc' = IF General!Reads(stored, got) = orig THEN "image" ELSE "asking"
        /\ answered' = answered \cap got
  BY DEF General!SaveClicked, General!Same
<1>2. /\ pc = "idle" /\ clicked' = stored /\ tip' = "none"
      /\ UNCHANGED <<stored, external, orig, form, touched, loaded, hasError, asked,
                     disturbed>>
  BY DEF General!SaveClicked
<1>3. stored \in General!Setting
  BY DEF GeneralInv, General!TypeOK
<1>4. pc' = "image" => \A m \in answered' : General!FromBackend(stored)[m] = orig[m]
  BY <1>1, <1>3, ReadsGeneral
<1>5. General!TypeOK'
  BY <1>1, <1>2 DEF GeneralInv, General!TypeOK, General!Field
<1>6. SeenIsLoaded' /\ FoundOrWritten' /\ WrittenSoFar' /\ SavedIsVerdict' /\ NoSaveIdle'
  BY <1>1, <1>2, <1>4 DEF SeenIsLoaded, FoundOrWritten, WrittenSoFar, SavedIsVerdict,
     NoSaveIdle, Writing, General!Field
<1>7. OrigIsLoaded'
  BY <1>1, <1>2 DEF GeneralInv, OrigIsLoaded
<1> QED BY <1>2, <1>5, <1>6, <1>7 DEF GeneralInv, General!BothOffIsBackend, FormShowsOrig

LEMMA GeneralOverwrites ==
  ASSUME GeneralInv, General!Overwrite
  PROVE  GeneralInv'
<1>1. General!TypeOK'
  BY DEF GeneralInv, General!TypeOK, General!Overwrite, General!Field
<1>2. General!BothOffIsBackend' /\ FormShowsOrig' /\ OrigIsLoaded'
  BY DEF GeneralInv, General!BothOffIsBackend, FormShowsOrig, OrigIsLoaded, General!Overwrite
<1> QED BY <1>1, <1>2 DEF GeneralInv, General!Overwrite, NoSaveIdle, SeenIsLoaded,
           FoundOrWritten, WrittenSoFar, SavedIsVerdict, Writing

\* A write changes one setting to what the form shows, or none if it fails.
LEMMA WrittenGeneral ==
  ASSUME NEW v \in General!Setting, form \in General!Form, NEW k \in General!Field
  PROVE  LET w == General!Written(v, k)
         IN  /\ w \in General!Setting
             /\ w.image = (IF k = "image" THEN form.image ELSE v.image)
             /\ w.hide = (IF k = "show" THEN ~form.show ELSE v.hide)
             /\ w.allow = (IF k = "manual" THEN form.manual ELSE v.allow)
             /\ w.scale = (IF k = "scale" THEN form.scale ELSE v.scale)
BY DEF General!Written, General!Setting, General!Form, General!Field, General!Scale

LEMMA GeneralWrites ==
  ASSUME GeneralInv, NEW k \in General!Field, General!Write(k)
  PROVE  GeneralInv'
<1>1. PICK failed \in BOOLEAN :
        /\ stored' \in IF failed THEN {stored, General!Written(stored, k)}
                       ELSE {General!Written(stored, k)}
        /\ hasError' = (hasError \/ failed)
        /\ pc' = IF failed /\ k = "image" THEN "reload" ELSE General!NextField(k)
        /\ tip' = IF pc' = "reload" THEN General!Verdict(hasError') ELSE "none"
  BY DEF General!Write, General!NoteError
<1>2. pc = k /\ UNCHANGED <<external, General!formVars, asked, clicked, disturbed>>
  BY DEF General!Write
<1>3. /\ stored \in General!Setting /\ form \in General!Form
      /\ hasError \in BOOLEAN /\ hasError' \in BOOLEAN
  BY <1>1 DEF GeneralInv, General!TypeOK
<1> DEFINE w == General!Written(stored, k)
<1>4. /\ w \in General!Setting
      /\ w.image = (IF k = "image" THEN form.image ELSE stored.image)
      /\ w.hide = (IF k = "show" THEN ~form.show ELSE stored.hide)
      /\ w.allow = (IF k = "manual" THEN form.manual ELSE stored.allow)
      /\ w.scale = (IF k = "scale" THEN form.scale ELSE stored.scale)
  BY <1>3, WrittenGeneral
<1>5. stored' \in {stored, w} /\ (~failed => stored' = w)
  BY <1>1
<1> HIDE DEF w
<1>6. /\ k = "image" => pc' = IF failed THEN "reload" ELSE "show"
      /\ k = "show" => pc' = "manual"
      /\ k = "manual" => pc' = "scale"
      /\ k = "scale" => pc' = "reload"
  BY <1>1 DEF General!NextField
<1>7. General!TypeOK'
  <2>1. tip' \in {"none", "saved", "failed"} /\ pc' \in General!Field \cup {"reload"}
    BY <1>1, <1>6 DEF General!Verdict, General!Field
  <2> QED BY <1>2, <1>3, <1>4, <1>5, <2>1 DEF GeneralInv, General!TypeOK, General!formVars
<1>8. /\ General!BothOffIsBackend' /\ FormShowsOrig' /\ OrigIsLoaded' /\ SeenIsLoaded'
      /\ NoSaveIdle'
  BY <1>2, <1>6 DEF GeneralInv, General!BothOffIsBackend, FormShowsOrig, OrigIsLoaded,
     SeenIsLoaded, NoSaveIdle, Writing, General!formVars, General!Field
<1>9. FoundOrWritten'
  BY <1>2, <1>4, <1>5, <1>6 DEF GeneralInv, FoundOrWritten, Writing, General!Field,
     General!formVars
<1>10. WrittenSoFar'
  BY <1>1, <1>2, <1>4, <1>5, <1>6 DEF GeneralInv, WrittenSoFar, Writing, General!Field,
     General!formVars
<1>11. SavedIsVerdict'
  BY <1>1 DEF SavedIsVerdict, General!Verdict
<1> QED BY <1>7, <1>8, <1>9, <1>10, <1>11 DEF GeneralInv

LEMMA GeneralOthers ==
  ASSUME GeneralInv, General!OtherProgram
  PROVE  GeneralInv'
<1>1. /\ external < MaxExternal /\ external' = external + 1
      /\ disturbed' = (pc # "idle")
      /\ UNCHANGED <<tip, General!formVars, pc, hasError, asked, clicked>>
  BY DEF General!OtherProgram
<1>2. PICK m \in General!Members, v \in General!Setting : stored' = [stored EXCEPT ![m] = v[m]]
  BY DEF General!OtherProgram
<1>3. stored' \in General!Setting
  BY <1>2 DEF GeneralInv, General!TypeOK, General!Setting, General!Members
<1>4. external' \in 0..MaxExternal
  BY <1>1, FormsAssumption DEF GeneralInv, General!TypeOK, General!SettingsAssumption
<1>5. General!TypeOK'
  BY <1>1, <1>3, <1>4 DEF GeneralInv, General!TypeOK, General!formVars
<1> QED BY <1>1, <1>5 DEF GeneralInv, General!BothOffIsBackend, FormShowsOrig, NoSaveIdle,
           OrigIsLoaded, SeenIsLoaded, FoundOrWritten, WrittenSoFar, SavedIsVerdict,
           Writing, General!formVars, General!Field

LEMMA GeneralKeeps == GeneralInv /\ [General!Next]_(General!vars) => GeneralInv'
<1>1. ASSUME GeneralInv, General!Next PROVE GeneralInv'
  BY <1>1, GeneralSelects, GeneralSwitches, GeneralReloads, GeneralSaves,
     GeneralOverwrites, GeneralWrites, GeneralOthers DEF General!Next
<1>2. ASSUME GeneralInv, UNCHANGED General!vars PROVE GeneralInv'
  BY <1>2 DEF General!vars, General!formVars, General!saveVars, GeneralInv, General!TypeOK,
     General!BothOffIsBackend, FormShowsOrig, NoSaveIdle, OrigIsLoaded, SeenIsLoaded,
     FoundOrWritten, WrittenSoFar, SavedIsVerdict, Writing
<1> QED BY <1>1, <1>2

\* What the invariant promises of the general page.
LEMMA GeneralPromises ==
  GeneralInv => /\ General!TypeOK /\ General!BothOffIsBackend
                /\ General!ShowsWhatWasLoaded /\ General!UntouchedIsKept
                /\ General!SavedMeansStored
<1> SUFFICES ASSUME GeneralInv
             PROVE  /\ General!ShowsWhatWasLoaded /\ General!UntouchedIsKept
                    /\ General!SavedMeansStored
  BY DEF GeneralInv
<1>1. /\ stored \in General!Setting /\ orig \in General!Setting
      /\ clicked \in General!Setting /\ form \in General!Form
  BY DEF GeneralInv, General!TypeOK
<1>2. General!ShowsWhatWasLoaded
  BY <1>1 DEF GeneralInv, General!ShowsWhatWasLoaded, FormShowsOrig, General!Shown,
     General!Setting, General!Form
<1>3. General!UntouchedIsKept
  <2>1. SUFFICES ASSUME pc = "reload", ~asked, ~disturbed, General!Plain(clicked),
                        answered = General!Members
                 PROVE  /\ "image"  \notin touched => stored.image = clicked.image
                        /\ "show"   \notin touched => stored.hide = clicked.hide
                        /\ "manual" \notin touched => stored.allow = clicked.allow
                        /\ "scale"  \notin touched => stored.scale = clicked.scale
    BY DEF General!UntouchedIsKept
  <2>2. \A m \in General!Members : orig[m] = General!FromBackend(clicked)[m]
    BY <2>1 DEF GeneralInv, SeenIsLoaded, Writing
  <2>3. /\ orig.image = clicked.image /\ orig.hide = clicked.hide
        /\ orig.allow = clicked.allow /\ orig.scale = clicked.scale
    BY <1>1, <2>1, <2>2, FromBackendEffect DEF General!Members, General!Plain
  <2>4. General!Plain(orig)
    BY <2>1, <2>3 DEF General!Plain, General!BothOff
  <2>5. clicked.hide \in BOOLEAN /\ form.show \in BOOLEAN
    BY <1>1 DEF General!Setting, General!Form
  <2> QED BY <2>1, <2>3, <2>4, <2>5 DEF GeneralInv, FoundOrWritten, FormShowsOrig, Writing
<1>4. General!SavedMeansStored
  BY <1>1 DEF GeneralInv, General!SavedMeansStored, SavedIsVerdict, WrittenSoFar, Writing,
     General!Shown, General!Setting, General!Form
<1> QED BY <1>2, <1>3, <1>4

\* A write changes what it is about; that is as it was found when Save was
\* clicked, hence as it was loaded.
LEMMA GeneralOverwritesSeen ==
  ASSUME GeneralInv, [General!Next]_(General!vars)
  PROVE  General!OverwritesSeen
<1>1. CASE stored' = stored \/ external' # external
  BY <1>1 DEF General!OverwritesSeen
<1>2. CASE \E k \in General!Field : General!Write(k)
  <2>1. PICK k \in General!Field : General!Write(k)
    BY <1>2
  <2> SUFFICES ASSUME ~asked, ~disturbed, NEW m \in answered, stored'[m] # stored[m]
               PROVE  General!FromBackend(stored)[m] = General!FromBackend(loaded)[m]
    BY DEF General!OverwritesSeen
  <2>2. /\ pc = k /\ stored' \in {stored, General!Written(stored, k)}
    BY <2>1 DEF General!Write
  <2>3. /\ stored \in General!Setting /\ clicked \in General!Setting /\ form \in General!Form
        /\ answered \subseteq General!Members
    BY DEF GeneralInv, General!TypeOK
  <2>4. /\ stored'.image # stored.image => k = "image"
        /\ stored'.hide # stored.hide => k = "show"
        /\ stored'.allow # stored.allow => k = "manual"
        /\ stored'.scale # stored.scale => k = "scale"
    BY <2>2, <2>3, WrittenGeneral
  <2>5. /\ k = "image" => stored.image = clicked.image
        /\ k = "show" => stored.hide = clicked.hide
        /\ k = "manual" => stored.allow = clicked.allow
        /\ k = "scale" => stored.scale = clicked.scale
    BY <2>2 DEF GeneralInv, FoundOrWritten, Writing, General!Field
  <2>6. General!FromBackend(stored)[m] = General!FromBackend(clicked)[m]
    BY <2>3, <2>4, <2>5, FromBackendEffect DEF General!Members
  <2>7. General!FromBackend(clicked)[m] = orig[m] /\ orig[m] = General!FromBackend(loaded)[m]
    BY <2>2 DEF GeneralInv, SeenIsLoaded, OrigIsLoaded, Writing, General!Field
  <2> QED BY <2>6, <2>7
<1>3. stored' = stored \/ external' # external \/ (\E k \in General!Field : General!Write(k))
  <2>1. external \in Nat
    BY DEF GeneralInv, General!TypeOK
  <2>2. General!OtherProgram => external' # external
    BY <2>1 DEF General!OtherProgram
  <2> QED BY <2>2 DEF General!Next, General!vars, General!ImageSelected, General!ScaleSelected,
      General!SwitchClicked, General!ResetClicked, General!SaveClicked, General!Overwrite,
      General!Discard, General!Reload
<1> QED BY <1>1, <1>2, <1>3

-----------------------------------------------------------------------------
(* The functions of the page of the automatic login *)

LEMMA ReadsAutologin ==
  ASSUME ItemsFit, NEW v \in Autologin!Setting, NEW got \in SUBSET Autologin!Member
  PROVE  LET r == Autologin!Reads(v, got)
         IN  /\ r \in Autologin!Setting /\ r.user \in items \cup {NoUser}
             /\ "user" \in got => r.user = Autologin!FromBackend(v).user
             /\ "timeout" \in got => r.timeout = v.timeout
<1> DEFINE a == [m \in Autologin!Member |-> IF m \in got THEN v[m] ELSE Autologin!NoAnswer[m]]
<1>1. /\ a \in Autologin!Setting
      /\ "user" \in got => a.user = v.user
      /\ "timeout" \in got => a.timeout = v.timeout
  BY FormsAssumption DEF Autologin!AutologinAssumption, Autologin!Member, Autologin!NoAnswer,
     Autologin!Setting
<1> HIDE DEF a
<1> QED BY <1>1 DEF Autologin!Reads, Autologin!FromBackend, Autologin!Setting, ItemsFit, a

LEMMA ShownUserEffect ==
  ASSUME ItemsFit, NEW v \in Autologin!Setting
  PROVE  /\ [user |-> Autologin!ShownUser(v), delay |-> v.timeout] \in Autologin!Form
         /\ Autologin!ShownUser(v) \in items \cup {NoUser}
BY DEF ItemsFit, Autologin!ShownUser, Autologin!Form, Autologin!Setting

LEMMA ItemsAreUsers ==
  ASSUME items \in Autologin!Items
  PROVE  ItemsFit
<1>1. PICK listed \in Autologin!ListCachedUsers, root \in Autologin!RootIcon,
           us \in Autologin!Answering(User \ {Root}) :
        items = IF listed /\ root THEN us \cup {Root, NoUser} ELSE {}
  BY DEF Autologin!Items
<1>2. us \subseteq User
  BY DEF Autologin!Answering
<1> QED BY <1>1, <1>2, FormsAssumption DEF ItemsFit, Autologin!AutologinAssumption

\* A text that is read as a number is a delay the service may keep.
LEMMA ToUIntEffect ==
  ASSUME NEW d \in Timeout \cup {NoDelay}
  PROVE  Autologin!ToUInt(d) \in Timeout
BY FormsAssumption DEF Autologin!AutologinAssumption, Autologin!ToUInt

-----------------------------------------------------------------------------
(* The page of the automatic login keeps its invariant *)

\* A load makes the form anew.
FreshLogin == /\ ItemsFit /\ orig \in Autologin!Setting /\ form \in Autologin!Form
              /\ {form.user, orig.user} \subseteq items \cup {NoUser}
              /\ loaded \in Autologin!Setting /\ answered \subseteq Autologin!Member
              /\ touched = {} /\ EditShowsOrig /\ AnswersAreOrig

LEMMA AutologinInit == Autologin!Init => AutologinInv
<1> SUFFICES ASSUME Autologin!Init PROVE AutologinInv
  OBVIOUS
<1>1. /\ stored \in Autologin!Setting /\ items \in Autologin!Items /\ touched = {}
      /\ pc = "idle" /\ hasError = FALSE /\ tip = "none" /\ external = 0
      /\ asked = FALSE /\ clicked = orig /\ disturbed = FALSE
  BY DEF Autologin!Init
<1>2. ItemsFit
  BY <1>1, ItemsAreUsers
<1>3. PICK got \in SUBSET Autologin!Member :
        /\ orig = Autologin!Reads(stored, got) /\ answered = got /\ loaded = stored
        /\ form = [user |-> Autologin!ShownUser(orig), delay |-> orig.timeout]
  BY DEF Autologin!Init
<1>4. orig \in Autologin!Setting /\ orig.user \in items \cup {NoUser} /\ AnswersAreOrig
  BY <1>1, <1>2, <1>3, ReadsAutologin DEF AnswersAreOrig
<1>5. form \in Autologin!Form /\ form.user \in items \cup {NoUser} /\ EditShowsOrig
  BY <1>2, <1>3, <1>4, ShownUserEffect DEF EditShowsOrig
<1>6. external \in 0..MaxExternal
  BY <1>1, FormsAssumption DEF Autologin!AutologinAssumption
<1>7. Autologin!TypeOK
  BY <1>1, <1>3, <1>4, <1>5, <1>6 DEF Autologin!TypeOK
<1> QED BY <1>1, <1>2, <1>4, <1>5, <1>7 DEF AutologinInv, NoSaveIdle, AnswersAreLoaded,
           UserThenDelay, SavedIsVerdict

LEMMA AutologinLoads ==
  ASSUME AutologinInv, Autologin!Load, items' = items
  PROVE  FreshLogin'
<1>1. ItemsFit /\ ItemsFit' /\ stored \in Autologin!Setting
  BY DEF AutologinInv, Autologin!TypeOK, ItemsFit
<1>2. PICK got \in SUBSET Autologin!Member :
        /\ orig' = Autologin!Reads(stored, got) /\ touched' = {}
        /\ answered' = got /\ loaded' = stored
        /\ form' = [user |-> Autologin!ShownUser(orig'), delay |-> orig'.timeout]
  BY DEF Autologin!Load
<1>3. orig' \in Autologin!Setting /\ orig'.user \in items \cup {NoUser}
  BY <1>1, <1>2, ReadsAutologin
<1>4. form' \in Autologin!Form /\ form'.user \in items \cup {NoUser}
  BY <1>1, <1>2, <1>3, ShownUserEffect
<1>5. EditShowsOrig'
  BY <1>2 DEF EditShowsOrig, Autologin!ShownUser
<1>6. AnswersAreOrig'
  BY <1>1, <1>2, ReadsAutologin DEF AnswersAreOrig, Autologin!FromBackend
<1> QED BY <1>1, <1>2, <1>3, <1>4, <1>5, <1>6 DEF FreshLogin

LEMMA AutologinEdits ==
  ASSUME AutologinInv, Autologin!UserSelected \/ Autologin!DelayEdited
  PROVE  AutologinInv'
<1>1. /\ pc = "idle" /\ tip' = "none"
      /\ UNCHANGED <<items, orig, loaded, answered, stored, pc, hasError, external, asked,
                     clicked, disturbed>>
  BY DEF Autologin!UserSelected, Autologin!DelayEdited
<1>2. /\ form' \in Autologin!Form /\ form'.user \in items \cup {NoUser}
      /\ touched \subseteq touched' /\ touched' \subseteq {"user", "timeout"}
      /\ "user" \notin touched' => form'.user = form.user
      /\ "timeout" \notin touched' => form'.delay = form.delay
  BY DEF Autologin!UserSelected, Autologin!DelayEdited, AutologinInv, Autologin!TypeOK,
     Autologin!Form, ItemsFit
<1>3. Autologin!TypeOK'
  BY <1>1, <1>2 DEF AutologinInv, Autologin!TypeOK
<1>4. EditShowsOrig' /\ ItemsFit'
  BY <1>1, <1>2 DEF AutologinInv, EditShowsOrig, ItemsFit, Autologin!ShownUser
<1>5. AnswersAreOrig'
  BY <1>1 DEF AutologinInv, AnswersAreOrig, Autologin!FromBackend
<1> QED BY <1>1, <1>3, <1>4, <1>5 DEF AutologinInv, NoSaveIdle, AnswersAreLoaded,
           UserThenDelay, SavedIsVerdict

LEMMA AutologinReloads ==
  ASSUME AutologinInv,
         Autologin!ResetClicked \/ Autologin!Discard \/ Autologin!Reload
  PROVE  AutologinInv'
<1>1. /\ pc' = "idle" /\ hasError' = FALSE /\ asked' = FALSE /\ disturbed' = FALSE
      /\ clicked' = orig' /\ tip' = "none" /\ items' = items
      /\ stored' = stored /\ external' = external
  <2>1. CASE Autologin!ResetClicked
    <3>1. hasError = FALSE /\ asked = FALSE /\ disturbed = FALSE
      BY <2>1 DEF Autologin!ResetClicked, AutologinInv, NoSaveIdle, Autologin!TypeOK
    <3> QED BY <2>1, <3>1 DEF Autologin!ResetClicked
  <2>2. CASE Autologin!Discard \/ Autologin!Reload
    BY <2>2 DEF Autologin!Discard, Autologin!Reload, Autologin!Over
  <2> QED BY <2>1, <2>2
<1>2. FreshLogin'
  BY <1>1, AutologinLoads DEF Autologin!ResetClicked, Autologin!Discard, Autologin!Reload,
     Autologin!Over
<1>3. Autologin!TypeOK'
  BY <1>1, <1>2 DEF AutologinInv, Autologin!TypeOK, FreshLogin
<1> QED BY <1>1, <1>2, <1>3 DEF AutologinInv, FreshLogin, NoSaveIdle, AnswersAreLoaded,
           UserThenDelay, SavedIsVerdict

LEMMA AutologinSaves ==
  ASSUME AutologinInv, Autologin!SaveClicked
  PROVE  AutologinInv'
<1>1. PICK got \in SUBSET Autologin!Member :
        /\ pc' = IF Autologin!Reads(stored, got) = orig THEN "user" ELSE "asking"
        /\ answered' = (answered \cap got)
  BY DEF Autologin!SaveClicked, Autologin!Same
<1>2. /\ pc = "idle" /\ clicked' = stored /\ tip' = "none"
      /\ UNCHANGED <<items, orig, form, touched, loaded, stored, hasError, external, asked,
                     disturbed>>
  BY DEF Autologin!SaveClicked
<1>3. ItemsFit /\ stored \in Autologin!Setting
  BY DEF AutologinInv, Autologin!TypeOK
<1>4. pc' = "user" => /\ "user" \in answered' => Autologin!FromBackend(stored).user = orig.user
                      /\ "timeout" \in answered' => stored.timeout = orig.timeout
  BY <1>1, <1>3, ReadsAutologin
<1>5. Autologin!TypeOK'
  BY <1>1, <1>2 DEF AutologinInv, Autologin!TypeOK
<1>6. AnswersAreLoaded'
  BY <1>1, <1>2, <1>4 DEF AnswersAreLoaded, Autologin!FromBackend
<1>7. NoSaveIdle' /\ UserThenDelay' /\ SavedIsVerdict' /\ ItemsFit' /\ EditShowsOrig'
  BY <1>1, <1>2 DEF AutologinInv, NoSaveIdle, UserThenDelay, SavedIsVerdict, ItemsFit,
     EditShowsOrig, Autologin!ShownUser
<1>8. AnswersAreOrig'
  BY <1>1, <1>2 DEF AutologinInv, AnswersAreOrig, Autologin!FromBackend
<1> QED BY <1>5, <1>6, <1>7, <1>8 DEF AutologinInv

LEMMA AutologinOverwrites ==
  ASSUME AutologinInv, Autologin!Overwrite
  PROVE  AutologinInv'
<1>1. /\ pc' = "user" /\ asked' = TRUE /\ clicked' = orig /\ tip' = "none"
      /\ loaded' = orig /\ answered' = {}
      /\ UNCHANGED <<items, orig, form, touched, stored, hasError, external, disturbed>>
  BY DEF Autologin!Overwrite
<1>2. Autologin!TypeOK'
  BY <1>1 DEF AutologinInv, Autologin!TypeOK
<1> QED BY <1>1, <1>2 DEF AutologinInv, NoSaveIdle, UserThenDelay, SavedIsVerdict, ItemsFit,
           EditShowsOrig, Autologin!ShownUser, AnswersAreOrig, AnswersAreLoaded

\* A write changes one of the two.
LEMMA WrittenAutologin ==
  ASSUME NEW v \in Autologin!Setting, form \in Autologin!Form, NEW k \in {"user", "timeout"}
  PROVE  LET w == Autologin!Written(v, k)
         IN  /\ w \in Autologin!Setting
             /\ w.user = (IF k = "user" THEN form.user ELSE v.user)
             /\ w.timeout = (IF k = "user" THEN v.timeout ELSE Autologin!ToUInt(form.delay))
<1>1. form.delay \in Timeout \cup {NoDelay}
  BY DEF Autologin!Form
<1>2. Autologin!ToUInt(form.delay) \in Timeout
  BY <1>1, ToUIntEffect
<1> QED BY <1>2 DEF Autologin!Written, Autologin!Setting, Autologin!Form

LEMMA AutologinWrites ==
  ASSUME AutologinInv, NEW k \in {"user", "timeout"}, Autologin!Write(k)
  PROVE  AutologinInv'
<1> DEFINE w == Autologin!Written(stored, k)
<1>1. PICK failed \in BOOLEAN :
        /\ stored' \in IF failed THEN {stored, w} ELSE {w}
        /\ hasError' = (hasError \/ failed)
        /\ pc' = IF k = "user" /\ ~failed THEN "timeout" ELSE "reload"
        /\ tip' = IF pc' # "reload" THEN "none" ELSE IF hasError' THEN "failed" ELSE "saved"
  BY DEF Autologin!Write, Autologin!NoteError, Autologin!AfterWrite
<1>2. pc = k /\ UNCHANGED <<items, orig, form, touched, loaded, answered, external, asked,
                            clicked, disturbed>>
  BY DEF Autologin!Write, Autologin!formVars
<1>3. /\ stored \in Autologin!Setting /\ form \in Autologin!Form
      /\ hasError \in BOOLEAN /\ hasError' \in BOOLEAN
  BY <1>1 DEF AutologinInv, Autologin!TypeOK
<1>4. /\ w \in Autologin!Setting
      /\ w.user = (IF k = "user" THEN form.user ELSE stored.user)
      /\ w.timeout = (IF k = "user" THEN stored.timeout ELSE Autologin!ToUInt(form.delay))
  BY <1>3, WrittenAutologin
<1> HIDE DEF w
<1>5. stored' \in {stored, w} /\ (~failed => stored' = w)
  BY <1>1
<1>6. Autologin!TypeOK'
  BY <1>1, <1>2, <1>3, <1>4, <1>5 DEF AutologinInv, Autologin!TypeOK
<1>7. UserThenDelay'
  <2>1. UserThenDelay
    BY DEF AutologinInv
  <2>2. CASE k = "user"
    BY <1>1, <1>2, <1>4, <1>5, <2>1, <2>2 DEF UserThenDelay
  <2>3. CASE k = "timeout"
    <3>1. pc' = "reload" /\ (~hasError' => stored' = w)
      BY <1>1, <1>5, <2>3
    <3>2. ~disturbed => stored.user = form.user /\ w.user = form.user
      BY <1>2, <1>4, <2>1, <2>3 DEF UserThenDelay
    <3>3. ~disturbed => w = [user |-> form.user, timeout |-> Autologin!ToUInt(form.delay)]
      BY <1>4, <2>3, <3>2 DEF Autologin!Setting
    <3>4. ~disturbed /\ ~asked => stored.timeout = clicked.timeout
      BY <1>2, <2>1, <2>3 DEF UserThenDelay
    <3> QED BY <1>2, <1>4, <1>5, <2>3, <3>1, <3>2, <3>3, <3>4 DEF UserThenDelay
  <2> QED BY <2>2, <2>3
<1>8. /\ NoSaveIdle' /\ SavedIsVerdict' /\ ItemsFit' /\ EditShowsOrig'
      /\ AnswersAreOrig' /\ AnswersAreLoaded'
  BY <1>1, <1>2 DEF AutologinInv, NoSaveIdle, SavedIsVerdict, ItemsFit, EditShowsOrig,
     AnswersAreOrig, AnswersAreLoaded, Autologin!ShownUser, Autologin!FromBackend
<1> QED BY <1>6, <1>7, <1>8 DEF AutologinInv

LEMMA AutologinOthers ==
  ASSUME AutologinInv, Autologin!OtherProgram
  PROVE  AutologinInv'
<1>1. /\ external < MaxExternal /\ external' = external + 1
      /\ stored' \in Autologin!Setting /\ disturbed' = (pc # "idle")
      /\ UNCHANGED <<items, orig, form, touched, loaded, answered, pc, hasError, tip, asked,
                     clicked>>
  BY DEF Autologin!OtherProgram, Autologin!formVars
<1>2. external' \in 0..MaxExternal
  BY <1>1, FormsAssumption DEF AutologinInv, Autologin!TypeOK, Autologin!AutologinAssumption
<1>3. Autologin!TypeOK'
  BY <1>1, <1>2 DEF AutologinInv, Autologin!TypeOK
<1> QED BY <1>1, <1>3 DEF AutologinInv, NoSaveIdle, UserThenDelay, SavedIsVerdict, ItemsFit,
           EditShowsOrig, Autologin!ShownUser, AnswersAreOrig, AnswersAreLoaded,
           Autologin!FromBackend

LEMMA AutologinKeeps == AutologinInv /\ [Autologin!Next]_(Autologin!vars) => AutologinInv'
<1>1. ASSUME AutologinInv, Autologin!Next PROVE AutologinInv'
  BY <1>1, AutologinEdits, AutologinReloads, AutologinSaves, AutologinOverwrites,
     AutologinWrites, AutologinOthers DEF Autologin!Next
<1>2. ASSUME AutologinInv, UNCHANGED Autologin!vars PROVE AutologinInv'
  BY <1>2 DEF Autologin!vars, Autologin!formVars, AutologinInv, Autologin!TypeOK, NoSaveIdle,
     UserThenDelay, SavedIsVerdict, ItemsFit, EditShowsOrig, Autologin!ShownUser,
     AnswersAreOrig, AnswersAreLoaded, Autologin!FromBackend
<1> QED BY <1>1, <1>2

\* What the invariant promises of the page.
LEMMA AutologinPromises ==
  AutologinInv => /\ Autologin!TypeOK /\ Autologin!UserIsKept /\ Autologin!DelayIsKept
                  /\ Autologin!SavedMeansStored /\ Autologin!NoDelayWithoutUser
<1> SUFFICES ASSUME AutologinInv
             PROVE  /\ Autologin!UserIsKept /\ Autologin!DelayIsKept
                    /\ Autologin!SavedMeansStored /\ Autologin!NoDelayWithoutUser
  BY DEF AutologinInv
<1>1. Autologin!UserIsKept
  <2>1. SUFFICES ASSUME pc = "reload", ~asked, ~disturbed, "user" \in answered,
                        "user" \notin touched, clicked.user \in items
                 PROVE  stored.user = clicked.user
    BY DEF Autologin!UserIsKept
  <2>2. orig.user = clicked.user
    BY <2>1 DEF AutologinInv, AnswersAreLoaded, Autologin!FromBackend
  <2>3. form.user = clicked.user
    BY <2>1, <2>2 DEF AutologinInv, EditShowsOrig, Autologin!ShownUser
  <2> QED BY <2>1, <2>3 DEF AutologinInv, UserThenDelay
<1>2. Autologin!DelayIsKept
  <2>1. SUFFICES ASSUME pc = "reload", ~asked, ~disturbed, "timeout" \in answered,
                        "timeout" \notin touched, clicked.timeout <= MaxUInt
                 PROVE  stored.timeout = clicked.timeout
    BY DEF Autologin!DelayIsKept
  <2>2. form.delay = clicked.timeout
    BY <2>1 DEF AutologinInv, AnswersAreLoaded, EditShowsOrig
  <2>3. clicked.timeout \in Nat
    BY FormsAssumption DEF AutologinInv, Autologin!TypeOK, Autologin!Setting,
       Autologin!AutologinAssumption
  <2>4. Autologin!ToUInt(form.delay) = clicked.timeout
    BY <2>1, <2>2, <2>3, FormsAssumption DEF Autologin!ToUInt, Autologin!AutologinAssumption
  <2> QED BY <2>1, <2>4 DEF AutologinInv, UserThenDelay
<1>3. Autologin!SavedMeansStored
  BY DEF AutologinInv, Autologin!SavedMeansStored, SavedIsVerdict, UserThenDelay
<1>4. Autologin!NoDelayWithoutUser
  BY DEF AutologinInv, Autologin!NoDelayWithoutUser, UserThenDelay
<1> QED BY <1>1, <1>2, <1>3, <1>4

\* The same of the writes of this page.
LEMMA AutologinOverwritesSeen ==
  ASSUME AutologinInv, [Autologin!Next]_(Autologin!vars)
  PROVE  Autologin!OverwritesSeen
<1>1. CASE stored' = stored \/ external' # external
  BY <1>1 DEF Autologin!OverwritesSeen
<1>2. CASE \E k \in {"user", "timeout"} : Autologin!Write(k)
  <2>1. PICK k \in {"user", "timeout"} : Autologin!Write(k)
    BY <1>2
  <2> SUFFICES ASSUME ~asked, ~disturbed, NEW m \in answered, stored'[m] # stored[m]
               PROVE  Autologin!FromBackend(stored)[m] = Autologin!FromBackend(loaded)[m]
    BY DEF Autologin!OverwritesSeen
  <2>2. /\ pc = k /\ stored' \in {stored, Autologin!Written(stored, k)}
    BY <2>1 DEF Autologin!Write
  <2>3. /\ stored \in Autologin!Setting /\ loaded \in Autologin!Setting
        /\ clicked \in Autologin!Setting /\ form \in Autologin!Form
        /\ m \in {"user", "timeout"}
    BY DEF AutologinInv, Autologin!TypeOK, Autologin!Member
  <2>4. /\ stored'.user # stored.user => k = "user"
        /\ stored'.timeout # stored.timeout => k = "timeout"
    BY <2>2, <2>3, WrittenAutologin
  <2>5. /\ k = "user" => stored = clicked
        /\ k = "timeout" => stored.timeout = clicked.timeout
    BY <2>2 DEF AutologinInv, UserThenDelay
  <2>6. AnswersAreOrig /\ AnswersAreLoaded
    BY DEF AutologinInv
  <2>7. CASE m = "user"
    BY <2>2, <2>4, <2>5, <2>6, <2>7 DEF AnswersAreOrig, AnswersAreLoaded
  <2>8. CASE m = "timeout"
    <3>1. ASSUME NEW v \in Autologin!Setting
          PROVE  Autologin!FromBackend(v).timeout = v.timeout
      BY DEF Autologin!FromBackend, Autologin!Setting
    <3> QED BY <2>2, <2>3, <2>4, <2>5, <2>6, <2>8, <3>1 DEF AnswersAreOrig, AnswersAreLoaded
  <2> QED BY <2>3, <2>7, <2>8
<1>3. \/ stored' = stored \/ external' # external
      \/ \E k \in {"user", "timeout"} : Autologin!Write(k)
  <2>1. external \in Nat
    BY DEF AutologinInv, Autologin!TypeOK
  <2>2. Autologin!OtherProgram => external' # external
    BY <2>1 DEF Autologin!OtherProgram
  <2> QED BY <2>2 DEF Autologin!Next, Autologin!vars, Autologin!UserSelected,
      Autologin!DelayEdited, Autologin!ResetClicked, Autologin!SaveClicked,
      Autologin!Overwrite, Autologin!Discard, Autologin!Reload
<1> QED BY <1>1, <1>2, <1>3

-----------------------------------------------------------------------------
(* The theorems *)

LEMMA FormsInit == Init => FormsInv
BY GeneralInit, AutologinInit DEF Init, FormsInv

\* A step is one of the part it is in.
LEMMA PartStep ==
  ASSUME [Next]_vars
  PROVE  /\ part' = part
         /\ part = "general" => [General!Next]_(General!vars)
         /\ part = "autologin" => [Autologin!Next]_(Autologin!vars)
<1>1. part' = part
  BY DEF Next, Only, vars
<1>2. ASSUME part = "general" PROVE [General!Next]_(General!vars)
  BY <1>2 DEF Next, Only, vars, pageVars, General!vars, General!formVars, General!saveVars
<1>3. ASSUME part = "autologin" PROVE [Autologin!Next]_(Autologin!vars)
  BY <1>3 DEF Next, Only, vars, pageVars, Autologin!vars, Autologin!formVars
<1> QED BY <1>1, <1>2, <1>3

LEMMA FormsKeep == FormsInv /\ [Next]_vars => FormsInv'
BY PartStep, GeneralKeeps, AutologinKeeps DEF FormsInv

\* saveGeneralSettings() and resetGeneralSettings(), whatever other programs
\* and failing calls do: the form shows what was loaded until it is touched, its
\* switches are both off only if they were loaded so, and a save that is not
\* interfered with leaves alone what was not touched.
THEOREM UntouchedKept == Spec => []UntouchedIsKept
<1>1. FormsInv => UntouchedIsKept
  BY GeneralPromises DEF FormsInv, UntouchedIsKept
<1> QED BY <1>1, FormsInit, FormsKeep, PTL DEF Spec

\* saveGeneralSettings() and saveAutoLoginSettings(): whatever other programs
\* and failing calls do, each setting that a save changes without a question is,
\* as far as the page can tell it from others, what it was when the form was
\* loaded, unless it was not answered when it was read at the load or at the
\* click, or was changed during the save.
THEOREM OverwritesSeen == Spec => OverwritesOnlySeen
<1> DEFINE OnGeneral == part = "general" => General!OverwritesSeen
           OnAutologin == part = "autologin" => Autologin!OverwritesSeen
<1>1. FormsInv /\ [Next]_vars => OnGeneral /\ OnAutologin
  <2> SUFFICES ASSUME FormsInv, [Next]_vars PROVE OnGeneral /\ OnAutologin
    OBVIOUS
  <2>1. CASE part = "general"
    <3>1. GeneralInv /\ [General!Next]_(General!vars)
      BY <2>1, PartStep DEF FormsInv
    <3> QED BY <2>1, <3>1, GeneralOverwritesSeen
  <2>2. CASE part = "autologin"
    <3>1. AutologinInv /\ [Autologin!Next]_(Autologin!vars)
      BY <2>2, PartStep DEF FormsInv
    <3> QED BY <2>2, <3>1, AutologinOverwritesSeen
  <2> QED BY <2>1, <2>2
<1> HIDE DEF OnGeneral, OnAutologin
<1>2. FormsInv /\ [Next]_vars => [OnGeneral]_vars /\ [OnAutologin]_vars
  BY <1>1
<1>3. Spec => [][OnGeneral]_vars /\ [][OnAutologin]_vars
  BY <1>2, FormsInit, FormsKeep, PTL DEF Spec
<1> QED BY <1>3 DEF OverwritesOnlySeen, OnGeneral, OnAutologin

\* On both pages, the tip that all is saved appears only when the service has
\* what the form shows, although every call may fail by itself.
THEOREM SavedStored == Spec => []SavedMeansStored
<1>1. FormsInv => SavedMeansStored
  BY GeneralPromises, AutologinPromises DEF FormsInv, SavedMeansStored
<1> QED BY <1>1, FormsInit, FormsKeep, PTL DEF Spec

\* saveAutoLoginSettings(): a new delay leaves the user who is logged in
\* automatically, a new user leaves the delay, and no delay is stored while the
\* user it was meant for cannot be.
THEOREM AutologinKept == Spec => []AutologinIsKept
<1>1. FormsInv => AutologinIsKept
  BY AutologinPromises DEF FormsInv, AutologinIsKept
<1> QED BY <1>1, FormsInit, FormsKeep, PTL DEF Spec

-----------------------------------------------------------------------------
(* The screens *)

Desk == INSTANCE ScreensProofs

\* The definitions of Screens as Desk and Desktop know them.
LEMMA DeskSets ==
  ASSUME NEW S
  PROVE  /\ Desk!IsFiniteSet(S) <=> Desktop!IsFiniteSet(S)
         /\ Desk!Cardinality(S) = Desktop!Cardinality(S)
<1>1. Desk!IsFiniteSet(S) <=> Desktop!IsFiniteSet(S)
  BY DEF Desk!IsFiniteSet, Desktop!IsFiniteSet
<1>2. Desk!Cardinality(S) = Desktop!Cardinality(S)
  BY Zenon DEF Desk!Cardinality, Desktop!Cardinality
<1> QED BY <1>1, <1>2

LEMMA DeskState ==
  /\ Desk!ScreensAssumption <=> Desktop!ScreensAssumption
  /\ Desk!Bg = Desktop!Bg /\ Desk!NoBg = Desktop!NoBg
  /\ Desk!Live = Desktop!Live /\ Desk!Live' = Desktop!Live'
  /\ Desk!TypeOK <=> Desktop!TypeOK
  /\ Desk!OnLiveBackground <=> Desktop!OnLiveBackground
  /\ Desk!ShownUnlessIgnored <=> Desktop!ShownUnlessIgnored
  /\ Desk!WindowFits <=> Desktop!WindowFits
<1>1. Desk!ScreensAssumption <=> Desktop!ScreensAssumption
  BY DeskSets DEF Desk!ScreensAssumption, Desktop!ScreensAssumption
<1>2. Desk!Bg = Desktop!Bg /\ Desk!NoBg = Desktop!NoBg
  BY DEF Desk!Bg, Desktop!Bg, Desk!NoBg, Desktop!NoBg
<1>3. Desk!Live = Desktop!Live /\ Desk!Live' = Desktop!Live'
  BY DEF Desk!Live, Desktop!Live, Desk!NoBg, Desktop!NoBg
<1>4. Desk!TypeOK <=> Desktop!TypeOK
  BY <1>2, <1>3 DEF Desk!TypeOK, Desktop!TypeOK
<1>5. Desk!OnLiveBackground <=> Desktop!OnLiveBackground
  BY <1>2, <1>3 DEF Desk!OnLiveBackground, Desktop!OnLiveBackground
<1>6. Desk!ShownUnlessIgnored <=> Desktop!ShownUnlessIgnored
  BY <1>2 DEF Desk!ShownUnlessIgnored, Desktop!ShownUnlessIgnored
<1>7. Desk!WindowFits <=> Desktop!WindowFits
  BY <1>2 DEF Desk!WindowFits, Desktop!WindowFits
<1> QED BY <1>1, <1>2, <1>3, <1>4, <1>5, <1>6, <1>7

LEMMA DeskStarts == Desktop!Init => Desk!Init
<1>1. ASSUME NEW ss, NEW valid PROVE Desktop!InitWith(ss, valid) <=> Desk!InitWith(ss, valid)
  <2>1. Desk!Numbering(valid) = Desktop!Numbering(valid)
    BY DeskSets DEF Desk!Numbering, Desktop!Numbering
  <2> QED BY <2>1 DEF Desk!InitWith, Desktop!InitWith, Desk!BackgroundOf, Desktop!BackgroundOf,
      Desk!Live, Desktop!Live, Desk!Bg, Desktop!Bg, Desk!NoBg, Desktop!NoBg
<1> QED BY <1>1, DeskSets DEF Desk!Init, Desktop!Init

LEMMA DeskOthers ==
  /\ Desktop!MouseEnter <=> Desk!MouseEnter
  /\ Desktop!OtherNext <=> Desk!OtherNext
  /\ Desktop!vars = Desk!vars /\ Desktop!vars' = Desk!vars'
<1>1. Desktop!MouseEnter <=> Desk!MouseEnter
  BY DEF Desk!MouseEnter, Desktop!MouseEnter, Desk!SetOnBackground,
      Desktop!SetOnBackground, Desk!Live, Desktop!Live, Desk!NoBg, Desktop!NoBg,
      Desk!screenVars, Desktop!screenVars
<1>2. Desktop!OtherNext <=> Desk!OtherNext
  BY <1>1 DEF Desk!OtherNext, Desktop!OtherNext, Desk!PrimaryChanged,
      Desktop!PrimaryChanged, Desk!Deleted, Desktop!Deleted, Desk!bgVars,
      Desktop!bgVars, Desk!windowVars, Desktop!windowVars, Desk!screenVars,
      Desktop!screenVars
<1>3. Desktop!vars = Desk!vars /\ Desktop!vars' = Desk!vars'
  BY DEF Desk!vars, Desktop!vars, Desk!screenVars, Desktop!screenVars, Desk!bgVars,
      Desktop!bgVars, Desk!windowVars, Desktop!windowVars
<1> QED BY <1>1, <1>2, <1>3

LEMMA DeskActions ==
  ASSUME NEW s \in Screen
  PROVE  /\ Desktop!ScreenAdded(s) <=> Desk!ScreenAdded(s)
         /\ Desktop!ScreenRemoved(s) <=> Desk!ScreenRemoved(s)
         /\ Desktop!GeometryChanged(s) <=> Desk!GeometryChanged(s)
<1>1. Desktop!ScreenAdded(s) <=> Desk!ScreenAdded(s)
  BY DEF Desk!ScreenAdded, Desktop!ScreenAdded, Desk!NewBackground,
      Desktop!NewBackground, Desk!ToPrimary, Desktop!ToPrimary,
      Desk!SetOnBackground, Desktop!SetOnBackground, Desk!NowhereAfterAdd,
      Desktop!NowhereAfterAdd, Desk!Live, Desktop!Live, Desk!Bg, Desktop!Bg,
      Desk!NoBg, Desktop!NoBg
<1>2. Desktop!ScreenRemoved(s) <=> Desk!ScreenRemoved(s)
  BY DEF Desk!ScreenRemoved, Desktop!ScreenRemoved, Desk!Erase, Desktop!Erase,
      Desk!ToPrimary, Desktop!ToPrimary, Desk!SetOnBackground,
      Desktop!SetOnBackground, Desk!NowhereAfterRemoval,
      Desktop!NowhereAfterRemoval, Desk!NoBg, Desktop!NoBg
<1>3. Desktop!GeometryChanged(s) <=> Desk!GeometryChanged(s)
  BY DEF Desk!GeometryChanged, Desktop!GeometryChanged, Desk!ResizeEvent,
      Desktop!ResizeEvent, Desk!NoBg, Desktop!NoBg
<1> QED BY <1>1, <1>2, <1>3

LEMMA DesktopAssumption == Desk!ScreensAssumption
BY FormsAssumption, DeskState

LEMMA DesktopStep ==
  [Desktop!Next]_(Desktop!vars) => [Desk!Next]_(Desk!vars)
<1> SUFFICES ASSUME [Desktop!Next]_(Desktop!vars) PROVE [Desk!Next]_(Desk!vars)
  OBVIOUS
<1>1. CASE Desktop!OtherNext
  BY <1>1, DeskOthers DEF Desk!Next
<1>2. ASSUME NEW s \in Screen,
             Desktop!ScreenAdded(s) \/ Desktop!ScreenRemoved(s) \/ Desktop!GeometryChanged(s)
      PROVE  Desk!Next
  BY <1>2, DeskActions DEF Desk!Next
<1> QED BY <1>1, <1>2, DeskOthers DEF Desktop!Next

\* slotScreenAdded(), slotScreenRemoved(), slotScreenGeometryChanged() and
\* enterEvent(), in any order and with any primary screen: the login window is
\* not deleted with a background, has the size of its screen, and leaves it only
\* if the screen goes or the mouse is elsewhere. It is on a screen whenever there
\* is one and none of those present was ignored by init(); if some were, it is so
\* at least after each coming and going of a screen that leaves the primary
\* screen with a background.
THEOREM WindowOnScreen == Spec => WindowHasItsScreen
<1> DEFINE Inv == part = "desktop" => Desk!ScreensInv
           Step == (Desk!StaysPutStep /\ Desk!ShownStep) \/ UNCHANGED Desktop!vars
<1>1. Init => Inv
  BY DesktopAssumption, DeskStarts, Desk!ScreensStart DEF Init
<1>2. Inv /\ [Next]_vars => Inv' /\ Step
  <2> SUFFICES ASSUME Inv, [Next]_vars PROVE Inv' /\ Step
    OBVIOUS
  <2>1. CASE part' = "desktop"
    <3>1. part = "desktop" /\ [Desktop!Next]_(Desktop!vars)
      BY <2>1 DEF Next, Only, vars, desktopVars, Desktop!vars, Desktop!screenVars,
         Desktop!bgVars, Desktop!windowVars
    <3> QED BY <2>1, <3>1, DesktopAssumption, DesktopStep, Desk!ScreensKeeps
  <2>2. CASE part' # "desktop"
    BY <2>2 DEF Next, Only, vars, desktopVars, Desktop!vars, Desktop!screenVars,
       Desktop!bgVars, Desktop!windowVars
  <2> QED BY <2>1, <2>2
<1>3. Inv => (part = "desktop" => /\ Desktop!TypeOK /\ Desktop!OnLiveBackground
                                  /\ Desktop!ShownUnlessIgnored /\ Desktop!WindowFits)
  BY DeskState DEF Desk!ScreensInv
<1>4. Step => [parent # Desktop!NoBg /\ parent' # parent
                 => parent \in dying' \/ mouse' # mouse]_(Desktop!vars)
  BY DeskState DEF Desk!StaysPutStep
<1>5. Step => [screens' # screens /\ Desktop!BackgroundOf(primary)' # Desktop!NoBg
                 => parent' # Desktop!NoBg]_(Desktop!vars)
  BY DEF Desk!ShownStep, Desk!BackgroundOf, Desktop!BackgroundOf, Desk!NoBg, Desktop!NoBg
<1> HIDE DEF Inv, Step
<1> QED BY <1>1, <1>2, <1>3, <1>4, <1>5, PTL DEF Spec, WindowHasItsScreen,
           Desktop!StaysPut, Desktop!ShownAfterChange
=============================================================================
