# kiran-session-guard in TLA+

kiran-session-guard authenticates the user of a Kylinsec desktop: a greeter for
LightDM logs in, a dialog unlocks the screensaver. This directory models the
parts of it in which several threads, processes or event sources meet. TLC
checks small instances; TLAPS proves what matters most for all of them.

## The system

| part | state it keeps | operations | works with |
|---|---|---|---|
| message queue (`lib/auth-proxy/auth-msg-queue`) | queue, semaphore, thread, display time | append, start, stop, dispatch | two threads: the GUI's and its own |
| PAM attempts (`lib/auth-proxy/auth-pam`) | child's pid, pipe descriptors, three flags, notifier | authenticate, respond, cancel, pipe handler, child exit | one child process per attempt |
| checkpass child (`libexec/session-guard-checkpass`) | PAM handle | conversation, Complete event, exit | two pipes, PAM |
| message framing (`checkpass-common`) | what a pipe holds | send and receive an event | both ends of the pipes |
| authentication proxy (`lib/auth-proxy/auth-proxy`) | session id, prompt origin, error flag | authenticate, respond, cancel, one slot per signal | an `AuthBase`, the queue, the biometric service on D-Bus |
| LightDM backend (`lib/auth-proxy/auth-lightdm`) | none of its own | the same, over QLightDM | LightDM daemon |
| screensaver dialog | page shown, animation | start, prompt, completion, re-authenticate, fade | proxy, mate-screensaver |
| login window, user list, screens | user selected, page, rows, backgrounds | activate, type, insert and remove rows and screens | proxy with LightDM, QLightDM models, Qt screens |
| caps lock observer | X record thread, state | start, stop, callback | X server |
| output hotplug filter | connections seen, a timer | filter an event, reconfigure | RandR, Qt's screens |
| greeter settings | form, last values read | load, save, reset | settings and accounts services on D-Bus |
| hover tips, prompt edit, menus | a timer; text, mode and lock; what is open | show, hide; type, confirm, reset; press | the windows that own them |
| widgets, start-up, preferences | presentation | | |

What is hard in it: the GUI thread and the dispatcher share a queue, a semaphore
and a condition; a child process can die at any point of the exchange; a signal
posted to an event loop outlives the attempt that caused it; flags of one attempt
are read in the next; rows, screens and settings change under a selection.
`PROJECT.json` lists these hazards by line with the properties aimed at them.

What makes each part correct:

- queue: messages in order, once, paced; none lost outside a stop; nothing left
  behind by a stop; a stop returns.
- attempts: handles of a live attempt are its own; one child works; success only
  from the attempt's own child; one report, and always one, per attempt;
  descriptors bounded.
- proxy and dialogs: what is shown, answered and acted upon belongs to the
  current attempt and the current user; an attempt that fails leaves a way on.
- lists, screens and settings: index and selection agree with the rows, the
  window lives on an existing screen, a save overwrites no unseen change.

## Modules

| module | models | kind |
|---|---|---|
| `OrderedDelivery` | what the queue promises AuthProxy | abstract specification |
| `AuthMsgQueue` | `auth-msg-queue.cpp`, both threads | implementation, properties |
| `AuthMsgQueueProofs` | | theorems, refinement |
| `AuthPam` | `auth-pam.cpp`, `session-guard-checkpass/main.cpp`, the framing as whole events | implementation, properties |
| `AuthPamProofs` | | theorems |
| `Framing` | `pam-message.cpp`: lengths and texts in a pipe | implementation, properties |
| `AuthProxy` | `auth-proxy.cpp`: the proxy's part of each step, and the biometric service | fragments of actions |
| `ScreenSaver` | authentication flow of `screensaver-dialog.cpp`; composes `AuthPam` and `AuthProxy` | composition, properties |
| `ScreenSaverProofs` | | theorems, `ScreenSaver` implements `AuthPam` |
| `UserListWidget` | `user-list-widget.cpp`, `disabledeselectlistwidget.cpp`, as operators on a record | fragments of actions |
| `UserList` | the widget by itself, with the user's clicks and keys | properties |
| `LoginWindow` | `greeter-login-window.cpp`; composes `UserListWidget`, the LightDM backend and the queue | composition, properties |
| `UserListWidgetProofs` | | lemmas: what each function of the widget does and keeps |
| `LoginWindowProofs` | | theorems |
| `SettingsWindow`, `AutologinPage` | the two pages of `greeter-setting-window.cpp`, `dbusapi.cpp` | implementation, properties |
| `Screens` | `greeter-screen-manager.cpp`, `greeter-background.cpp` | implementation, properties |
| `ScreensProofs` | | lemmas: the inductive invariant of `Screens` |
| `Hotplug` | `app-native-event-filter.cpp`, composed with `Screens` | composition, properties |
| `CapsLock` | `capslock-snoop.cpp` and the window's callback, both threads | implementation, properties |
| `Fade` | the fade of `screensaver-dialog.cpp` | implementation, properties |
| `HoverTips`, `PromptEdit`, `Menus` | `hover-tips.cpp`; `prompt-edit.cpp`; the menus of both windows and their filter | implementation, properties |
| `MCQueue`, `MCPam`, `MCSaver`, `MCLogin` | | instances of one composition each |
| `MCForms` | `SettingsWindow`, `AutologinPage`, `Screens` | instances side by side |
| `FormsProofs` | | theorems about these three |
| `MCParts` | `UserList`, `Hotplug`, `CapsLock`, `Fade`, `PromptEdit`, `Menus`, `HoverTips`, `Framing` | instances side by side |
| `PartsProofs` | | theorems about these eight |

The parts of `MCForms` share no state, nor do those of `MCParts`: they are
windows of different programs, or meet only inside a composition that has a run
of its own (`LoginWindow`, `Hotplug`). Their interleavings would say nothing, so a
behaviour there is one of the part named by `part`, and the other parts' variables
rest where they began. What they state is put together by part: each property of
`MCParts` is the conjunction of a part's type invariant, invariants and action
properties, which its module states and comments one by one (`ShownAsMeant` that of
the fade and the tips); `PartsGoOn` is the conjunction of the liveness properties.

### AuthMsgQueue

Two threads share `m_queue`, `m_queueSem` and the condition `m_cancelWaitCond`.
The variables `gui` and `worker` are the places of the GUI thread inside
`append()`/`stopDispatcher()` and of the dispatcher inside `doDispatcher()`; an
action goes from one point at which the other thread can intervene to the next.
`acquire(available())` is two actions, because it is two calls. `queue`, `sem`,
`havePrompted` are the members; `running`, `interrupted`, `exited`, `calls` are
the state of the QThread and its event queue; `posted` is the GUI's event queue,
which carries what the worker emits. `m_msgShowTime` is kept as the whole seconds
of uptime since then (`age`), because `sysinfo()` reports whole seconds while the
wait is timed in ticks (`remain`); `since`, `epoch`, `leaked` are history.

`m_cancelWaitMutex` is not modelled: nobody holds it when it is waited with or
unlocked, so it orders nothing. The two clock reads of one loop, and the
unsynchronised read and write of `m_msgShowTime`, are taken as atomic.
`setInterval()` is called before the first start; `Interval` is its value.

### AuthPam

The parent is single-threaded, so a handler is one action; children, pipes and
the process table move between any two. Attempts are numbered by fork. `pid`,
`inAuth`, `isAuth`, `hasSend`, `notifier`, `rfd`, `wfd` are the members.
`openFds` counts the pipe ends really open: a descriptor variable that was closed
keeps its number (`"stale"`), and closing it again is not counted. `proc` follows
a child from fork to reaping: it works, has closed its descriptors, is a zombie,
or is reaped; closing and becoming a zombie are two steps, because the parent can
see the end of file in between and `waitpid(WNOHANG)` then finds nothing. PAM is
free to prompt, to talk and to decide; a child may die in every state it works
in, which covers `main()`'s error returns, a failed `exec` and crashes. Pipes
keep their order and lose nothing but what is written to a dead child. Attempts
are cancelled only while under way (`ScreenSaverDialog::startAuth` asks first),
except by the destructor of the owner.

### Framing

One direction of one pipe, in cells as long as a length. `Write` is a step of a
`write()` in progress: all of a frame of at most `PIPE_BUF` bytes, any part of a
longer one. `read()` waits until there is something and takes no more than there
is, so a text can come up short; what is left of it is then taken for a length,
which as text is larger than any pipe. `AuthPam` closes the pipe after a failure,
the child leaves it to PAM whether to ask again. The edit takes 32767 characters,
so a reply can be longer than `PIPE_BUF`; `EventsArriveWhole` says what is lost
then, and that `AuthPam`, which has events arrive whole and in order, is right
otherwise.

### AuthProxy and ScreenSaver

Backend, proxy and dialog call each other directly through signals on the GUI
thread, so a step in which one emits is one step of all three: `PamSpeaks` is a
handler of `AuthPam` together with what the proxy puts into the queue, and
`DialogStep` is a delivery out of the queue together with the dialog's slot. In
between lie `pending` (queue and dispatcher) and `posted` (the event loop), moved
by the operators of `OrderedDelivery`, which `AuthMsgQueue` implements. A restart
is `stopDispatcher()` and `startDispatcher()` in one step: `pending` is emptied,
its oldest message may slip out (`StopLeaksAtMostOne` bounds it by one), and what
is posted stays. The hang that `queue_hang` shows is left to `AuthMsgQueue`.

`sid` and `promptFrom` are the proxy's members; `havePrompt` is the dialog's,
`page` says whether the prompt edit or the re-authentication button is visible,
`enabled` whether the prompt edit is. `m_haveErrorMsg` is never set and is no
variable. Calls of the biometric service block the GUI thread: `at` is the place
inside the handler of a prompt, at which children, the dispatcher and the service
go on and the GUI does not. `CreateAuth`, `StartAuth` and `StopAuth` may fail;
signals of a session arrive through `bus`, in order, while or after it runs. The
user may press the button of an enabled prompt edit at any time, also before the
prompt of the attempt is shown; then the reply waits in the pipe. `errorSaid`,
`madeFor`, `starts`, `startOk`, `shownFor` and the attempt noted in a message are
history that the properties compare.

The dialog is never closed in the model (`AuthPam!Destroy` is modelled there),
and the proxy always has its queue, as `initAuth()` gives it one.

### UserListWidget, UserList and LoginWindow

The window's functions call the list, the list's signals call the window, and
both call the greeter object, all within one event. So the state of all of them
is one record, each function an operator from the record before to the record
after, named as in the code, and an action is one event of the GUI thread: a
click, a key, a row inserted or removed, a prompt or completion delivered, a
timer. LightDM's daemon and the dispatcher move in between.

`sel` is the selected item of the list. A selection that changes emits
`userActivated`, unless the list is off: `selectionCommand()` of
`DisableDeselectListWidget` refuses selections without an event, which is why
the removal of the selected row selects nothing and `slotRowsRemoved()` selects
row 0 itself. The window's handlers of `rowsInserted` and `rowsRemoved` run
before the list's, in the order they were connected.

`Authenticate` resets the queue and makes LightDM forget what it had to say of
the attempt before; messages in the queue may slip out as in `ScreenSaver`, and
what is posted stays. `cancelAuthentication()` leaves `inAuthentication()` true
until the daemon reports the end (`cancelled`). `conf` is what
`initLightdmGreeter()` and `initSettings()` read once. `input` starts as
`"unset"`, because the constructor does not set `m_inputMode`. The autologin
timer starts an attempt without telling the window; properties that compare the
name shown with the user authenticated except it. Two things that a reader of the
properties should know: selecting the autologin user after another's success was
reported still starts that one's session, since no attempt is left to cancel
(`SessionIsShown` is therefore stated of the page with the edit); and when the
last user is removed the Return button may stay visible, leading to an empty list.

### SettingsWindow and AutologinPage

Every property of the service is read by a call of its own that may stay
unanswered and then reads as its type's default; every write is a blocking call
and a step, after which another program may change something. A write that
reports an error may have been carried out. `Switched` is `setChecked()` together
with the slot it triggers, so that loading a form passes through the feedback of
the two switches. The picture files, the factor that goes with the scale mode,
and the third scale mode are left out. The combo box of users is filled once,
with those the accounts service answered for: when it was too slow, the form
shows nobody, and saving it makes the automatic user nobody. `UserIsKept` and
`DelayIsKept` say when that cannot happen.

`loaded` is what the service really had when the form was loaded, which the code
does not know: it knows `m_origSettingInfo`, put together from the answers.
`OverwritesOnlySeen` follows every write, not the comparison: the setting it changes
must be as in `loaded`, whatever other programs, failing writes, resets and earlier
saves have done in between. Three cases are excepted, since the code does overwrite
there what nobody has seen: a change during the save, a setting that was not
answered at the load or at the click (`answered`), and a value that the page takes
for another (an unknown scale mode for `"auto"`, an unlisted user for nobody).

### Screens and Hotplug

Backgrounds are numbered objects, the map goes from screens to them, `parent` is
the window's. Qt has updated its list of screens and the primary one when it
emits `screenRemoved`. Nothing in the code follows `primaryScreenChanged`. A
screen whose physical size is empty is ignored by `init()` alone, so that it has
no background, and a window that is to go to it is nowhere, even while another
screen has a background: only the primary screen is asked. `ShownUnlessIgnored`
therefore speaks of the times when none of the screens present was ignored, and
`ShownAfterChange` of all others: when a screen comes or goes and the screen that
is then the primary one has a background, the window is shown. A background that is hidden and about to be deleted gets no
mouse. `Hotplug` adds the X server: an output is lit when `xrandr --auto` last
ran with a cable in it, an event carries the connection of its time, Qt and the
filter read it in the same step, the filter first.

### CapsLock, Fade, HoverTips, PromptEdit, Menus

`CapsLock`: `start()` is one step for each call in it that the recording thread
or a key press can come between; the argument of the callback is read in one step
and used in another. `missed` counts presses since the state was read that nobody
records. The label shows what the last callback said; a callback of `start()`
that lost the race is `raced`.

`Fade`: `m_animation` is external and moves the opacity by one in each `Tick`
while it runs; starting one that runs only turns it. A fade is `cut` when
animations are switched off while one to the other side runs (the dialog then is
fully visible whatever was asked for), or when a direct change of the opacity is
overwritten by an animation started before.

`HoverTips`: `hide()` does not stop the timer, `show()` does; `setTimeout(0)`
stops it and keeps the old timeout. `PromptEdit`: the windows' slots are actions
of their own, in the order the widget's methods are called in. `Menus`: places
are numbers, a menu an interval, and the window lies at an origin; the greeter's
filter maps the position of a press into the window, the saver's does not.

## Runs

| run | asks | result |
|---|---|---|
| `queue` | types, `PermitPerMessage`, `CleanAfterStop`, `StopLeaksAtMostOne`, `Spacing`, refinement of `OrderedDelivery`; every message gets out; a stop returns unless it loses one race | holds |
| `queue_hang` | a stop returns | violated: `available()`/`acquire()` race, the GUI thread hangs |
| `queue_stale` | no message older than a stop is delivered after it | violated: a message in hand or posted survives |
| `pam` | types, `LiveHandles`, `OnlyCurrentChildWorks`, `SuccessIsOwn`, `ReportedOnce`, `NoFdLeak`; an end is reported while no completion is noted | holds |
| `pam_silent` | every end is reported | violated: the note of an earlier attempt silences it |
| `saver` | types, `UnlockIsEarned`, `NothingStale`, `SessionIsCurrent`, `NoSpin`; a reported completion gets the user on | holds |
| `saver_button` | an attempt that fails to start shows the button | violated: the proxy ignores that it failed |
| `saver_error` | an error is made up only if there was none | violated: the flag is never set |
| `login` | button, edit and mode agree (`ControlsFitMode`); queue, name and selection belong to the attempt (`PendingIsCurrent`, `AttemptIsShown`); whose session is started (`SessionIsShown`); manual login is left alone (`ManualIsLeftAlone`); the end of an attempt leads on (`ReportLeadsOn`) | holds |
| `login_assert` | Return after a prompt leads to manual login only where it is allowed | violated: the list may become empty where it is not |
| `forms` | general page: it shows what was loaded, what nobody touched is kept (`UntouchedIsKept`), autologin page: user and delay are kept, no delay without its user (`AutologinIsKept`); both: what a save changes unasked is as it was when the form was loaded (`OverwritesOnlySeen`), "saved" is true (`SavedMeansStored`); screens: the window is on no background that is to be deleted, fits its screen and stays there, is shown while no screen present was ignored, and otherwise when a change of the screens leaves the primary one with a background (`WindowHasItsScreen`) | holds |
| `parts` | user list: rows are the model's, one is selected while the list is on, silence while it is off (`ListFollowsUsers`); hotplug: at rest no connected output is dark, the window fits its screen, and has one while none present was ignored (`PluggedIsShown`); caps lock: copy and label follow the lock, the thread ends before what it uses (`LabelFollowsLock`); fades and tips: a dialog at rest is seen after a fade in only, a tip has its time (`ShownAsMeant`); edit: locked until reset, the text sent is the text, font and mode agree (`OneAnswerPerPrompt`); menus: the session shown is the session started, a press outside closes and no more, one inside acts (`PressesMeetMenus`); framing: events come whole, in order and once unless they are too long or the pipe ends (`EventsArriveWhole`); an output is shown, the window returns, stops and fades end, tips go, a text follows its length (`PartsGoOn`) | holds |

`queue_stale` and `NothingStale` are worth reading together: the queue alone does
let old messages through a stop, yet the dialog starts over only when nothing is
on its way, so the screensaver never sees one.

The violations disagree with comments and an assertion in the code that
`PROJECT.json` quotes.

### Seen, but not kept as runs

Each of these was found with TLC while modelling; the models still show them, and
the properties that hold are stated around them.

- The wake-up of `stopDispatcher()` may come before the wait it should cut short
  (`auth-msg-queue.cpp:195`: the mutex is not held), so a stop can take a whole
  interval.
- In the greeter a prompt left over from the attempt before enables the edit
  before the new attempt has asked (`greeter-login-window.cpp:797`).
- After a user is inserted the Return button may be shown although a name has
  been confirmed (`greeter-login-window.cpp:385`).
- The two switches of the general page may both be loaded as off, a state in which
  the page itself never leaves them (`greeter-setting-window.cpp:612`).
- A change that another program makes between the comparison
  (`greeter-setting-window.cpp:439`) and the write (`:465`) is overwritten unseen.
- A login window that was nowhere, because the primary screen was ignored, does
  not go to a screen that is added (`greeter-screen-manager.cpp:73`, `:81`).
- The saver's filter compares the position of a press on the whole desktop with
  the menu's place in the window (`screensaver-dialog.cpp:490`), so off the origin
  a press in the menu closes it; `OutsideOnlyCloses` and `InsideActs` except this.

### Bounds

The queue is run with two kinds of message (prompt and other: the code
distinguishes no more), three messages (one in the worker's hand, one queued, one
being appended), two stops (so that a run follows a stop and is stopped again),
an interval of two seconds and two ticks per second (so that a second can be
partly over when a message is emitted). Attempts are run three at a time, so that
flags and stale handles of one meet the next and the one after, with one prompt or
message, one waiting reply and one half-failed pair of pipes. The screensaver is
run with two attempts (one that ends and one started by it), one prompt or message
per child, two sessions (one per attempt, so that a signal of the first can
arrive in the second), one signal and one reply of the user; `MaxReplies` is large
enough that no reply is ever refused. Half-failed pipes are left to `AuthPam`.
Because the fairness of these three does not restrict which steps can be taken,
one run per composition checks safety and liveness alike.

The login window is run with two users (one to be shown while the other is
authenticated), one of whom may be the autologin user, two attempts and one prompt
in each, so that a prompt and a completion of the first meet the second, and any
row may come and go. The list alone has three users, because the removal of a
selected row among two leaves no choice. Both settings pages have one change by
another program, at any moment, as many saves as one likes, and calls that fail;
of the reads of one load or save of the general page at most one
(`MaxUnanswered`) stays unanswered. Delays are 0, one the edit takes, one only
`toUInt()` takes and one too wide for that. Three screens are enough for two
that stay while one goes; a fourth background lets one be replaced before it is
deleted. Hotplug has two outputs and a few changes of a cable, enough for one to
be pulled and plugged while the timer of the other runs. `MCParts.cfg` gives a
fade, the lock, the tips, the edit and the menus as many steps, presses, windows,
timers, texts and places as the cases named in their modules need; the pipe holds
less than the longest frame, and one frame may be written at once.

Deadlock checking is off where the bounds end every behaviour (the queue, the
attempts, the saver, the login window, `parts`), and because the queue's GUI
thread can hang for good, which `queue_hang` shows.

### Fairness

`AuthMsgQueue!FairSpec` assumes that the GUI thread's event loop and calls in
progress go on, that the dispatcher thread is scheduled and that time passes;
nobody is obliged to append, start or stop. `AuthPam!FairSpec` assumes that the
event loop serves a readable pipe and that a child that has sent its result
exits; nobody is obliged to type, and PAM may take for ever.
`ScreenSaver!SaverFairSpec` assumes that the GUI thread serves its event loop,
that calls of the service return, and that the dispatcher hands over what is
pending (`queue` shows that it does); no child, user or service is obliged
to anything.

`LoginFairSpec` assumes that the GUI thread serves its event loop and the
dispatcher hands over what is pending, until a session is started. The others are
joined in `MCParts!Spec`. `Fade!Fairness` and `HoverTips!Fairness` assume that timers fire and animations run (for tips with
strong fairness, because a new tip takes the old timer away again and again).
`CapsLock!Fairness` assumes that the recording thread is scheduled, that a disabled
recording ends, and that a join returns when the thread has ended.
`FramingFairness` assumes that a write goes on when there is room and that what
can be read is read. `HotplugFairness` assumes that events are read, that the 300 ms timer fires and
that deletions posted are carried out. Nobody is obliged to click, type or plug.

## Proofs

Every safety property of every passing run is proved: types, invariants, action
properties and the two refinements. The proof modules use at most the assumptions on the
constants that the components state: naturals, an interval, a clock rate, a
duration and a number of attempts that are not zero, two kinds of messages, "none"
values that are not values, finitely many screens. The bounds of the runs stay in
the theorems as constants of any size. Most of the invariants are stronger than what
is checked; TLC finds each of them to hold on the instances of the runs.

`AuthMsgQueueProofs`: no checked invariant is inductive alone. `ControlInv` ties
the thread's flags to the GUI's place in a stop (after the join the thread is
gone, before it is interrupted). `HeldInv` ties the message in hand to the
worker's place. `PermitInv` follows the count of permits through the two calls of
the semaphore and the clearing. `LeakInv` says that after one emission the worker
is on its way to the interruption check. `PaceInv` says that the clock of whole
seconds runs less than one second ahead of the true time, and that a wait makes
up the difference; the multiplications by the clock rate are isolated in
`Products`, `AgeArithmetic` and `WaitArithmetic`. From the invariant follow all
safety properties of the run `queue`, and, with one lemma per step that changes what is
pending, that the two threads implement `OrderedDelivery`: pending is what the
worker holds followed by the queue.

`AuthPamProofs`: `ParentInv` says that notifier, flags and descriptors go with
the attempt under way, and that a success noted is a completion noted; `ChildInv`
says of every child that its pipe and its reports agree with how far it has come:
a Complete event is its last event, carries its verdict, and precedes any report.
`ParentInv` is why `handleChildExit()`, which reports whatever
`m_isAuthenticated` says, cannot report a success left behind: it reports only
when no completion is noted, and then no success is noted either.

`ScreenSaverProofs`: `Simulates` shows that every step of the composition is a
step of `AuthPam` or leaves its variables alone, so `IInv` carries over and
`SaverSpec => Spec` follows. `SInv` adds, in named parts, what the restart relies
on. `QueueInv`: a completion is the last message on its way, its attempt has been
reported, and if it says success a success was reported. `NothingStale` itself is
inductive with it: since a completion is last, the dialog acts on it with nothing
behind it (`CompletionAlone`), so every start finds an empty pipeline
(`StartAuthInv`). `HandlerInv` says that the handler of a prompt runs only in an
attempt not yet reported, which is why a session opened by it is current
(`SessionInv`), and a signal taken belongs to the attempt under way. `PamLink`
says that nothing is left to read of a reported attempt. `UnlockEarned` then
joins `PageInv` (the screen was unlocked after a success reported) with
`SuccessIsOwn` of `AuthPamProofs`. `FirstStartInv` uses that before the first
start nothing was ever said.

`UserListWidgetProofs` says what each function of the widget returns for the
rows and the selection: an insertion or removal keeps the order of the others,
a selected user who stays stays selected, and a widget that is on and has rows has a
selection (`Selecting`). It is used twice: for the widget alone and for the window.

`LoginWindowProofs`: `Current`, a predicate on the record of the window, the list,
the LightDM backend and the queue together, says that the queue holds messages of
the last attempt while the dispatcher is started, and that an attempt under way
and not cancelled finds it started. LightDM speaks of its last attempt only, even
after a cancel, so the first half rests on the reset: no function of the window
starts an attempt without emptying the queue. The second half rests on the order of
reset and restart in `authenticate()`. Every function of the window either leaves the queue's fields alone
(`SameQueue`) or empties the queue by `authenticate()` or `cancelAuthentication()`;
there is a lemma for each, and the actions are compositions of them, however a click,
a change of the list or a reply nests them.

The other properties of the window have the invariant `WInv`. Its parts are
predicates on the same record, because the functions call each other in the middle of an
event, where not all of it holds: `Sound` (types, queues, buttons, the list's
selection) holds at every call and is what each function may rely on; `Editable`
(with a list to choose from, the edit is open for an answer only), `Labelled` (the
label names the user under authentication, or, after a success, nobody else) and
`Chosen` (the selection is the user of the last attempt or the autologin user)
hold again when the event ends, unless the autologin timer has started an attempt
that nobody asked for. `Labelled` alone would not be kept by a click on the list,
nor `Chosen` by a removal of the selected row: both need that the list's handlers
start an attempt for whoever is selected, which is what the lemmas about the nested
calls say. `EnvInv` adds whose session was started.

`FormsProofs`, general page: a save is followed field by field. `OrigIsLoaded` says
that what was answered at the load is what was stored then, `SeenIsLoaded` that a save
which asked nothing found the same again, and `FoundOrWritten` that each setting is as
found or as the form has it, and as found until its turn comes: from the three follows
`OverwritesOnlySeen`. `WrittenSoFar` says that without an error all fields before the
current one are written; `SavedIsVerdict` ties the tip to the last of them.
`FormShowsOrig` is the counterpart in the form, and needs `BothOffIsBackend` for the two
switches that turn each other on. Autologin page: `AnswersAreOrig` and
`AnswersAreLoaded` are the first two of these again, `UserThenDelay` is the order of the
two writes; without it a delay could be stored for a user who is not. Screens:
`WindowHasItsScreen` follows from `ScreensProofs`.

`ScreensProofs`: `TypeOK`, `OnLiveBackground`, `ShownUnlessIgnored` and `WindowFits` are
inductive together. `TypeOK` holds that no two screens share a background, so
deleting one cannot take the window's parent when the window has moved; `StaysPut`
needs `OnLiveBackground`. `ShownAfterChange` is proved of the two slots alone, which
both end in `ToPrimary`. All is proved about `Screens` by itself and carried into
`MCForms` and, since `Hotplug` takes over its steps, into `MCParts`.

`PartsProofs`, by part.
- Prompt edit: `OneAnswerPerPrompt` is inductive, per record: what is sent equals the
  text, which only `reset()` and `clear()` change once it is sent.
- Menus: types and `SessionIsChecked` are inductive; the action properties follow per step.
- User list: `ListInv` adds that no user has two rows; without it the removal of a
  row would not be the removal of a user.
- Fade: the three invariants are inductive together.
- Caps lock: `CapsThreads` ties the thread's place to the window's (the displays are open
  while there is a thread, only a thread that listens records); `CapsCopy` follows the
  parity of presses pending and missed from before the thread starts; `CapsLabel`
  says from when on the label is the copy, the callback of `start()` and that of
  the thread being two that may cross.
- Tips: while a tip is seen, its age and what is left of its timer make its time.
- Hotplug: `PlugsInv`. Of each output, either Qt and the filter know it as it is, or
  the last notice about it tells how it is now; and if one that is plugged in is
  dark, the timer runs or a notice on its way will start it. `NothingDark` says this
  only of an empty queue of notices, and is far from inductive.
- Framing: `FramesInv` speaks of the cells in the pipe and those still to be written
  as one stream. `InOrder` says that a cell is followed by its successor and how far
  apart two cells are (`Ahead`), so that a piece can be cut off anywhere without an
  induction; `NotYet` that nothing received is still on its way; `FitsNext` that a
  length that fits the pipe is that of the text that follows; `InStep` that until a
  failure the reader is where the writer thinks; `NotSplit` that short frames are
  written whole.

Only model-checked: the liveness properties (`EventuallyEmitted`,
`StopReturnsUnlessRace`, `EndIsReported`, `ReportLeadsOn`, `PartsGoOn`), because the
prover has no rule for fairness over ENABLED; `OrderedDelivery` as seen by the
proxy's restart (`ResetQueue` merges a stop and a start); and the violated
properties.

## Plan

Done: everything listed above. Left, in this order:

1. The restart of the queue in two steps, and that the composition with it still
   implements `OrderedDelivery`.
2. An abstract channel of whole events that `Framing` implements for short events, in
   place of the argument from `EventsArriveWhole`.
3. `StaysPut` while cables are pulled.
4. The change of the authentication type and the proxy without a queue.

## Not modelled

Style, translations, avatars, logging, clock, virtual keyboard and process start-up
(scaling included): presentation, or pure input and output, without state whose
order can go wrong. Num Lock is set once. `getIsLoggedIn()` words a label; at the start
it also decides `cancelAutologin()` (`greeter-login-window.cpp:415`), for which
`LoginWindow` has starts with the timer `"off"`.
The contents of texts, pictures and names are left out everywhere. The choice of
the authentication type (`handleAuthServiceAuthMethodChanged`) changes an avatar
only.
