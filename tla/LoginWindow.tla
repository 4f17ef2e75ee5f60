----------------------------- MODULE LoginWindow -----------------------------
(***************************************************************************)
(* lightdm-greeter/src/greeter-login-window.cpp: the login window of the   *)
(* greeter, composed with the user list (UserListWidget), LightDM's greeter*)
(* object behind AuthLightdm, and what AuthProxy and its queue do between  *)
(* them (see AuthProxy, AuthMsgQueue and OrderedDelivery).                 *)
(*                                                                         *)
(* The functions of the window call one another, the list and the greeter  *)
(* within one event: all of it is one record `s', and each function an     *)
(* operator from the record before to the record after. An event of the    *)
(* GUI thread is an action; the daemon and the dispatcher run beside it.   *)
(* A stop of the dispatcher may let out the message it holds: `slip'.      *)
(***************************************************************************)
EXTENDS UserListWidget

CONSTANTS Hints,        \* what autologinUserHint() may be, NoUser for none
          MaxAttempts,  \* bound: authentications started
          MaxPrompts    \* bound: prompts in each of them

ASSUME LoginAssumption == /\ Hints \subseteq User \cup {NoUser}
                          /\ MaxAttempts \in Nat \ {0} /\ MaxPrompts \in Nat

VARIABLES
  users,   \* rows of m_filterModel, the window's and the list's
  conf,    \* m_noListButotnVisiable, m_showUserList and the user of
           \* autologinUserHint(), set once
  s,       \* list, window, greeter object and queue
  timer,   \* LightDM's autologin timer: "running", "off", "expired"
  session  \* user whose session was started, NoUser before

vars == <<users, conf, s, timer, session>>

Message == [kind : {"prompt", "complete"}, ok : BOOLEAN, attempt : Nat]

\* Everything one event can change.
State == [
  list      : List,
  mode      : {"list", "manual"},               \* m_loginMode
  button    : {"switch", "return"},             \* m_buttonType
  shown     : BOOLEAN,                          \* btn_notListAndCancel is visible
  input     : {"unset", "name", "respond"},     \* m_inputMode
  page      : {"edit", "autologin", "reauth"},  \* which of the three is visible
  enabled   : BOOLEAN,                          \* the prompt edit is
  label     : User \cup {NoUser},               \* label_userName
  prompted  : BOOLEAN,                          \* m_havePrompted
  attempt   : Nat,                              \* authentications started
  user      : User \cup {NoUser},               \* authenticationUser()
  inAuth    : BOOLEAN,                          \* inAuthentication()
  cancelled : BOOLEAN,                          \* cancelAuthentication() was called
  isAuth    : BOOLEAN,                          \* isAuthenticated()
  waiting   : BOOLEAN,                          \* a prompt awaits its reply
  prompts   : Nat,                              \* prompts in this attempt
  running   : BOOLEAN,                          \* the dispatcher is started
  pending   : Seq(Message),                     \* in the queue
  posted    : Seq(Message)]                     \* in the GUI's event loop

-----------------------------------------------------------------------------
(* AuthLightdm and LightDM's greeter object, with AuthProxy's queue *)

\* Mutant: the queue is stopped and not emptied.
StopDispatcherFull(t, slip) == [t EXCEPT !.running = FALSE]

\* stopDispatcher(): what is in the queue is dropped, at most one message is
\* let out first.
StopDispatcher(t, slip) ==
  LET out == IF t.running /\ t.pending # <<>> THEN slip ELSE 0
  IN  [t EXCEPT !.posted  = @ \o SubSeq(t.pending, 1, out),
                !.pending = <<>>, !.running = FALSE]

StartDispatcher(t) == [t EXCEPT !.running = TRUE]

\* AuthProxy::authenticate(): the queue is reset, LightDM starts over. What it
\* had to say of an earlier attempt it will not say any more.
Authenticate(t, u, slip) ==
  [StartDispatcher(StopDispatcher(t, slip)) EXCEPT
     !.attempt = @ + 1, !.user = u, !.inAuth = TRUE, !.cancelled = FALSE,
     !.isAuth = FALSE, !.waiting = FALSE, !.prompts = 0]

\* AuthProxy::cancelAuthentication(), if there is something to cancel. LightDM
\* remains in authentication until the daemon reports the end.
CancelIfBusy(t, slip) ==
  IF t.inAuth THEN StopDispatcher([t EXCEPT !.cancelled = TRUE, !.waiting = FALSE], slip)
  ELSE t

\* Nothing is sent when no attempt is under way.
Respond(t) == IF t.inAuth THEN [t EXCEPT !.waiting = FALSE] ELSE t

-----------------------------------------------------------------------------
(* The window's functions *)

\* Mutant: the name of the user before is left standing.
StartAuthUserUnnamed(t, u, slip) ==
  LET fresh == [CancelIfBusy(t, slip) EXCEPT !.prompted = FALSE]
  IN  IF u = conf.hint THEN [fresh EXCEPT !.page = "autologin"]
      ELSE Authenticate([fresh EXCEPT !.page = "edit", !.enabled = FALSE], u, slip)

\* Mutant: an attempt under way goes on.
StartAuthUserBusy(t, u, slip) ==
  IF t.inAuth THEN [t EXCEPT !.prompted = FALSE, !.label = u]
  ELSE IF u = conf.hint THEN [t EXCEPT !.prompted = FALSE, !.label = u, !.page = "autologin"]
  ELSE Authenticate([t EXCEPT !.prompted = FALSE, !.label = u, !.page = "edit",
                              !.enabled = FALSE], u, slip)

\* startAuthUser(); the prompt will enable the edit.
StartAuthUser(t, u, slip) ==
  LET fresh == [CancelIfBusy(t, slip) EXCEPT !.prompted = FALSE, !.label = u]
  IN  IF u = conf.hint THEN [fresh EXCEPT !.page = "autologin"]
      ELSE Authenticate([fresh EXCEPT !.page = "edit", !.enabled = FALSE], u, slip)

\* Mutant: the user of the first item is authenticated.
UserActivatedFirst(t, slip) ==
  IF t.list.emitted = "activated" THEN StartAuthUser(t, t.list.rows[1], slip) ELSE t

\* What the list emits reaches the window at once: slotUserActivated().
UserActivated(t, slip) ==
  IF t.list.emitted = "activated" THEN StartAuthUser(t, t.list.sel, slip) ELSE t

\* resetUIForUserListLogin(): whoever is selected is authenticated.
ResetUIForUserListLogin(t, slip) ==
  LET cleared == [CancelIfBusy(t, slip) EXCEPT
                    !.button = "switch", !.shown = conf.noList, !.label = NoUser,
                    !.page = "edit", !.enabled = TRUE, !.mode = "list",
                    !.list = SwitchOn(@)]
  IN  IF cleared.list.sel = NoUser THEN cleared
      ELSE StartAuthUser(cleared, cleared.list.sel, slip)

\* Mutant: the edit keeps its purpose.
AskNameNot(t) == t

AskName(t) == [t EXCEPT !.input = "name"]

\* resetUIForManualLogin()
ResetUIForManualLogin(t, slip) ==
  AskName([CancelIfBusy(t, slip) EXCEPT
             !.button = "return",
             !.shown = conf.showList /\ UserCount(t.list) > 0,
             !.label = NoUser, !.page = "edit", !.enabled = TRUE,
             !.list = SwitchOff(@), !.mode = "manual"])

\* Mutant: the button is renamed in every mode.
ReturnIfManualAlways(t) == [t EXCEPT !.label = t.user, !.button = "return", !.shown = TRUE]

\* The user of a manual login is named, and the button leads back.
ReturnIfManual(t) ==
  IF t.mode = "manual" THEN [t EXCEPT !.label = t.user, !.button = "return", !.shown = TRUE]
  ELSE t

\* slotShowprompt()
ShowPrompt(t) ==
  [ReturnIfManual(t) EXCEPT !.enabled = TRUE, !.input = "respond", !.prompted = TRUE]

\* Mutant: the failed user is not tried again.
FailedNot(t, slip) == t

\* slotAuthenticationComplete() for a failure
Failed(t, slip) == IF t.prompted THEN StartAuthUser(t, t.user, slip)
                   ELSE [t EXCEPT !.page = "reauth"]

\* The window's handlers of the model's signals: rowsInserted, ...
WindowRowInserted(t, us) ==
  IF Len(us) = 1 /\ conf.showList /\ t.mode = "manual" /\ ~t.isAuth
  THEN [t EXCEPT !.shown = TRUE] ELSE t

\* ... and rowsRemoved.
WindowRowRemoved(t, us, slip) ==
  IF us = <<>> THEN ResetUIForManualLogin(t, slip) ELSE t

ListRowInserted(t, us, i, slip) ==
  UserActivated([t EXCEPT !.list = RowInserted(Silent(@), us, i)], slip)

\* sigRequestResetUI and userActivated are connected to the window.
ListRowRemoved(t, i, slip) ==
  LET r == [t EXCEPT !.list = RowRemoved(Silent(@), i)]
  IN  IF r.list.emitted = "reset" THEN ResetUIForUserListLogin(r, slip)
      ELSE UserActivated(r, slip)

-----------------------------------------------------------------------------
(* The start: initSettings() is the last thing the constructor does *)

\* Preferences as the backend has them, or both allowed if it does not answer.
Settings == {[noList |-> allow, showList |-> ~allow \/ ~hide, hint |-> u] :
               allow \in BOOLEAN, hide \in BOOLEAN, u \in Hints}

Constructed(us) ==
  [list |-> LoadUserList(us), mode |-> "list", button |-> "switch", shown |-> TRUE,
   input |-> "unset", page |-> "edit", enabled |-> TRUE, label |-> NoUser,
   prompted |-> FALSE, attempt |-> 0, user |-> NoUser,
   inAuth |-> FALSE, cancelled |-> FALSE, isAuth |-> FALSE, waiting |-> FALSE,
   prompts |-> 0, running |-> TRUE, pending |-> <<>>, posted |-> <<>>]

InitSettings(us) == IF conf.showList /\ us # <<>>
                    THEN ResetUIForUserListLogin(Constructed(us), 0)
                    ELSE ResetUIForManualLogin(Constructed(us), 0)

\* LightDM runs its timer unless the user is logged in already.
LoginInit == /\ conf \in Settings
             /\ users \in {us \in SeqOf(User, 2) : IsInjective(us)}
             /\ s = InitSettings(users)
             /\ timer \in {"running", "off"}
             /\ session = NoUser

-----------------------------------------------------------------------------
(* The daemon and the dispatcher *)

Env == UNCHANGED <<users, conf, timer, session>>

\* The daemon prompts, ...
Prompt == /\ s.inAuth /\ ~s.cancelled /\ ~s.waiting /\ s.prompts < MaxPrompts
          /\ s' = [s EXCEPT !.waiting = TRUE, !.prompts = @ + 1,
                            !.pending = Append(@, [kind |-> "prompt", ok |-> FALSE,
                                                   attempt |-> s.attempt])]
          /\ Env

\* ... or reports the end; that of a cancelled attempt is a failure.
End(ok) == /\ s.inAuth /\ (ok => ~s.cancelled /\ ~s.waiting)
           /\ s' = [s EXCEPT !.inAuth = FALSE, !.isAuth = ok, !.waiting = FALSE,
                             !.pending = Append(@, [kind |-> "complete", ok |-> ok,
                                                    attempt |-> s.attempt])]
           /\ Env

HandOver == /\ s.running /\ s.pending # <<>>
            /\ s' = [s EXCEPT !.posted = Append(@, Head(s.pending)), !.pending = Tail(@)]
            /\ Env

-----------------------------------------------------------------------------
(* Events of the window *)

\* An event leads to t. Bound: the number of attempts.
Becomes(t) == t.attempt <= MaxAttempts /\ s' = t

Slip == {0, 1}

Taken == [s EXCEPT !.posted = Tail(@)]

PromptArrives == /\ s.posted # <<>> /\ Head(s.posted).kind = "prompt"
                 /\ s' = ShowPrompt(Taken)
                 /\ UNCHANGED <<users, conf, timer, session>>

FailureArrives == /\ s.posted # <<>> /\ Head(s.posted).kind = "complete"
                  /\ ~Head(s.posted).ok
                  /\ \E slip \in Slip : Becomes(Failed(Taken, slip))
                  /\ UNCHANGED <<users, conf, timer, session>>

\* startSessionSync() fails unless LightDM's last attempt has succeeded.
SuccessArrives == /\ s.posted # <<>> /\ Head(s.posted).kind = "complete"
                  /\ Head(s.posted).ok
                  /\ s' = Taken
                  /\ session' = IF s.isAuth THEN s.user ELSE NoUser
                  /\ UNCHANGED <<users, conf, timer>>

\* slotTextConfirmed(): a reply, or the name of a user.
Confirm == /\ s.page = "edit" /\ s.enabled
           /\ \/ s.input # "name" /\ s' = Respond(s)
              \/ /\ s.input # "respond"
                 /\ \E u \in User, slip \in Slip : Becomes(StartAuthUser(s, u, slip))
           /\ UNCHANGED <<users, conf, timer, session>>

\* slotButtonClicked()
ButtonClicked ==
  /\ s.shown
  /\ \E slip \in Slip :
       Becomes(IF s.button = "return" /\ s.input = "name"
               THEN ResetUIForUserListLogin(s, slip) ELSE ResetUIForManualLogin(s, slip))
  /\ UNCHANGED <<users, conf, timer, session>>

ReAuthClicked ==
  /\ s.page = "reauth"
  /\ \E slip \in Slip :
       Becomes(IF s.mode = "list" THEN ResetUIForUserListLogin(s, slip)
               ELSE ResetUIForManualLogin(s, slip))
  /\ UNCHANGED <<users, conf, timer, session>>

\* Neither cancels what is under way.
AutologinClicked == /\ s.page = "autologin"
                    /\ \E slip \in Slip : Becomes(Authenticate(s, conf.hint, slip))
                    /\ UNCHANGED <<users, conf, timer, session>>

AutologinTimerExpired ==
  /\ timer = "running" /\ timer' = "expired"
  /\ \E slip \in Slip : Becomes(IF conf.hint = NoUser THEN s ELSE Authenticate(s, conf.hint, slip))
  /\ UNCHANGED <<users, conf, session>>

UserClicked ==
  /\ s.list.on /\ s.list.several
  /\ \E i \in 1..UserCount(s.list), slip \in Slip :
       Becomes(UserActivated([s EXCEPT !.list = SetCurrentRow(Silent(@), i)], slip))
  /\ UNCHANGED <<users, conf, timer, session>>

\* A user is added or removed. The window and its list each have a model of
\* their own, which LightDM tells one after the other.
UserAdded ==
  \E u \in User, i \in 1..Len(users) + 1, slip \in Slip :
    /\ ~Contains(users, u)
    /\ users' = InsertAt(users, i, u)
    /\ \/ Becomes(ListRowInserted(WindowRowInserted(s, users'), users', i, slip))
       \/ Becomes(WindowRowInserted(ListRowInserted(s, users', i, slip), users'))
    /\ UNCHANGED <<conf, timer, session>>

UserRemoved ==
  \E i \in 1..Len(users), slip \in Slip :
    /\ users' = RemoveAt(users, i)
    /\ \/ Becomes(ListRowRemoved(WindowRowRemoved(s, users', slip), i, slip))
       \/ Becomes(WindowRowRemoved(ListRowRemoved(s, i, slip), users', slip))
    /\ UNCHANGED <<conf, timer, session>>

-----------------------------------------------------------------------------
WindowStep == PromptArrives \/ FailureArrives \/ SuccessArrives

UserStep == Confirm \/ ButtonClicked \/ ReAuthClicked \/ AutologinClicked \/ UserClicked

\* The greeter is gone once a session is started.
LoginNext == /\ session = NoUser
             /\ \/ Prompt \/ (\E ok \in BOOLEAN : End(ok)) \/ HandOver
                \/ WindowStep \/ UserStep
                \/ AutologinTimerExpired \/ UserAdded \/ UserRemoved

LoginSpec == LoginInit /\ [][LoginNext]_vars

\* The GUI thread serves its event loop and the dispatcher hands over.
LoginFairSpec == LoginSpec /\ WF_vars(session = NoUser /\ WindowStep)
                           /\ WF_vars(session = NoUser /\ HandOver)

-----------------------------------------------------------------------------
(* Properties *)

\* Types.
LoginTypeOK == /\ users \in Seq(User)
               /\ conf \in Settings
               /\ s.list.rows \in Seq(User) /\ s.list.sel \in Range(s.list.rows) \cup {NoUser}
               /\ \A k \in {"mode", "button", "input", "page"} :
                    s[k] \in {"list", "manual", "switch", "return", "unset", "name",
                             "respond", "edit", "autologin", "reauth"}
               /\ {s.label, s.user, session} \subseteq User \cup {NoUser}
               /\ s.attempt \in 0..MaxAttempts
               /\ \A q \in {s.pending, s.posted} : \A m \in Range(q) :
                    m \in Message /\ m.attempt \in 1..s.attempt
               /\ timer \in {"running", "off", "expired"}

\* What slotButtonClicked() and the handler of sigRequestResetUI assert: the
\* button fits the mode, and it leads to a list only where lists are allowed.
ButtonsFitMode ==
  /\ (s.button = "switch") <=> (s.mode = "list")
  /\ s.list.on <=> (s.mode = "list")
  /\ s.shown /\ s.button = "return" /\ s.input = "name" => conf.showList

\* m_inputMode, which the constructor does not set, is set before a text can
\* be confirmed, unless the list is on but empty.
EditPurposeKnown == s.page = "edit" /\ s.enabled /\ s.list.rows # <<>> => s.input # "unset"

\* Button, list and edit are always in a combination that the slots provide for.
ControlsFitMode == LoginTypeOK /\ ButtonsFitMode /\ EditPurposeKnown

\* What waits in the queue of a started dispatcher is of the last attempt, and
\* as long as that attempt is not cancelled the dispatcher is started.
PendingIsCurrent ==
  /\ s.running => \A m \in Range(s.pending) : m.attempt = s.attempt
  /\ s.inAuth /\ ~s.cancelled => s.running

\* At the edit it is the user whose name is shown who is authenticated, so that
\* no reply goes to another, unless the autologin timer started the attempt.
ShownIsAuthenticated ==
  (s.page = "edit" /\ s.inAuth /\ ~s.cancelled /\ timer # "expired") => s.label = s.user

\* With a list to choose from it is the user selected, or the autologin user is
\* (a failure of the user before, on its way then, starts that one again).
SelectedIsAuthenticated ==
  (s.mode = "list" /\ s.list.rows # <<>> /\ s.inAuth /\ ~s.cancelled /\ timer # "expired")
    => s.list.sel \in {s.user, conf.hint}

\* Name, selection and attempt belong together while the attempt lasts.
AttemptIsShown == ShownIsAuthenticated /\ SelectedIsAuthenticated

\* A session is started for nobody but the user whose name is shown at the
\* edit, if any, although a success may be reported before the last clicks are
\* handled. (Whoever selects the autologin user then still gets the session of
\* the user before: there is no attempt left to be cancelled.)
SessionIsShown ==
  session # NoUser /\ timer # "expired" /\ s.page = "edit" => s.label \in {session, NoUser}

\* Users who come and go do not disturb a manual login while one is left.
ManualIsLeftAlone ==
  [][(users' # users /\ s.mode = "manual" /\ users' # <<>>) =>
       /\ s'.attempt = s.attempt /\ s'.label = s.label /\ s'.input = s.input
       /\ s'.mode = "manual"]_vars

\* The end of an attempt is not the end of the login: a session is started, the
\* user is authenticated again or offered to be, or a name is asked for.
ReportLeadsOn ==
  \A n \in 1..MaxAttempts - 1 :
    (s.attempt = n /\ ~s.inAuth /\ s.running)
      ~> (session # NoUser \/ s.attempt # n \/ s.page # "edit" \/ s.label = NoUser)

\* The assertion of slotButtonClicked() about m_noListButotnVisiable: "return"
\* leads from a prompt to manual login, where that is allowed.
ReturnOnlyToManual ==
  (s.shown /\ s.button = "return" /\ s.input = "respond") => conf.noList
=============================================================================
