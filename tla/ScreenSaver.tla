---------------------------- MODULE ScreenSaver ----------------------------
(***************************************************************************)
(* screensaver-dialog/src/screensaver-dialog.cpp, the authentication flow  *)
(* of the dialog that unlocks the screen, composed with the proxy it owns  *)
(* (AuthProxy, which brings the message queue and the biometric service)   *)
(* and the proxy's backend (AuthPam, which brings the child processes).    *)
(*                                                                         *)
(* Signals between the three are direct calls, so a step of one that emits *)
(* is one step of all; the message queue and the event loop lie between    *)
(* what the backend says and what the dialog does about it.                *)
(***************************************************************************)
EXTENDS AuthPam, AuthProxy

CONSTANT MaxConfirms     \* bound: replies the user gives per attempt

ASSUME SaverAssumption == /\ MaxConfirms \in Nat
                          /\ MaxReplies >= MaxTalk + MaxConfirms

VARIABLES
  havePrompt,   \* m_havePrompt
  page,         \* "edit": the prompt edit is shown; "reauth": the button is
  enabled,      \* the prompt edit is enabled
  unlocked,     \* authenticationPassed() was called
  starts,       \* history: calls of startAuth()
  startOk,      \* history: the last of them forked a child
  shownFor,     \* history: attempt of the prompt shown last
  confirms      \* replies given in this attempt

dialogVars == <<havePrompt, page, enabled, unlocked, starts, startOk, shownFor,
                confirms>>
saverVars == <<vars, proxyVars, dialogVars>>

SaverInit == /\ Init /\ ProxyInit
             /\ havePrompt = FALSE
             /\ page = "edit" /\ enabled = FALSE /\ unlocked = FALSE
             /\ starts = 0 /\ startOk = FALSE /\ shownFor = 0 /\ confirms = 0

-----------------------------------------------------------------------------
(* startAuth *)

\* Mutant: the prompt of the last attempt is not forgotten.
ForgetPromptNot == UNCHANGED havePrompt

ForgetPrompt == havePrompt' = FALSE

\* The backend cancels what is under way and forks a child or fails; the
\* proxy ignores which.
StartBackend == \/ Authenticate /\ startOk' = TRUE
                \/ (PipeFails \/ SecondPipeFails \/ ForkFails) /\ startOk' = FALSE

StartAuth(before) == /\ StartBackend
                     /\ ProxyAuthenticate(before)
                     /\ ForgetPrompt
                     /\ page' = "edit"
                     /\ starts' = starts + 1
                     /\ confirms' = 0
                     /\ UNCHANGED <<enabled, unlocked, shownFor>>

\* cancelAuthentication() ends the session of an attempt under way.
CancelSession == IF inAuth THEN EndSession ELSE UNCHANGED <<sid, sessionVars>>

\* init()
FirstStart == starts = 0 /\ StartAuth(posted) /\ CancelSession

\* The user presses the re-authentication button.
ReAuth == /\ at = "idle" /\ page = "reauth"
          /\ StartAuth(posted) /\ CancelSession

-----------------------------------------------------------------------------
(* What the backend says goes into the queue *)

\* Mutant: a completion that is made up counts as a success.
MadeUpResultPass == TRUE

\* What isAuthenticated() returns when a completion is made up.
MadeUpResult == isAuth

PamSpeaks ==
  /\ at = "idle"
  /\ \/ HandlePrompt /\ (PromptShown(notifier) \/ PromptHandled)
     \/ HandleMessage /\ MessageSaid(notifier)
     \/ HandleComplete /\ Completed(isAuth', notifier)
     \/ HandleChildExit /\ IF hasSend THEN UNCHANGED proxyVars
                           ELSE Completed(MadeUpResult, notifier)
  /\ UNCHANGED dialogVars

\* The handler of a prompt replies to the backend itself.
ProxyReplies == /\ SessionCreated(notifier) \/ SessionRefused \/ Replied
                /\ Respond
                /\ UNCHANGED dialogVars

-----------------------------------------------------------------------------
(* What comes out of the queue reaches the dialog *)

\* slotShowPrompt()
ShowPrompt == /\ PromptArrives
              /\ havePrompt' = TRUE
              /\ enabled' = TRUE
              /\ shownFor' = Head(posted).attempt
              /\ UNCHANGED <<vars, page, unlocked, starts, startOk, confirms>>

\* slotShowMessage()
ShowMessage == MessageArrives /\ UNCHANGED <<vars, dialogVars>>

\* slotAuthenticationComplete(): success unlocks, ...
Unlock == /\ CompletionArrives /\ Head(posted).ok
          /\ unlocked' = TRUE
          /\ enabled' = TRUE
          /\ UNCHANGED <<vars, havePrompt, page, starts, startOk, shownFor, confirms>>

\* Mutant: the button is not shown.
OfferReAuthNot == /\ CompletionArrives /\ ~Head(posted).ok /\ ~havePrompt
                  /\ UNCHANGED <<vars, dialogVars>>

\* ... a failure without any prompt offers the button, ...
OfferReAuth == /\ CompletionArrives /\ ~Head(posted).ok /\ ~havePrompt
               /\ page' = "reauth"
               /\ UNCHANGED <<vars, havePrompt, enabled, unlocked, starts, startOk,
                              shownFor, confirms>>

\* ... and any other starts the next attempt at once.
TryAgain == /\ Arrives({"complete"}) /\ ~Head(posted).ok /\ havePrompt
            /\ EndSession
            /\ StartAuth(Tail(posted))

\* The user confirms the text in the prompt edit, by Return or by its button,
\* which stays enabled after a reply. respond() sends it to the service, or to
\* the backend, which drops it when no attempt is under way.
Confirm == /\ at = "idle" /\ page = "edit" /\ enabled /\ confirms < MaxConfirms
           /\ confirms' = confirms + 1
           /\ IF promptFrom = "pam" /\ inAuth THEN Respond ELSE UNCHANGED vars
           /\ UNCHANGED <<proxyVars, havePrompt, page, enabled, unlocked, starts,
                          startOk, shownFor>>

-----------------------------------------------------------------------------
DialogStep == ShowPrompt \/ ShowMessage \/ Unlock \/ OfferReAuth \/ TryAgain

ProxyStep == (HandOver \/ StartSession \/ HandleSignal) /\ UNCHANGED <<vars, dialogVars>>

\* The children and the service.
Environment == \/ (\E c \in Attempt : ChildStep(c)) /\ UNCHANGED <<proxyVars, dialogVars>>
               \/ ServiceSignal /\ UNCHANGED <<vars, dialogVars>>

SaverNext == \/ FirstStart \/ ReAuth \/ Confirm
             \/ PamSpeaks \/ ProxyReplies \/ DialogStep
             \/ ProxyStep \/ Environment

SaverSpec == SaverInit /\ [][SaverNext]_saverVars

\* The GUI thread serves its event loop, calls of the service return, and the
\* dispatcher hands over what is pending.
SaverFairSpec == /\ SaverSpec
                 /\ WF_saverVars(PamSpeaks \/ ProxyReplies \/ DialogStep)
                 /\ WF_saverVars(ProxyStep)

-----------------------------------------------------------------------------
(* Properties *)

DialogFlagType == /\ havePrompt \in BOOLEAN /\ enabled \in BOOLEAN
                  /\ unlocked \in BOOLEAN /\ startOk \in BOOLEAN

DialogTypeOK == /\ DialogFlagType
                /\ page \in {"edit", "reauth"} /\ starts \in Nat
                /\ shownFor \in 0..MaxAttempts /\ confirms \in 0..MaxConfirms

SaverTypeOK == TypeOK /\ ProxyTypeOK /\ DialogTypeOK

\* The screen is unlocked only when PAM has accepted in the attempt last
\* started, although the result reaches the dialog through the queue and the
\* event loop, which a restart does not empty.
UnlockIsEarned == unlocked => attempts # 0 /\ verdict[attempts] = "pass"

Pipeline == posted \o pending

\* What is on its way to the dialog was said in the attempt under way: a
\* restart never finds a message of the past behind it.
NothingStale == \A i \in 1..Len(Pipeline) : startOk /\ Pipeline[i].attempt = attempts

\* A session of the service that the proxy still knows was opened for the
\* current attempt and is over once its completion is on the way.
SessionIsCurrent ==
  sid # 0 => /\ madeFor[sid] = attempts
             /\ \A i \in 1..Len(Pipeline) : Pipeline[i].kind # "complete"

\* The dialog starts over by itself only after it has shown a prompt of the
\* attempt that failed, so that a failure without prompts cannot make it spin.
NoSpin == [][starts' # starts => starts = 0 \/ page = "reauth" \/ shownFor = attempts]_saverVars

\* A completion reported to the proxy gets the user on: the screen is
\* unlocked, the button is shown or another attempt is started.
ReportLeadsOn ==
  \A n \in 1..(MaxAttempts + 1) :
    (starts = n /\ startOk /\ reported[attempts] # <<>>)
      ~> (unlocked \/ page = "reauth" \/ starts # n)

\* An attempt that fails without a prompt shows the button.
FailureShowsButton ==
  \A n \in 1..(MaxAttempts + 1) : (starts = n /\ ~startOk) ~> (page = "reauth" \/ starts # n)

\* An error is made up only when the attempt has shown none.
MadeUpOnlyIfNone ==
  \A i \in 1..Len(Pipeline) : Pipeline[i].kind = "made up" => ~errorSaid
=============================================================================
