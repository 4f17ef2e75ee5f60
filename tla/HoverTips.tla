------------------------------ MODULE HoverTips ------------------------------
(***************************************************************************)
(* lightdm-greeter/kiran-cpanel-greeter/src/hover-tips.cpp: the tip of the *)
(* settings window. It goes by itself after a time, at a click, or when    *)
(* another page is opened; a new tip may come while an old one is seen.    *)
(***************************************************************************)
EXTENDS Naturals

CONSTANTS TimerId, NoTimer,
          Timeouts,          \* values for setTimeout(), 0 among them
          Longest            \* the longest of them

HoverTipsAssumption == /\ NoTimer \notin TimerId
                              /\ Longest \in Nat /\ Timeouts \subseteq 0..Longest

Types == {"suc", "info", "warning", "err"}   \* HoverTipsTypeEnum

VARIABLES
  tipVisible, type,
  timeout,     \* m_hideTimeout
  hideTimer,   \* m_hideTimerID
  left,        \* time left of each running timer, 0 if it does not run
  age,         \* history: time the tip has been seen for
  wait,        \* history: the time it was to be seen for
  gone         \* history: what has hidden it

tipVars   == <<tipVisible, type, age, wait, gone>>
timerVars == <<timeout, hideTimer, left>>
vars      == <<tipVars, timerVars>>

Init == /\ tipVisible = FALSE /\ type \in Types /\ timeout \in Timeouts \ {0}
        /\ hideTimer = NoTimer /\ left = [t \in TimerId |-> 0]
        /\ age = 0 /\ wait = 0 /\ gone = "never shown"

-----------------------------------------------------------------------------

\* Qt gives a new timer a number that none has.
StartTimer(running, ms) ==
  /\ \E t \in {u \in TimerId : running[u] = 0} : left' = [running EXCEPT ![t] = ms] /\ hideTimer' = t

\* Mutant: a timer that runs is left to run.
StartHideTimerOnce == IF hideTimer = NoTimer THEN StartTimer(left, timeout)
                      ELSE UNCHANGED <<left, hideTimer>>

Stopped == IF hideTimer = NoTimer THEN left ELSE [left EXCEPT ![hideTimer] = 0]

\* Mutant: the timer of the last tip is forgotten but not killed.
StartHideTimerAnother == StartTimer(left, timeout)

\* Mutant: the number of the timer is not kept.
StartHideTimerUnnamed == /\ \E t \in {u \in TimerId : left[u] = 0} : left' = [left EXCEPT ![t] = timeout]
                         /\ hideTimer' = NoTimer

\* startHideTimer(). m_hideTimeout is never 0.
StartHideTimer == StartTimer(Stopped, timeout)

\* stopHideTimer()
StopHideTimer == left' = Stopped /\ hideTimer' = NoTimer

Show == /\ tipVisible' = TRUE /\ type' \in Types
        /\ StartHideTimer
        /\ age' = 0 /\ wait' = timeout /\ gone' = "never hidden" /\ timeout' = timeout

\* hide(), when a page is opened: the timer runs on.
Hide == /\ tipVisible /\ tipVisible' = FALSE /\ gone' = "page"
        /\ UNCHANGED <<type, age, wait, timerVars>>

\* QEvent::MouseButtonPress
Press == /\ tipVisible /\ tipVisible' = FALSE /\ gone' = "press"
         /\ StopHideTimer /\ UNCHANGED <<type, age, wait, timeout>>

\* setTimeout(): 0 only stops the timer, what is set stays.
SetTimeout(ms) == /\ ms # timeout
                  /\ IF ms = 0
                     THEN /\ StopHideTimer /\ timeout' = timeout
                          /\ gone' = IF tipVisible THEN "kept" ELSE gone
                     ELSE timeout' = ms /\ UNCHANGED <<hideTimer, left, gone>>
                  /\ UNCHANGED <<tipVisible, type, age, wait>>

\* Time passes for the tip and the timers; none of them is overdue.
Tick == /\ \E t \in TimerId : left[t] > 0
        /\ \A t \in TimerId : left[t] # 1
        /\ left' = [t \in TimerId |-> IF left[t] > 0 THEN left[t] - 1 ELSE 0]
        /\ age' = IF tipVisible /\ age < Longest THEN age + 1 ELSE age
        /\ UNCHANGED <<tipVisible, type, wait, gone, timeout, hideTimer>>

\* QEvent::Timer: a timer that is not the present one is ignored and goes on.
Fire(t) == /\ left[t] = 1
           /\ IF t = hideTimer
              THEN /\ tipVisible' = FALSE /\ StopHideTimer
                   /\ gone' = IF tipVisible THEN "time" ELSE gone
              ELSE /\ left' = [left EXCEPT ![t] = Longest]
                   /\ UNCHANGED <<tipVisible, hideTimer, gone>>
           /\ UNCHANGED <<type, age, wait, timeout>>

Next == \/ Show \/ Hide \/ Press \/ (\E ms \in Timeouts : SetTimeout(ms))
        \/ Tick \/ (\E t \in TimerId : Fire(t))

Spec == Init /\ [][Next]_vars

\* Time passes and timers fire.
Fairness == SF_vars(Tick) /\ \A t \in TimerId : SF_vars(Fire(t))

FairSpec == Spec /\ Fairness

-----------------------------------------------------------------------------
(* Properties *)

\* Types; no timer runs but the one that is remembered, although hide() lets
\* it run.
TypeOK == /\ tipVisible \in BOOLEAN /\ type \in Types
          /\ timeout \in 1..Longest /\ hideTimer \in TimerId \cup {NoTimer}
          /\ left \in [TimerId -> 0..Longest]
          /\ \A t \in TimerId : (left[t] > 0) = (t = hideTimer)
          /\ age \in 0..Longest /\ wait \in 0..Longest
          /\ gone \in {"never shown", "never hidden", "page", "press", "time", "kept"}

\* A tip that goes by itself has been seen for its time: it is not hidden by
\* the timer of one before it.
TipHasItsTime == gone = "time" => age + 1 = wait

\* A tip does not stay for ever: it is followed by another or goes, unless
\* setTimeout(0) has taken its timer.
TipGoes == tipVisible ~> (~tipVisible \/ gone = "kept" \/ age = 0)
=============================================================================
