-------------------------------- MODULE Fade --------------------------------
(***************************************************************************)
(* screensaver-dialog.cpp: how the dialog fades in and out at the calls of *)
(* the screen saver (LockerInterface). A fade waits for a timer and is then*)
(* run by m_animation (a QPropertyAnimation, external) between opacity 0   *)
(* and Full. Calls may come while an earlier fade waits or runs.           *)
(***************************************************************************)
EXTENDS Naturals

CONSTANTS Full,      \* opacity 1, reached in Full steps
          MaxCalls   \* bound: calls of the screen saver

FadeAssumption == Full \in Nat \ {0} /\ MaxCalls \in Nat

VARIABLES
  fadeVisible,       \* m_fadeVisible
  animationEnabled,  \* m_animationEnabled
  delayTimer,        \* m_fadeDelayTimer # 0
  anim,              \* state of m_animation and, while it runs, its direction
  time,              \* its current time
  opacity,           \* of m_opacityEffect
  calls,             \* so far
  cut                \* history: a running fade was cut short where it should not end

callVars == <<fadeVisible, animationEnabled>>
vars     == <<fadeVisible, animationEnabled, delayTimer, anim, time, opacity, calls, cut>>

Direction(v) == IF v THEN "forward" ELSE "backward"

\* Mutant: opacity in percent.
TargetPercent(v) == IF v THEN 100 ELSE 0

\* setOpacity()
Target(v) == IF v THEN Full ELSE 0

Init == /\ fadeVisible = FALSE /\ animationEnabled = FALSE /\ delayTimer = FALSE
        /\ anim = "stopped" /\ time = 0 /\ opacity = 0 /\ calls = 0 /\ cut = FALSE

Call == calls < MaxCalls /\ calls' = calls + 1

-----------------------------------------------------------------------------
(* The calls *)

\* Mutant: the timer of the earlier fade is neither killed nor restarted.
WaitKeeping(v) == delayTimer' = delayTimer /\ opacity' = opacity

\* A fade waits for its delay, or is done at once.
Wait(v) == IF animationEnabled THEN delayTimer' = TRUE /\ opacity' = opacity
           ELSE delayTimer' = FALSE /\ opacity' = Target(v)

\* fadeIn(), fadeOut(). A running animation goes on, and without a new timer
\* nothing turns it round.
FadeTo(v) == /\ Call /\ fadeVisible # v /\ fadeVisible' = v /\ Wait(v)
             /\ cut' = (~animationEnabled /\ anim \notin {"stopped", Direction(v)})
             /\ UNCHANGED <<animationEnabled, anim, time>>

\* A running animation is replaced by its end value, which is Full for a fade
\* out as well.
StopAnimation == IF anim = "stopped" THEN UNCHANGED <<anim, opacity, cut>>
                 ELSE /\ anim' = "stopped" /\ opacity' = Full
                      /\ cut' = (cut \/ (anim = "backward" /\ ~delayTimer))

SetAnimationEnabled ==
  /\ Call /\ animationEnabled' = ~animationEnabled
  /\ IF animationEnabled THEN StopAnimation ELSE UNCHANGED <<anim, opacity, cut>>
  /\ UNCHANGED <<fadeVisible, delayTimer, time>>

\* QVariantAnimation::setDuration(): the time stays, the share of it that has
\* passed does not.
Rescale(t) == IF t = 0 THEN {0} ELSE 1..Full

\* Only the duration of the direction that runs matters.
SetAnimationDuration == /\ Call /\ anim # "stopped"
                        /\ time' \in Rescale(time) /\ opacity' = time'
                        /\ UNCHANGED <<fadeVisible, animationEnabled, delayTimer, anim, cut>>

-----------------------------------------------------------------------------
(* The event loop *)

\* QAbstractAnimation::start(): a stopped one begins at its beginning, one that
\* runs is turned round where it is.
Start(d) == /\ anim' = d
            /\ time' \in IF anim # "stopped" THEN Rescale(time)
                         ELSE IF d = "forward" THEN {0} ELSE {Full}
            /\ opacity' = time'

\* Mutant: the direction is that of the fade the timer was not started for.
TimerDirectionNot == Direction(~fadeVisible)

TimerDirection == Direction(fadeVisible)

\* timerEvent()
Timeout == /\ delayTimer /\ delayTimer' = FALSE /\ Start(TimerDirection) /\ cut' = FALSE
           /\ UNCHANGED <<callVars, calls>>

AtEnd == time = IF anim = "forward" THEN Full ELSE 0

\* A tick of the animation.
Tick == /\ anim # "stopped"
        /\ IF AtEnd THEN anim' = "stopped" /\ time' = time
           ELSE anim' = anim /\ time' = IF anim = "forward" THEN time + 1 ELSE time - 1
        /\ opacity' = time'
        /\ UNCHANGED <<callVars, delayTimer, calls, cut>>

Next == \/ (\E v \in BOOLEAN : FadeTo(v)) \/ SetAnimationEnabled \/ SetAnimationDuration
        \/ Timeout \/ Tick

Spec == Init /\ [][Next]_vars

\* Qt delivers timers and runs animations.
Fairness == WF_vars(Timeout) /\ WF_vars(Tick)

FairSpec == Spec /\ Fairness

-----------------------------------------------------------------------------
(* Properties *)

\* Types.
TypeOK == /\ {fadeVisible, animationEnabled, delayTimer, cut} \subseteq BOOLEAN
          /\ anim \in {"stopped", "forward", "backward"}
          /\ time \in 0..Full /\ opacity \in 0..Full /\ calls \in 0..MaxCalls

\* Whatever the calls cut across each other, a dialog at rest is seen if and
\* only if the last fade was a fade in. The code breaks this in two cases, both
\* named by cut: animations are turned off during a fade out, and a fade is
\* asked for while animations are off and one started earlier still runs.
Settled == ~delayTimer /\ anim = "stopped" /\ ~cut => opacity = Target(fadeVisible)

\* A fade that runs without another one waiting goes the right way.
RightWay == ~delayTimer /\ anim # "stopped" /\ ~cut => anim = Direction(fadeVisible)

\* A fade comes to its end.
FadeEnds == \A v \in BOOLEAN :
  fadeVisible = v ~> (fadeVisible # v \/ cut \/ opacity = Target(v))
=============================================================================
