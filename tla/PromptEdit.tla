----------------------------- MODULE PromptEdit -----------------------------
(***************************************************************************)
(* lib/common-widgets/prompt-edit.cpp: the edit for names and passwords of *)
(* the greeter and of the screen saver, and how they call it. A text is    *)
(* confirmed with the return key or the button; an animation then runs     *)
(* until reset(). The font depends on whether dots are shown.              *)
(***************************************************************************)
EXTENDS Naturals, Sequences

CONSTANTS Text, Empty,   \* texts typed; the empty one
          MaxConfirms    \* bound: confirmations between two resets

PromptEditAssumption == Empty \notin Text /\ MaxConfirms \in Nat

VARIABLES
  visible, enabled, \* the whole widget
  editEnabled,  \* of the line edit in it
  focused,      \* m_editFocused
  echo,         \* "normal" or "password"
  text,
  style,        \* m_showPasswordModeStyle
  spacing,      \* letter spacing of the font, "normal" or "password"
  animationTimer,  \* m_animationTimerId # 0
  icon,         \* of the button
  sent          \* history: the texts confirmed since the last reset

vars == <<visible, enabled, editEnabled, focused, echo, text, style, spacing,
          animationTimer, icon, sent>>

Edit == [visible : BOOLEAN, enabled : BOOLEAN, editEnabled : BOOLEAN,
         focused : BOOLEAN,
         echo : {"normal", "password"}, text : Text \cup {Empty}, style : BOOLEAN,
         spacing : {"normal", "password"}, animationTimer : BOOLEAN,
         icon : {"unlock", "loading"},
         sent : Seq(Text \cup {Empty})]

edit == [visible |-> visible, enabled |-> enabled, editEnabled |-> editEnabled,
         focused |-> focused, echo |-> echo, text |-> text, style |-> style,
         spacing |-> spacing, animationTimer |-> animationTimer, icon |-> icon,
         sent |-> sent]

Becomes(e) == /\ visible' = e.visible /\ enabled' = e.enabled
              /\ editEnabled' = e.editEnabled /\ focused' = e.focused
              /\ echo' = e.echo /\ text' = e.text /\ style' = e.style
              /\ spacing' = e.spacing /\ animationTimer' = e.animationTimer
              /\ icon' = e.icon /\ sent' = e.sent

Init == /\ visible = TRUE /\ enabled = TRUE /\ editEnabled = TRUE /\ focused = FALSE
        /\ echo = "normal" /\ text = Empty /\ style = FALSE /\ spacing = "normal"
        /\ animationTimer = FALSE
        /\ icon = "unlock" /\ sent = <<>>

-----------------------------------------------------------------------------
(* The slots and methods, on a record of the widget's state *)

\* slotEditTextChanged()
TextChanged(e) ==
  IF e.echo # "password" THEN e
  ELSE [e EXCEPT !.style = (e.text # Empty),
                 !.spacing = IF e.text = Empty THEN "normal" ELSE "password"]

\* textChanged() is emitted for a text that is another one.
WithText(e, t) == IF e.text = t THEN e ELSE TextChanged([e EXCEPT !.text = t])

SetEchoMode(e, mode) == IF mode = "normal"
                        THEN [e EXCEPT !.echo = mode, !.style = FALSE, !.spacing = "normal"]
                        ELSE [e EXCEPT !.echo = mode]

\* Mutant: the text is not cleared.
ClearNot(e) == e

Clear(e) == WithText(e, Empty)

\* Mutant: the icon stays what the animation has left.
StopAnimationIconNot(e) == [e EXCEPT !.animationTimer = FALSE]

\* Mutant: the animation is left running.
StopAnimationNot(e) == [e EXCEPT !.icon = "unlock"]

StopAnimation(e) == [e EXCEPT !.animationTimer = FALSE, !.icon = "unlock"]

\* reset()
Reset(e) == StopAnimation(SetEchoMode(Clear([e EXCEPT !.enabled = TRUE, !.editEnabled = TRUE,
                                                      !.sent = <<>>]), "normal"))

\* Mutant: the edit stays enabled.
StartMovieEnabled(e) == [e EXCEPT !.animationTimer = TRUE, !.sent = Append(@, e.text)]

\* startMovieAndEmitSignal(). A disabled edit loses the focus.
StartMovie(e) == [e EXCEPT !.editEnabled = FALSE, !.focused = FALSE, !.animationTimer = TRUE,
                           !.sent = Append(@, e.text)]

\* Mutant: an empty text is confirmed.
ConfirmableAny(e) == TRUE

\* slotEditReturnPressed(), slotButtonPressed()
Confirmable(e) == e.echo = "password" \/ e.text # Empty

-----------------------------------------------------------------------------
(* The user and the event loop *)

Typeable == visible /\ enabled /\ editEnabled /\ focused

Type == Typeable /\ \E t \in Text \cup {Empty} : Becomes(WithText(edit, t))

\* eventFilter()
Escape == Typeable /\ echo = "password" /\ Becomes(Clear(edit))

FocusIn == /\ visible /\ enabled /\ editEnabled /\ ~focused /\ Becomes([edit EXCEPT !.focused = TRUE])

FocusOut == focused /\ Becomes([edit EXCEPT !.focused = FALSE])

CanConfirm == Confirmable(edit) /\ Len(sent) < MaxConfirms

ReturnPressed == Typeable /\ CanConfirm /\ Becomes(StartMovie(edit))

\* The button is not disabled with the edit: it may be pressed again.
ButtonClicked == visible /\ enabled /\ CanConfirm /\ Becomes(StartMovie(edit))

\* timerEvent()
Animate == animationTimer /\ Becomes([edit EXCEPT !.icon = "loading"])

-----------------------------------------------------------------------------
(* The windows *)

\* slotShowPrompt() of both windows
ShowPrompt == \E mode \in {"normal", "password"} : Becomes(SetEchoMode(Reset(edit), mode))

\* startAuthUser(): the edit waits for a prompt.
StartAuth == Becomes([Reset(edit) EXCEPT !.visible = TRUE, !.enabled = FALSE, !.focused = FALSE])

\* switchToReAuthentication(), switchToAutoLogin(): another widget in its place
Replaced == Becomes([edit EXCEPT !.visible = FALSE, !.focused = FALSE])

\* switchToPromptEdit()
BackAgain == Becomes([edit EXCEPT !.visible = TRUE])

\* resetUIForManualLogin(), resetUIForUserListLogin(), a message of the saver
ResetOnly == Becomes(Reset(edit))

Next == \/ Type \/ Escape \/ FocusIn \/ FocusOut \/ ReturnPressed \/ ButtonClicked
        \/ Animate \/ ShowPrompt \/ StartAuth \/ ResetOnly \/ Replaced \/ BackAgain

Spec == Init /\ [][Next]_vars

-----------------------------------------------------------------------------
(* Properties *)

\* Types; an edit that is disabled or hidden does not have the focus, and the
\* icon is the usual one without an animation.
TypeOK == /\ edit \in Edit /\ (focused => visible /\ enabled /\ editEnabled)
          /\ icon = "loading" => animationTimer

\* The animation runs from the confirmation of a text until reset(), as the
\* comment of textConfirmed() has it, and the edit is locked for as long.
BusyUntilReset == animationTimer = (sent # <<>>) /\ editEnabled = ~animationTimer

\* The windows ask for the text after the signal: it is the one confirmed, even
\* if the button is pressed once more.
SentIsText == \A i \in DOMAIN sent : sent[i] = text

\* Dots have their font, whatever order modes and texts are set in.
StyleFits == /\ style = (echo = "password" /\ text # Empty)
             /\ spacing = IF style THEN "password" ELSE "normal"

\* A prompt that shows what is typed is not answered with nothing.
NoEmptyName == echo = "normal" => \A i \in DOMAIN sent : sent[i] # Empty
=============================================================================
