--------------------------- MODULE UserListWidget ---------------------------
(***************************************************************************)
(* lightdm-greeter/src/user-list-widget.cpp: the list of users the greeter *)
(* offers, a QListWidget that follows a filtered model of LightDM's users. *)
(* The widget is one record, and each of its functions an operator from    *)
(* the record before to the record after: the login window calls them from *)
(* within its own handlers. UserList checks the widget by itself,          *)
(* LoginWindow composes it with the window.                                *)
(***************************************************************************)
EXTENDS Naturals, SequencesExt

CONSTANTS User,     \* names of users
          NoUser    \* no user, an empty name

ASSUME UserAssumption == NoUser \notin User

Signal == {"none", "activated", "reset"}

\* rows: users of the items; sel: user of the selected item; on: the widget is
\* enabled and visible; several: the inner list is not hidden; emitted: what
\* the last call emitted, userActivated(sel) or sigRequestResetUI().
List == [rows : Seq(User), sel : User \cup {NoUser}, on : BOOLEAN,
         several : BOOLEAN, emitted : Signal]

UserCount(l) == Len(l.rows)
Silent(l)    == [l EXCEPT !.emitted = "none"]

-----------------------------------------------------------------------------
(* Selecting *)

\* itemSelectionChanged is emitted when the selection differs.
\* slotUserItemActivated() passes it on.
Select(l, u) == IF u = l.sel THEN l ELSE [l EXCEPT !.sel = u, !.emitted = "activated"]

SetCurrentRow(l, i) == IF UserCount(l) >= i THEN Select(l, l.rows[i]) ELSE l

SetRow0(l) == SetCurrentRow(l, 1)

\* Mutant: QListWidget's own rule, the selection follows the current item.
CurrentMovedSelecting(l, rest) ==
  IF rest = <<>> THEN [l EXCEPT !.sel = NoUser] ELSE Select(l, rest[1])

\* Mutant: an item that is gone counts as selected.
CurrentMovedKeeping(l, rest) == l

\* The item taken out was selected: Qt makes another item the current one,
\* but selectionCommand() without an event selects nothing.
CurrentMoved(l, rest) == [l EXCEPT !.sel = NoUser]

-----------------------------------------------------------------------------
(* Following the model *)

\* Mutant: the inner list is shown for three users and more.
ShowForThree(l) == [l EXCEPT !.several = (l.several /\ l.on) \/ UserCount(l) >= 3]

\* appendItem(), insertItem(): the inner list is shown as soon as there are two.
ShowIfSeveral(l) == [l EXCEPT !.several = l.several \/ UserCount(l) >= 2]

\* It is hidden again when it was visible, with all that contains it.
HideIfFew(l) == [l EXCEPT !.several = l.several /\ ~(l.on /\ UserCount(l) < 2)]

\* loadUserList(): the items before any signal is connected.
LoadUserList(us) ==
  ShowIfSeveral([rows |-> us, sel |-> NoUser, on |-> TRUE, several |-> FALSE,
                 emitted |-> "none"])

\* Mutant: the new item is appended.
InsertedAtEnd(rows, i, u) == Append(rows, u)

Inserted(rows, i, u) == InsertAt(rows, i, u)

\* Mutant: the first row is selected although a row is.
RowInsertedSelecting(l, us, i) ==
  LET grown == ShowIfSeveral([l EXCEPT !.rows = Inserted(@, i, us[i])])
  IN  IF l.on THEN SetRow0(grown) ELSE grown

\* slotRowsInserted() for row i of the model us
RowInserted(l, us, i) ==
  LET grown == ShowIfSeveral([l EXCEPT !.rows = Inserted(@, i, us[i])])
  IN  IF l.on /\ l.sel = NoUser THEN SetRow0(grown) ELSE grown

\* Mutant: nobody is selected in place of the one removed.
ReselectNot(l) == l

\* Somebody else is selected in place of the one removed, or there is nobody.
Reselect(l) == IF l.rows = <<>> THEN [l EXCEPT !.emitted = "reset"] ELSE SetRow0(l)

\* slotRowsRemoved() for row i
RowRemoved(l, i) ==
  LET rest   == RemoveAt(l.rows, i)
      chosen == l.sel = l.rows[i]
      taken  == IF chosen THEN CurrentMoved([l EXCEPT !.rows = rest], rest)
                ELSE [l EXCEPT !.rows = rest]
  IN  HideIfFew(IF l.on /\ chosen THEN Reselect(taken) ELSE taken)

-----------------------------------------------------------------------------
(* What the login window does to the list *)

SwitchOn(l)  == LET shown == [l EXCEPT !.on = TRUE]
                IN  IF shown.sel # NoUser THEN shown ELSE SetRow0(shown)
SwitchOff(l) == [l EXCEPT !.on = FALSE]
=============================================================================
