------------------------------ MODULE UserList ------------------------------
(***************************************************************************)
(* The user list by itself: users come and go, the user clicks and uses    *)
(* the keyboard, and the owner switches the list on and off.               *)
(***************************************************************************)
EXTENDS UserListWidget

VARIABLES
  users,   \* rows of m_filterModel
  list,    \* the widget
  focus    \* the user whose item has the keyboard's focus, NoUser if none

listVars == <<users, list, focus>>

ListInit == /\ users \in {us \in SeqOf(User, 2) : IsInjective(us)}
            /\ list = SwitchOn(LoadUserList(users))
            /\ focus = NoUser

\* A user is added to the model, or removed from it, one at a time.
UserAdded(u, i) == /\ ~Contains(users, u)
                   /\ i \in 1..Len(users) + 1
                   /\ users' = InsertAt(users, i, u)
                   /\ list' = RowInserted(Silent(list), users', i)
                   /\ UNCHANGED focus

\* An item that goes or is hidden loses the focus.
KeepFocus(l) == focus' = IF Contains(l.rows, focus) /\ l.several THEN focus ELSE NoUser

UserRemoved(i) == /\ i \in 1..Len(users)
                  /\ users' = RemoveAt(users, i)
                  /\ list' = RowRemoved(Silent(list), i)
                  /\ KeepFocus(list')

\* What can be clicked: the items of the inner list while all of it is visible.
Clickable == list.on /\ list.several

Click(i) == /\ Clickable /\ i \in 1..Len(list.rows)
            /\ list' = SetCurrentRow(Silent(list), i)
            /\ UNCHANGED <<users, focus>>

\* Tab reaches the item of the selected user only.
TabIn == /\ Clickable /\ list.sel # NoUser
         /\ focus' = list.sel
         /\ UNCHANGED <<users, list>>

RowOf(u) == CHOOSE i \in 1..Len(list.rows) : list.rows[i] = u

RowAbove(i) == IF i > 1 THEN i - 1 ELSE i
RowBelow(i) == IF i < Len(list.rows) THEN i + 1 ELSE i

\* eventFilter(): Up and Down move the focus, and not the selection.
MoveFocus == /\ focus # NoUser
             /\ \E row \in {RowAbove(RowOf(focus)), RowBelow(RowOf(focus))} :
                  focus' = list.rows[row]
             /\ UNCHANGED <<users, list>>

\* Return on the item that has the focus selects it.
Enter == focus # NoUser /\ Click(RowOf(focus))

\* The window goes to manual login and comes back.
TurnOff == list.on /\ list' = SwitchOff(Silent(list)) /\ focus' = NoUser /\ UNCHANGED users
TurnOn  == ~list.on /\ list' = SwitchOn(Silent(list)) /\ UNCHANGED <<users, focus>>

ListNext == \/ \E u \in User, i \in 1..Cardinality(User) : UserAdded(u, i)
            \/ \E i \in 1..Len(users) : UserRemoved(i) \/ Click(i)
            \/ TabIn \/ MoveFocus \/ Enter \/ TurnOff \/ TurnOn

ListSpec == ListInit /\ [][ListNext]_listVars

-----------------------------------------------------------------------------
(* Properties *)

\* Types; the selected and the focused user are users of an item.
ListTypeOK == /\ users \in Seq(User)
              /\ list.rows \in Seq(User) /\ list.sel \in Range(list.rows) \cup {NoUser}
              /\ list.on \in BOOLEAN /\ list.several \in BOOLEAN
              /\ list.emitted \in Signal
              /\ focus \in Range(list.rows) \cup {NoUser}

\* The rows are those of the model, in its order, although they are copies
\* kept up to date by signals.
MirrorsModel == list.rows = users

\* As long as the list is on and not empty somebody is selected, so that the
\* window always authenticates somebody.
SomebodySelected == list.on /\ list.rows # <<>> => list.sel # NoUser

\* Whoever has a choice sees the list.
ChoiceIsShown == UserCount(list) >= 2 => list.several

\* While the list is off, what happens to the users activates nobody: the user
\* who types a name is not interrupted.
OffIsSilent == [][~list.on /\ ~list'.on => list'.emitted = "none"]_listVars

\* A change of the model does not take the selection from a user who stays.
SelectionStays ==
  [][users' # users /\ list.sel \in Range(users') => list'.sel = list.sel]_listVars
=============================================================================
