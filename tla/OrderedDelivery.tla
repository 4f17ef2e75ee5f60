-------------------------- MODULE OrderedDelivery --------------------------
(***************************************************************************)
(* What the authentication message queue promises its owner, AuthProxy:    *)
(* messages appended are handed to the owner's event loop in the order of  *)
(* the appends, each at most once; messages leave without being handed     *)
(* over only while stopDispatcher() runs; and stopDispatcher() returns     *)
(* only when nothing is left that the dispatcher could still hand over.    *)
(* AuthMsgQueue, the two-thread implementation, is shown to implement it.  *)
(***************************************************************************)
EXTENDS Naturals, Sequences

CONSTANT Message            \* every message that can be appended

VARIABLES pending,          \* appended and not yet handed over, oldest first
          posted,           \* handed over, waiting in the owner's event loop
          open              \* FALSE while stopDispatcher() is running

vars == <<pending, posted, open>>

Init == pending = <<>> /\ posted = <<>> /\ open = TRUE

\* The owner appends a message.
Add == /\ open
       /\ \E m \in Message : pending' = Append(pending, m)
       /\ UNCHANGED <<posted, open>>

\* The dispatcher hands over the oldest pending message. It may still do so
\* after the owner has begun to stop it.
HandOverOldest == /\ pending # <<>>
                  /\ posted' = Append(posted, Head(pending))
                  /\ pending' = Tail(pending)

HandOver == HandOverOldest /\ UNCHANGED open

\* The owner's event loop delivers the oldest message handed over.
DeliverOldest == posted # <<>> /\ posted' = Tail(posted) /\ UNCHANGED pending

Deliver == open /\ DeliverOldest /\ UNCHANGED open

BeginStop == open /\ open' = FALSE /\ UNCHANGED <<pending, posted>>

\* A stop discards the newest pending messages; at most the oldest one, the
\* one the dispatcher has already taken, survives a discard.
Discard == /\ ~open
           /\ \E n \in {0, 1} : /\ n < Len(pending)
                                /\ pending' = SubSeq(pending, 1, n)
           /\ UNCHANGED <<posted, open>>

EndStop == /\ ~open
           /\ pending = <<>>
           /\ open' = TRUE
           /\ UNCHANGED <<pending, posted>>

Next == Add \/ HandOver \/ Deliver \/ BeginStop \/ Discard \/ EndStop

Spec == Init /\ [][Next]_vars
=============================================================================
