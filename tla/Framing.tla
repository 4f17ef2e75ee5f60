------------------------------ MODULE Framing ------------------------------
(***************************************************************************)
(* checkpass-common/pam-message.cpp: how an event crosses one of the pipes *)
(* between a process and its checkpass child. The sender writes length and *)
(* text with one write(); the receiver reads first the one, then the other,*)
(* and takes what it gets. AuthPam has events arrive whole and in order;   *)
(* this module shows when that is so.                                      *)
(*                                                                         *)
(* The i-th event sent is event i; a length, and a piece of text as long   *)
(* as one, is a cell of the pipe.                                          *)
(***************************************************************************)
EXTENDS Naturals, SequencesExt

CONSTANTS Sizes,     \* cells a text may have
          PipeBuf,   \* PIPE_BUF: writes of no more cells are not split
          Capacity,  \* cells a pipe holds
          MaxEvents  \* bound: events sent

FramingAssumption == /\ Sizes \subseteq Nat \ {0}
                     /\ PipeBuf \in Nat /\ Capacity \in Nat
                     /\ PipeBuf <= Capacity
                     /\ MaxEvents \in Nat

VARIABLES
  sizes,     \* sizes of the events sent
  out,       \* cells that the write() in progress has still to write
  pipe,      \* cells in the pipe
  reader,    \* "length" or "text" is read next, "gone" when the end is closed
  length,    \* the length read
  received,  \* events received, a history
  failed,    \* some receiving has failed, a history
  writer     \* "open", or "gone" when its end is closed

vars == <<sizes, out, pipe, reader, length, received, failed, writer>>

TextOf(i, n)  == [k \in 1..n |-> [event |-> i, at |-> k]]
Frame(i, n) == <<[event |-> i, at |-> 0]>> \o TextOf(i, n)

FramingInit == /\ sizes = <<>> /\ out = <<>> /\ pipe = <<>> /\ received = <<>>
               /\ reader = "length" /\ length = 0 /\ failed = FALSE /\ writer = "open"

-----------------------------------------------------------------------------
(* kiran_pam_message_send() *)

SendEvent == /\ writer = "open" /\ out = <<>> /\ Len(sizes) < MaxEvents
             /\ \E n \in Sizes : sizes' = Append(sizes, n) /\ out' = Frame(Len(sizes'), n)
             /\ UNCHANGED <<pipe, reader, length, received, failed, writer>>

Room   == Capacity - Len(pipe)
Atomic == Last(sizes) + 1 <= PipeBuf

\* write() goes on when there is room: for all of a short frame, for any part
\* of a long one.
Write == /\ out # <<>> /\ reader # "gone"
         /\ \E k \in 1..Len(out) :
              /\ k <= Room /\ (Atomic => k = Len(out))
              /\ pipe' = pipe \o SubSeq(out, 1, k)
              /\ out'  = SubSeq(out, k + 1, Len(out))
         /\ UNCHANGED <<sizes, reader, length, received, failed, writer>>

\* The process closes its end, or dies; so it does when nobody reads.
WriterGoes == /\ writer = "open" /\ writer' = "gone" /\ out' = <<>>
              /\ UNCHANGED <<sizes, pipe, reader, length, received, failed>>

-----------------------------------------------------------------------------
(* kiran_pam_message_recv() *)

\* What is text, or the end of the pipe, may be taken for a length: text is a
\* number no pipe can hold, the end leaves the 0 the variable starts with.
LengthIn(cell) == IF cell.at = 0 THEN sizes[cell.event] ELSE Capacity + 1

ReadLength == /\ reader = "length" /\ pipe # <<>>
              /\ length' = LengthIn(Head(pipe))
              /\ pipe' = Tail(pipe) /\ reader' = "text"
              /\ UNCHANGED <<sizes, out, received, failed, writer>>

\* Mutant: what was read is taken for the text, whole or not.
WholeOrNot(cells) == cells # <<>>

\* read() gave as much as was asked for, and it parses: it is one event's text.
Whole(cells) == Len(cells) = length /\ cells = TextOf(Head(cells).event, length)

\* read() waits for something, and takes what there is.
ReadText ==
  /\ reader = "text" /\ pipe # <<>>
  /\ LET cells == SubSeq(pipe, 1, IF length < Len(pipe) THEN length ELSE Len(pipe))
     IN  /\ pipe' = SubSeq(pipe, Len(cells) + 1, Len(pipe))
         /\ IF Whole(cells)
            THEN received' = Append(received, Head(cells).event) /\ failed' = failed
            ELSE received' = received /\ failed' = TRUE
  /\ reader' = "length" /\ length' = 0
  /\ UNCHANGED <<sizes, out, writer>>

\* No text has no event.
ReadEnd == /\ reader # "gone" /\ pipe = <<>> /\ writer = "gone"
           /\ failed' = TRUE /\ reader' = "length" /\ length' = 0
           /\ UNCHANGED <<sizes, out, pipe, received, writer>>

\* AuthPam closes its end when a receiving fails (handleChildExit()); the child
\* leaves it to PAM whether to ask again.
ReaderGoes == /\ failed /\ reader = "length"
              /\ reader' = "gone" /\ pipe' = <<>>
              /\ UNCHANGED <<sizes, out, length, received, failed, writer>>

Read == ReadLength \/ ReadText

FramingNext == SendEvent \/ Write \/ WriterGoes \/ Read \/ ReadEnd \/ ReaderGoes

FramingSpec == FramingInit /\ [][FramingNext]_vars

\* A write() in progress goes on, and a readable pipe is read.
FramingFairness == WF_vars(Write) /\ WF_vars(Read)

-----------------------------------------------------------------------------
(* Properties *)

\* Types.
FramingTypeOK == /\ sizes \in Seq(Sizes) /\ received \in Seq(DOMAIN sizes)
                 /\ Len(pipe) <= Capacity
                 /\ \A q \in {pipe, out} : \A k \in DOMAIN q : q[k].event \in DOMAIN sizes
                 /\ reader \in {"length", "text", "gone"} /\ writer \in {"open", "gone"}
                 /\ length \in Nat /\ failed \in BOOLEAN

\* Until a receiving fails, the events received are the first events sent.
FirstSentFirst == ~failed => received = [i \in DOMAIN received |-> i]

\* Nor does a cut or misread frame bring an event twice, or two out of order:
\* what is received is what was sent, with gaps.
NothingTwice == \A i, j \in DOMAIN received : i < j => received[i] < received[j]

\* Receiving fails only at the end of the pipe, or after a frame that write()
\* may split: with shorter ones, events arrive whole, as AuthPam has them.
FailsOnlyOnLong == failed => writer = "gone" \/ \E i \in DOMAIN sizes : sizes[i] + 1 > PipeBuf

\* The GUI thread, which reads without a timeout, is not left between a length
\* and its text: the text comes, or the pipe ends.
TextFollows == (reader = "text" /\ ~failed) ~> (reader # "text" \/ writer = "gone")
=============================================================================
