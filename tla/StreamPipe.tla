------------------------------- MODULE StreamPipe ------------------------------
(***************************************************************************)
(* What a connection promises the two applications at its ends: a pipe.    *)
(* Bytes that are sent come out in their order, each once; at most         *)
(* Capacity of them lie between the network and the reader; and the end of *)
(* the stream comes after all of its bytes.  The byte at position p is the *)
(* number p.                                                               *)
(***************************************************************************)
EXTENDS Integers, Sequences

CONSTANTS StreamLen,   \* bytes of the stream
          Capacity     \* most bytes that are stored and not read

VARIABLES sent,        \* bytes the sender has handed over
          closed,      \* it has handed over the end of the stream
          stored,      \* bytes that have come to the receiver
          delivered,   \* the bytes its application has read
          ended        \* the end of the stream has come to the receiver

Init ==
  /\ sent = 0 /\ stored = 0 /\ delivered = << >>
  /\ closed = FALSE /\ ended = FALSE

Send ==
  /\ ~closed
  /\ sent' \in (sent + 1) .. StreamLen
  /\ UNCHANGED <<closed, stored, delivered, ended>>

Close ==
  /\ ~closed /\ sent = StreamLen
  /\ closed' = TRUE
  /\ UNCHANGED <<sent, stored, delivered, ended>>

Store ==
  /\ ~ended
  /\ stored' \in (stored + 1) .. sent
  /\ stored' - Len(delivered) <= Capacity
  /\ UNCHANGED <<sent, closed, delivered, ended>>

Deliver ==
  /\ \E n \in (Len(delivered) + 1) .. stored : delivered' = [p \in 1 .. n |-> p]
  /\ UNCHANGED <<sent, closed, stored, ended>>

End ==
  /\ ~ended /\ closed /\ stored = StreamLen
  /\ ended' = TRUE
  /\ UNCHANGED <<sent, closed, stored, delivered>>

Next == Send \/ Close \/ Store \/ Deliver \/ End

Spec == Init /\ [][Next]_<<sent, closed, stored, delivered, ended>>
===============================================================================
