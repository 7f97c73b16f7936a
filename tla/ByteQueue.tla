------------------------------- MODULE ByteQueue -------------------------------
(***************************************************************************)
(* What a receive buffer promises its users: a bounded queue of bytes.     *)
(* Bytes come out in the order they were put in, each exactly once, and    *)
(* the queue never holds more than Capacity of them.                       *)
(***************************************************************************)
EXTENDS Integers, Sequences

CONSTANTS Capacity,   \* most bytes the queue holds
          Byte        \* the bytes

VARIABLES queue,      \* the bytes put in and not taken out
          taken       \* the bytes the last operation took out

Init == queue = << >> /\ taken = << >>

Put ==
  \E n \in (Len(queue) + 1) .. Capacity :
    /\ queue' \in [1 .. n -> Byte]
    /\ SubSeq(queue', 1, Len(queue)) = queue
    /\ taken' = << >>

Take ==
  \E n \in 0 .. Len(queue) :
    /\ taken' = SubSeq(queue, 1, n)
    /\ queue' = SubSeq(queue, n + 1, Len(queue))

Next == Put \/ Take

Spec == Init /\ [][Next]_<<queue, taken>>
===============================================================================
