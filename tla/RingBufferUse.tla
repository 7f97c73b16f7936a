----------------------------- MODULE RingBufferUse -----------------------------
(***************************************************************************)
(* A ring buffer under any sequence of reads and of writes that respect    *)
(* the assertion of write_ring_buffer, and the claim that it implements    *)
(* the bounded byte queue of module ByteQueue.                             *)
(*                                                                         *)
(* The names of the specification begin with Buf, so that its proofs and   *)
(* the lemmas in them can be used next to another specification.           *)
(***************************************************************************)
EXTENDS RingBuffer

CONSTANTS Size,        \* the argument of alloc_ring_buffer
          Byte,        \* the bytes
          MaxRequest   \* the longest read or write that is tried

ASSUME RingBufferAssumption ==
  /\ Size \in Nat \ {0}
  /\ Byte \subseteq Nat /\ 0 \in Byte
  /\ MaxRequest \in Nat

VARIABLES rbuf,   \* the buffer
          got     \* the bytes the last read returned
bufvars == <<rbuf, got>>

Data == UNION { [1 .. n -> Byte] : n \in 1 .. MaxRequest }

BufInit == rbuf = Alloc(Size) /\ got = << >>

Write(data) ==
  /\ WriteAllowed(rbuf, data)
  /\ rbuf' = AfterWrite(rbuf, data)
  /\ got' = << >>

Read(n) ==
  /\ rbuf' = AfterRead(rbuf, n)
  /\ got' = ReadBytes(rbuf, n)

BufNext ==
  \/ \E data \in Data : Write(data)
  \/ \E n \in 0 .. MaxRequest : Read(n)

BufSpec == BufInit /\ [][BufNext]_bufvars
-------------------------------------------------------------------------------
(* Type correctness: head and tail stay inside the cells that were         *)
(* allocated (ring_buffer.h:17-22), so no copy leaves the buffer.          *)
BufTypeOK ==
  /\ rbuf \in RingBuffers(Size, Byte)
  /\ got \in Seq(Byte)

Queue == INSTANCE ByteQueue WITH Capacity <- Size, queue <- Contents(rbuf), taken <- got

(* The wrapping reads and writes of ring_buffer.h:56-92 are those of a     *)
(* bounded queue: nothing is lost, repeated, reordered or overwritten.     *)
ImplementsQueue == Queue!Spec
===============================================================================
