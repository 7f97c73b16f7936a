------------------------------ MODULE RingBuffer ------------------------------
(***************************************************************************)
(* The circular byte buffer of include/ring_buffer.h, in which a socket    *)
(* keeps the bytes it received until the application reads them.           *)
(*                                                                         *)
(* A buffer is a record with the fields of struct ring_buffer: the number  *)
(* of cells, the cell to read from, the cell to write to, and the cells,   *)
(* numbered from 0 as in C.  A byte is a natural number.  Arguments of the *)
(* user (char *buf) are sequences.                                         *)
(***************************************************************************)
EXTENDS Integers, Sequences

(* alloc_ring_buffer: one cell more than asked for, and all of it zeroed. *)
Alloc(capacity) ==
  [size |-> capacity + 1,
   head |-> 0,
   tail |-> 0,
   buf  |-> [i \in 0 .. capacity |-> 0]]

RingBuffers(capacity, Byte) ==
  [size : {capacity + 1},
   head : 0 .. capacity,
   tail : 0 .. capacity,
   buf  : [0 .. capacity -> Byte]]

Used(rb) == (rb.tail - rb.head + rb.size) % rb.size

(* The cell that is never filled tells a full buffer from an empty one. *)
Free_NoSpare(rb) == rb.size - Used(rb)
Free(rb) == rb.size - Used(rb) - 1

IsEmpty(rb) == Used(rb) = 0

IsFull(rb) == Free(rb) = 0

(* memcpy of n bytes, from position `from` of the user's data to cell `at`. *)
CopyIn(cells, at, data, from, n) ==
  [i \in DOMAIN cells |->
     IF i \in at .. (at + n - 1) THEN data[from + i - at] ELSE cells[i]]

(* memcpy of the n cells that start at cell `at`. *)
CopyOut(cells, at, n) == [i \in 1 .. n |-> cells[at + i - 1]]

ReadLen(rb, n) == IF Used(rb) < n THEN Used(rb) ELSE n

(* The bytes read_ring_buffer hands out: in two pieces when they wrap. *)
ReadBytes(rb, n) ==
  LET len   == ReadLen(rb, n)
      right == rb.size - rb.head
  IN  IF rb.head + len > rb.size
      THEN CopyOut(rb.buf, rb.head, right) \o CopyOut(rb.buf, 0, len - right)
      ELSE CopyOut(rb.buf, rb.head, len)

(* The buffer read_ring_buffer leaves behind. *)
AfterRead(rb, n) ==
  [rb EXCEPT !.head = (rb.head + ReadLen(rb, n)) % rb.size]

(* The assertion at the top of write_ring_buffer. *)
WriteAllowed(rb, data) == Len(data) > 0 /\ Free(rb) >= Len(data)

(* The buffer write_ring_buffer leaves behind. *)
AfterWrite(rb, data) ==
  LET len   == Len(data)
      right == rb.size - rb.tail
  IN  [size |-> rb.size,
       head |-> rb.head,
       tail |-> (rb.tail + len) % rb.size,
       buf  |-> IF rb.tail + len > rb.size
                THEN CopyIn(CopyIn(rb.buf, rb.tail, data, 1, right),
                            0, data, right + 1, len - right)
                ELSE CopyIn(rb.buf, rb.tail, data, 1, len)]

(* What the buffer stands for: the bytes from head up to tail. *)
Contents(rb) ==
  [i \in 1 .. Used(rb) |-> rb.buf[(rb.head + i - 1) % rb.size]]
===============================================================================
