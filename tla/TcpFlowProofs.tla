----------------------------- MODULE TcpFlowProofs -----------------------------
(***************************************************************************)
(* The TCP data path, for buffers, streams, segments and reads of every    *)
(* size: first what the operations of ring_buffer.h do to the queue of     *)
(* bytes a buffer stands for, and that a ring buffer in use implements a   *)
(* bounded queue; then, with the same lemmas on the receive buffer, the    *)
(* safety of the byte stream of module TcpFlow, and that it is a pipe.     *)
(***************************************************************************)
EXTENDS TcpFlow, RingBufferUse, SequenceTheorems, TLAPS

(* A dividend below the divisor is its own remainder. *)
LEMMA ModSmall ==
  ASSUME NEW n \in Nat \ {0}, NEW x \in 0 .. (n - 1)
  PROVE  x % n = x
  BY SMT

(* The only case in which a cell number wraps: it passes the end once. *)
LEMMA ModWrap ==
  ASSUME NEW n \in Nat \ {0}, NEW x \in n .. (2 * n - 1)
  PROVE  x % n = x - n
  BY SMT

(* The number of bytes held, without the division (ring_buffer.h:31-34). *)
LEMMA UsedValue ==
  ASSUME NEW C \in Nat, NEW B, NEW rb \in RingBuffers(C, B)
  PROVE  /\ rb.head <= rb.tail => Used(rb) = rb.tail - rb.head
         /\ rb.head > rb.tail  => Used(rb) = rb.tail - rb.head + C + 1
         /\ Used(rb) \in 0 .. C
         /\ Free(rb) = C - Used(rb)
<1> DEFINE n == C + 1
           x == rb.tail - rb.head + n
<1>1. /\ n \in Nat \ {0}  /\ rb.size = n
      /\ rb.head \in 0 .. C  /\ rb.tail \in 0 .. C
  BY DEF RingBuffers
<1>2. Used(rb) = x % n  BY <1>1 DEF Used
<1>3. Free(rb) = n - Used(rb) - 1  BY <1>1 DEF Free
<1>4. CASE rb.head <= rb.tail
  <2>1. x \in n .. (2 * n - 1)  BY <1>1, <1>4
  <2>2. Used(rb) = x - n  BY <1>1, <1>2, <2>1, ModWrap
  <2> QED  BY <1>1, <1>3, <1>4, <2>2
<1>5. CASE rb.head > rb.tail
  <2>1. x \in 0 .. (n - 1)  BY <1>1, <1>5
  <2>2. Used(rb) = x  BY <1>1, <1>2, <2>1, ModSmall
  <2> QED  BY <1>1, <1>3, <1>5, <2>2
<1> QED  BY <1>1, <1>4, <1>5

(* Advancing a cell number by at most one turn of the buffer. *)
LEMMA CellValue ==
  ASSUME NEW C \in Nat, NEW at \in 0 .. C, NEW k \in 0 .. (C + 1)
  PROVE  /\ at + k <= C => (at + k) % (C + 1) = at + k
         /\ at + k > C  => (at + k) % (C + 1) = at + k - C - 1
         /\ (at + k) % (C + 1) \in 0 .. C
<1> DEFINE n == C + 1
<1>1. CASE at + k <= C
  <2>1. at + k \in 0 .. (n - 1) /\ n \in Nat \ {0}  BY <1>1
  <2>2. (at + k) % n = at + k  BY <2>1, ModSmall
  <2> QED  BY <1>1, <2>2
<1>2. CASE at + k > C
  <2>1. at + k \in n .. (2 * n - 1) /\ n \in Nat \ {0}  BY <1>2
  <2>2. (at + k) % n = at + k - n  BY <2>1, ModWrap
  <2> QED  BY <1>2, <2>2
<1> QED  BY <1>1, <1>2

(* The two ways of counting a byte of a write: from the tail, or, past the *)
(* bytes already held, from the head.                                      *)
LEMMA SameCell ==
  ASSUME NEW C \in Nat, NEW head \in 0 .. C, NEW tail \in 0 .. C,
         NEW used \in 0 .. C,
         head <= tail => used = tail - head,
         head > tail => used = tail - head + C + 1,
         NEW k \in 1 .. (C - used)
  PROVE  (head + (used + k - 1)) % (C + 1) = (tail + (k - 1)) % (C + 1)
<1>1. CASE head <= tail
  <2>1. head + (used + k - 1) = tail + (k - 1)  BY <1>1
  <2> QED  BY <2>1
<1>2. CASE head > tail
  <2> DEFINE x == tail + (k - 1)
             y == head + (used + k - 1)
  <2>1. y = x + C + 1  BY <1>2
  <2>2. x \in 0 .. C  BY <1>2
  <2>3. x % (C + 1) = x  BY <2>2, ModSmall
  <2>4. y \in (C + 1) .. (2 * (C + 1) - 1)  BY <2>1, <2>2
  <2>5. y % (C + 1) = y - (C + 1)  BY <2>4, ModWrap
  <2>6. y - (C + 1) = x  BY <2>1, <2>2
  <2> QED  BY <2>3, <2>5, <2>6
<1> QED  BY <1>1, <1>2

(* How many bytes are held once the tail has moved, wrapped or not.        *)
LEMMA UsedArithmetic ==
  ASSUME NEW C \in Nat, NEW head \in 0 .. C, NEW tail \in 0 .. C,
         NEW used \in 0 .. C, NEW len \in 1 .. C, len <= C - used,
         head <= tail => used = tail - head,
         head > tail => used = tail - head + C + 1,
         NEW next \in 0 .. C,
         tail + len <= C => next = tail + len,
         tail + len > C => next = tail + len - C - 1
  PROVE  /\ head <= next => next - head = used + len
         /\ head > next => next - head + C + 1 = used + len
<1>1. CASE head <= tail /\ tail + len <= C  BY <1>1
<1>2. CASE head <= tail /\ tail + len > C   BY <1>2
<1>3. CASE head > tail  BY <1>3
<1> QED  BY <1>1, <1>2, <1>3

(* The queue a buffer stands for, as a sequence. *)
LEMMA ContentsSeq ==
  ASSUME NEW C \in Nat, NEW B, NEW rb \in RingBuffers(C, B)
  PROVE  /\ Contents(rb) \in Seq(B)
         /\ Len(Contents(rb)) = Used(rb)
<1>1. Used(rb) \in 0 .. C  BY UsedValue
<1>2. ASSUME NEW i \in 1 .. Used(rb)
      PROVE  rb.buf[(rb.head + i - 1) % rb.size] \in B
  <2> DEFINE cell == (rb.head + (i - 1)) % (C + 1)
  <2>1. rb.head \in 0 .. C /\ i - 1 \in 0 .. (C + 1)  BY <1>1 DEF RingBuffers
  <2>2. cell \in 0 .. C  BY <2>1, CellValue
  <2>3. rb.buf[(rb.head + i - 1) % rb.size] = rb.buf[cell]
    BY <1>1, <2>1 DEF RingBuffers
  <2>4. rb.buf \in [0 .. C -> B]  BY DEF RingBuffers
  <2> QED  BY <2>2, <2>3, <2>4
<1> QED  BY <1>1, <1>2 DEF Contents

(* A fresh buffer is well formed and stands for the empty queue            *)
(* (ring_buffer.h:15-24).                                                  *)
LEMMA AllocContents ==
  ASSUME NEW C \in Nat, NEW B, 0 \in B
  PROVE  Alloc(C) \in RingBuffers(C, B) /\ Contents(Alloc(C)) = << >>
<1>1. Alloc(C) \in RingBuffers(C, B)  BY DEF Alloc, RingBuffers
<1>2. Alloc(C).head = 0 /\ Alloc(C).tail = 0  BY DEF Alloc
<1>3. Used(Alloc(C)) = 0  BY <1>1, <1>2, UsedValue
<1>4. Contents(Alloc(C)) \in Seq(B) /\ Len(Contents(Alloc(C))) = 0
  BY <1>1, <1>3, ContentsSeq
<1> QED  BY <1>1, <1>4

(* The cells of an allowed write, wrapped or not: the k-th byte goes to    *)
(* the k-th cell from the tail, and every other cell keeps its byte        *)
(* (ring_buffer.h:80-89).                                                  *)
LEMMA WriteCells ==
  ASSUME NEW C \in Nat, NEW B, NEW rb \in RingBuffers(C, B),
         NEW data \in Seq(B), WriteAllowed(rb, data)
  PROVE  LET wr == AfterWrite(rb, data)
         IN  /\ wr \in RingBuffers(C, B)
             /\ wr.head = rb.head
             /\ Used(wr) = Used(rb) + Len(data)
             /\ \A k \in 1 .. Len(data) :
                  wr.buf[(rb.tail + (k - 1)) % (C + 1)] = data[k]
             /\ \A j \in 1 .. Used(rb) :
                  LET cell == (rb.head + (j - 1)) % (C + 1)
                  IN  wr.buf[cell] = rb.buf[cell]
<1> DEFINE len == Len(data)
           wr == AfterWrite(rb, data)
           head == rb.head
           tail == rb.tail
           used == Used(rb)
           Wrapped(i) == IF i \in 0 .. (tail + len - C - 2)
                         THEN data[C + 2 - tail + i]
                         ELSE IF i \in tail .. C
                              THEN data[1 + i - tail] ELSE rb.buf[i]
           Straight(i) == IF i \in tail .. (tail + len - 1)
                          THEN data[1 + i - tail] ELSE rb.buf[i]
<1>1. /\ rb.size = C + 1  /\ head \in 0 .. C  /\ tail \in 0 .. C
      /\ rb.buf \in [0 .. C -> B]
  BY DEF RingBuffers
<1>2. /\ used \in 0 .. C
      /\ head <= tail => used = tail - head
      /\ head > tail  => used = tail - head + C + 1
  BY UsedValue
<1>3. len \in 1 .. C /\ len <= C - used /\ \A k \in 1 .. len : data[k] \in B
  BY <1>2, UsedValue DEF WriteAllowed
<1>4. wr.head = head /\ wr.tail = (tail + len) % (C + 1) /\ wr.size = C + 1
  BY <1>1 DEF AfterWrite, RingBuffers
<1>5. /\ wr.tail \in 0 .. C
      /\ tail + len <= C => wr.tail = tail + len
      /\ tail + len > C  => wr.tail = tail + len - C - 1
  <2>1. len \in 0 .. (C + 1)  BY <1>3
  <2>2. /\ tail + len <= C => (tail + len) % (C + 1) = tail + len
        /\ tail + len > C  => (tail + len) % (C + 1) = tail + len - C - 1
        /\ (tail + len) % (C + 1) \in 0 .. C
    <3> HIDE DEF len, tail
    <3> QED  BY <1>1, <2>1, CellValue
  <2> HIDE DEF len, tail, wr
  <2> QED  BY <1>4, <2>2
<1>6. wr.buf = [i \in 0 .. C |-> IF tail + len <= C + 1 THEN Straight(i) ELSE Wrapped(i)]
  <2>1. CASE tail + len > C + 1
    <3>1. wr.buf = CopyIn(CopyIn(rb.buf, tail, data, 1, C + 1 - tail),
                          0, data, C + 2 - tail, tail + len - C - 1)
      BY <1>1, <1>3, <2>1 DEF AfterWrite, RingBuffers
    <3> DEFINE inner == CopyIn(rb.buf, tail, data, 1, C + 1 - tail)
    <3>2. inner = [i \in 0 .. C |-> IF i \in tail .. C
                                    THEN data[1 + i - tail] ELSE rb.buf[i]]
      BY <1>1 DEF CopyIn
    <3>3. DOMAIN inner = 0 .. C  BY <3>2
    <3> HIDE DEF inner
    <3>4. CopyIn(inner, 0, data, C + 2 - tail, tail + len - C - 1)
            = [i \in 0 .. C |-> IF i \in 0 .. (tail + len - C - 2)
                                THEN data[C + 2 - tail + i] ELSE inner[i]]
      <4> HIDE DEF len, tail
      <4> QED  BY <1>1, <1>3, <3>3 DEF CopyIn
    <3>5. wr.buf = [i \in 0 .. C |-> Wrapped(i)]
      BY <3>1, <3>2, <3>4 DEF inner
    <3> QED  BY <1>1, <1>3, <2>1, <3>5
  <2>2. CASE tail + len <= C + 1
    <3>1. wr.buf = CopyIn(rb.buf, tail, data, 1, len)
      BY <1>1, <1>3, <2>2 DEF AfterWrite, RingBuffers
    <3> QED  BY <1>1, <1>3, <2>2, <3>1 DEF CopyIn
  <2> QED  BY <1>1, <1>3, <2>1, <2>2
<1>7. wr \in RingBuffers(C, B)
  <2> HIDE DEF len, head, tail, used
  <2>1. \A i \in 0 .. C : wr.buf[i] \in B  BY <1>1, <1>3, <1>6
  <2>2. wr.buf \in [0 .. C -> B]  BY <1>6, <2>1
  <2>3. wr = [size |-> wr.size, head |-> wr.head, tail |-> wr.tail, buf |-> wr.buf]
    BY DEF AfterWrite
  <2> HIDE DEF wr
  <2>4. wr.size \in {C + 1} /\ wr.head \in 0 .. C  BY <1>1, <1>4
  <2> QED  BY <1>5, <2>2, <2>3, <2>4 DEF RingBuffers
<1> HIDE DEF len, wr, head, tail, used
<1>8. Used(wr) = used + len
  <2>1. /\ wr.head <= wr.tail => Used(wr) = wr.tail - wr.head
        /\ wr.head > wr.tail  => Used(wr) = wr.tail - wr.head + C + 1
    BY <1>7, UsedValue
  <2>2. wr.head = head  BY <1>4
  <2>3. /\ head <= wr.tail => wr.tail - head = used + len
        /\ head > wr.tail => wr.tail - head + C + 1 = used + len
    <3> DEFINE next == wr.tail
    <3>1. /\ next \in 0 .. C
          /\ tail + len <= C => next = tail + len
          /\ tail + len > C => next = tail + len - C - 1
      BY <1>5
    <3>2. len <= C - used  BY <1>3
    <3> HIDE DEF next
    <3>3. /\ head <= next => next - head = used + len
          /\ head > next => next - head + C + 1 = used + len
      BY <1>1, <1>2, <1>3, <3>1, <3>2, UsedArithmetic
    <3> QED  BY <3>3 DEF next
  <2> QED  BY <1>1, <1>5, <2>1, <2>2, <2>3
<1>9. ASSUME NEW k \in 1 .. len
      PROVE  wr.buf[(tail + (k - 1)) % (C + 1)] = data[k]
  <2> DEFINE cell == (tail + (k - 1)) % (C + 1)
  <2>1. /\ cell \in 0 .. C
        /\ tail + (k - 1) <= C => cell = tail + (k - 1)
        /\ tail + (k - 1) > C  => cell = tail + (k - 1) - C - 1
    <3>1. k - 1 \in 0 .. (C + 1)  BY <1>3
    <3> QED  BY <1>1, <3>1, CellValue
  <2>s. SUFFICES wr.buf[cell] = data[k]  OBVIOUS
  <2> HIDE DEF cell
  <2>2. /\ tail + len <= C + 1 => /\ cell \in tail .. (tail + len - 1)
                                  /\ 1 + cell - tail = k
        /\ tail + len > C + 1 /\ tail + (k - 1) <= C =>
             /\ cell \notin 0 .. (tail + len - C - 2)
             /\ cell \in tail .. C
             /\ 1 + cell - tail = k
        /\ tail + len > C + 1 /\ tail + (k - 1) > C =>
             /\ cell \in 0 .. (tail + len - C - 2)
             /\ C + 2 - tail + cell = k
    BY <1>1, <1>2, <1>3, <2>1
  <2>3. wr.buf[cell] = IF tail + len <= C + 1 THEN Straight(cell) ELSE Wrapped(cell)
    <3> HIDE DEF Straight, Wrapped
    <3> QED  BY <1>6, <2>1
  <2>4. CASE tail + len <= C + 1
    <3>1. wr.buf[cell] = data[1 + cell - tail]  BY <2>2, <2>3, <2>4
    <3> QED  BY <2>2, <2>4, <3>1
  <2>5. CASE tail + len > C + 1 /\ tail + (k - 1) <= C
    <3>1. ~(tail + len <= C + 1)  BY <1>1, <1>3, <2>5
    <3>2. wr.buf[cell] = data[1 + cell - tail]  BY <2>2, <2>3, <2>5, <3>1
    <3> QED  BY <2>2, <2>5, <3>2
  <2>6. CASE tail + len > C + 1 /\ tail + (k - 1) > C
    <3>1. ~(tail + len <= C + 1)  BY <1>1, <1>3, <2>6
    <3>2. wr.buf[cell] = data[C + 2 - tail + cell]  BY <2>2, <2>3, <2>6, <3>1
    <3> QED  BY <2>2, <2>6, <3>2
  <2> QED  BY <1>1, <1>3, <2>4, <2>5, <2>6
<1>10. ASSUME NEW j \in 1 .. used
       PROVE  LET cell == (head + (j - 1)) % (C + 1)
              IN  wr.buf[cell] = rb.buf[cell]
  <2> DEFINE cell == (head + (j - 1)) % (C + 1)
  <2>1. /\ cell \in 0 .. C
        /\ head + (j - 1) <= C => cell = head + (j - 1)
        /\ head + (j - 1) > C  => cell = head + (j - 1) - C - 1
    <3>1. j - 1 \in 0 .. (C + 1)  BY <1>2
    <3> QED  BY <1>1, <3>1, CellValue
  <2>s. SUFFICES wr.buf[cell] = rb.buf[cell]  OBVIOUS
  <2> HIDE DEF cell
  <2>2. /\ tail + len <= C + 1 => cell \notin tail .. (tail + len - 1)
        /\ tail + len > C + 1 => /\ cell \notin 0 .. (tail + len - C - 2)
                                 /\ cell \notin tail .. C
    <3>0. /\ head \in 0 .. C /\ tail \in 0 .. C /\ used \in 0 .. C
          /\ len \in 1 .. C /\ len <= C - used /\ j \in 1 .. used
          /\ head <= tail => used = tail - head
          /\ head > tail  => used = tail - head + C + 1
      BY <1>1, <1>2, <1>3
    <3> HIDE DEF head, tail, used, len
    <3>1. CASE head + (j - 1) <= C
      <4>1. cell = head + (j - 1)  BY <2>1, <3>1
      <4> QED  BY <3>0, <4>1, <3>1
    <3>2. CASE head + (j - 1) > C
      <4>1. cell = head + (j - 1) - C - 1  BY <2>1, <3>2
      <4> QED  BY <3>0, <4>1, <3>2
    <3> QED  BY <3>0, <3>1, <3>2
  <2>3. wr.buf[cell] = IF tail + len <= C + 1 THEN Straight(cell) ELSE Wrapped(cell)
    <3> HIDE DEF Straight, Wrapped
    <3> QED  BY <1>6, <2>1
  <2>4. CASE tail + len <= C + 1  BY <2>2, <2>3, <2>4
  <2>5. CASE tail + len > C + 1
    <3>1. ~(tail + len <= C + 1)  BY <1>1, <1>3, <2>5
    <3> QED  BY <2>2, <2>3, <2>5, <3>1
  <2> QED  BY <1>1, <1>3, <2>4, <2>5
<1> QED  BY <1>4, <1>7, <1>8, <1>9, <1>10 DEF len, wr, head, tail, used

(* A write appends the user's bytes to the queue (ring_buffer.h:77-92).    *)
LEMMA WriteContents ==
  ASSUME NEW C \in Nat, NEW B, NEW rb \in RingBuffers(C, B),
         NEW data \in Seq(B), WriteAllowed(rb, data)
  PROVE  /\ AfterWrite(rb, data) \in RingBuffers(C, B)
         /\ Used(AfterWrite(rb, data)) = Used(rb) + Len(data)
         /\ Contents(AfterWrite(rb, data)) = Contents(rb) \o data
<1> DEFINE wr == AfterWrite(rb, data)
           u   == Used(rb)
           l   == Len(data)
           old == Contents(rb)
           new == Contents(wr)
<1>1. /\ wr \in RingBuffers(C, B)  /\ Used(wr) = u + Len(data)
      /\ wr.head = rb.head
      /\ \A k \in 1 .. Len(data) :
           wr.buf[(rb.tail + (k - 1)) % (C + 1)] = data[k]
      /\ \A j \in 1 .. u :
           wr.buf[(rb.head + (j - 1)) % (C + 1)]
             = rb.buf[(rb.head + (j - 1)) % (C + 1)]
  BY WriteCells
<1>2. /\ rb.size = C + 1  /\ rb.head \in 0 .. C  /\ rb.tail \in 0 .. C
      /\ wr.size = C + 1
  BY <1>1 DEF RingBuffers
<1>3. /\ u \in 0 .. C  /\ l \in 1 .. C  /\ u + l <= C
      /\ rb.head <= rb.tail => u = rb.tail - rb.head
      /\ rb.head > rb.tail  => u = rb.tail - rb.head + C + 1
  BY UsedValue DEF WriteAllowed
<1>4. /\ old \in Seq(B)  /\ Len(old) = u
      /\ new \in Seq(B)  /\ Len(new) = u + l
  BY <1>1, ContentsSeq
<1>9. old \o data \in Seq(B) /\ Len(old \o data) = u + l
  <2> HIDE DEF old
  <2> QED  BY <1>4
<1>5. ASSUME NEW i \in 1 .. (u + l)
      PROVE  new[i] = (old \o data)[i]
  <2>1. new[i] = wr.buf[(rb.head + (i - 1)) % (C + 1)]
    <3>1. (wr.head + i - 1) % wr.size = (rb.head + (i - 1)) % (C + 1)
      BY <1>1, <1>2, <1>3
    <3> QED  BY <1>1, <3>1 DEF Contents
  <2>2. CASE i \in 1 .. u
    <3>1. old[i] = rb.buf[(rb.head + (i - 1)) % (C + 1)]
      <4>1. (rb.head + i - 1) % rb.size = (rb.head + (i - 1)) % (C + 1)
        BY <1>2, <1>3
      <4> QED  BY <2>2, <4>1 DEF Contents
    <3>2. (old \o data)[i] = old[i]  BY <1>4, <2>2
    <3> QED  BY <1>1, <2>1, <2>2, <3>1, <3>2
  <2>3. CASE i \in (u + 1) .. (u + l)
    <3> HIDE DEF old, new, u, l, wr
    <3> DEFINE k == i - u
    <3>1. k \in 1 .. l /\ k \in 1 .. (C - u) /\ u + k = i  BY <1>3, <2>3
    <3> HIDE DEF k
    <3>2. (old \o data)[u + k] = data[k]
      BY <1>3, <1>4, <3>1 DEF l
    <3>3. (rb.head + (u + k - 1)) % (C + 1) = (rb.tail + (k - 1)) % (C + 1)
      BY <1>2, <1>3, <3>1, SameCell
    <3>4. wr.buf[(rb.tail + (k - 1)) % (C + 1)] = data[k]
      BY <1>1, <3>1 DEF l, wr
    <3>5. i - 1 = u + k - 1  BY <1>3, <3>1
    <3>6. new[i] = wr.buf[(rb.head + (u + k - 1)) % (C + 1)]  BY <2>1, <3>5
    <3>7. new[i] = data[k]  BY <3>3, <3>4, <3>6
    <3>8. (old \o data)[i] = data[k]  BY <3>1, <3>2
    <3> QED  BY <3>7, <3>8
  <2> QED
    <3> HIDE DEF old, new, u, l, wr
    <3>1. i \in 1 .. u \/ i \in (u + 1) .. (u + l)  BY <1>3
    <3> QED  BY <2>2, <2>3, <3>1
<1>6. Contents(wr) = Contents(rb) \o data
  BY <1>4, <1>5, <1>9, SeqEqual
<1> QED  BY <1>1, <1>6

(* A memcpy of cells that lie inside the buffer.                           *)
LEMMA CopyOutCells ==
  ASSUME NEW C \in Nat, NEW B, NEW cells \in [0 .. C -> B],
         NEW at \in 0 .. C, NEW m \in 0 .. (C + 1), at + m <= C + 1
  PROVE  /\ CopyOut(cells, at, m) \in Seq(B)
         /\ Len(CopyOut(cells, at, m)) = m
         /\ \A i \in 1 .. m : CopyOut(cells, at, m)[i] = cells[at + i - 1]
<1>1. \A i \in 1 .. m : cells[at + i - 1] \in B  OBVIOUS
<1> QED  BY <1>1 DEF CopyOut

(* The bytes a read hands out, in one piece or in two, are those of the    *)
(* cells from the head on (ring_buffer.h:58-68).                           *)
LEMMA ReadCells ==
  ASSUME NEW C \in Nat, NEW B, NEW rb \in RingBuffers(C, B), NEW n \in Nat
  PROVE  /\ ReadLen(rb, n) \in 0 .. Used(rb)
         /\ ReadBytes(rb, n) \in Seq(B)
         /\ Len(ReadBytes(rb, n)) = ReadLen(rb, n)
         /\ \A i \in 1 .. ReadLen(rb, n) :
              ReadBytes(rb, n)[i] = rb.buf[(rb.head + (i - 1)) % (C + 1)]
<1> DEFINE len == ReadLen(rb, n)
           head == rb.head
           cells == rb.buf
           out == ReadBytes(rb, n)
           right == C + 1 - head
           a == CopyOut(cells, head, right)
           b == CopyOut(cells, 0, len - right)
<1>1. /\ rb.size = C + 1  /\ head \in 0 .. C  /\ cells \in [0 .. C -> B]
  BY DEF RingBuffers
<1>2. Used(rb) \in 0 .. C  BY UsedValue
<1>3. len \in 0 .. Used(rb) /\ len \in 0 .. C  BY <1>2 DEF ReadLen
<1>4. out = IF head + len > C + 1 THEN a \o b ELSE CopyOut(cells, head, len)
  <2>1. ReadBytes(rb, n) = IF head + len > rb.size
                           THEN CopyOut(cells, head, rb.size - head)
                                  \o CopyOut(cells, 0, len - (rb.size - head))
                           ELSE CopyOut(cells, head, len)
    BY DEF ReadBytes
  <2> HIDE DEF len, cells, out
  <2>2. rb.size = C + 1 /\ rb.size - head = right  BY <1>1
  <2>3. out = IF head + len > rb.size
              THEN CopyOut(cells, head, rb.size - head)
                     \o CopyOut(cells, 0, len - (rb.size - head))
              ELSE CopyOut(cells, head, len)
    BY <2>1 DEF out
  <2> HIDE DEF head, right
  <2> QED  BY <2>2, <2>3
<1> SUFFICES /\ out \in Seq(B)
             /\ Len(out) = len
             /\ \A i \in 1 .. len : out[i] = cells[(head + (i - 1)) % (C + 1)]
  BY <1>3
<1>5. head \in 0 .. C /\ cells \in [0 .. C -> B] /\ len \in 0 .. (C + 1)
  BY <1>1, <1>3
<1> HIDE DEF len, head, cells, out
<1>6. CASE head + len <= C + 1
  <2> DEFINE whole == CopyOut(cells, head, len)
  <2>1. out = whole  BY <1>4, <1>5, <1>6
  <2>2. /\ whole \in Seq(B)  /\ Len(whole) = len
        /\ \A i \in 1 .. len : whole[i] = cells[head + i - 1]
    BY <1>5, <1>6, CopyOutCells
  <2> HIDE DEF whole
  <2>3. ASSUME NEW i \in 1 .. len
        PROVE  whole[i] = cells[(head + (i - 1)) % (C + 1)]
    <3>1. i - 1 \in 0 .. (C + 1) /\ head + (i - 1) <= C  BY <1>5, <1>6
    <3>2. (head + (i - 1)) % (C + 1) = head + (i - 1)  BY <1>5, <3>1, CellValue
    <3>3. head + i - 1 = head + (i - 1)  BY <1>5
    <3>4. whole[i] = cells[head + (i - 1)]  BY <2>2, <3>3
    <3> QED  BY <3>2, <3>4
  <2> QED  BY <2>1, <2>2, <2>3
<1>7. CASE head + len > C + 1
  <2>1. out = a \o b  BY <1>4, <1>7
  <2>2. /\ right \in 0 .. (C + 1)  /\ head + right <= C + 1
        /\ len - right \in 0 .. (C + 1)  /\ 0 + (len - right) <= C + 1
        /\ 0 \in 0 .. C  /\ head + right = C + 1
    BY <1>5, <1>7
  <2> HIDE DEF right
  <2>3. /\ a \in Seq(B)  /\ Len(a) = right
        /\ \A i \in 1 .. right : a[i] = cells[head + i - 1]
    <3>1. right \in 0 .. (C + 1) /\ head + right <= C + 1  BY <2>2
    <3>2. head \in 0 .. C /\ cells \in [0 .. C -> B]  BY <1>5
    <3> QED  BY <3>1, <3>2, CopyOutCells
  <2>4. /\ b \in Seq(B)  /\ Len(b) = len - right
        /\ \A i \in 1 .. (len - right) : b[i] = cells[0 + i - 1]
    <3> DEFINE left == len - right
    <3>1. left \in 0 .. (C + 1) /\ 0 + left <= C + 1 /\ 0 \in 0 .. C  BY <2>2
    <3>2. cells \in [0 .. C -> B]  BY <1>5
    <3> HIDE DEF left
    <3>3. /\ CopyOut(cells, 0, left) \in Seq(B)
          /\ Len(CopyOut(cells, 0, left)) = left
          /\ \A i \in 1 .. left : CopyOut(cells, 0, left)[i] = cells[0 + i - 1]
      BY <3>1, <3>2, CopyOutCells
    <3> QED  BY <3>3 DEF left
  <2> HIDE DEF a, b
  <2>5. out \in Seq(B)  BY <2>1, <2>3, <2>4
  <2>6. Len(out) = len
    <3>1. a \in Seq(B) /\ b \in Seq(B)  BY <2>3, <2>4
    <3>2. Len(out) = Len(a) + Len(b)  BY <2>1, <3>1
    <3>3. right + (len - right) = len  BY <1>5, <2>2
    <3> QED  BY <2>3, <2>4, <3>2, <3>3
  <2>7. ASSUME NEW i \in 1 .. len
        PROVE  out[i] = cells[(head + (i - 1)) % (C + 1)]
    <3>1. i - 1 \in 0 .. (C + 1)  BY <1>5
    <3>2. CASE i \in 1 .. right
      <4>1. out[i] = a[i]  BY <2>1, <2>2, <2>3, <2>4, <3>2
      <4>2. head + (i - 1) <= C /\ head + i - 1 = head + (i - 1)
        BY <1>5, <2>2, <3>2
      <4>3. (head + (i - 1)) % (C + 1) = head + (i - 1)
        BY <1>5, <3>1, <4>2, CellValue
      <4>4. a[i] = cells[head + (i - 1)]  BY <2>3, <3>2, <4>2
      <4> QED  BY <4>1, <4>3, <4>4
    <3>3. CASE i \in (right + 1) .. len
      <4>1. i - right \in 1 .. (len - right)  BY <1>5, <2>2, <3>3
      <4>2. out[i] = b[i - right]
        <5>1. a \in Seq(B) /\ b \in Seq(B) /\ Len(a) = right
          BY <2>3, <2>4
        <5>2. i \in 1 .. (Len(a) + Len(b)) /\ ~(i <= Len(a))
          BY <1>5, <2>2, <2>3, <2>4, <3>3
        <5> QED  BY <2>1, <5>1, <5>2, ConcatProperties
      <4>3. head + (i - 1) > C /\ 0 + (i - right) - 1 = head + (i - 1) - C - 1
        BY <1>5, <2>2, <3>3
      <4>4. (head + (i - 1)) % (C + 1) = head + (i - 1) - C - 1
        BY <1>5, <3>1, <4>3, CellValue
      <4>5. b[i - right] = cells[head + (i - 1) - C - 1]
        BY <2>4, <4>1, <4>3
      <4> QED  BY <4>2, <4>4, <4>5
    <3>4. i \in 1 .. right \/ i \in (right + 1) .. len  BY <1>5, <2>2
    <3> QED  BY <3>2, <3>3, <3>4
  <2> QED  BY <2>5, <2>6, <2>7
<1> QED
  <2>1. head + len <= C + 1 \/ head + len > C + 1  BY <1>5
  <2> QED  BY <1>6, <1>7, <2>1

(* How many bytes are held once the head has moved, wrapped or not.        *)
LEMMA UsedAfterRead ==
  ASSUME NEW C \in Nat, NEW head \in 0 .. C, NEW tail \in 0 .. C,
         NEW used \in 0 .. C, NEW len \in 0 .. used,
         head <= tail => used = tail - head,
         head > tail => used = tail - head + C + 1,
         NEW next \in 0 .. C,
         head + len <= C => next = head + len,
         head + len > C => next = head + len - C - 1
  PROVE  /\ next <= tail => tail - next = used - len
         /\ next > tail => tail - next + C + 1 = used - len
<1>1. CASE head <= tail  BY <1>1
<1>2. CASE head > tail /\ head + len <= C  BY <1>2
<1>3. CASE head > tail /\ head + len > C   BY <1>3
<1> QED  BY <1>1, <1>2, <1>3

(* Moving on by len cells and then by m is moving on by len + m.           *)
LEMMA CellAfterCell ==
  ASSUME NEW C \in Nat, NEW head \in 0 .. C, NEW len \in 0 .. C,
         NEW m \in 0 .. C, len + m <= C
  PROVE  (((head + len) % (C + 1)) + m) % (C + 1) = (head + (len + m)) % (C + 1)
<1> DEFINE next == (head + len) % (C + 1)
<1>1. /\ next \in 0 .. C
      /\ head + len <= C => next = head + len
      /\ head + len > C  => next = head + len - C - 1
  <2>1. len \in 0 .. (C + 1)  OBVIOUS
  <2> QED  BY <2>1, CellValue
<1> HIDE DEF next
<1>2. CASE head + len <= C
  <2>1. next + m = head + (len + m)  BY <1>1, <1>2
  <2> QED  BY <2>1 DEF next
<1>3. CASE head + len > C
  <2> DEFINE x == next + m
             y == head + (len + m)
  <2>1. x \in 0 .. C /\ y = x + C + 1  BY <1>1, <1>3
  <2>2. y \in (C + 1) .. (2 * (C + 1) - 1) /\ x \in 0 .. ((C + 1) - 1)  BY <2>1
  <2> HIDE DEF x, y
  <2>3. x % (C + 1) = x  BY <2>2, ModSmall
  <2>4. y % (C + 1) = y - (C + 1)  BY <2>2, ModWrap
  <2>5. y - (C + 1) = x  BY <2>1
  <2>6. x % (C + 1) = y % (C + 1)  BY <2>3, <2>4, <2>5
  <2> QED  BY <2>6 DEF x, y, next
<1> QED
  <2>1. head + len <= C \/ head + len > C  OBVIOUS
  <2> QED  BY <1>2, <1>3, <2>1

TakeFirst(q, n) == SubSeq(q, 1, n)
DropFirst(q, n) == SubSeq(q, n + 1, Len(q))

(* A read takes the bytes at the front of the queue, and only those        *)
(* (ring_buffer.h:56-74).                                                  *)
LEMMA ReadContents ==
  ASSUME NEW C \in Nat, NEW B, NEW rb \in RingBuffers(C, B), NEW n \in Nat
  PROVE  /\ AfterRead(rb, n) \in RingBuffers(C, B)
         /\ ReadLen(rb, n) \in 0 .. Used(rb)
         /\ Used(AfterRead(rb, n)) = Used(rb) - ReadLen(rb, n)
         /\ ReadBytes(rb, n) = TakeFirst(Contents(rb), ReadLen(rb, n))
         /\ Contents(AfterRead(rb, n)) = DropFirst(Contents(rb), ReadLen(rb, n))
<1> DEFINE len == ReadLen(rb, n)
           rd == AfterRead(rb, n)
           out == ReadBytes(rb, n)
           head == rb.head
           tail == rb.tail
           cells == rb.buf
           u == Used(rb)
           old == Contents(rb)
           new == Contents(rd)
<1>1. /\ rb.size = C + 1  /\ head \in 0 .. C  /\ tail \in 0 .. C
      /\ cells \in [0 .. C -> B]
  BY DEF RingBuffers
<1>2. /\ u \in 0 .. C
      /\ head <= tail => u = tail - head
      /\ head > tail  => u = tail - head + C + 1
  BY UsedValue
<1>3. /\ len \in 0 .. u  /\ out \in Seq(B)  /\ Len(out) = len
      /\ \A i \in 1 .. len : out[i] = cells[(head + (i - 1)) % (C + 1)]
  BY ReadCells
<1>4. /\ rd.size = C + 1  /\ rd.tail = tail  /\ rd.buf = cells
      /\ rd.head = (head + len) % (C + 1)
      /\ rd = [size |-> rd.size, head |-> rd.head, tail |-> rd.tail, buf |-> rd.buf]
  BY <1>1 DEF AfterRead, RingBuffers
<1>5. old \in Seq(B) /\ Len(old) = u  BY ContentsSeq
<1>6. \A i \in 1 .. u : old[i] = cells[(head + (i - 1)) % (C + 1)]
  <2> TAKE i \in 1 .. u
  <2>1. (rb.head + i - 1) % rb.size = (head + (i - 1)) % (C + 1)  BY <1>1, <1>2
  <2> QED  BY <2>1 DEF Contents
<1> SUFFICES /\ rd \in RingBuffers(C, B)
             /\ Used(rd) = u - len
             /\ out = SubSeq(old, 1, len)
             /\ new = SubSeq(old, len + 1, u)
  <2> HIDE DEF len, rd, out, u, old, new
  <2> QED  BY <1>3, <1>5 DEF len, rd, out, u, old, new, TakeFirst, DropFirst
<1> HIDE DEF len, rd, out, head, tail, cells, u, old
<1>7. /\ rd.head \in 0 .. C
      /\ head + len <= C => rd.head = head + len
      /\ head + len > C => rd.head = head + len - C - 1
  <2>1. len \in 0 .. (C + 1)  BY <1>2, <1>3
  <2>2. /\ (head + len) % (C + 1) \in 0 .. C
        /\ head + len <= C => (head + len) % (C + 1) = head + len
        /\ head + len > C => (head + len) % (C + 1) = head + len - C - 1
    BY <1>1, <2>1, CellValue
  <2> QED  BY <1>4, <2>2
<1>8. rd \in RingBuffers(C, B)
  BY <1>1, <1>4, <1>7 DEF RingBuffers
<1>9. Used(rd) = u - len
  <2>1. /\ rd.head <= tail => Used(rd) = tail - rd.head
        /\ rd.head > tail => Used(rd) = tail - rd.head + C + 1
    BY <1>4, <1>8, UsedValue
  <2> DEFINE next == rd.head
  <2>2. /\ next \in 0 .. C
        /\ head + len <= C => next = head + len
        /\ head + len > C => next = head + len - C - 1
    BY <1>7
  <2> HIDE DEF next
  <2>3. /\ next <= tail => tail - next = u - len
        /\ next > tail => tail - next + C + 1 = u - len
    BY <1>1, <1>2, <1>3, <2>2, UsedAfterRead
  <2>4. next <= tail \/ next > tail  BY <1>1, <2>2
  <2> QED  BY <2>1, <2>3, <2>4 DEF next
<1>10. out = SubSeq(old, 1, len)
  <2>1. /\ SubSeq(old, 1, len) \in Seq(B)
        /\ Len(SubSeq(old, 1, len)) = len
        /\ \A i \in 1 .. len : SubSeq(old, 1, len)[i] = old[i]
    BY <1>2, <1>3, <1>5
  <2>2. \A i \in 1 .. len : out[i] = SubSeq(old, 1, len)[i]
    BY <1>2, <1>3, <1>6, <2>1
  <2> QED  BY <1>3, <2>1, <2>2, SeqEqual
<1>11. new = SubSeq(old, len + 1, u)
  <2> DEFINE rest == SubSeq(old, len + 1, u)
  <2>1. new \in Seq(B) /\ Len(new) = u - len  BY <1>8, <1>9, ContentsSeq
  <2>2. /\ rest \in Seq(B)  /\ Len(rest) = u - len
        /\ \A i \in 1 .. (u - len) : rest[i] = old[len + i]
    BY <1>2, <1>3, <1>5
  <2> HIDE DEF rest
  <2>3. ASSUME NEW i \in 1 .. (u - len)
        PROVE  new[i] = rest[i]
    <3>1. i - 1 \in 0 .. C /\ len \in 0 .. C /\ len + (i - 1) <= C
      BY <1>2, <1>3
    <3>2. len + i \in 1 .. u /\ (len + i) - 1 = len + (i - 1)  BY <1>2, <1>3
    <3>3. new[i] = cells[(((head + len) % (C + 1)) + (i - 1)) % (C + 1)]
      <4>1. (rd.head + i - 1) % rd.size
              = (((head + len) % (C + 1)) + (i - 1)) % (C + 1)
        <5>1. rd.head + i - 1 = rd.head + (i - 1)  BY <1>2, <1>3, <1>7
        <5> QED  BY <1>4, <5>1
      <4>2. i \in 1 .. Used(rd)  BY <1>9
      <4> QED  BY <1>4, <4>1, <4>2 DEF Contents
    <3>4. new[i] = cells[(head + (len + (i - 1))) % (C + 1)]
      BY <1>1, <3>1, <3>3, CellAfterCell
    <3>5. old[len + i] = cells[(head + (len + (i - 1))) % (C + 1)]
      BY <1>6, <3>2
    <3> QED  BY <2>2, <3>4, <3>5
  <2>4. new = rest
    <3> HIDE DEF new
    <3> QED  BY <2>1, <2>2, <2>3, SeqEqual
  <2> QED  BY <2>4 DEF rest
<1> QED  BY <1>8, <1>9, <1>10, <1>11
-------------------------------------------------------------------------------
(* The data of a write is a sequence of bytes.                             *)
LEMMA DataIsSeq ==
  ASSUME NEW data \in Data
  PROVE  data \in Seq(Byte)
  BY RingBufferAssumption DEF Data

(* Every buffer a legal use can reach keeps head and tail within the cells *)
(* allocated, so no read or write of ring_buffer.h:56-92 leaves them.      *)
THEOREM BufTypeCorrect == BufSpec => []BufTypeOK
<1> USE RingBufferAssumption
<1>1. BufInit => BufTypeOK
  <2> SUFFICES ASSUME BufInit PROVE BufTypeOK  OBVIOUS
  <2> QED  BY AllocContents DEF BufInit, BufTypeOK
<1>2. BufTypeOK /\ [BufNext]_bufvars => BufTypeOK'
  <2> SUFFICES ASSUME BufTypeOK, [BufNext]_bufvars PROVE BufTypeOK'  OBVIOUS
  <2>1. ASSUME NEW data \in Data, Write(data) PROVE BufTypeOK'
    <3>1. data \in Seq(Byte)  BY DataIsSeq
    <3>2. AfterWrite(rbuf, data) \in RingBuffers(Size, Byte)
      BY <2>1, <3>1, WriteContents DEF BufTypeOK, Write
    <3> QED  BY <2>1, <3>2 DEF BufTypeOK, Write
  <2>2. ASSUME NEW n \in 0 .. MaxRequest, Read(n) PROVE BufTypeOK'
    <3>0. rbuf \in RingBuffers(Size, Byte) /\ Size \in Nat /\ n \in Nat
      BY DEF BufTypeOK
    <3>1. AfterRead(rbuf, n) \in RingBuffers(Size, Byte)
      BY <3>0, ReadContents, Zenon
    <3>2. ReadBytes(rbuf, n) \in Seq(Byte)  BY <3>0, ReadCells, Zenon
    <3> QED  BY <2>2, <3>1, <3>2 DEF BufTypeOK, Read
  <2>3. CASE UNCHANGED bufvars  BY <2>3 DEF BufTypeOK, bufvars
  <2> QED  BY <2>1, <2>2, <2>3 DEF BufNext
<1> QED  BY <1>1, <1>2, PTL DEF BufSpec

(* The refinement: an allowed write is a Put of the abstract queue and a   *)
(* read is a Take, so bytes are neither lost, repeated nor reordered.      *)
THEOREM RingBufferIsQueue == BufSpec => ImplementsQueue
<1>0. Size \in Nat \ {0} /\ 0 \in Byte /\ MaxRequest \in Nat
  BY RingBufferAssumption
<1>1. BufInit => Queue!Init
  <2> SUFFICES ASSUME BufInit PROVE Queue!Init  OBVIOUS
  <2> QED  BY <1>0, AllocContents DEF BufInit, Queue!Init
<1>2. BufTypeOK /\ [BufNext]_bufvars => [Queue!Next]_<<Contents(rbuf), got>>
  <2>s. SUFFICES ASSUME BufTypeOK, [BufNext]_bufvars
               PROVE  [Queue!Next]_<<Contents(rbuf), got>>
    OBVIOUS
  <2>0. rbuf \in RingBuffers(Size, Byte)  BY <2>s DEF BufTypeOK
  <2> DEFINE old == Contents(rbuf)
             new == Contents(rbuf')
  <2>a. old \in Seq(Byte) /\ Len(old) = Used(rbuf) /\ Used(rbuf) \in 0 .. Size
    BY <1>0, <2>0, ContentsSeq, UsedValue
  <2>1. ASSUME NEW data \in Data, Write(data) PROVE Queue!Put
    <3>1. data \in Seq(Byte) /\ WriteAllowed(rbuf, data)
      BY <2>1, DataIsSeq DEF Write
    <3>2. new = old \o data  BY <1>0, <2>0, <2>1, <3>1, WriteContents DEF Write
    <3> DEFINE n == Len(old) + Len(data)
    <3>3. Len(data) \in Nat \ {0} /\ Free(rbuf) >= Len(data)
          /\ Free(rbuf) = Size - Used(rbuf)
      BY <1>0, <2>0, <3>1, UsedValue DEF WriteAllowed
    <3>4. n \in (Len(old) + 1) .. Size  BY <1>0, <2>a, <3>3
    <3>5. new \in Seq(Byte) /\ Len(new) = n
      <4> HIDE DEF old, new
      <4>1. old \o data \in Seq(Byte) /\ Len(old \o data) = Len(old) + Len(data)
        BY <2>a, <3>1, ConcatProperties
      <4> QED  BY <3>2, <4>1
    <3>6. new \in [1 .. n -> Byte]
      <4> HIDE DEF old, new
      <4> QED  BY <3>5
    <3>7. SubSeq(new, 1, Len(old)) = old
      <4> HIDE DEF old, new
      <4> QED  BY <2>a, <3>1, <3>2, SubSeqOfConcat1
    <3> QED  BY <2>1, <3>4, <3>6, <3>7 DEF Queue!Put, Write
  <2>2. ASSUME NEW n \in 0 .. MaxRequest, Read(n) PROVE Queue!Take
    <3> DEFINE len == ReadLen(rbuf, n)
    <3>0. n \in Nat /\ Size \in Nat  BY <1>0
    <3>1. len \in 0 .. Used(rbuf)
      BY <2>0, <3>0, ReadContents, Zenon
    <3>2. ReadBytes(rbuf, n) = TakeFirst(old, len)
      BY <2>0, <3>0, ReadContents, Zenon
    <3>3. Contents(AfterRead(rbuf, n)) = DropFirst(old, len)
      BY <2>0, <3>0, ReadContents, Zenon
    <3>4. /\ len \in 0 .. Len(old)
          /\ got' = SubSeq(old, 1, len)
          /\ new = SubSeq(old, len + 1, Len(old))
      BY <2>a, <2>2, <3>1, <3>2, <3>3 DEF Read, TakeFirst, DropFirst
    <3> QED  BY <3>4 DEF Queue!Take
  <2>3. CASE UNCHANGED bufvars  BY <2>3 DEF bufvars
  <2> QED  BY <2>s, <2>1, <2>2, <2>3 DEF BufNext, Queue!Next
<1> QED  BY <1>1, <1>2, BufTypeCorrect, PTL DEF BufSpec, ImplementsQueue, Queue!Spec
-------------------------------------------------------------------------------
(* The byte stream.                                                        *)

FinSent == app \in {"fin", "FIN_WAIT_1"}
Handling == rnet \in {"store", "sleep", "asleep", "fin", "closewait"}
StreamByte == 0 .. StreamLen

(* The packets under way: each starts where the one before it ends, the    *)
(* first where the stored bytes end, the last ends at what was sent.       *)
PipeOK ==
  /\ \A i \in 1 .. Len(to_server) :
       /\ to_server[i].from < to_server[i].to
       /\ to_server[i].to <= sent \/ FinSent
       /\ IsFin(to_server[i]) => to_server[i].from = StreamLen
       /\ i < Len(to_server) => to_server[i].to = to_server[i + 1].from
  /\ to_server # << >> =>
       /\ to_server[1].from = Stored
       /\ to_server[Len(to_server)].to = IF FinSent THEN StreamLen + 1 ELSE sent
  /\ to_server = << >> => Stored = sent
  /\ FinSent => sent = StreamLen

(* What the network thread of the server is doing about the first of them. *)
HandlingOK ==
  /\ Handling =>
       /\ to_server # << >>
       /\ rcv_nxt = to_server[1].to + 1
       /\ IsFin(to_server[1]) <=> rnet \in {"fin", "closewait"}
  /\ rnet = "ack" => rcv_nxt = Stored + 1
  /\ rnet \in {"notify_data", "wake_data"} => rcv_nxt = Stored + 1
  /\ snet = "store" => to_client # << >>

(* A wait used by a single thread t, which is or is not inside sleep_on.   *)
WaitOK(w, t, inside) ==
  /\ w \in Waits({t})
  /\ InSleepOn(w, t) => inside
  /\ w.lock = t => w.waiting = {} /\ w.woken = {}
  /\ w.woken = {t} => w.waiting = {}
  /\ w.waiting # {} => w.sleep /\ ~w.notified

WaitsOK ==
  /\ WaitOK(wait_send, "app", app = "asleep")
  /\ WaitOK(wait_empty, "reader", reader = "asleep")
  /\ WaitOK(wait_full, "net", rnet = "asleep")

IInv == /\ TypeOK /\ StreamIntegrity /\ PipeOK /\ HandlingOK /\ WaitsOK
        /\ AckOnlyStored /\ CloseWaitMeansStored
USE DEF SendPacket
-------------------------------------------------------------------------------
(* sleep_on and wake_up on a wait that one thread uses.                    *)

(* Going to sleep, with or without a notification pending.                 *)
LEMMA SleptOK ==
  ASSUME NEW w, NEW t, t # Nobody, WaitOK(w, t, FALSE), CanSleep(w)
  PROVE  WaitOK(Slept(w, t), t, TRUE)
  BY DEF WaitOK, CanSleep, Slept, Waits, InSleepOn, Nobody

(* Leaving sleep_on.                                                       *)
LEMMA ReturnedOK ==
  ASSUME NEW w, NEW t, t # Nobody, WaitOK(w, t, TRUE), CanReturn(w, t)
  PROVE  WaitOK(Returned(w, t), t, FALSE)
  BY DEF WaitOK, CanReturn, Returned, Waits, InSleepOn, Nobody

(* A spurious wake-up of a thread that is waiting.                         *)
LEMMA SpuriousOK ==
  ASSUME NEW w, NEW t, t # Nobody, NEW inside, WaitOK(w, t, inside),
         NEW u \in w.waiting
  PROVE  WaitOK(Spurious(w, u), t, inside)
<1>1. w \in Waits({t}) /\ u = t  BY DEF WaitOK, Waits
<1> DEFINE v == Spurious(w, t)
<1>2. /\ v \in Waits({t})
      /\ v.lock = w.lock /\ v.waiting = {} /\ v.woken = {t}
  BY <1>1 DEF Waits, Spurious
<1>3. w.lock # t /\ inside  BY <1>1 DEF WaitOK, InSleepOn
<1> QED  BY <1>1, <1>2, <1>3 DEF WaitOK

(* A notification, which signals the thread if it is waiting.              *)
LEMMA WokenOK ==
  ASSUME NEW w, NEW t, t # Nobody, NEW inside, WaitOK(w, t, inside),
         NEW v \in Woken(w)
  PROVE  WaitOK(v, t, inside)
<1>1. CASE w.notified  BY <1>1 DEF Woken
<1> DEFINE n == [w EXCEPT !.notified = TRUE]
<1>2. CASE ~w.notified /\ w.waiting = {}
  <2>1. v = n  BY <1>2 DEF Woken
  <2> QED  BY <1>2, <2>1 DEF WaitOK, Waits, InSleepOn
<1>3. CASE ~w.notified /\ w.waiting # {}
  <2>1. w.sleep /\ w.waiting = {t} /\ w \in Waits({t})
    BY <1>3 DEF WaitOK, Waits
  <2>2. v = Spurious(n, t)
    BY <1>3, <2>1 DEF Woken, Waits
  <2>3. /\ v \in Waits({t})
        /\ v.lock = w.lock /\ v.waiting = {} /\ v.woken = {t}
    BY <2>1, <2>2 DEF Waits, Spurious
  <2>4. w.lock # t /\ inside  BY <2>1 DEF WaitOK, InSleepOn
  <2> QED  BY <2>3, <2>4 DEF WaitOK
<1> QED  BY <1>1, <1>2, <1>3
-------------------------------------------------------------------------------
(* No step leaves one of the three waits in a state in which its thread is *)
(* blocked beyond the reach of the next wake_up.                           *)
LEMMA WaitsStep ==
  ASSUME TypeOK, WaitsOK, [Next]_vars
  PROVE  WaitsOK'
<1> DEFINE sendOK  == WaitOK(wait_send, "app", app = "asleep")
           emptyOK == WaitOK(wait_empty, "reader", reader = "asleep")
           fullOK  == WaitOK(wait_full, "net", rnet = "asleep")
<1>n. "app" # Nobody /\ "reader" # Nobody /\ "net" # Nobody  BY DEF Nobody
<1>0. sendOK /\ emptyOK /\ fullOK  BY DEF WaitsOK
<1>s. SUFFICES sendOK' /\ emptyOK' /\ fullOK'  BY DEF WaitsOK
<1>1. /\ UNCHANGED <<wait_send, app = "asleep">> => sendOK'
      /\ UNCHANGED <<wait_empty, reader = "asleep">> => emptyOK'
      /\ UNCHANGED <<wait_full, rnet = "asleep">> => fullOK'
  BY <1>0
<1> HIDE DEF sendOK, emptyOK, fullOK
<1>2. CASE Writer
  <2>1. UNCHANGED <<wait_empty, reader, wait_full, rnet>>
    BY <1>2 DEF Writer, SendSegment, WindowTooSmall, ZeroWindow, WriterSleeps,
                WriterReturns, SendFin, EnterFinWait, server
  <2>2. CASE WriterSleeps
    <3>1. app = "sleep" /\ app' = "asleep" /\ CanSleep(wait_send)
          /\ wait_send' = Slept(wait_send, "app")
      BY <2>2 DEF WriterSleeps
    <3>2. WaitOK(wait_send, "app", FALSE)  BY <1>0, <3>1 DEF sendOK
    <3>3. WaitOK(wait_send', "app", TRUE)  BY <1>n, <3>1, <3>2, SleptOK, Zenon
    <3> QED  BY <1>1, <2>1, <3>1, <3>3 DEF sendOK
  <2>3. CASE WriterReturns
    <3>1. app = "asleep" /\ app' = "write" /\ CanReturn(wait_send, "app")
          /\ wait_send' = Returned(wait_send, "app")
      BY <2>3 DEF WriterReturns
    <3>2. WaitOK(wait_send, "app", TRUE)  BY <1>0, <3>1 DEF sendOK
    <3>3. WaitOK(wait_send', "app", FALSE)  BY <1>n, <3>1, <3>2, ReturnedOK, Zenon
    <3> QED  BY <1>1, <2>1, <3>1, <3>3 DEF sendOK
  <2>4. CASE SendSegment \/ WindowTooSmall \/ ZeroWindow \/ SendFin \/ EnterFinWait
    <3>1. UNCHANGED <<wait_send, app = "asleep">>
      BY <2>4 DEF SendSegment, WindowTooSmall, ZeroWindow, SendFin, EnterFinWait
    <3> QED  BY <1>1, <2>1, <3>1
  <2> QED  BY <1>2, <2>2, <2>3, <2>4 DEF Writer
<1>3. CASE ClientNet
  <2>1. UNCHANGED <<wait_empty, reader, wait_full, rnet, app>>
    BY <1>3 DEF ClientNet, ReceiveAck, IgnoreAck, StoreWindow, WakeWriter,
                server, client
  <2>2. CASE WakeWriter
    <3>1. wait_send' \in Woken(wait_send)  BY <2>2 DEF WakeWriter
    <3>2. WaitOK(wait_send, "app", app = "asleep")  BY <1>0 DEF sendOK
    <3>3. WaitOK(wait_send', "app", app = "asleep")  BY <1>n, <3>1, <3>2, WokenOK, Zenon
    <3> QED  BY <1>1, <2>1, <3>3 DEF sendOK
  <2>3. CASE ReceiveAck \/ IgnoreAck \/ StoreWindow
    <3>1. UNCHANGED wait_send
      BY <2>3 DEF ReceiveAck, IgnoreAck, StoreWindow, client
    <3> QED  BY <1>1, <2>1, <3>1
  <2> QED  BY <1>3, <2>2, <2>3 DEF ClientNet
<1>4. CASE ServerNet
  <2>1. UNCHANGED <<wait_send, app, reader>>
    BY <1>4 DEF ServerNet, Receive, AckFin, EnterCloseWait, StoreData, BufferTooFull,
                NetSleeps, NetReturns, CheckReader, WakeReader, AckData, client
  <2>2. CASE NetSleeps
    <3>1. rnet = "sleep" /\ rnet' = "asleep" /\ CanSleep(wait_full)
          /\ wait_full' = Slept(wait_full, "net") /\ wait_empty' = wait_empty
      BY <2>2 DEF NetSleeps
    <3>2. WaitOK(wait_full, "net", FALSE)  BY <1>0, <3>1 DEF fullOK
    <3>3. WaitOK(wait_full', "net", TRUE)  BY <1>n, <3>1, <3>2, SleptOK, Zenon
    <3> QED  BY <1>1, <2>1, <3>1, <3>3 DEF fullOK
  <2>3. CASE NetReturns
    <3>1. rnet = "asleep" /\ rnet' = "store" /\ CanReturn(wait_full, "net")
          /\ wait_full' = Returned(wait_full, "net") /\ wait_empty' = wait_empty
      BY <2>3 DEF NetReturns
    <3>2. WaitOK(wait_full, "net", TRUE)  BY <1>0, <3>1 DEF fullOK
    <3>3. WaitOK(wait_full', "net", FALSE)  BY <1>n, <3>1, <3>2, ReturnedOK, Zenon
    <3> QED  BY <1>1, <2>1, <3>1, <3>3 DEF fullOK
  <2>4. CASE WakeReader
    <3>1. wait_empty' \in Woken(wait_empty) /\ UNCHANGED <<wait_full, rnet = "asleep">>
      BY <2>4 DEF WakeReader
    <3>2. WaitOK(wait_empty, "reader", reader = "asleep")  BY <1>0 DEF emptyOK
    <3>3. WaitOK(wait_empty', "reader", reader = "asleep")
      BY <1>n, <3>1, <3>2, WokenOK, Zenon
    <3> QED  BY <1>1, <2>1, <3>1, <3>3 DEF emptyOK
  <2>5. CASE Receive \/ AckFin \/ EnterCloseWait \/ StoreData \/ BufferTooFull
               \/ CheckReader \/ AckData
    <3>1. UNCHANGED <<wait_empty, wait_full, rnet = "asleep">>
      BY <2>5 DEF Receive, AckFin, EnterCloseWait, StoreData, BufferTooFull,
                  CheckReader, AckData
    <3> QED  BY <1>1, <2>1, <3>1
  <2> QED  BY <1>4, <2>2, <2>3, <2>4, <2>5 DEF ServerNet
<1>5. CASE Reader
  <2>1. UNCHANGED <<wait_send, app, rnet>>
    BY <1>5 DEF Reader, ReadData, NothingToRead, CheckEof, ReaderSleeps,
                ReaderReturns, Recheck, CheckNet, WakeNet, client
  <2>2. CASE ReaderSleeps
    <3>1. reader = "sleep" /\ reader' = "asleep" /\ CanSleep(wait_empty)
          /\ wait_empty' = Slept(wait_empty, "reader") /\ wait_full' = wait_full
      BY <2>2 DEF ReaderSleeps
    <3>2. WaitOK(wait_empty, "reader", FALSE)  BY <1>0, <3>1 DEF emptyOK
    <3>3. WaitOK(wait_empty', "reader", TRUE)  BY <1>n, <3>1, <3>2, SleptOK, Zenon
    <3> QED  BY <1>1, <2>1, <3>1, <3>3 DEF emptyOK
  <2>3. CASE ReaderReturns
    <3>1. reader = "asleep" /\ reader' = "recheck" /\ CanReturn(wait_empty, "reader")
          /\ wait_empty' = Returned(wait_empty, "reader") /\ wait_full' = wait_full
      BY <2>3 DEF ReaderReturns
    <3>2. WaitOK(wait_empty, "reader", TRUE)  BY <1>0, <3>1 DEF emptyOK
    <3>3. WaitOK(wait_empty', "reader", FALSE)
      BY <1>n, <3>1, <3>2, ReturnedOK, Zenon
    <3> QED  BY <1>1, <2>1, <3>1, <3>3 DEF emptyOK
  <2>4. CASE WakeNet
    <3>1. wait_full' \in Woken(wait_full) /\ UNCHANGED <<wait_empty, reader = "asleep">>
      BY <2>4 DEF WakeNet
    <3>2. WaitOK(wait_full, "net", rnet = "asleep")  BY <1>0 DEF fullOK
    <3>3. WaitOK(wait_full', "net", rnet = "asleep")
      BY <1>n, <3>1, <3>2, WokenOK, Zenon
    <3> QED  BY <1>1, <2>1, <3>1, <3>3 DEF fullOK
  <2>5. CASE ReadData \/ NothingToRead \/ CheckEof \/ Recheck \/ CheckNet
    <3>1. UNCHANGED <<wait_empty, wait_full, reader = "asleep">>
      BY <2>5 DEF ReadData, NothingToRead, CheckEof, Recheck, CheckNet
    <3> QED  BY <1>1, <2>1, <3>1
  <2> QED  BY <1>5, <2>2, <2>3, <2>4, <2>5 DEF Reader
<1>6. CASE SpuriousWakeUp
  <2>1. UNCHANGED <<app, reader, rnet>>
    BY <1>6 DEF SpuriousWakeUp, client, server
  <2>2. CASE \E t \in wait_send.waiting : /\ wait_send' = Spurious(wait_send, t)
                                          /\ UNCHANGED <<wait_empty, wait_full>>
    <3>1. WaitOK(wait_send, "app", app = "asleep")  BY <1>0 DEF sendOK
    <3>2. PICK u \in wait_send.waiting : wait_send' = Spurious(wait_send, u)  BY <2>2
    <3>3. WaitOK(Spurious(wait_send, u), "app", app = "asleep")  BY <1>n, <3>1, SpuriousOK
    <3> QED  BY <1>1, <2>1, <2>2, <3>2, <3>3 DEF sendOK
  <2>3. CASE \E t \in wait_empty.waiting : /\ wait_empty' = Spurious(wait_empty, t)
                                           /\ UNCHANGED <<wait_send, wait_full>>
    <3>1. WaitOK(wait_empty, "reader", reader = "asleep")  BY <1>0 DEF emptyOK
    <3>2. PICK u \in wait_empty.waiting : wait_empty' = Spurious(wait_empty, u)  BY <2>3
    <3>3. WaitOK(Spurious(wait_empty, u), "reader", reader = "asleep")  BY <1>n, <3>1, SpuriousOK
    <3> QED  BY <1>1, <2>1, <2>3, <3>2, <3>3 DEF emptyOK
  <2>4. CASE \E t \in wait_full.waiting : /\ wait_full' = Spurious(wait_full, t)
                                          /\ UNCHANGED <<wait_send, wait_empty>>
    <3>1. WaitOK(wait_full, "net", rnet = "asleep")  BY <1>0 DEF fullOK
    <3>2. PICK u \in wait_full.waiting : wait_full' = Spurious(wait_full, u)  BY <2>4
    <3>3. WaitOK(Spurious(wait_full, u), "net", rnet = "asleep")  BY <1>n, <3>1, SpuriousOK
    <3> QED  BY <1>1, <2>1, <2>4, <3>2, <3>3 DEF fullOK
  <2> QED  BY <1>6, <2>2, <2>3, <2>4 DEF SpuriousWakeUp, client, server
<1>7. CASE UNCHANGED vars
  <2>1. UNCHANGED <<wait_send, wait_empty, wait_full, app, reader, rnet>>
    BY <1>7 DEF vars, client, server
  <2> QED  BY <1>1, <2>1
<1> QED  BY <1>2, <1>3, <1>4, <1>5, <1>6, <1>7 DEF Next
-------------------------------------------------------------------------------
(* Runs of consecutive positions of the stream.                            *)

LEMMA PositionsSeq ==
  ASSUME NEW from \in Nat, NEW n \in Nat, NEW top \in Nat, from + n <= top
  PROVE  /\ Positions(from, n) \in Seq(0 .. top)
         /\ Len(Positions(from, n)) = n
         /\ \A i \in 1 .. n : Positions(from, n)[i] = from + i
<1>1. \A i \in 1 .. n : from + i \in 0 .. top  OBVIOUS
<1> QED  BY <1>1 DEF Positions

(* Two runs that meet are one run.                                         *)
LEMMA PositionsConcat ==
  ASSUME NEW from \in Nat, NEW m \in Nat, NEW n \in Nat
  PROVE  Positions(from, m) \o Positions(from + m, n) = Positions(from, m + n)
<1> DEFINE top == from + m + n
           a == Positions(from, m)
           b == Positions(from + m, n)
           c == Positions(from, m + n)
<1>0. /\ top \in Nat /\ m + n \in Nat /\ from + m \in Nat
      /\ from + m <= top /\ (from + m) + n <= top /\ from + (m + n) <= top
  OBVIOUS
<1>1. /\ a \in Seq(0 .. top) /\ Len(a) = m
      /\ \A i \in 1 .. m : a[i] = from + i
  BY <1>0, PositionsSeq, Zenon
<1>2. /\ b \in Seq(0 .. top) /\ Len(b) = n
      /\ \A i \in 1 .. n : b[i] = (from + m) + i
  BY <1>0, PositionsSeq, Zenon
<1>3. /\ c \in Seq(0 .. top) /\ Len(c) = m + n
      /\ \A i \in 1 .. (m + n) : c[i] = from + i
  BY <1>0, PositionsSeq, Zenon
<1> HIDE DEF a, b, c, top
<1>4. /\ a \o b \in Seq(0 .. top) /\ Len(a \o b) = m + n
      /\ \A i \in 1 .. (m + n) : (a \o b)[i] = IF i <= m THEN a[i] ELSE b[i - m]
  BY <1>1, <1>2, ConcatProperties
<1>5. ASSUME NEW i \in 1 .. (m + n) PROVE (a \o b)[i] = c[i]
  <2>1. CASE i <= m  BY <1>1, <1>3, <1>4, <2>1
  <2>2. CASE i > m
    <3>1. i - m \in 1 .. n  BY <2>2
    <3>2. b[i - m] = (from + m) + (i - m)  BY <1>2, <3>1
    <3>3. ~(i <= m) /\ (a \o b)[i] = b[i - m]  BY <1>4, <2>2
    <3>4. (from + m) + (i - m) = from + i  OBVIOUS
    <3> QED  BY <1>3, <3>2, <3>3, <3>4
  <2>3. i <= m \/ i > m  OBVIOUS
  <2> QED  BY <2>1, <2>2, <2>3
<1>6. a \o b = c  BY <1>3, <1>4, <1>5, SeqEqual
<1> QED  BY <1>6 DEF a, b, c

(* Cutting a run in two.                                                   *)
LEMMA PositionsCut ==
  ASSUME NEW from \in Nat, NEW n \in Nat, NEW len \in 0 .. n
  PROVE  /\ SubSeq(Positions(from, n), 1, len) = Positions(from, len)
         /\ SubSeq(Positions(from, n), len + 1, n) = Positions(from + len, n - len)
<1>1. SubSeq(Positions(from, n), 1, len)
        = [i \in 1 .. len |-> Positions(from, n)[i]]
  BY DEF Positions
<1>2. SubSeq(Positions(from, n), len + 1, n)
        = [i \in 1 .. (n - len) |-> Positions(from, n)[len + i]]
  BY DEF Positions
<1>3. \A i \in 1 .. len : Positions(from, n)[i] = from + i  BY DEF Positions
<1>4. \A i \in 1 .. (n - len) : Positions(from, n)[len + i] = from + len + i
  BY DEF Positions
<1> QED  BY <1>1, <1>2, <1>3, <1>4 DEF Positions
-------------------------------------------------------------------------------
(* What the three steps that move bytes do.                                *)

(* The constants, one by one.                                              *)
LEMMA ConstantTypes ==
  /\ StreamLen \in Nat
  /\ WriteSize \in Nat \ {0}
  /\ MSS \in Nat \ {0}
  /\ Capacity \in Nat \ {0}
  /\ ReadSize \in Nat \ {0}
  BY FlowAssumption

(* The least of three numbers is one of them.                              *)
LEMMA LowestOfThree ==
  ASSUME NEW a \in Nat, NEW b \in Nat, NEW c \in Nat
  PROVE  /\ Lowest({a, b, c}) \in {a, b, c}
         /\ Lowest({a, b, c}) <= a
         /\ Lowest({a, b, c}) <= b
         /\ Lowest({a, b, c}) <= c
<1>1. \E n \in {a, b, c} : \A m \in {a, b, c} : n <= m
  <2>1. CASE a <= b /\ a <= c  BY <2>1
  <2>2. CASE b <= a /\ b <= c  BY <2>2
  <2>3. CASE c <= a /\ c <= b  BY <2>3
  <2> QED  BY <2>1, <2>2, <2>3
<1>2. /\ Lowest({a, b, c}) \in {a, b, c}
      /\ \A m \in {a, b, c} : Lowest({a, b, c}) <= m
  BY <1>1, Zenon DEF Lowest
<1> QED  BY <1>2

(* A segment is not empty and does not run past the end of the stream.     *)
LEMMA SegmentBounds ==
  ASSUME sent \in 0 .. StreamLen, sent < StreamLen
  PROVE  SegmentLen \in 1 .. (StreamLen - sent)
<1> DEFINE room == WriteSize - (sent % WriteSize)
           rest == StreamLen - sent
<1>1. rest \in Nat \ {0}  BY ConstantTypes
<1>2. room \in Nat \ {0}
  <2>1. sent % WriteSize \in 0 .. (WriteSize - 1)  BY ConstantTypes
  <2> QED  BY <2>1, ConstantTypes
<1>3. SegmentLen = Lowest({MSS, room, rest})  BY DEF SegmentLen
<1> HIDE DEF room, rest
<1>4. MSS \in Nat \ {0}  BY ConstantTypes
<1>5. SegmentLen \in {MSS, room, rest} /\ SegmentLen <= rest
  BY <1>1, <1>2, <1>3, <1>4, LowestOfThree
<1>6. SegmentLen \in 1 .. rest  BY <1>1, <1>2, <1>4, <1>5
<1> QED  BY <1>6 DEF rest

(* The packet the network thread stores is a run of positions that starts  *)
(* where the stored bytes end; the buffer takes it whole.                  *)
LEMMA StoreEffect ==
  ASSUME TypeOK, PipeOK, HandlingOK, StoreData
  PROVE  /\ to_server # << >>
         /\ to_server[1] \in Packets
         /\ to_server[1].from = Stored
         /\ to_server[1].from < to_server[1].to
         /\ to_server[1].to <= StreamLen
         /\ rcv_nxt = to_server[1].to + 1
         /\ rcv_buf' \in RingBuffers(Capacity, StreamByte)
         /\ Used(rcv_buf') = Used(rcv_buf) + (to_server[1].to - to_server[1].from)
         /\ Contents(rcv_buf')
              = Contents(rcv_buf) \o Positions(to_server[1].from,
                                               to_server[1].to - to_server[1].from)
         /\ rcv_wnd' \in 0 .. Capacity
<1> DEFINE pkt == to_server[1]
           n == pkt.to - pkt.from
           data == Positions(pkt.from, n)
<1>1. /\ to_server # << >> /\ to_server \in Seq(Packets)
      /\ rcv_nxt = pkt.to + 1 /\ ~IsFin(pkt)
  BY DEF TypeOK, HandlingOK, Handling, StoreData
<1>2. 1 \in 1 .. Len(to_server) /\ pkt \in Packets /\ pkt = Head(to_server)
  BY <1>1
<1>3. pkt.from = Stored /\ pkt.from < pkt.to
  BY <1>1, <1>2 DEF PipeOK
<1>4. /\ pkt.from \in 0 .. StreamLen /\ pkt.to \in 1 .. StreamLen + 1
      /\ StreamLen \in Nat
  BY <1>2, ConstantTypes DEF Packets
<1>5. pkt.to <= StreamLen  BY <1>1, <1>4 DEF IsFin
<1>6. n \in Nat \ {0} /\ pkt.from \in Nat /\ pkt.from + n <= StreamLen
  BY <1>3, <1>4, <1>5
<1>7. data \in Seq(StreamByte) /\ Len(data) = n
  BY <1>4, <1>6, PositionsSeq, Zenon DEF StreamByte
<1>8. /\ Free(rcv_buf) >= n
      /\ rcv_buf' = AfterWrite(rcv_buf, data)
      /\ rcv_wnd' = Free(rcv_buf')
  BY <1>2 DEF StoreData, Fits, Payload
<1>9. WriteAllowed(rcv_buf, data)  BY <1>6, <1>7, <1>8 DEF WriteAllowed
<1>10. rcv_buf \in RingBuffers(Capacity, StreamByte) /\ Capacity \in Nat
  BY ConstantTypes DEF TypeOK, StreamByte
<1> HIDE DEF data, n, pkt
<1>11. /\ rcv_buf' \in RingBuffers(Capacity, StreamByte)
       /\ Used(rcv_buf') = Used(rcv_buf) + n
       /\ Contents(rcv_buf') = Contents(rcv_buf) \o data
  BY <1>7, <1>8, <1>9, <1>10, WriteContents
<1>12. rcv_wnd' \in 0 .. Capacity
  <2>1. Used(rcv_buf') \in 0 .. Capacity /\ Free(rcv_buf') = Capacity - Used(rcv_buf')
    BY <1>10, <1>11, UsedValue
  <2> QED  BY <1>8, <1>10, <2>1
<1> QED  BY <1>1, <1>2, <1>3, <1>5, <1>11, <1>12 DEF pkt, n, data

(* tcp_sock_read moves bytes from the front of the buffer to the           *)
(* application and changes nothing else about the stream.                  *)
LEMMA ReadEffect ==
  ASSUME TypeOK, StreamIntegrity, ReadData
  PROVE  /\ rcv_buf' \in RingBuffers(Capacity, StreamByte)
         /\ rcv_wnd' \in 0 .. Capacity
         /\ delivered' \in Seq(StreamByte)
         /\ Stored' = Stored
         /\ delivered' = Positions(0, Got')
         /\ Contents(rcv_buf') = Positions(Got', Used(rcv_buf'))
<1> DEFINE u == Used(rcv_buf)
           len == ReadLen(rcv_buf, ReadSize)
           out == ReadBytes(rcv_buf, ReadSize)
           old == Contents(rcv_buf)
           new == Contents(rcv_buf')
<1>1. /\ rcv_buf \in RingBuffers(Capacity, StreamByte) /\ Capacity \in Nat
      /\ ReadSize \in Nat /\ delivered \in Seq(StreamByte) /\ Got \in Nat
  BY ConstantTypes DEF TypeOK, StreamByte, Got
<1>2. /\ delivered' = delivered \o out
      /\ rcv_buf' = AfterRead(rcv_buf, ReadSize)
      /\ rcv_wnd' = Free(rcv_buf')
  BY DEF ReadData
<1>3. delivered = Positions(0, Got) /\ old = Positions(Got, u)
  BY DEF StreamIntegrity
<1>4. u \in 0 .. Capacity  BY <1>1, UsedValue
<1>5. /\ rcv_buf' \in RingBuffers(Capacity, StreamByte)
      /\ len \in 0 .. u
      /\ Used(rcv_buf') = u - len
      /\ out = TakeFirst(old, len)
      /\ new = DropFirst(old, len)
  BY <1>1, <1>2, ReadContents
<1>6. out \in Seq(StreamByte) /\ Len(out) = len  BY <1>1, ReadCells
<1>7. Len(old) = u  BY <1>1, ContentsSeq
<1>8. rcv_wnd' \in 0 .. Capacity
  <2>1. Used(rcv_buf') \in 0 .. Capacity /\ Free(rcv_buf') = Capacity - Used(rcv_buf')
    BY <1>1, <1>5, UsedValue
  <2> QED  BY <1>1, <1>2, <2>1
<1> HIDE DEF u, len, out, old, new
<1>9. delivered' \in Seq(StreamByte) /\ Len(delivered') = Len(delivered) + len
  BY <1>1, <1>2, <1>6, ConcatProperties
<1>10. Got' = Got + len  BY <1>9 DEF Got
<1>11. /\ out = Positions(Got, len)
       /\ new = Positions(Got + len, u - len)
  <2>1. u \in Nat  BY <1>1, <1>4
  <2>2. /\ SubSeq(Positions(Got, u), 1, len) = Positions(Got, len)
        /\ SubSeq(Positions(Got, u), len + 1, u) = Positions(Got + len, u - len)
    BY <1>1, <1>5, <2>1, PositionsCut, Zenon
  <2>3. out = SubSeq(old, 1, len) /\ new = SubSeq(old, len + 1, u)
    BY <1>5, <1>7 DEF TakeFirst, DropFirst
  <2> QED  BY <1>3, <2>2, <2>3
<1>12. delivered' = Positions(0, Got + len)
  <2>1. 0 + Got = Got /\ len \in Nat /\ 0 \in Nat  BY <1>1, <1>4, <1>5
  <2>2. Positions(0, Got) \o Positions(0 + Got, len) = Positions(0, Got + len)
    BY <1>1, <2>1, PositionsConcat, Zenon
  <2> QED  BY <1>2, <1>3, <1>11, <2>1, <2>2
<1>13. Stored' = Stored
  <2>1. Stored' = Got' + Used(rcv_buf') /\ Stored = Got + u  BY DEF Stored, u
  <2> QED  BY <1>1, <1>4, <1>5, <1>10, <2>1
<1> QED  BY <1>5, <1>8, <1>9, <1>10, <1>11, <1>12, <1>13 DEF new
-------------------------------------------------------------------------------
(* Appending to and dropping from the packets under way.                   *)
LEMMA Queues ==
  ASSUME NEW S, NEW q \in Seq(S)
  PROVE  /\ \A e \in S : Append(q, e) \in Seq(S)
         /\ q # << >> => Tail(q) \in Seq(S) /\ Head(q) \in S /\ Head(q) = q[1]
  OBVIOUS

(* Every ACK sent from a well-typed state is a well-typed ACK.             *)
LEMMA AckType ==
  ASSUME TypeOK
  PROVE  ack \in Acks
  BY DEF TypeOK, ack, Acks

LEMMA TypeStep ==
  ASSUME TypeOK, StreamIntegrity, PipeOK, HandlingOK, WaitsOK, [Next]_vars
  PROVE  TypeOK'
<1>w. /\ wait_send' \in Waits({"app"})
      /\ wait_empty' \in Waits({"reader"})
      /\ wait_full' \in Waits({"net"})
  BY WaitsStep DEF WaitsOK, WaitOK
<1>q. /\ to_server \in Seq(Packets) /\ to_client \in Seq(Acks)
      /\ StreamLen \in Nat /\ Capacity \in Nat
  BY ConstantTypes DEF TypeOK
<1>1. CASE SendSegment
  <2>1. SegmentLen \in 1 .. (StreamLen - sent)
    BY <1>1, SegmentBounds DEF TypeOK, SendSegment
  <2>2. [from |-> sent, to |-> sent + SegmentLen] \in Packets
    BY <1>q, <2>1 DEF TypeOK, Packets
  <2>3. to_server' \in Seq(Packets)  BY <1>1, <1>q, <2>2, Queues DEF SendSegment
  <2>4. sent' \in 0 .. StreamLen  BY <1>1, <1>q, <2>1 DEF SendSegment, TypeOK
  <2> QED  BY <1>1, <1>w, <2>3, <2>4 DEF SendSegment, TypeOK, server, buffer
<1>2. CASE WindowTooSmall
  BY <1>2, <1>w DEF WindowTooSmall, TypeOK, server, buffer
<1>3. CASE ZeroWindow
  BY <1>3, <1>w, <1>q DEF ZeroWindow, TypeOK, server, buffer
<1>4. CASE WriterSleeps
  BY <1>4, <1>w DEF WriterSleeps, TypeOK, server, buffer
<1>5. CASE WriterReturns
  BY <1>5, <1>w DEF WriterReturns, TypeOK, server, buffer
<1>6. CASE SendFin
  <2>1. [from |-> StreamLen, to |-> StreamLen + 1] \in Packets
    BY <1>q DEF Packets
  <2>2. to_server' \in Seq(Packets)  BY <1>6, <1>q, <2>1, Queues DEF SendFin
  <2> QED  BY <1>6, <1>w, <2>2 DEF SendFin, TypeOK, server, buffer
<1>7. CASE EnterFinWait
  BY <1>7, <1>w DEF EnterFinWait, TypeOK, server, buffer
<1>8. CASE ReceiveAck
  BY <1>8, <1>w DEF ReceiveAck, TypeOK, server, buffer
<1>9. CASE IgnoreAck
  <2>1. to_client' \in Seq(Acks)  BY <1>9, <1>q, Queues DEF IgnoreAck
  <2> QED  BY <1>9, <1>w, <2>1 DEF IgnoreAck, TypeOK, client, server, buffer
<1>10. CASE StoreWindow
  <2>1. to_client # << >>  BY <1>10 DEF StoreWindow, HandlingOK
  <2>2. to_client' \in Seq(Acks) /\ Head(to_client) \in Acks
    BY <1>10, <1>q, <2>1, Queues DEF StoreWindow
  <2>3. snd_wnd' \in 0 .. Capacity  BY <1>10, <2>2 DEF StoreWindow, Acks
  <2>4. snet' \in {"idle", "store", "wake"}  BY <1>10 DEF StoreWindow
  <2> QED  BY <1>10, <1>w, <2>2, <2>3, <2>4 DEF StoreWindow, TypeOK, server, buffer
<1>11. CASE WakeWriter
  BY <1>11, <1>w DEF WakeWriter, TypeOK, server, buffer
<1>12. CASE Receive
  <2>1. Head(to_server) \in Packets  BY <1>12, <1>q, Queues DEF Receive
  <2>2. rcv_nxt' \in 1 .. StreamLen + 2  BY <1>12, <1>q, <2>1 DEF Receive, Packets
  <2>3. rnet' \in {"fin", "store"}  BY <1>12 DEF Receive
  <2>4. rnet' \in {"idle", "fin", "closewait", "store", "sleep", "asleep", "ack",
                   "notify_data", "notify_eof", "wake_data", "wake_eof"}
    BY <2>3
  <2> QED  BY <1>12, <1>w, <2>2, <2>4 DEF Receive, TypeOK, client, buffer
<1>13. CASE AckFin
  <2>1. to_client' \in Seq(Acks)  BY <1>13, <1>q, AckType, Queues DEF AckFin
  <2> QED  BY <1>13, <1>w, <2>1 DEF AckFin, TypeOK, client, buffer
<1>14. CASE EnterCloseWait
  <2>1. to_server # << >>  BY <1>14 DEF EnterCloseWait, HandlingOK, Handling
  <2>2. to_server' \in Seq(Packets)  BY <1>14, <1>q, <2>1, Queues DEF EnterCloseWait
  <2> QED  BY <1>14, <1>w, <2>2 DEF EnterCloseWait, TypeOK, client, buffer
<1>15. CASE StoreData
  <2>1. to_server # << >> /\ rcv_buf' \in RingBuffers(Capacity, 0 .. StreamLen)
        /\ rcv_wnd' \in 0 .. Capacity
    BY <1>15, StoreEffect, Zenon DEF StreamByte
  <2>2. to_server' \in Seq(Packets)  BY <1>15, <1>q, <2>1, Queues DEF StoreData
  <2>3. /\ rnet' = "notify_data"
        /\ UNCHANGED <<client, to_client, state, rcv_nxt, buf_lock, reader, delivered>>
    BY <1>15 DEF StoreData
  <2> QED  BY <1>w, <2>1, <2>2, <2>3 DEF TypeOK, client
<1>16. CASE BufferTooFull
  BY <1>16, <1>w DEF BufferTooFull, TypeOK, client, buffer
<1>17. CASE NetSleeps
  BY <1>17, <1>w DEF NetSleeps, TypeOK, client, buffer
<1>18. CASE NetReturns
  BY <1>18, <1>w DEF NetReturns, TypeOK, client, buffer
<1>19. CASE CheckReader
  <2>1. rnet' \in {"wake_data", "wake_eof", "ack", "idle"}
    BY <1>19 DEF CheckReader
  <2>2. rnet' \in {"idle", "fin", "closewait", "store", "sleep", "asleep", "ack",
                   "notify_data", "notify_eof", "wake_data", "wake_eof"}
    BY <2>1
  <2> QED  BY <1>19, <1>w, <2>2 DEF CheckReader, TypeOK, client, buffer
<1>20. CASE WakeReader
  BY <1>20, <1>w DEF WakeReader, TypeOK, client, buffer
<1>21. CASE AckData
  <2>1. to_client' \in Seq(Acks)  BY <1>21, <1>q, AckType, Queues DEF AckData
  <2> QED  BY <1>21, <1>w, <2>1 DEF AckData, TypeOK, client, buffer
<1>22. CASE ReadData
  <2>1. /\ rcv_buf' \in RingBuffers(Capacity, 0 .. StreamLen)
        /\ rcv_wnd' \in 0 .. Capacity
        /\ delivered' \in Seq(0 .. StreamLen)
    BY <1>22, ReadEffect, Zenon DEF StreamByte
  <2>2. /\ reader' = "check_full" /\ buf_lock' = "reader"
        /\ UNCHANGED <<client, to_server, to_client, rnet, state, rcv_nxt>>
    BY <1>22 DEF ReadData
  <2> QED  BY <1>w, <2>1, <2>2 DEF TypeOK, client
<1>23. CASE NothingToRead
  BY <1>23, <1>w DEF NothingToRead, TypeOK, client, buffer
<1>24. CASE CheckEof
  BY <1>24, <1>w DEF CheckEof, TypeOK, client, buffer
<1>25. CASE ReaderSleeps
  BY <1>25, <1>w DEF ReaderSleeps, TypeOK, client, buffer
<1>26. CASE ReaderReturns
  BY <1>26, <1>w DEF ReaderReturns, TypeOK, client, buffer
<1>27. CASE Recheck
  BY <1>27, <1>w DEF Recheck, TypeOK, client, buffer
<1>28. CASE CheckNet
  BY <1>28, <1>w DEF CheckNet, TypeOK, client, buffer
<1>29. CASE WakeNet
  BY <1>29, <1>w DEF WakeNet, TypeOK, client, buffer
<1>30. CASE SpuriousWakeUp
  BY <1>30, <1>w DEF SpuriousWakeUp, TypeOK, client, server, buffer
<1>31. CASE UNCHANGED vars
  BY <1>31, <1>w DEF vars, TypeOK, client, server, buffer
<1> QED
  BY <1>1, <1>2, <1>3, <1>4, <1>5, <1>6, <1>7, <1>8, <1>9, <1>10, <1>11, <1>12,
     <1>13, <1>14, <1>15, <1>16, <1>17, <1>18, <1>19, <1>20, <1>21, <1>22, <1>23,
     <1>24, <1>25, <1>26, <1>27, <1>28, <1>29, <1>30, <1>31
     DEF Next, Writer, ClientNet, ServerNet, Reader
-------------------------------------------------------------------------------
(* How much of the stream is stored: only StoreData adds to it.            *)

LEMMA StoredType ==
  ASSUME TypeOK, StreamIntegrity
  PROVE  /\ Got \in Nat /\ Used(rcv_buf) \in 0 .. Capacity
         /\ Stored \in 0 .. sent /\ sent \in 0 .. StreamLen
<1>1. rcv_buf \in RingBuffers(Capacity, 0 .. StreamLen) /\ Capacity \in Nat
  BY ConstantTypes DEF TypeOK
<1>2. Used(rcv_buf) \in 0 .. Capacity  BY <1>1, UsedValue
<1> QED  BY <1>1, <1>2 DEF TypeOK, StreamIntegrity, Stored, Got

LEMMA StoredStep ==
  ASSUME TypeOK, StreamIntegrity, PipeOK, HandlingOK, [Next]_vars
  PROVE  /\ StoreData => Stored' = to_server[1].to /\ UNCHANGED delivered
         /\ ~StoreData => Stored' = Stored
         /\ ~StoreData /\ ~ReadData => UNCHANGED <<rcv_buf, delivered>>
         /\ Stored' >= Stored
<1>0. Got \in Nat /\ Used(rcv_buf) \in 0 .. Capacity /\ Capacity \in Nat
      /\ Stored = Got + Used(rcv_buf) /\ Stored' = Got' + Used(rcv_buf')
  BY StoredType, ConstantTypes DEF Stored
<1>1. CASE StoreData
  <2>1. UNCHANGED delivered  BY <1>1 DEF StoreData
  <2>2. /\ Used(rcv_buf') = Used(rcv_buf) + (to_server[1].to - to_server[1].from)
        /\ to_server[1].from = Stored
        /\ to_server[1].from < to_server[1].to
        /\ to_server[1] \in Packets
    BY <1>1, StoreEffect, Zenon
  <2>3. to_server[1].from \in Nat /\ to_server[1].to \in Nat
    BY <2>2, ConstantTypes DEF Packets
  <2>4. Stored' = to_server[1].to  BY <1>0, <2>1, <2>2, <2>3 DEF Got
  <2> QED  BY <1>0, <1>1, <2>1, <2>2, <2>3, <2>4
<1>2. CASE ReadData
  <2>1. Stored' = Stored  BY <1>2, ReadEffect, Zenon
  <2>2. ~StoreData  BY <1>2 DEF ReadData, StoreData
  <2> QED  BY <1>0, <1>2, <2>1, <2>2
<1>3. CASE ~StoreData /\ ~ReadData
  <2>1. UNCHANGED <<rcv_buf, delivered>>
    BY <1>3 DEF Next, Writer, ClientNet, ServerNet, Reader, vars, client, server,
         buffer, SendSegment, WindowTooSmall, ZeroWindow, WriterSleeps, WriterReturns,
         SendFin, EnterFinWait, ReceiveAck, IgnoreAck, StoreWindow, WakeWriter,
         Receive, AckFin, EnterCloseWait, BufferTooFull, NetSleeps, NetReturns,
         CheckReader, WakeReader, AckData, NothingToRead, CheckEof, ReaderSleeps,
         ReaderReturns, Recheck, CheckNet, WakeNet, SpuriousWakeUp
  <2>2. Stored' = Stored  BY <2>1 DEF Stored, Got
  <2> QED  BY <1>0, <1>3, <2>1, <2>2
<1> QED  BY <1>1, <1>2, <1>3

(* The packets under way change in four steps only.                        *)
LEMMA PipeFrame ==
  ASSUME [Next]_vars
  PROVE  \/ SendSegment \/ SendFin \/ EnterCloseWait \/ StoreData
         \/ UNCHANGED <<to_server, sent, FinSent>>
  BY DEF Next, Writer, ClientNet, ServerNet, Reader, vars, client, server,
         buffer, SendSegment, WindowTooSmall, ZeroWindow, WriterSleeps, WriterReturns,
         SendFin, EnterFinWait, ReceiveAck, IgnoreAck, StoreWindow, WakeWriter,
         Receive, AckFin, EnterCloseWait, StoreData, BufferTooFull, NetSleeps,
         NetReturns, CheckReader, WakeReader, AckData, ReadData, NothingToRead,
         CheckEof, ReaderSleeps, ReaderReturns, Recheck, CheckNet, WakeNet,
         SpuriousWakeUp, FinSent

(* Handing the first packet to the buffer, or taking the FIN, leaves the   *)
(* rest of the packets connected.                                          *)
LEMMA PipeTail ==
  ASSUME TypeOK, PipeOK, to_server # << >>, to_server' = Tail(to_server),
         UNCHANGED <<sent, app>>,
         Stored' = IF IsFin(to_server[1]) THEN StreamLen ELSE to_server[1].to
  PROVE  PipeOK'
<1>1. /\ to_server \in Seq(Packets) /\ to_server' \in Seq(Packets)
      /\ Len(to_server') = Len(to_server) - 1
      /\ \A i \in 1 .. Len(to_server') : to_server'[i] = to_server[i + 1]
  BY DEF TypeOK
<1>2. \A i \in 1 .. Len(to_server) :
        to_server[i].from \in 0 .. StreamLen /\ to_server[i].to \in 1 .. StreamLen + 1
  <2>1. \A i \in 1 .. Len(to_server) : to_server[i] \in Packets  BY <1>1
  <2> QED  BY <2>1 DEF Packets
<1>3. FinSent' = FinSent /\ StreamLen \in Nat /\ sent' = sent /\ sent \in 0 .. StreamLen
  BY ConstantTypes DEF FinSent, TypeOK
<1>4. ASSUME NEW i \in 1 .. Len(to_server')
      PROVE  /\ to_server'[i].from < to_server'[i].to
             /\ to_server'[i].to <= sent' \/ FinSent'
             /\ IsFin(to_server'[i]) => to_server'[i].from = StreamLen
             /\ i < Len(to_server') => to_server'[i].to = to_server'[i + 1].from
  <2>1. i + 1 \in 1 .. Len(to_server) /\ to_server'[i] = to_server[i + 1]  BY <1>1
  <2>2. i < Len(to_server') =>
          i + 1 < Len(to_server) /\ to_server'[i + 1] = to_server[(i + 1) + 1]
    BY <1>1
  <2> QED  BY <1>3, <2>1, <2>2 DEF PipeOK, IsFin
<1>5. 1 \in 1 .. Len(to_server)  BY <1>1
<1>6. CASE to_server' # << >>
  <2>1. /\ 1 < Len(to_server) /\ to_server'[1] = to_server[2]
        /\ to_server'[Len(to_server')] = to_server[Len(to_server)]
    BY <1>1, <1>6
  <2>2. to_server[1].to = to_server[2].from  BY <1>5, <2>1 DEF PipeOK
  <2>3. ~IsFin(to_server[1])
    <3>1. 2 \in 1 .. Len(to_server)  BY <1>1, <2>1
    <3> QED  BY <1>2, <1>3, <2>2, <3>1 DEF IsFin
  <2>4. to_server'[1].from = Stored'  BY <2>1, <2>2, <2>3
  <2>5. to_server'[Len(to_server')].to = IF FinSent' THEN StreamLen + 1 ELSE sent'
    BY <1>3, <2>1 DEF PipeOK
  <2> QED  BY <1>3, <1>4, <1>6, <2>4, <2>5 DEF PipeOK, IsFin
<1>7. CASE to_server' = << >>
  <2>1. Len(to_server) = 1  BY <1>1, <1>7
  <2>2. to_server[1].to = IF FinSent THEN StreamLen + 1 ELSE sent
    BY <2>1 DEF PipeOK
  <2>3. FinSent => sent = StreamLen  BY DEF PipeOK
  <2>4. Stored' = sent'  BY <1>3, <2>2, <2>3 DEF IsFin
  <2> QED  BY <1>3, <1>7, <2>3, <2>4 DEF PipeOK
<1> QED  BY <1>6, <1>7

(* One more packet at the end of those under way.                          *)
LEMMA PipeAppend ==
  ASSUME TypeOK, StreamIntegrity, PipeOK, ~FinSent,
         NEW pkt \in Packets, to_server' = Append(to_server, pkt),
         pkt.from = sent, pkt.from < pkt.to,
         Stored' = Stored,
         \/ pkt.to \in 0 .. StreamLen /\ sent' = pkt.to /\ ~FinSent'
         \/ pkt.to = StreamLen + 1 /\ sent' = sent /\ FinSent' /\ sent = StreamLen
  PROVE  PipeOK'
<1>1. /\ to_server \in Seq(Packets) /\ to_server' \in Seq(Packets)
      /\ Len(to_server') = Len(to_server) + 1
      /\ to_server'[Len(to_server')] = pkt
      /\ \A i \in 1 .. Len(to_server) : to_server'[i] = to_server[i]
      /\ to_server' # << >>
      /\ Len(to_server) \in Nat
  BY AppendProperties DEF TypeOK
<1>2. StreamLen \in Nat /\ sent \in 0 .. StreamLen /\ Stored \in 0 .. sent
  BY ConstantTypes, StoredType
<1>3. pkt.from \in 0 .. StreamLen /\ pkt.to \in 1 .. StreamLen + 1  BY DEF Packets
<1>4. sent <= sent'  BY <1>2, <1>3
<1>5. \A i \in 1 .. Len(to_server) : to_server[i] \in Packets  BY <1>1
<1>6. ASSUME NEW i \in 1 .. Len(to_server')
      PROVE  /\ to_server'[i].from < to_server'[i].to
             /\ to_server'[i].to <= sent' \/ FinSent'
             /\ IsFin(to_server'[i]) => to_server'[i].from = StreamLen
             /\ i < Len(to_server') => to_server'[i].to = to_server'[i + 1].from
  <2>1. CASE i = Len(to_server')
    <3>1. to_server'[i] = pkt  BY <1>1, <2>1
    <3>2. pkt.to <= sent' \/ FinSent'  BY <1>3
    <3>3. IsFin(pkt) => pkt.from = StreamLen  BY <1>2 DEF IsFin
    <3> QED  BY <1>1, <2>1, <3>1, <3>2, <3>3
  <2>2. CASE i # Len(to_server')
    <3>1. i \in 1 .. Len(to_server) /\ to_server'[i] = to_server[i]
      BY <1>1, <2>2
    <3>2. /\ to_server[i].from < to_server[i].to
          /\ to_server[i].to <= sent
          /\ IsFin(to_server[i]) => to_server[i].from = StreamLen
          /\ i < Len(to_server) => to_server[i].to = to_server[i + 1].from
      BY <3>1 DEF PipeOK
    <3>3. to_server[i].to \in Nat  BY <1>5, <3>1, <1>2 DEF Packets
    <3>4. to_server[i].to <= sent'
      <4>1. sent \in Nat /\ sent' \in Nat  BY <1>2, <1>3
      <4> QED  BY <1>4, <3>2, <3>3, <4>1
    <3>5. to_server[i].to = to_server'[i + 1].from
      <4>1. CASE i < Len(to_server)
        <5>1. to_server'[i + 1] = to_server[i + 1]  BY <1>1, <3>1, <4>1
        <5> QED  BY <3>2, <4>1, <5>1
      <4>2. CASE i = Len(to_server)
        <5>1. to_server # << >> /\ to_server'[i + 1] = pkt  BY <1>1, <3>1, <4>2
        <5>2. to_server[Len(to_server)].to = sent  BY <5>1 DEF PipeOK
        <5> QED  BY <4>2, <5>1, <5>2
      <4> QED  BY <1>1, <3>1, <4>1, <4>2
    <3> QED  BY <3>1, <3>2, <3>4, <3>5
  <2> QED  BY <2>1, <2>2
<1>7. to_server'[1].from = Stored'
  <2>1. CASE to_server = << >>
    <3>1. to_server'[1] = pkt  BY <1>1, <2>1
    <3> QED  BY <2>1, <3>1 DEF PipeOK
  <2>2. CASE to_server # << >>
    <3>1. to_server'[1] = to_server[1]  BY <1>1, <2>2
    <3> QED  BY <2>2, <3>1 DEF PipeOK
  <2> QED  BY <2>1, <2>2
<1>8. to_server'[Len(to_server')].to = IF FinSent' THEN StreamLen + 1 ELSE sent'
  BY <1>1
<1>9. FinSent' => sent' = StreamLen  OBVIOUS
<1> QED  BY <1>1, <1>6, <1>7, <1>8, <1>9 DEF PipeOK, IsFin

LEMMA PipeStep ==
  ASSUME TypeOK, StreamIntegrity, PipeOK, HandlingOK, [Next]_vars
  PROVE  PipeOK'
<1>0. StreamLen \in Nat /\ sent \in 0 .. StreamLen /\ to_server \in Seq(Packets)
  BY ConstantTypes DEF TypeOK
<1>1. CASE SendSegment
  <2> DEFINE pkt == [from |-> sent, to |-> sent + SegmentLen]
  <2>1. SegmentLen \in 1 .. (StreamLen - sent)
    BY <1>0, <1>1, SegmentBounds DEF SendSegment
  <2>2. /\ pkt \in Packets /\ pkt.from = sent /\ pkt.from < pkt.to
        /\ pkt.to \in 0 .. StreamLen
    BY <1>0, <2>1 DEF Packets
  <2>3. to_server' = Append(to_server, pkt) /\ sent' = pkt.to /\ ~FinSent /\ ~FinSent'
    BY <1>1 DEF SendSegment, FinSent
  <2>4. Stored' = Stored
    <3>1. ~StoreData
      <4>1. sent' # sent  BY <1>0, <1>1, <2>1 DEF SendSegment
      <4> QED  BY <4>1 DEF StoreData, client
    <3> QED  BY <3>1, StoredStep
  <2> HIDE DEF pkt
  <2> QED  BY <2>2, <2>3, <2>4, PipeAppend
<1>2. CASE SendFin
  <2> DEFINE pkt == [from |-> StreamLen, to |-> StreamLen + 1]
  <2>1. /\ pkt \in Packets /\ pkt.from = sent /\ pkt.from < pkt.to
        /\ pkt.to = StreamLen + 1
    BY <1>0, <1>2 DEF Packets, SendFin
  <2>2. /\ to_server' = Append(to_server, pkt) /\ sent' = sent /\ sent = StreamLen
        /\ ~FinSent /\ FinSent'
    BY <1>2 DEF SendFin, FinSent
  <2>3. Stored' = Stored
    <3>1. ~StoreData  BY <1>2 DEF StoreData, SendFin, client
    <3> QED  BY <3>1, StoredStep
  <2> HIDE DEF pkt
  <2> QED  BY <2>1, <2>2, <2>3, PipeAppend
<1>3. CASE EnterCloseWait
  <2>1. to_server # << >> /\ IsFin(to_server[1])
    BY <1>3 DEF EnterCloseWait, HandlingOK, Handling
  <2>2. to_server[1].from = StreamLen /\ to_server[1].from = Stored
    <3>1. 1 \in 1 .. Len(to_server)  BY <1>0, <2>1
    <3> QED  BY <2>1, <3>1 DEF PipeOK
  <2>3. to_server' = Tail(to_server) /\ UNCHANGED <<sent, app>> /\ Stored' = Stored
    BY <1>3 DEF EnterCloseWait, client, buffer, Stored, Got
  <2> QED  BY <2>1, <2>2, <2>3, PipeTail
<1>4. CASE StoreData
  <2>1. to_server # << >> /\ ~IsFin(to_server[1])
    BY <1>4 DEF StoreData, HandlingOK, Handling
  <2>2. to_server' = Tail(to_server) /\ UNCHANGED <<sent, app>>
    BY <1>4 DEF StoreData, client
  <2>3. Stored' = to_server[1].to  BY <1>4, StoredStep
  <2> QED  BY <2>1, <2>2, <2>3, PipeTail
<1>5. CASE ~StoreData /\ UNCHANGED <<to_server, sent, FinSent>>
  <2>1. Stored' = Stored  BY <1>5, StoredStep
  <2> QED  BY <1>5, <2>1 DEF PipeOK, IsFin
<1> QED  BY <1>1, <1>2, <1>3, <1>4, <1>5, PipeFrame

(* A packet that joins the others does not change the first of them.       *)
LEMMA FirstPacket ==
  ASSUME TypeOK, to_server # << >>, SendSegment \/ SendFin
  PROVE  to_server' # << >> /\ to_server'[1] = to_server[1]
<1>1. to_server \in Seq(Packets)  BY DEF TypeOK
<1>2. CASE SendSegment
  <2> DEFINE pkt == [from |-> sent, to |-> sent + SegmentLen]
  <2>1. to_server' = Append(to_server, pkt)  BY <1>2 DEF SendSegment
  <2> HIDE DEF pkt
  <2> QED  BY <1>1, <2>1
<1>3. CASE SendFin
  <2> DEFINE pkt == [from |-> StreamLen, to |-> StreamLen + 1]
  <2>1. to_server' = Append(to_server, pkt)  BY <1>3 DEF SendFin
  <2> HIDE DEF pkt
  <2> QED  BY <1>1, <2>1
<1> QED  BY <1>2, <1>3

LEMMA StreamStep ==
  ASSUME TypeOK, StreamIntegrity, PipeOK, HandlingOK, [Next]_vars
  PROVE  StreamIntegrity'
<1>0. /\ Got \in Nat /\ Used(rcv_buf) \in 0 .. Capacity /\ Capacity \in Nat
      /\ Stored \in 0 .. sent /\ sent \in 0 .. StreamLen /\ StreamLen \in Nat
      /\ Stored = Got + Used(rcv_buf)
  BY StoredType, ConstantTypes DEF Stored
<1>1. CASE StoreData
  <2> DEFINE pkt == to_server[1]
             n == pkt.to - pkt.from
  <2>1. /\ to_server # << >> /\ pkt \in Packets
        /\ pkt.from = Stored /\ pkt.from < pkt.to /\ pkt.to <= StreamLen
        /\ Used(rcv_buf') = Used(rcv_buf) + n
        /\ Contents(rcv_buf') = Contents(rcv_buf) \o Positions(pkt.from, n)
    BY <1>1, StoreEffect, Zenon
  <2>2. UNCHANGED <<delivered, sent, app>> /\ Stored' = pkt.to
    BY <1>1, StoredStep DEF StoreData, client
  <2>3. Got' = Got  BY <2>2 DEF Got
  <2>4. Contents(rcv_buf') = Positions(Got', Used(rcv_buf'))
    <3>1. pkt.from = Got + Used(rcv_buf) /\ n \in Nat /\ Used(rcv_buf) \in Nat
      BY <1>0, <2>1 DEF Packets
    <3>2. Contents(rcv_buf) = Positions(Got, Used(rcv_buf))  BY DEF StreamIntegrity
    <3> HIDE DEF n, pkt
    <3>3. Positions(Got, Used(rcv_buf)) \o Positions(Got + Used(rcv_buf), n)
            = Positions(Got, Used(rcv_buf) + n)
      BY <1>0, <3>1, PositionsConcat, Zenon
    <3> QED  BY <2>1, <2>3, <3>1, <3>2, <3>3
  <2>5. Stored' <= sent'
    <3>1. pkt.to <= sent \/ FinSent
      <4>1. 1 \in 1 .. Len(to_server)  BY <2>1 DEF TypeOK
      <4> QED  BY <4>1 DEF PipeOK
    <3>2. FinSent => sent = StreamLen  BY DEF PipeOK
    <3> QED  BY <2>1, <2>2, <3>1, <3>2
  <2> QED  BY <2>2, <2>3, <2>4, <2>5 DEF StreamIntegrity
<1>2. CASE ReadData
  <2>1. /\ Stored' = Stored /\ delivered' = Positions(0, Got')
        /\ Contents(rcv_buf') = Positions(Got', Used(rcv_buf'))
    BY <1>2, ReadEffect, Zenon
  <2>2. UNCHANGED sent  BY <1>2 DEF ReadData, client
  <2> QED  BY <2>1, <2>2 DEF StreamIntegrity
<1>3. CASE ~StoreData /\ ~ReadData
  <2>1. UNCHANGED <<rcv_buf, delivered>> /\ Stored' = Stored
    BY <1>3, StoredStep
  <2>2. sent' = sent \/ (sent' = sent + SegmentLen /\ SendSegment)
    <3>1. SendSegment => sent' = sent + SegmentLen  BY DEF SendSegment
    <3>2. SendFin \/ EnterCloseWait => sent' = sent  BY DEF SendFin, EnterCloseWait, client
    <3> QED  BY <1>3, <3>1, <3>2, PipeFrame
  <2>3. sent' \in Nat /\ sent <= sent'
    <3>1. CASE sent' = sent  BY <1>0, <3>1
    <3>2. CASE sent' = sent + SegmentLen /\ SendSegment
      <4>1. SegmentLen \in 1 .. (StreamLen - sent)
        BY <1>0, <3>2, SegmentBounds DEF SendSegment
      <4> QED  BY <1>0, <3>2, <4>1
    <3> QED  BY <2>2, <3>1, <3>2
  <2>4. Stored' <= sent'  BY <1>0, <2>1, <2>3
  <2>5. Got' = Got  BY <2>1 DEF Got
  <2> QED  BY <2>1, <2>4, <2>5 DEF StreamIntegrity
<1> QED  BY <1>1, <1>2, <1>3

LEMMA HandlingStep ==
  ASSUME TypeOK, StreamIntegrity, PipeOK, HandlingOK, [Next]_vars
  PROVE  HandlingOK'
<1>0. /\ StreamLen \in Nat /\ to_server \in Seq(Packets) /\ to_client \in Seq(Acks)
      /\ rcv_nxt \in Nat
  BY ConstantTypes DEF TypeOK
<1>1. CASE SendSegment \/ SendFin
  <2>1. /\ UNCHANGED <<rnet, rcv_nxt, snet, to_client, Handling>>
    BY <1>1 DEF SendSegment, SendFin, server, Handling
  <2>2. ~StoreData
    <3>1. StoreData => rnet' = "notify_data" /\ rnet = "store"  BY DEF StoreData
    <3> QED  BY <2>1, <3>1
  <2>3. Stored' = Stored  BY <2>2, StoredStep
  <2>4. Handling => /\ to_server # << >>
                    /\ to_server' # << >> /\ to_server'[1] = to_server[1]
    BY <1>1, FirstPacket DEF HandlingOK
  <2> QED  BY <2>1, <2>3, <2>4 DEF HandlingOK, IsFin
<1>2. CASE ReceiveAck \/ StoreWindow \/ IgnoreAck
  <2>1. /\ UNCHANGED <<rnet, rcv_nxt, to_server, Stored, Handling>>
        /\ snet' = "store" => to_client' # << >>
    BY <1>2 DEF ReceiveAck, StoreWindow, IgnoreAck, server, client, Handling, Stored,
                Got, buffer
  <2> QED  BY <2>1 DEF HandlingOK, IsFin
<1>3. CASE Receive
  <2>1. /\ to_server # << >> /\ to_server[1] = Head(to_server)
        /\ UNCHANGED <<to_server, to_client, snet>>
        /\ rcv_nxt' = to_server[1].to + 1
        /\ rnet' = IF IsFin(to_server[1]) THEN "fin" ELSE "store"
    BY <1>0, <1>3 DEF Receive, client
  <2>2. snet' = "store" => to_client' # << >>  BY <2>1 DEF HandlingOK
  <2>3. Handling'  BY <2>1 DEF Handling
  <2> QED  BY <2>1, <2>2, <2>3 DEF HandlingOK, IsFin
<1>4. CASE AckFin \/ AckData
  <2>1. /\ UNCHANGED <<to_server, rcv_nxt, snet>> /\ to_client' = Append(to_client, ack)
        /\ ack \in Acks
    BY <1>4, AckType DEF AckFin, AckData, client
  <2> HIDE DEF ack
  <2>2. to_client' # << >>  BY <1>0, <2>1, AppendProperties
  <2>3. \/ rnet = "fin" /\ rnet' = "closewait"
        \/ rnet' = "idle"
    BY <1>4 DEF AckFin, AckData
  <2> QED  BY <2>1, <2>2, <2>3 DEF HandlingOK, Handling, IsFin
<1>5. CASE EnterCloseWait
  <2>1. rnet' = "notify_eof" /\ UNCHANGED <<to_client, snet>>
    BY <1>5 DEF EnterCloseWait, client
  <2> QED  BY <2>1 DEF HandlingOK, Handling
<1>6. CASE StoreData
  <2>1. rnet' = "notify_data" /\ UNCHANGED <<to_client, snet, rcv_nxt>>
    BY <1>6 DEF StoreData, client
  <2>2. rcv_nxt = to_server[1].to + 1 /\ Stored' = to_server[1].to
    BY <1>6, StoreEffect, StoredStep, Zenon
  <2> QED  BY <2>1, <2>2 DEF HandlingOK, Handling
<1>7. CASE BufferTooFull \/ NetSleeps \/ NetReturns
  <2>1. /\ UNCHANGED <<to_server, to_client, snet, rcv_nxt, Handling>>
        /\ rnet \in {"store", "sleep", "asleep"} /\ rnet' \in {"store", "sleep", "asleep"}
    BY <1>7 DEF BufferTooFull, NetSleeps, NetReturns, client, Handling
  <2> QED  BY <2>1 DEF HandlingOK, IsFin, Handling
<1>8. CASE CheckReader \/ WakeReader
  <2>1. /\ UNCHANGED <<to_client, snet, rcv_nxt, Stored>>
        /\ \/ /\ rnet \in {"notify_data", "wake_data"}
              /\ rnet' \in {"wake_data", "ack"}
           \/ rnet' \in {"wake_eof", "idle"}
    BY <1>8 DEF CheckReader, WakeReader, client, Stored, Got, buffer
  <2> QED  BY <2>1 DEF HandlingOK, Handling
<1>9. CASE UNCHANGED <<rnet, rcv_nxt, to_server, to_client, snet>> /\ ~StoreData
  <2>1. Stored' = Stored  BY <1>9, StoredStep
  <2> QED  BY <1>9, <2>1 DEF HandlingOK, Handling, IsFin
<1>10. CASE WakeWriter
  <2>1. UNCHANGED <<rnet, rcv_nxt, to_server, to_client, Stored>> /\ snet' = "idle"
    BY <1>10 DEF WakeWriter, server, buffer, Stored, Got
  <2> QED  BY <2>1 DEF HandlingOK, Handling, IsFin
<1>11. ASSUME WindowTooSmall \/ ZeroWindow \/ WriterSleeps \/ WriterReturns \/ EnterFinWait
                \/ Reader \/ SpuriousWakeUp \/ UNCHANGED vars
       PROVE  UNCHANGED <<rnet, rcv_nxt, to_server, to_client, snet>>
  BY <1>11 DEF WindowTooSmall, ZeroWindow, WriterSleeps, WriterReturns, EnterFinWait,
       Reader, ReadData, NothingToRead, CheckEof, ReaderSleeps, ReaderReturns, Recheck,
       CheckNet, WakeNet, SpuriousWakeUp, vars, client, server, buffer
<1> QED
  BY <1>1, <1>2, <1>3, <1>4, <1>5, <1>6, <1>7, <1>8, <1>9, <1>10, <1>11
     DEF Next, Writer, ClientNet, ServerNet

(* An ACK leaves only when the bytes it covers are stored, and what is     *)
(* stored only grows.                                                      *)
LEMMA AckStep ==
  ASSUME TypeOK, StreamIntegrity, PipeOK, HandlingOK, AckOnlyStored, [Next]_vars
  PROVE  AckOnlyStored'
<1> DEFINE Covered(a) == Lowest({a.ack - 1, StreamLen})
<1>0. /\ StreamLen \in Nat /\ to_server \in Seq(Packets) /\ to_client \in Seq(Acks)
      /\ Stored \in Nat /\ Stored' >= Stored /\ rcv_nxt \in 1 .. StreamLen + 2
  BY ConstantTypes, StoredType, StoredStep DEF TypeOK
<1>1. Stored' \in Nat
  <2>2. CASE StoreData
    <3>1. Stored' = to_server[1].to /\ to_server[1] \in Packets
      BY <2>2, StoreEffect, StoredStep, Zenon
    <3> QED  BY <1>0, <3>1 DEF Packets
  <2>3. CASE ~StoreData  BY <1>0, <2>3, StoredStep
  <2> QED  BY <2>2, <2>3
<1>2. \A a \in Acks : Covered(a) \in Nat /\ Covered(a) <= a.ack - 1 /\ Covered(a) <= StreamLen
  <2>1. SUFFICES ASSUME NEW a \in Acks
                 PROVE  Covered(a) \in Nat /\ Covered(a) <= a.ack - 1 /\ Covered(a) <= StreamLen
    OBVIOUS
  <2>2. a.ack - 1 \in Nat  BY <1>0 DEF Acks
  <2>3. {a.ack - 1, StreamLen} = {a.ack - 1, StreamLen, StreamLen}  OBVIOUS
  <2> QED  BY <1>0, <2>2, <2>3, LowestOfThree
<1> HIDE DEF Covered
<1>3. \A i \in 1 .. Len(to_client) : Covered(to_client[i]) <= Stored
  BY DEF AckOnlyStored, Covered
<1>4. SUFFICES \A i \in 1 .. Len(to_client') : Covered(to_client'[i]) <= Stored'
  BY DEF AckOnlyStored, Covered
<1>5. \A i \in 1 .. Len(to_client) : Covered(to_client[i]) <= Stored'
  <2>1. \A i \in 1 .. Len(to_client) : to_client[i] \in Acks  BY <1>0
  <2> QED  BY <1>0, <1>1, <1>2, <1>3, <2>1
<1>6. CASE UNCHANGED to_client  BY <1>5, <1>6
<1>7. CASE to_client' = Tail(to_client) /\ to_client # << >>
  <2>1. /\ Len(to_client') = Len(to_client) - 1
        /\ \A i \in 1 .. Len(to_client') : to_client'[i] = to_client[i + 1]
    BY <1>0, <1>7
  <2>2. \A i \in 1 .. Len(to_client') : i + 1 \in 1 .. Len(to_client)
    BY <1>0, <2>1
  <2> QED  BY <1>5, <2>1, <2>2
<1>8. CASE AckFin \/ AckData
  <2>1. /\ to_client' = Append(to_client, ack) /\ ack \in Acks /\ ack.ack = rcv_nxt
    BY <1>8, AckType DEF AckFin, AckData, ack
  <2>2. Covered(ack) <= Stored
    <3>1. CASE AckData
      <4>1. rcv_nxt = Stored + 1  BY <3>1 DEF AckData, HandlingOK
      <4> QED  BY <1>0, <1>2, <2>1, <4>1
    <3>2. CASE AckFin
      <4>1. to_server # << >> /\ IsFin(to_server[1])
        BY <3>2 DEF AckFin, HandlingOK, Handling
      <4>2. 1 \in 1 .. Len(to_server)  BY <1>0, <4>1
      <4>3. Stored = StreamLen  BY <4>1, <4>2 DEF PipeOK
      <4> QED  BY <1>2, <2>1, <4>3
    <3> QED  BY <1>8, <3>1, <3>2
  <2>3. Covered(ack) <= Stored'  BY <1>0, <1>1, <1>2, <2>1, <2>2
  <2> HIDE DEF ack
  <2>4. /\ Len(to_client') = Len(to_client) + 1
        /\ to_client'[Len(to_client')] = ack
        /\ \A i \in 1 .. Len(to_client) : to_client'[i] = to_client[i]
        /\ Len(to_client) \in Nat
    BY <1>0, <2>1, AppendProperties
  <2>5. \A i \in 1 .. Len(to_client') : i \in 1 .. Len(to_client) \/ i = Len(to_client')
    BY <2>4
  <2> QED  BY <1>5, <2>3, <2>4, <2>5
<1>9. \/ UNCHANGED to_client
      \/ to_client' = Tail(to_client) /\ to_client # << >>
      \/ AckFin \/ AckData
  BY DEF Next, Writer, ClientNet, ServerNet, Reader, vars, client, server,
         buffer, SendSegment, WindowTooSmall, ZeroWindow, WriterSleeps, WriterReturns,
         SendFin, EnterFinWait, ReceiveAck, IgnoreAck, StoreWindow, WakeWriter,
         Receive, EnterCloseWait, StoreData, BufferTooFull, NetSleeps, NetReturns,
         CheckReader, WakeReader, ReadData, NothingToRead, CheckEof, ReaderSleeps,
         ReaderReturns, Recheck, CheckNet, WakeNet, SpuriousWakeUp, HandlingOK
<1> QED  BY <1>6, <1>7, <1>8, <1>9

(* The FIN is taken when the bytes before it are stored; none come after.  *)
LEMMA CloseWaitStep ==
  ASSUME TypeOK, StreamIntegrity, PipeOK, HandlingOK, CloseWaitMeansStored, [Next]_vars
  PROVE  CloseWaitMeansStored'
<1>0. StreamLen \in Nat /\ to_server \in Seq(Packets) /\ Stored \in Nat
  BY ConstantTypes, StoredType DEF TypeOK
<1>1. CASE EnterCloseWait
  <2>1. to_server # << >> /\ IsFin(to_server[1])
    BY <1>1 DEF EnterCloseWait, HandlingOK, Handling
  <2>2. 1 \in 1 .. Len(to_server)  BY <1>0, <2>1
  <2>3. Stored = StreamLen  BY <2>1, <2>2 DEF PipeOK
  <2>4. Stored' = Stored  BY <1>1 DEF EnterCloseWait, buffer, Stored, Got
  <2> QED  BY <2>3, <2>4 DEF CloseWaitMeansStored
<1>2. CASE StoreData
  <2>1. /\ to_server[1].from = Stored /\ to_server[1].from < to_server[1].to
        /\ to_server[1].to <= StreamLen /\ to_server[1] \in Packets
    BY <1>2, StoreEffect, Zenon
  <2>2. Stored # StreamLen  BY <1>0, <2>1 DEF Packets
  <2>3. state' = state  BY <1>2 DEF StoreData
  <2> QED  BY <2>2, <2>3 DEF CloseWaitMeansStored
<1>3. CASE ~EnterCloseWait /\ ~StoreData
  <2>1. state' = state
    BY <1>3 DEF Next, Writer, ClientNet, ServerNet, Reader, vars, client, server,
         buffer, SendSegment, WindowTooSmall, ZeroWindow, WriterSleeps, WriterReturns,
         SendFin, EnterFinWait, ReceiveAck, IgnoreAck, StoreWindow, WakeWriter,
         Receive, AckFin, BufferTooFull, NetSleeps, NetReturns, CheckReader,
         WakeReader, AckData, ReadData, NothingToRead, CheckEof, ReaderSleeps,
         ReaderReturns, Recheck, CheckNet, WakeNet, SpuriousWakeUp
  <2>2. Stored' = Stored  BY <1>3, StoredStep
  <2> QED  BY <2>1, <2>2 DEF CloseWaitMeansStored
<1> QED  BY <1>1, <1>2, <1>3
-------------------------------------------------------------------------------
(* The sockets just after the handshake satisfy the invariant.             *)
LEMMA InitInvariant == Init => IInv
<1>s. SUFFICES ASSUME Init PROVE IInv  OBVIOUS
<1>0. StreamLen \in Nat /\ Capacity \in Nat /\ 0 \in 0 .. StreamLen
  BY ConstantTypes
<1>1. /\ rcv_buf = Alloc(Capacity) /\ delivered = << >> /\ sent = 0
      /\ to_server = << >> /\ to_client = << >>
  BY <1>s DEF Init
<1>2. rcv_buf \in RingBuffers(Capacity, 0 .. StreamLen) /\ Contents(rcv_buf) = << >>
  BY <1>0, <1>1, AllocContents
<1>3. Len(Contents(rcv_buf)) = Used(rcv_buf)
  BY <1>0, <1>2, ContentsSeq, Zenon
<1>4. Used(rcv_buf) = 0 /\ Got = 0 /\ Stored = 0
  BY <1>1, <1>2, <1>3 DEF Got, Stored
<1>5. Positions(0, 0) = << >>  BY DEF Positions
<1>6. WaitsOK
  BY <1>s DEF Init, WaitsOK, WaitOK, Waits, FreshWait, InSleepOn, Nobody
<1>7. TypeOK
  BY <1>s, <1>0, <1>1, <1>2, <1>6 DEF Init, TypeOK, WaitsOK, WaitOK
<1>8. StreamIntegrity  BY <1>1, <1>2, <1>4, <1>5 DEF StreamIntegrity
<1>9. PipeOK /\ HandlingOK
  BY <1>s, <1>1, <1>4 DEF Init, PipeOK, HandlingOK, Handling, FinSent
<1>10. AckOnlyStored  BY <1>0, <1>1 DEF AckOnlyStored
<1>11. CloseWaitMeansStored  BY <1>s DEF Init, CloseWaitMeansStored
<1> QED  BY <1>6, <1>7, <1>8, <1>9, <1>10, <1>11 DEF IInv

(* The invariant is inductive.                                             *)
LEMMA Invariant == Spec => []IInv
<1>1. IInv /\ [Next]_vars => IInv'
  <2>s. SUFFICES ASSUME IInv, [Next]_vars PROVE IInv'  OBVIOUS
  <2>1. TypeOK /\ StreamIntegrity /\ PipeOK /\ HandlingOK /\ WaitsOK /\ AckOnlyStored
        /\ CloseWaitMeansStored
    BY <2>s DEF IInv
  <2> QED
    BY <2>s, <2>1, TypeStep, StreamStep, PipeStep, HandlingStep, WaitsStep, AckStep,
       CloseWaitStep DEF IInv
<1> QED  BY <1>1, InitInvariant, PTL DEF Spec

(* Both sockets and the packets stay well typed; the receive buffer never  *)
(* holds more than its capacity and no write fails the assertion of        *)
(* ring_buffer.h:79.                                                       *)
THEOREM FlowTypeCorrect == Spec => []TypeOK
<1>1. IInv => TypeOK  BY DEF IInv
<1> QED  BY <1>1, Invariant, PTL

(* The application reads the bytes that were written, in order, each once, *)
(* for every size of stream, segment, buffer and read, and every           *)
(* interleaving of the four threads (tcp_in.c:93-112, tcp_sock.c:356-392). *)
THEOREM StreamIsIntact == Spec => []StreamIntegrity
<1>1. IInv => StreamIntegrity  BY DEF IInv
<1> QED  BY <1>1, Invariant, PTL

(* No ACK covers a byte that is not yet stored (tcp_in.c:56, 104, 112).    *)
THEOREM AcksAreHonest == Spec => []AckOnlyStored
<1>1. IInv => AckOnlyStored  BY DEF IInv
<1> QED  BY <1>1, Invariant, PTL

(* CLOSE_WAIT comes after the last byte is stored (tcp_in.c:82-84).        *)
THEOREM FinComesLast == Spec => []CloseWaitMeansStored
<1>1. IInv => CloseWaitMeansStored  BY DEF IInv
<1> QED  BY <1>1, Invariant, PTL

(* No thread is blocked where wake_up would not signal it                  *)
(* (synch_wait.h:40-72).                                                   *)
THEOREM BlockedIsReachable == Spec => []BlockedCanBeWoken
<1>1. IInv => BlockedCanBeWoken
  BY DEF IInv, WaitsOK, WaitOK, BlockedCanBeWoken
<1> QED  BY <1>1, Invariant, PTL
-------------------------------------------------------------------------------
(* The byte pipe.                                                          *)

(* What the pipe of StreamPipe is for the sockets. *)
pipe == <<sent, FinSent, Stored, delivered, state = "CLOSE_WAIT">>

(* Each step of the four threads moves the pipe on, or leaves it alone.    *)
LEMMA SendMoves == ASSUME IInv, SendSegment PROVE Pipe!Send
<1>1. SegmentLen \in 1 .. (StreamLen - sent)
  BY SegmentBounds DEF IInv, TypeOK, SendSegment
<1>2. sent' = sent + SegmentLen /\ UNCHANGED <<app, rcv_buf, delivered, state>> /\ app = "write"
  BY DEF SendSegment, SendPacket, server, buffer
<1>3. StreamLen \in Nat /\ sent \in Nat
  BY ConstantTypes DEF IInv, TypeOK
<1>4. sent' \in (sent + 1) .. StreamLen
  BY <1>1, <1>2, <1>3
<1> QED
  BY <1>2, <1>4 DEF Pipe!Send, Stored, Got

LEMMA CloseMoves == ASSUME IInv, SendFin PROVE Pipe!Close
BY DEF SendFin, server, buffer, Pipe!Close, Stored, Got

LEMMA StoreMoves == ASSUME IInv, StoreData PROVE Pipe!Store
<1>0. TypeOK /\ StreamIntegrity /\ PipeOK /\ HandlingOK /\ CloseWaitMeansStored
  BY DEF IInv
<1>n. [Next]_vars
  BY DEF Next, ServerNet
<1>1. /\ to_server[1] \in Packets /\ to_server[1].from = Stored
      /\ to_server[1].from < to_server[1].to /\ to_server[1].to <= StreamLen
      /\ rcv_buf' \in RingBuffers(Capacity, StreamByte)
  BY <1>0, StoreEffect, Zenon
<1>2. Stored' = to_server[1].to /\ UNCHANGED <<delivered, sent, app, state>>
  BY <1>0, <1>n, StoredStep DEF StoreData, client
<1>3. Stored' <= sent' /\ sent \in 0 .. StreamLen /\ Stored \in Nat
  BY <1>0, <1>n, StreamStep, StoredType DEF StreamIntegrity
<1>4. StreamLen \in Nat /\ Capacity \in Nat
  BY ConstantTypes
<1>5. Stored' \in (Stored + 1) .. sent /\ Stored < StreamLen
  BY <1>1, <1>2, <1>3, <1>4 DEF Packets
<1>6. Used(rcv_buf') \in 0 .. Capacity
  BY <1>1, <1>4, UsedValue
<1>7. Stored' - Len(delivered) <= Capacity
  <2>1. Stored' = Len(delivered) + Used(rcv_buf') /\ Len(delivered) \in Nat
    BY <1>0, <1>2, StoredType DEF Stored, Got
  <2> QED
    BY <1>4, <1>6, <2>1
<1>8. state # "CLOSE_WAIT"
  BY <1>0, <1>3, <1>4, <1>5 DEF CloseWaitMeansStored
<1> QED
  BY <1>2, <1>5, <1>7, <1>8 DEF Pipe!Store

LEMMA ReadMoves == ASSUME IInv, ReadData PROVE [Pipe!Deliver]_pipe
<1>0. TypeOK /\ StreamIntegrity /\ PipeOK /\ HandlingOK
  BY DEF IInv
<1>1. /\ rcv_buf' \in RingBuffers(Capacity, StreamByte)
      /\ delivered' \in Seq(StreamByte)
      /\ Stored' = Stored /\ delivered' = Positions(0, Got')
  BY <1>0, ReadEffect, Zenon
<1>2. UNCHANGED <<sent, app, state>> /\ delivered' = delivered \o ReadBytes(rcv_buf, ReadSize)
  BY DEF ReadData, client
<1>3. Used(rcv_buf') \in 0 .. Capacity
  BY <1>1, ConstantTypes, UsedValue
<1>4. Got' \in Nat /\ Got' <= Stored
  BY <1>1, <1>3, ConstantTypes DEF Stored, Got
<1>5. Got <= Got' /\ Got \in Nat /\ Stored \in Nat
  <2>1. /\ rcv_buf \in RingBuffers(Capacity, StreamByte) /\ Capacity \in Nat
        /\ ReadSize \in Nat /\ delivered \in Seq(StreamByte)
    BY <1>0, ConstantTypes DEF TypeOK, StreamByte
  <2>2. ReadBytes(rcv_buf, ReadSize) \in Seq(StreamByte)
    BY <2>1, ReadCells
  <2>3. Len(delivered') = Len(delivered) + Len(ReadBytes(rcv_buf, ReadSize))
    BY <1>2, <2>1, <2>2, ConcatProperties
  <2>4. Len(ReadBytes(rcv_buf, ReadSize)) \in Nat /\ Len(delivered) \in Nat
    BY <2>1, <2>2
  <2>5. Stored \in Nat
    BY <1>0, StoredType
  <2> QED
    BY <2>3, <2>4, <2>5 DEF Got
<1>6. delivered' = [p \in 1 .. Got' |-> p]
  <2>1. \A p \in 1 .. Got' : 0 + p = p
    BY <1>4
  <2> QED
    BY <1>1, <2>1 DEF Positions
<1>7. CASE Got' = Got
  <2>1. delivered' = delivered
    BY <1>0, <1>1, <1>7 DEF StreamIntegrity
  <2> QED
    BY <1>1, <1>2, <2>1 DEF pipe, FinSent
<1>8. CASE Got' # Got
  <2>1. Got' \in (Len(delivered) + 1) .. Stored
    BY <1>4, <1>5, <1>8 DEF Got
  <2> QED
    BY <1>1, <1>2, <1>6, <2>1 DEF Pipe!Deliver
<1> QED
  BY <1>7, <1>8

LEMMA EndMoves == ASSUME IInv, EnterCloseWait PROVE [Pipe!End]_pipe
<1>0. TypeOK /\ PipeOK /\ HandlingOK /\ CloseWaitMeansStored'
  BY CloseWaitStep DEF IInv, Next, ServerNet
<1>1. to_server # << >> /\ IsFin(to_server[1]) /\ to_server \in Seq(Packets)
  BY <1>0 DEF EnterCloseWait, HandlingOK, Handling, TypeOK
<1>2. /\ UNCHANGED <<sent, app, rcv_buf, delivered>> /\ state' = "CLOSE_WAIT"
  BY DEF EnterCloseWait, client, buffer
<1>3. FinSent
  <2>1. to_server[1].to = StreamLen + 1 /\ 1 \in 1 .. Len(to_server)
    BY <1>1 DEF IsFin
  <2>2. FinSent \/ to_server[1].to <= sent
    BY <1>0, <2>1 DEF PipeOK
  <2>3. sent \in 0 .. StreamLen /\ StreamLen \in Nat
    BY <1>0, ConstantTypes DEF TypeOK
  <2> QED
    BY <2>1, <2>2, <2>3
<1>4. UNCHANGED <<Stored, FinSent>>
  BY <1>2 DEF Stored, Got, FinSent
<1>5. Stored = StreamLen
  BY <1>0, <1>2, <1>4 DEF CloseWaitMeansStored
<1>6. CASE state = "CLOSE_WAIT"
  BY <1>2, <1>4, <1>6 DEF pipe
<1>7. CASE state # "CLOSE_WAIT"
  BY <1>2, <1>3, <1>4, <1>5, <1>7 DEF Pipe!End, FinSent
<1> QED
  BY <1>6, <1>7

LEMMA OthersRest ==
  ASSUME [Next]_vars, ~SendSegment, ~SendFin, ~StoreData, ~ReadData, ~EnterCloseWait
  PROVE  UNCHANGED pipe
<1>1. UNCHANGED <<sent, FinSent, rcv_buf, delivered, state>>
  BY DEF Next, Writer, ClientNet, ServerNet, Reader, vars, client, server, buffer,
     WindowTooSmall, ZeroWindow, WriterSleeps, WriterReturns, EnterFinWait,
     ReceiveAck, IgnoreAck, StoreWindow, WakeWriter, Receive, AckFin, BufferTooFull,
     NetSleeps, NetReturns, CheckReader, WakeReader, AckData, NothingToRead, CheckEof,
     ReaderSleeps, ReaderReturns, Recheck, CheckNet, WakeNet, SpuriousWakeUp, FinSent
<1> QED
  BY <1>1 DEF pipe, Stored, Got

(* The refinement: whatever the threads do, the two applications see a     *)
(* pipe that keeps at most Capacity bytes on the receiver's side.          *)
THEOREM FlowIsPipe == Spec => ImplementsPipe
<1>1. Init => Pipe!Init
  <2> SUFFICES ASSUME Init PROVE Pipe!Init
    OBVIOUS
  <2>1. TypeOK /\ StreamIntegrity
    BY InitInvariant DEF IInv
  <2>2. sent = 0 /\ delivered = << >> /\ ~FinSent /\ state # "CLOSE_WAIT"
    BY DEF Init, FinSent
  <2>3. Stored = 0
    BY <2>1, <2>2, StoredType
  <2> QED
    BY <2>2, <2>3 DEF Pipe!Init, FinSent
<1>2. IInv /\ [Next]_vars => [Pipe!Next]_pipe
  <2> SUFFICES ASSUME IInv, [Next]_vars PROVE [Pipe!Next]_pipe
    OBVIOUS
  <2> QED
    BY SendMoves, CloseMoves, StoreMoves, ReadMoves, EndMoves, OthersRest DEF Pipe!Next
<1> QED
  BY <1>1, <1>2, Invariant, PTL DEF Spec, ImplementsPipe, Pipe!Spec, pipe, FinSent
===============================================================================
