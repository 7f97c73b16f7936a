----------------------------- MODULE RetransProofs -----------------------------
(***************************************************************************)
(* What holds of the client of lab 12 for every file, window, sequence     *)
(* space and number of losses; and what the functions of include/list.h do *)
(* to a list, for any nodes.                                               *)
(*                                                                         *)
(* SendBufferIsUnacked and NothingForgotten rest on two invariants.  RInv  *)
(* says where the numbers are: una <= the ACKs under way, in order <= what *)
(* the peer expects <= the packets that are sent.  That the packets before *)
(* una are those that send_buffer_clear_ack frees follows only if no       *)
(* number is half the sequence space away from another.  The window keeps  *)
(* them near: it is set once, before the first segment, and every segment  *)
(* uses it up (CallOK), since the code that would open it again is never   *)
(* reached.  BInv says what the pointers of the list are in the middle of  *)
(* an addition (Half), of a walk (WalkOK) and of both: it is what one step *)
(* of each thread keeps whatever the other is doing.  It assumes packets   *)
(* of one number and that no entry was freed from behind an addition;      *)
(* RetransPartial.cfg and RetransRace.cfg show that it needs both.         *)
(*                                                                         *)
(* Of the timer list ListOK says that it holds one timer or none, and that *)
(* a timer that has been deleted points at the head; so deleting it again  *)
(* may empty the list, and never spoils it.                                *)
(***************************************************************************)
EXTENDS Retrans, FiniteSetTheorems, WellFoundedInduction, TLAPS

(* The values of the variables. *)
Kinds == {"syn", "data", "fin", "ack"}
Segment == [kind : Kinds, seq : Nat, ack : Nat]
Answers == [kind : {"synack", "ack", "finack"}, ack : Nat, rwnd : {Window}, seq_end : Nat]
Pointer == Entries \cup {Null}
Handled == [pc : {"act", "clear"}, kind : {"synack", "ack", "finack"}, ack : Nat,
            rwnd : {Window}, pos : Entries, rest : Pointer, state : States]
Sockets == [state : States, hashed : BOOLEAN, una : Nat, nxt : Nat, rcv_nxt : Nat,
            snd_wnd : Nat, retrans : BOOLEAN, connected : BOOLEAN, notified : BOOLEAN]
Calls == [pc : {"connect", "hash", "sleep", "write", "full", "closing", "done"},
          left : Nat, goal : {"CLOSED", "LAST_ACK", "FIN_WAIT_1"}]
Places == {Idle, [pc |-> "delete"]} \cup Handled
Peers == [state : {"listen", "synrecv", "open", "lastack", "closed"},
          rnxt : Nat, nxt : Nat, got : SUBSET Nat]
Buffers == [next : [Entries -> Pointer], prev : [Entries -> Pointer]]
Additions == [step : {"no", "forward", "back"}, behind : Entries]

Shape ==
  /\ tsk \in Sockets /\ app \in Calls
  /\ net \in Places
  /\ ready \in Seq(Segment) /\ out \in Seq(Segment)
  /\ in \in Seq(Answers)
  /\ peer \in Peers

(* The head of the send buffer always leads to a node. *)
LinksOK ==
  /\ send_buf \in Buffers /\ adding \in Additions
  /\ send_buf.next[Head0] \in Entries /\ send_buf.prev[Head0] \in Entries
  /\ net.pc = "clear" => net.pos # Head0 /\ net.ack = tsk.una

(* The number after those of the packets that the application has sent: a  *)
(* packet that is built and not yet emitted is not counted.                *)
Top == IF ready = <<>> THEN tsk.nxt ELSE Head(ready).seq

(* One packet is built at a time, and added before it is emitted.         *)
ReadyOK ==
  /\ ready # <<>> => /\ Len(ready) = 1 /\ ready[1].kind # "ack"
                     /\ ready[1].seq + Size(ready[1].kind) = tsk.nxt
  /\ adding.step # "no" => ready # <<>>
  /\ adding.step = "no" => adding = NoAdd

(* Packets end below n. *)
Below(q, n) == \A i \in 1 .. Len(q) : q[i].kind # "ack" => q[i].seq + Size(q[i].kind) <= n

SentOK ==
  /\ Below(out, Top)
  /\ \A n \in peer.got : n < Top

(* ACKs come in order, each one between una and what the peer expects.     *)
AcksOK ==
  /\ tsk.una <= peer.rnxt /\ peer.rnxt <= Top
  /\ \A i \in 1 .. Len(in) : tsk.una <= in[i].ack /\ in[i].ack <= peer.rnxt
  /\ \A i, j \in 1 .. Len(in) : i < j => in[i].ack <= in[j].ack

AtConnect == net.pc = "act" /\ net.state = "SYN_SENT"

(* The window is used up by the packets of the application.                *)
CallOK ==
  /\ app.pc \in {"connect", "hash"} =>
       /\ tsk.state = "CLOSED" /\ ~tsk.hashed /\ net = Idle
       /\ tsk.snd_wnd = 0 /\ tsk.nxt = IF app.pc = "connect" THEN 0 ELSE 1
  /\ tsk.state = "SYN_SENT" \/ AtConnect => tsk.nxt = 1 /\ tsk.snd_wnd = 0
  /\ tsk.state = "SYN_SENT" => app.pc \in {"sleep", "write", "full"}
  /\ AtConnect => /\ tsk.state \in {"SYN_SENT", "CLOSED"}
                  /\ app.pc \in {"sleep", "write", "full", "done"}
  /\ app.pc \in {"sleep", "write", "full"} => tsk.nxt + tsk.snd_wnd <= Window + 1
  /\ tsk.nxt <= Window + 2 /\ tsk.snd_wnd <= Window

RInv == Shape /\ LinksOK /\ ReadyOK /\ SentOK /\ AcksOK /\ CallOK

-----------------------------------------------------------------------------
(* The list of the packets lo .. hi - 1: what follows a packet in it, and  *)
(* what is before it.                                                      *)
Succ(lo, hi, i) == IF i + 1 < hi THEN i + 1 ELSE Head0
Pred(lo, i) == IF lo < i THEN i - 1 ELSE Head0

(* The list when no addition is half done, ...                             *)
Chain(list, lo, hi) ==
  /\ list.next[Head0] = (IF lo < hi THEN lo ELSE Head0)
  /\ list.prev[Head0] = (IF lo < hi THEN hi - 1 ELSE Head0)
  /\ \A i \in lo .. hi - 1 : list.next[i] = Succ(lo, hi, i) /\ list.prev[i] = Pred(lo, i)

(* ... and when the last packet is led to and does not lead on.            *)
Half(list, lo, hi) ==
  /\ lo < hi
  /\ list.next[Head0] = lo /\ list.prev[Head0] = hi - 1
  /\ \A i \in lo .. hi - 2 : list.next[i] = i + 1 /\ list.prev[i] = Pred(lo, i)
  /\ list.next[hi - 1] = Null

(* Packets that are not linked yet have the pointers of zeroed memory.     *)
Filled(L, add, lo, hi) ==
  /\ IF add.step = "back" THEN Half(L, lo, hi) /\ add.behind = Pred(lo, hi - 1)
                          ELSE Chain(L, lo, hi)
  /\ add.step = "forward" => add.behind = Pred(lo, hi)
  /\ \A n \in Seqs : n >= hi => L.next[n] = Null

BufferOK(lo) == Filled(send_buf, adding, lo, Linked)

(* The walk is at the first packet as long as that is acknowledged, and    *)
(* has read the next one, or a packet that was then half linked.           *)
WalkOK(lo) ==
  /\ net.pos \in lo .. Linked - 1
  /\ lo < tsk.una => net.pos = lo
  /\ \/ net.rest = Null
     \/ net.rest = net.pos + 1 /\ net.rest < Linked
     \/ net.rest = Head0 /\ tsk.una <= net.pos + 1

BInv == Seg = 1 /\ ~torn =>
    IF net.pc = "clear" THEN \E lo \in 0 .. tsk.una : BufferOK(lo) /\ WalkOK(lo)
                        ELSE BufferOK(tsk.una)
--------------------------------------------------------------------------------
(* The fields of a list, as functions on its nodes. *)
Lists(N, P) == [next : [N -> P], prev : [N -> P]]

(* The head of timer_list and the two timers of the socket. *)
Nodes == {"head", "retrans", "timewait"}
Pointers == Nodes \cup {NULL}

(* The list L has one timer e, or none if e is its head. *)
Holds(L, e) ==
  /\ L.next["head"] = e /\ L.prev["head"] = e
  /\ L.next[e] = "head" /\ L.prev[e] = "head"

(* A timer that was alone in the list and was deleted. *)
PointsBack(L, e) == L.next[e] = "head" /\ L.prev[e] = "head"

(* Numbers keep their width.                                               *)
ValuesOK ==
  /\ tsk.rcv_nxt < Mod
  /\ peer.state # "listen" => peer.nxt < Mod
  /\ \A i \in 1 .. Len(in) : in[i].seq_end < Mod

(* The connection sets its retransmission timer no more.                   *)
Over == tsk.state = "TIME_WAIT" \/ (tsk.state = "CLOSED" /\ app.pc = "done" /\ ~tsk.retrans)

(* Until then the timer is in the list exactly when it is enabled, though  *)
(* it is deleted without a look at `enable`.                               *)
ListOK ==
  /\ timer_list \in Lists(Nodes, Pointers)
  /\ app.pc = "connect" => Holds(timer_list, "head") /\ ~tsk.retrans
  /\ app.pc # "connect" /\ ~Over =>
       /\ PointsBack(timer_list, "retrans")
       /\ Holds(timer_list, IF tsk.retrans THEN "retrans" ELSE "head")
  /\ Over => ~tsk.retrans /\ (Holds(timer_list, "head") \/ Holds(timer_list, "timewait"))

(* What each thread knows of the state while the other one goes on.        *)
ThreadsOK ==
  /\ app.pc \in {"sleep", "write", "full", "closing"} =>
       tsk.state \in {"SYN_SENT", "ESTABLISHED", "CLOSE_WAIT"}
  /\ app.pc = "closing" => /\ tsk.state # "SYN_SENT"
                           /\ \/ app.goal = "FIN_WAIT_1"
                              \/ app.goal = "LAST_ACK" /\ tsk.state = "CLOSE_WAIT"
  /\ tsk.state = "FIN_WAIT_2" => ~tsk.retrans
  /\ app.pc = "hash" => tsk.retrans
  /\ tsk.state = "SYN_SENT" \/ AtConnect => tsk.retrans
  /\ AtConnect => tsk.state = "SYN_SENT" \/ (tsk.state = "CLOSED" /\ app.pc = "done")
  /\ net.pc = "act" =>
       /\ net.state \in {"FIN_WAIT_1", "FIN_WAIT_2", "LAST_ACK"} => tsk.state = net.state
       /\ net.state = "ESTABLISHED" => tsk.state \in {"ESTABLISHED", "FIN_WAIT_1"}
  /\ net.pc = "delete" => tsk.state \in {"ESTABLISHED", "FIN_WAIT_1"}

LInv == ValuesOK /\ ListOK /\ ThreadsOK

(* `enable` agrees with the list. *)
EnabledIsLinked == tsk.retrans <=> "retrans" \in Timers

--------------------------------------------------------------------------------
(* Sequence numbers: none comes round, and the sign of a difference tells  *)
(* which one is less.                                                      *)
LEMMA Widths ==
  ASSUME RetransAssumption
  PROVE  /\ Mod \div 2 \in Nat /\ 2 * (Mod \div 2) <= Mod /\ Mod <= 2 * (Mod \div 2) + 1
         /\ Mod \in Nat /\ Window \in Nat /\ Window + 2 <= Mod \div 2
  BY DEF RetransAssumption

LEMMA Remainders ==
  ASSUME NEW m \in Nat \ {0}
  PROVE  /\ \A x \in 0 .. m - 1 : x % m = x
         /\ \A x \in 1 .. m - 1 : (0 - x) % m = m - x
         /\ \A x \in Int : x % m \in 0 .. m - 1
<1>1. ASSUME NEW x \in 0 .. m - 1 PROVE x % m = x
  BY SMT
<1>2. ASSUME NEW x \in 1 .. m - 1 PROVE (0 - x) % m = m - x
  BY SMT
<1>3. ASSUME NEW x \in Int PROVE x % m \in 0 .. m - 1
  BY SMT
<1> QED
  BY <1>1, <1>2, <1>3

LEMMA Comparison ==
  ASSUME RetransAssumption, NEW a \in 0 .. Window + 1, NEW b \in 0 .. Window + 2
  PROVE  less_than(a, b) <=> a < b
<1> DEFINE h == Mod \div 2
<1>1. /\ h \in Nat /\ 2 * h <= Mod /\ Mod <= 2 * h + 1 /\ Mod \in Nat \ {0}
      /\ Window \in Nat /\ Window + 2 <= h
  BY Widths
<1> HIDE DEF h
<1>2. less_than(a, b) <=> (a - b) % Mod >= h
  BY DEF less_than, h
<1>3. CASE a < b
  <2>1. b - a \in 1 .. Mod - 1 /\ b - a <= h
    BY <1>1, <1>3
  <2>2. (a - b) % Mod = Mod - (b - a)
    <3>1. (0 - (b - a)) % Mod = Mod - (b - a)
      BY <1>1, <2>1, Remainders
    <3>2. 0 - (b - a) = a - b
      OBVIOUS
    <3> QED
      BY <3>1, <3>2
  <2> QED
    BY <1>1, <1>2, <1>3, <2>1, <2>2
<1>4. CASE ~(a < b)
  <2>1. a - b \in 0 .. Mod - 1 /\ a - b <= Window + 1
    BY <1>1, <1>4
  <2>2. (a - b) % Mod = a - b
    BY <1>1, <2>1, Remainders
  <2>3. a - b < h
    BY <1>1, <2>1, <1>4
  <2> QED
    BY <1>1, <1>2, <1>4, <2>2, <2>3
<1> QED
  BY <1>3, <1>4

LEMMA Sum ==
  ASSUME RetransAssumption, NEW a \in Nat, NEW n \in Nat, a + n <= Window + 2
  PROVE  Plus(a, n) = a + n
<1>1. a + n \in 0 .. Mod - 1 /\ Mod \in Nat \ {0}
  BY Widths
<1> QED
  BY <1>1, Remainders DEF Plus

--------------------------------------------------------------------------------
(* A set of natural numbers that is not empty has a least member.          *)
LEMMA LeastNat == ASSUME NEW S \in SUBSET Nat, S # {} PROVE \E m \in S : \A n \in S : m <= n
  <1> DEFINE R == {ss \in Nat \X Nat : ss[1] < ss[2]}
  <1>1. OpToRel(<, Nat) = R
    BY DEF OpToRel
  <1>2. IsWellFoundedOn(R, Nat)
    BY <1>1, NatLessThanWellFounded
  <1>3. PICK m \in S : \A n \in S : ~(<<n, m>> \in R)
    BY <1>2, WFMin
  <1>4. ASSUME NEW n \in S PROVE m <= n
    <2>1. m \in Nat /\ n \in Nat /\ <<n, m>> \notin R
      BY <1>3
    <2>2. <<n, m>> \in Nat \X Nat /\ <<n, m>>[1] = n /\ <<n, m>>[2] = m
      BY <2>1
    <2>3. ~(n < m)
      BY <2>1, <2>2
    <2> QED
      BY <2>1, <2>3
  <1> QED
    BY <1>4

(* The peer expects a number that the client has used or will use next     *)
(* (external).                                                             *)
LEMMA AdvancedBounds ==
  ASSUME RetransAssumption, NEW n \in Nat, NEW top \in Nat, NEW got \in SUBSET Nat,
         n <= top, top <= Window + 2, \A i \in got : i < top
  PROVE  Advanced(n, got) \in n .. top
<1> DEFINE Missing == {k \in Nat : n + k \notin got}
           Fits(k) == Plus(n, k) \notin got /\ \A j \in 0 .. k - 1 : Plus(n, j) \in got
           m == CHOOSE k \in Seqs : Fits(k)
<1>1. top - n \in Missing
  OBVIOUS
<1>2. PICK least \in Missing : \A k \in Missing : least <= k
  <2>1. Missing \in SUBSET Nat /\ Missing # {}
    BY <1>1
  <2> HIDE DEF Missing
  <2> QED
    BY <2>1, LeastNat
<1>3. least \in Nat /\ least <= top - n
  BY <1>1, <1>2
<1>4. \A j \in Nat : n + j <= Window + 2 => Plus(n, j) = n + j
  BY Sum
<1>5. Window \in Nat /\ Mod \in Nat /\ Window + 2 < Mod
  BY Widths
<1>6. least \in Seqs
  BY <1>3, <1>5 DEF Seqs
<1>7. Fits(least)
  <2>1. Plus(n, least) \notin got
    BY <1>2, <1>3, <1>4, <1>5
  <2>2. ASSUME NEW j \in 0 .. least - 1 PROVE Plus(n, j) \in got
    <3>1. j \in Nat /\ j < least
      BY <1>3
    <3>2. j \notin Missing
      BY <1>2, <1>3, <3>1
    <3>3. n + j \in got
      BY <3>1, <3>2
    <3> QED
      BY <1>3, <1>4, <1>5, <3>1, <3>3
  <2> QED
    BY <2>1, <2>2
<1>8. m \in Seqs /\ Fits(m)
  <2> HIDE DEF Fits
  <2> QED
    BY <1>6, <1>7
<1> HIDE DEF m
<1>9. m \in Nat /\ m <= top - n
  <2>1. m \in Nat
    BY <1>5, <1>8 DEF Seqs
  <2>2. ASSUME m > top - n PROVE FALSE
    <3>1. top - n \in 0 .. m - 1
      BY <2>1, <2>2
    <3>2. Plus(n, top - n) \in got
      BY <1>8, <3>1
    <3>3. Plus(n, top - n) = top
      BY <1>4
    <3> QED
      BY <3>2, <3>3
  <2> QED
    BY <2>1, <2>2
<1>10. Plus(n, m) = n + m
  BY <1>4, <1>5, <1>9
<1> QED
  BY <1>9, <1>10 DEF Advanced, m

--------------------------------------------------------------------------------
LEMMA SegmentFields ==
  ASSUME NEW q \in Seq(Segment), NEW i \in 1 .. Len(q)
  PROVE  q[i] \in Segment /\ q[i].kind \in Kinds /\ q[i].seq \in Nat /\ q[i].ack \in Nat
<1>1. q[i] \in Segment
  OBVIOUS
<1> QED
  BY <1>1 DEF Segment

LEMMA Sizes ==
  ASSUME RetransAssumption
  PROVE  \A kind : Size(kind) \in Nat /\ Size(kind) >= 1
BY DEF Size, RetransAssumption

LEMMA Typed ==
  ASSUME RInv
  PROVE  /\ tsk \in Sockets /\ app \in Calls /\ net \in Places /\ peer \in Peers
         /\ ready \in Seq(Segment) /\ out \in Seq(Segment) /\ in \in Seq(Answers)
         /\ LinksOK /\ ReadyOK /\ SentOK /\ AcksOK /\ CallOK
  BY DEF RInv, Shape

LEMMA TopBounds ==
  ASSUME RetransAssumption, RInv
  PROVE  /\ Top \in Nat /\ Top <= tsk.nxt /\ tsk.nxt <= Window + 2
         /\ tsk.nxt \in Nat /\ tsk.una \in Nat /\ peer.rnxt \in Nat
         /\ tsk.una <= peer.rnxt /\ peer.rnxt <= Top
<1>1. /\ tsk \in Sockets /\ peer \in Peers /\ ready \in Seq(Segment)
      /\ ReadyOK /\ AcksOK /\ CallOK
  BY Typed
<1>2. tsk.nxt \in Nat /\ tsk.una \in Nat /\ peer.rnxt \in Nat
  BY <1>1 DEF Sockets, Peers
<1>3. CASE ready = <<>>
  BY <1>1, <1>2, <1>3 DEF Top, CallOK, AcksOK
<1>4. CASE ready # <<>>
  <2>1. /\ Head(ready) = ready[1] /\ ready[1] \in Segment
        /\ ready[1].seq + Size(ready[1].kind) = tsk.nxt
    BY <1>1, <1>4 DEF ReadyOK
  <2>2. ready[1].seq \in Nat /\ Size(ready[1].kind) \in Nat
    BY <2>1, Sizes DEF Segment
  <2> QED
    BY <1>1, <1>2, <1>4, <2>1, <2>2 DEF Top, CallOK, AcksOK
<1> QED
  BY <1>3, <1>4

(* A step of the client that builds a packet: the packet takes the next    *)
(* numbers.                                                                *)
LEMMA BuildKeeps ==
  ASSUME RetransAssumption, RInv, NEW kind \in {"syn", "data", "fin"}, NEW wnd \in Nat,
         Build(kind, wnd), ready = <<>>, UNCHANGED <<net, out, in, peer>>,
         tsk.nxt + Size(kind) <= Window + 2
  PROVE  /\ tsk' = [tsk EXCEPT !.nxt = tsk.nxt + Size(kind), !.snd_wnd = wnd, !.retrans = TRUE]
         /\ tsk' \in Sockets /\ ready' \in Seq(Segment)
         /\ LinksOK' /\ ReadyOK' /\ SentOK' /\ AcksOK'
<1> DEFINE p == Packet(kind)
<1>1. /\ tsk.nxt \in Nat /\ tsk.una \in Nat /\ tsk.rcv_nxt \in Nat /\ Size(kind) \in Nat
      /\ tsk \in Sockets /\ LinksOK /\ SentOK /\ AcksOK
  BY Typed, Sizes DEF Sockets
<1>2. Plus(tsk.nxt, Size(kind)) = tsk.nxt + Size(kind)
  BY <1>1, Sum
<1>3. tsk' = [tsk EXCEPT !.nxt = tsk.nxt + Size(kind), !.snd_wnd = wnd, !.retrans = TRUE]
  BY <1>2 DEF Build
<1>4. /\ tsk' \in Sockets
      /\ tsk'.nxt = tsk.nxt + Size(kind) /\ tsk'.una = tsk.una
  <2>1. tsk.nxt + Size(kind) \in Nat
    BY <1>1
  <2> QED
    BY <1>1, <1>3, <2>1 DEF Sockets
<1>5. p \in Segment /\ p.seq = tsk.nxt /\ p.kind = kind
  BY <1>1 DEF Packet, Segment, Kinds
<1> HIDE DEF p
<1>6. ready' = <<p>> /\ adding' = [step |-> "forward", behind |-> send_buf.prev[Head0]]
      /\ send_buf' = send_buf
  BY DEF Build, p
<1>7. ready' \in Seq(Segment) /\ Len(ready') = 1 /\ ready'[1] = p /\ Head(ready') = p
      /\ ready' # <<>>
  BY <1>5, <1>6
<1>8. Top = tsk.nxt /\ Top' = tsk.nxt
  BY <1>5, <1>7 DEF Top
<1>9. SentOK' /\ AcksOK'
  BY <1>1, <1>4, <1>8 DEF SentOK, Below, AcksOK
<1>10. ReadyOK'
  BY <1>4, <1>5, <1>6, <1>7 DEF ReadyOK
<1>11. LinksOK'
  BY <1>1, <1>4, <1>6 DEF LinksOK, Additions
<1> QED
  BY <1>3, <1>4, <1>7, <1>9, <1>10, <1>11

LEMMA Joined ==
  ASSUME NEW p \in Seq(Segment), NEW q \in Seq(Segment), NEW n, Below(p, n), Below(q, n)
  PROVE  p \o q \in Seq(Segment) /\ Below(p \o q, n)
<1>1. p \o q \in Seq(Segment) /\ Len(p \o q) = Len(p) + Len(q)
  OBVIOUS
<1>2. ASSUME NEW i \in 1 .. Len(p \o q), (p \o q)[i].kind # "ack"
      PROVE  (p \o q)[i].seq + Size((p \o q)[i].kind) <= n
  <2>1. CASE i \in 1 .. Len(p)
    <3>1. (p \o q)[i] = p[i]
      BY <2>1
    <3> QED
      BY <1>2, <2>1, <3>1 DEF Below
  <2>2. CASE i \in Len(p) + 1 .. Len(p) + Len(q)
    <3>1. (p \o q)[i] = q[i - Len(p)] /\ i - Len(p) \in 1 .. Len(q)
      BY <2>2
    <3> QED
      BY <1>2, <3>1 DEF Below
  <2> QED
    BY <1>1, <2>1, <2>2
<1> QED
  BY <1>1, <1>2 DEF Below

(* A step that leaves the send buffer alone and takes no packet of the     *)
(* peer: it sends nothing, ...                                             *)
LEMMA SendsNothing ==
  ASSUME RetransAssumption, RInv,
         tsk' \in Sockets, tsk'.una = tsk.una, tsk'.nxt = tsk.nxt,
         app' \in Calls, net' \in Places, net' = net \/ net'.pc # "clear", CallOK',
         UNCHANGED <<out, in, peer, lists, ready>>
  PROVE  RInv'
<1>1. UNCHANGED <<out, in, peer, send_buf, adding, ready>>
  BY DEF lists
<1>2. Shape'
  BY <1>1 DEF RInv, Shape
<1>3. SentOK' /\ AcksOK' /\ ReadyOK' /\ LinksOK'
  BY <1>1 DEF RInv, SentOK, Below, AcksOK, ReadyOK, LinksOK, Top
<1> QED
  BY <1>2, <1>3 DEF RInv

(* ... or nothing but bare ACKs.                                           *)
LEMMA SendsAcks ==
  ASSUME RetransAssumption, RInv, NEW n \in Nat, out' = out \o Acks(n),
         tsk' \in Sockets, tsk'.una = tsk.una, tsk'.nxt = tsk.nxt,
         app' \in Calls, net' \in Places, net' = net \/ net'.pc # "clear", CallOK',
         UNCHANGED <<in, peer, lists, ready>>
  PROVE  RInv'
<1> DEFINE q == Acks(n)
<1>1. tsk.nxt \in Nat /\ tsk.rcv_nxt \in Nat
  BY DEF RInv, Shape, Sockets
<1>2. Packet("ack") \in Segment /\ Packet("ack").kind = "ack"
  BY <1>1 DEF Packet, Segment, Kinds
<1>3. q \in Seq(Segment) /\ Below(q, Top)
  <2> DEFINE ack == Packet("ack")
  <2>1. q = [i \in 1 .. n |-> ack]
    BY DEF Acks
  <2> HIDE DEF q, ack
  <2>2. q \in Seq(Segment) /\ Len(q) = n /\ \A i \in 1 .. Len(q) : q[i].kind = "ack"
    BY <1>2, <2>1 DEF ack
  <2> QED
    BY <2>2 DEF Below
<1> HIDE DEF q
<1>4. out \in Seq(Segment) /\ Below(out, Top) /\ out' = out \o q
  BY DEF RInv, Shape, SentOK, q
<1>5. out' \in Seq(Segment) /\ Below(out', Top)
  BY <1>3, <1>4, Joined
<1>6. UNCHANGED <<in, peer, send_buf, adding, ready>> /\ Top' = Top
  BY DEF lists, Top
<1>7. Shape'
  BY <1>5, <1>6 DEF RInv, Shape
<1>8. SentOK' /\ AcksOK' /\ ReadyOK' /\ LinksOK'
  BY <1>5, <1>6 DEF RInv, SentOK, AcksOK, ReadyOK, LinksOK
<1> QED
  BY <1>7, <1>8 DEF RInv

--------------------------------------------------------------------------------
(* The application thread.                                                 *)

LEMMA HashKeeps == ASSUME RetransAssumption, RInv, Hash PROVE RInv'
<1>1. /\ tsk \in Sockets /\ app \in Calls /\ net \in Places /\ CallOK
      /\ Window \in Nat
  BY Typed, Widths
<1>2. /\ tsk' \in Sockets /\ tsk'.una = tsk.una /\ tsk'.nxt = tsk.nxt
      /\ app' \in Calls /\ net' = net
  BY <1>1 DEF Hash, Sockets, Calls, States, AppAt, Goto
<1>3. CallOK'
  BY <1>1 DEF Hash, CallOK, AtConnect, Sockets, Calls, Idle, AppAt, Goto
<1> QED
  BY <1>1, <1>2, <1>3, SendsNothing DEF Hash

LEMMA ConnectedKeeps == ASSUME RetransAssumption, RInv, Connected PROVE RInv'
<1>1. /\ tsk \in Sockets /\ app \in Calls /\ net \in Places /\ CallOK
      /\ Window \in Nat
  BY Typed, Widths
<1>2. /\ tsk' \in Sockets /\ tsk'.una = tsk.una /\ tsk'.nxt = tsk.nxt
      /\ app' \in Calls /\ net' = net
  BY <1>1 DEF Connected, Sockets, Calls, States, AppAt, Goto
<1>3. CallOK'
  BY <1>1 DEF Connected, CallOK, AtConnect, Sockets, Calls, Idle, AppAt, Goto
<1> QED
  BY <1>1, <1>2, <1>3, SendsNothing DEF Connected

LEMMA SpuriousKeeps == ASSUME RetransAssumption, RInv, Spurious PROVE RInv'
<1>1. /\ tsk \in Sockets /\ app \in Calls /\ net \in Places /\ CallOK
      /\ Window \in Nat
  BY Typed, Widths
<1>2. /\ tsk' \in Sockets /\ tsk'.una = tsk.una /\ tsk'.nxt = tsk.nxt
      /\ app' \in Calls /\ net' = net
  BY <1>1 DEF Spurious, Sockets, Calls, States, AppAt, Goto
<1>3. CallOK'
  BY <1>1 DEF Spurious, CallOK, AtConnect, Sockets, Calls, Idle, AppAt, Goto
<1> QED
  BY <1>1, <1>2, <1>3, SendsNothing DEF Spurious

LEMMA WindowFullKeeps == ASSUME RetransAssumption, RInv, WindowFull PROVE RInv'
<1>1. /\ tsk \in Sockets /\ app \in Calls /\ net \in Places /\ CallOK
      /\ Window \in Nat
  BY Typed, Widths
<1>2. /\ tsk' \in Sockets /\ tsk'.una = tsk.una /\ tsk'.nxt = tsk.nxt
      /\ app' \in Calls /\ net' = net
  BY <1>1 DEF WindowFull, Sockets, Calls, States, AppAt, Goto, Writing
<1>3. CallOK'
  BY <1>1 DEF WindowFull, CallOK, AtConnect, Sockets, Calls, Idle, AppAt, Goto, Writing
<1> QED
  BY <1>1, <1>2, <1>3, SendsNothing DEF WindowFull

LEMMA WindowMovedKeeps == ASSUME RetransAssumption, RInv, WindowMoved PROVE RInv'
<1>1. /\ tsk \in Sockets /\ app \in Calls /\ net \in Places /\ CallOK
      /\ Window \in Nat
  BY Typed, Widths
<1>2. /\ tsk' \in Sockets /\ tsk'.una = tsk.una /\ tsk'.nxt = tsk.nxt
      /\ app' \in Calls /\ net' = net
  BY <1>1 DEF WindowMoved, Sockets, Calls, States, AppAt, Goto
<1>3. CallOK'
  BY <1>1 DEF WindowMoved, CallOK, AtConnect, Sockets, Calls, Idle, AppAt, Goto
<1> QED
  BY <1>1, <1>2, <1>3, SendsNothing DEF WindowMoved

LEMMA ClosingKeeps == ASSUME RetransAssumption, RInv, Closing PROVE RInv'
<1>1. /\ tsk \in Sockets /\ app \in Calls /\ net \in Places /\ CallOK
      /\ Window \in Nat
  BY Typed, Widths
<1>2. /\ tsk' \in Sockets /\ tsk'.una = tsk.una /\ tsk'.nxt = tsk.nxt
      /\ app' \in Calls /\ net' = net
  BY <1>1 DEF Closing, Sockets, Calls, States, AppAt, Goto
<1>3. CallOK'
  BY <1>1 DEF Closing, CallOK, AtConnect, Sockets, Calls, Idle, AppAt, Goto
<1> QED
  BY <1>1, <1>2, <1>3, SendsNothing DEF Closing

LEMMA CloseUnopenedKeeps == ASSUME RetransAssumption, RInv, CloseUnopened PROVE RInv'
<1>1. /\ tsk \in Sockets /\ app \in Calls /\ net \in Places /\ CallOK
      /\ Window \in Nat
  BY Typed, Widths
<1>2. /\ tsk' \in Sockets /\ tsk'.una = tsk.una /\ tsk'.nxt = tsk.nxt
      /\ app' \in Calls /\ net' = net
  BY <1>1 DEF CloseUnopened, Sockets, Calls, States, AppAt, Goto, Unhashed
<1>3. CallOK'
  BY <1>1 DEF CloseUnopened, CallOK, AtConnect, Sockets, Calls, Idle, AppAt, Goto, Unhashed
<1> QED
  BY <1>1, <1>2, <1>3, SendsNothing DEF CloseUnopened

LEMMA ConnectKeeps == ASSUME RetransAssumption, RInv, Connect PROVE RInv'
<1>1. /\ tsk \in Sockets /\ app \in Calls /\ net \in Places /\ CallOK /\ Window \in Nat
      /\ out \in Seq(Segment) /\ in \in Seq(Answers) /\ peer \in Peers
  BY Typed, Widths
<1>2. /\ tsk.nxt \in Nat /\ tsk.snd_wnd \in Nat /\ app.left \in Nat
      /\ Seg \in Nat \ {0} /\ Size("syn") = 1
  BY <1>1 DEF Sockets, Calls, Size, RetransAssumption
<1>3. tsk.snd_wnd \in Nat /\ tsk.nxt + Size("syn") <= Window + 2
  BY <1>1, <1>2 DEF Connect, CallOK, AppAt, Writing
<1>4. /\ Build("syn", tsk.snd_wnd) /\ ready = <<>>
      /\ UNCHANGED <<net, out, in, peer>>
  BY DEF Connect, AppAt, Writing
<1>5. /\ tsk' = [tsk EXCEPT !.nxt = tsk.nxt + Size("syn"), !.snd_wnd = tsk.snd_wnd, !.retrans = TRUE]
      /\ tsk' \in Sockets /\ ready' \in Seq(Segment)
      /\ LinksOK' /\ ReadyOK' /\ SentOK' /\ AcksOK'
  BY <1>3, <1>4, BuildKeeps
<1>6. app' \in Calls
  BY <1>1, <1>2 DEF Connect, Calls, Goto
<1>7. CallOK'
  <2>1. /\ tsk'.nxt = tsk.nxt + Size("syn") /\ tsk'.snd_wnd = tsk.snd_wnd
        /\ tsk'.state = tsk.state /\ tsk'.hashed = tsk.hashed
    BY <1>1, <1>5 DEF Sockets
  <2>2. app.pc = "connect" /\ app'.pc = "hash" /\ net' = net
    BY <1>1 DEF Connect, AppAt, Writing, Goto, Calls
  <2> QED
    BY <1>1, <1>2, <2>1, <2>2 DEF CallOK, AtConnect
<1> QED
  BY <1>1, <1>4, <1>5, <1>6, <1>7 DEF RInv, Shape

LEMMA SendDataKeeps == ASSUME RetransAssumption, RInv, SendData PROVE RInv'
<1>1. /\ tsk \in Sockets /\ app \in Calls /\ net \in Places /\ CallOK /\ Window \in Nat
      /\ out \in Seq(Segment) /\ in \in Seq(Answers) /\ peer \in Peers
  BY Typed, Widths
<1>2. /\ tsk.nxt \in Nat /\ tsk.snd_wnd \in Nat /\ app.left \in Nat
      /\ Seg \in Nat \ {0} /\ Size("data") = Seg
  BY <1>1 DEF Sockets, Calls, Size, RetransAssumption
<1>3. tsk.snd_wnd - Seg \in Nat /\ tsk.nxt + Size("data") <= Window + 2
  <2>1. tsk.snd_wnd >= Seg /\ tsk.nxt + tsk.snd_wnd <= Window + 1
    BY <1>1 DEF SendData, CallOK, AppAt, Writing
  <2> QED
    BY <1>1, <1>2, <2>1
<1>4. /\ Build("data", tsk.snd_wnd - Seg) /\ ready = <<>>
      /\ UNCHANGED <<net, out, in, peer>>
  BY DEF SendData, AppAt, Writing
<1>5. /\ tsk' = [tsk EXCEPT !.nxt = tsk.nxt + Size("data"), !.snd_wnd = tsk.snd_wnd - Seg, !.retrans = TRUE]
      /\ tsk' \in Sockets /\ ready' \in Seq(Segment)
      /\ LinksOK' /\ ReadyOK' /\ SentOK' /\ AcksOK'
  BY <1>3, <1>4, BuildKeeps
<1>6. app' \in Calls
  <2>1. app.left - 1 \in Nat /\ app' = [app EXCEPT !.left = app.left - 1]
    BY <1>2 DEF SendData, Writing
  <2> QED
    BY <1>1, <2>1 DEF Calls
<1>7. CallOK'
  <2>1. /\ tsk'.nxt = tsk.nxt + Size("data") /\ tsk'.snd_wnd = tsk.snd_wnd - Seg
        /\ tsk'.state = tsk.state /\ tsk'.hashed = tsk.hashed
    BY <1>1, <1>5 DEF Sockets
  <2>2. app.pc = "write" /\ app'.pc = "write" /\ net' = net /\ tsk.snd_wnd >= Seg
    BY <1>1 DEF SendData, AppAt, Writing, Goto, Calls
  <2> QED
    BY <1>1, <1>2, <2>1, <2>2 DEF CallOK, AtConnect
<1> QED
  BY <1>1, <1>4, <1>5, <1>6, <1>7 DEF RInv, Shape

LEMMA CloseKeeps == ASSUME RetransAssumption, RInv, Close PROVE RInv'
<1>1. /\ tsk \in Sockets /\ app \in Calls /\ net \in Places /\ CallOK /\ Window \in Nat
      /\ out \in Seq(Segment) /\ in \in Seq(Answers) /\ peer \in Peers
  BY Typed, Widths
<1>2. /\ tsk.nxt \in Nat /\ tsk.snd_wnd \in Nat /\ app.left \in Nat
      /\ Seg \in Nat \ {0} /\ Size("fin") = 1
  BY <1>1 DEF Sockets, Calls, Size, RetransAssumption
<1>3. tsk.snd_wnd \in Nat /\ tsk.nxt + Size("fin") <= Window + 2
  BY <1>1, <1>2 DEF Close, CallOK, AppAt, Writing
<1>4. /\ Build("fin", tsk.snd_wnd) /\ ready = <<>>
      /\ UNCHANGED <<net, out, in, peer>>
  BY DEF Close, AppAt, Writing
<1>5. /\ tsk' = [tsk EXCEPT !.nxt = tsk.nxt + Size("fin"), !.snd_wnd = tsk.snd_wnd, !.retrans = TRUE]
      /\ tsk' \in Sockets /\ ready' \in Seq(Segment)
      /\ LinksOK' /\ ReadyOK' /\ SentOK' /\ AcksOK'
  BY <1>3, <1>4, BuildKeeps
<1>6. app' \in Calls
  BY <1>1, <1>2 DEF Close, Calls, Goto
<1>7. CallOK'
  <2>1. /\ tsk'.nxt = tsk.nxt + Size("fin") /\ tsk'.snd_wnd = tsk.snd_wnd
        /\ tsk'.state = tsk.state /\ tsk'.hashed = tsk.hashed
    BY <1>1, <1>5 DEF Sockets
  <2>2. app.pc = "write" /\ app'.pc = "closing" /\ net' = net /\ tsk.state \in {"ESTABLISHED", "CLOSE_WAIT"}
    BY <1>1 DEF Close, AppAt, Writing, Goto, Calls
  <2> QED
    BY <1>1, <1>2, <2>1, <2>2 DEF CallOK, AtConnect
<1> QED
  BY <1>1, <1>4, <1>5, <1>6, <1>7 DEF RInv, Shape

LEMMA EmitKeeps == ASSUME RetransAssumption, RInv, Emit PROVE RInv'
<1>1. /\ ready \in Seq(Segment) /\ out \in Seq(Segment) /\ Below(out, Top)
      /\ Len(ready) = 1 /\ ready[1] \in Segment
      /\ ready[1].seq + Size(ready[1].kind) = tsk.nxt
      /\ Top \in Nat /\ Top <= tsk.nxt /\ tsk.nxt \in Nat /\ peer.rnxt \in Nat
  <2>1. ready \in Seq(Segment) /\ out \in Seq(Segment) /\ Below(out, Top) /\ ReadyOK
        /\ ready # <<>>
    BY Typed DEF SentOK, Emit
  <2> QED
    BY <2>1, TopBounds DEF ReadyOK
<1>2. Top' = tsk.nxt /\ ready' = <<>>
  BY DEF Emit, Top
<1>3. Below(ready, tsk.nxt) /\ Below(out, tsk.nxt)
  <2>1. \A i \in 1 .. Len(out) : out[i].seq \in Nat /\ Size(out[i].kind) \in Nat
    BY <1>1, SegmentFields, Sizes
  <2> QED
    BY <1>1, <2>1 DEF Below
<1>4. out' \in Seq(Segment) /\ Below(out', tsk.nxt)
  BY <1>1, <1>3, Joined DEF Emit
<1>5. UNCHANGED <<tsk, app, net, in, peer, send_buf, adding>>
  BY DEF Emit, lists
<1>6. Shape'
  BY <1>2, <1>4, <1>5 DEF RInv, Shape
<1>7. SentOK'
  <2>1. \A n \in peer.got : n \in Nat /\ n < Top
    BY Typed DEF SentOK, Peers
  <2> QED
    BY <1>1, <1>2, <1>4, <1>5, <2>1 DEF SentOK
<1>8. AcksOK'
  BY <1>1, <1>2, <1>5, Typed DEF AcksOK
<1>9. CallOK' /\ LinksOK'
  BY <1>5, Typed DEF CallOK, AtConnect, LinksOK
<1>10. ReadyOK'
  <2>1. adding = NoAdd
    BY DEF Emit
  <2> QED
    BY <1>2, <1>5, <2>1 DEF ReadyOK, NoAdd
<1> QED
  BY <1>6, <1>7, <1>8, <1>9, <1>10 DEF RInv

(* The two halves of list_insert.                                          *)
LEMMA LinkKeeps == ASSUME RetransAssumption, RInv, LinkForward \/ LinkBack PROVE RInv'
<1> DEFINE n == Head(ready).seq
<1>1. /\ send_buf \in Buffers /\ adding \in Additions
      /\ send_buf.next[Head0] \in Entries /\ send_buf.prev[Head0] \in Entries
      /\ ready \in Seq(Segment)
      /\ UNCHANGED <<tsk, app, ready, net, out, in, peer>>
  BY Typed DEF LinksOK, LinkForward, LinkBack
<1>2. ready # <<>> /\ Len(ready) = 1 /\ ready[1].kind # "ack"
      /\ ready[1].seq + Size(ready[1].kind) = tsk.nxt
  BY Typed DEF ReadyOK, LinkForward, LinkBack
<1>3. n \in Seqs /\ n # Head0 /\ Head0 \in Entries
  <2>1. n = ready[1].seq /\ n \in Nat /\ Size(ready[1].kind) \in Nat
    <3>1. Head(ready) = ready[1] /\ ready[1] \in Segment
      BY <1>1, <1>2
    <3> QED
      BY <3>1, Sizes DEF Segment
  <2> HIDE DEF n
  <2>2. n <= Window + 2 /\ Window + 2 < Mod /\ Mod \in Nat /\ Window \in Nat
    BY <1>2, <2>1, TopBounds, Widths
  <2> QED
    BY <2>1, <2>2 DEF Seqs, Head0, Entries
<1> HIDE DEF n
<1>4. /\ adding.behind \in Entries /\ n \in Entries
      /\ send_buf.next \in [Entries -> Pointer] /\ send_buf.prev \in [Entries -> Pointer]
  BY <1>1, <1>3 DEF Additions, Buffers, Entries
<1>5. CASE LinkForward
  <2>1. /\ send_buf' = [next |-> [send_buf.next EXCEPT ![adding.behind] = n],
                        prev |-> [send_buf.prev EXCEPT ![Head0] = n]]
        /\ adding' = [adding EXCEPT !.step = "back"]
    BY <1>5 DEF LinkForward, n
  <2>2. send_buf' \in Buffers /\ send_buf'.next[Head0] \in Entries
        /\ send_buf'.prev[Head0] \in Entries
    BY <1>1, <1>3, <1>4, <2>1 DEF Buffers, Pointer
  <2>3. adding' \in Additions /\ adding'.step = "back"
    BY <1>1, <2>1 DEF Additions
  <2>4. LinksOK' /\ ReadyOK'
    BY <1>1, <1>2, <2>2, <2>3, Typed DEF LinksOK, ReadyOK
  <2> QED
    BY <1>1, <2>4 DEF RInv, Shape, SentOK, Below, AcksOK, CallOK, AtConnect, Top
<1>6. CASE LinkBack
  <2>1. /\ send_buf' = [next |-> [send_buf.next EXCEPT ![n] = Head0],
                        prev |-> [send_buf.prev EXCEPT ![n] = adding.behind]]
        /\ adding' = NoAdd
    BY <1>6 DEF LinkBack, n
  <2>2. send_buf' \in Buffers /\ send_buf'.next[Head0] \in Entries
        /\ send_buf'.prev[Head0] \in Entries
    BY <1>1, <1>3, <1>4, <2>1 DEF Buffers, Pointer
  <2>3. adding' \in Additions /\ adding'.step = "no"
    BY <1>3, <2>1 DEF Additions, NoAdd
  <2>4. LinksOK' /\ ReadyOK'
    BY <1>1, <1>2, <2>1, <2>2, <2>3, Typed DEF LinksOK, ReadyOK
  <2> QED
    BY <1>1, <2>4 DEF RInv, Shape, SentOK, Below, AcksOK, CallOK, AtConnect, Top
<1> QED
  BY <1>5, <1>6

--------------------------------------------------------------------------------
(* The network thread.                                                     *)

(* A packet of the peer is taken off the link.                             *)
LEMMA TakesPacket ==
  ASSUME RInv, in # <<>>, in' = Tail(in)
  PROVE  /\ Head(in) \in Answers /\ Head(in).ack \in Nat
         /\ tsk.una <= Head(in).ack /\ Head(in).ack <= peer.rnxt
         /\ in' \in Seq(Answers)
         /\ \A i \in 1 .. Len(in') : /\ Head(in).ack <= in'[i].ack
                                     /\ tsk.una <= in'[i].ack /\ in'[i].ack <= peer.rnxt
         /\ \A i, j \in 1 .. Len(in') : i < j => in'[i].ack <= in'[j].ack
<1>1. in \in Seq(Answers) /\ AcksOK
  BY Typed
<1>2. /\ Len(in) \in Nat \ {0} /\ Head(in) = in[1] /\ Head(in) \in Answers
      /\ in' \in Seq(Answers) /\ Len(in') = Len(in) - 1
      /\ \A i \in 1 .. Len(in') : in'[i] = in[i + 1] /\ i + 1 \in 1 .. Len(in)
      /\ 1 \in 1 .. Len(in)
  BY <1>1
<1>3. Head(in).ack \in Nat
  BY <1>2 DEF Answers
<1>4. ASSUME NEW i \in 1 .. Len(in')
      PROVE  /\ Head(in).ack <= in'[i].ack
             /\ tsk.una <= in'[i].ack /\ in'[i].ack <= peer.rnxt
  <2>1. i + 1 \in 1 .. Len(in) /\ 1 < i + 1 /\ in'[i] = in[i + 1]
    BY <1>2
  <2> QED
    BY <1>1, <1>2, <2>1 DEF AcksOK
<1>5. ASSUME NEW i \in 1 .. Len(in'), NEW j \in 1 .. Len(in'), i < j
      PROVE  in'[i].ack <= in'[j].ack
  <2>1. i + 1 \in 1 .. Len(in) /\ j + 1 \in 1 .. Len(in) /\ i + 1 < j + 1
    BY <1>2, <1>5
  <2>2. in[i + 1].ack <= in[j + 1].ack
    BY <1>1, <2>1 DEF AcksOK
  <2> QED
    BY <1>2, <2>2
<1>6. tsk.una <= Head(in).ack /\ Head(in).ack <= peer.rnxt
  BY <1>1, <1>2 DEF AcksOK
<1> QED
  BY <1>2, <1>3, <1>4, <1>5, <1>6

(* Where the network thread is when it has come to the node pos.           *)
LEMMA Walks ==
  ASSUME send_buf' \in Buffers, tsk \in Sockets, NEW pos \in Entries,
         NEW p \in Handled, Walk(p, pos)
  PROVE  /\ net' \in Handled /\ net'.pc = (IF pos = Head0 THEN "act" ELSE "clear")
         /\ net'.pos = pos /\ net'.rest = send_buf'.next[pos] /\ net'.ack = p.ack
         /\ net'.state = tsk.state
<1>1. send_buf'.next[pos] \in Pointer
  BY DEF Buffers
<1>2. tsk.state \in States
  BY DEF Sockets
<1> QED
  BY <1>1, <1>2 DEF Walk, Handled

LEMMA ReceiveKeeps == ASSUME RetransAssumption, RInv, Receive PROVE RInv'
<1> DEFINE p == Head(in)
           q == [pc |-> "clear", kind |-> p.kind, ack |-> p.ack, rwnd |-> p.rwnd,
                 pos |-> Head0, rest |-> Head0, state |-> tsk.state]
<1>1. /\ tsk \in Sockets /\ app \in Calls /\ net \in Places /\ peer \in Peers
      /\ ready \in Seq(Segment) /\ out \in Seq(Segment)
      /\ in \in Seq(Answers) /\ LinksOK /\ ReadyOK /\ SentOK /\ AcksOK /\ CallOK
  BY Typed
<1>2. in # <<>> /\ in' = Tail(in) /\ UNCHANGED <<app, ready, out, peer, send_buf, adding>>
  BY DEF Receive, lists
<1>3. /\ p \in Answers /\ p.ack \in Nat
      /\ tsk.una <= p.ack /\ p.ack <= peer.rnxt /\ in' \in Seq(Answers)
      /\ \A i \in 1 .. Len(in') : /\ p.ack <= in'[i].ack
                                  /\ tsk.una <= in'[i].ack /\ in'[i].ack <= peer.rnxt
      /\ \A i, j \in 1 .. Len(in') : i < j => in'[i].ack <= in'[j].ack
  BY <1>2, TakesPacket
<1>4. p.seq_end \in Nat /\ p.kind \in {"synack", "ack", "finack"} /\ p.rwnd = Window
  BY <1>3 DEF Answers
<1>5. Top' = Top \/ tsk'.nxt # tsk.nxt
  BY <1>2 DEF Top
<1> HIDE DEF p
<1>6. CASE tsk.hashed
  <2>1. /\ tsk' = [tsk EXCEPT !.una = p.ack, !.rcv_nxt = p.seq_end]
        /\ Walk(q, send_buf.next[Head0])
    BY <1>6 DEF Receive, p
  <2>2. /\ tsk' \in Sockets /\ tsk'.una = p.ack /\ tsk'.nxt = tsk.nxt
        /\ tsk'.state = tsk.state /\ tsk'.snd_wnd = tsk.snd_wnd /\ tsk'.hashed = tsk.hashed
    BY <1>1, <1>3, <1>4, <2>1 DEF Sockets
  <2>3. q \in Handled /\ q.ack = p.ack
    BY <1>1, <1>3, <1>4 DEF Handled, Sockets, Entries, Pointer
  <2> HIDE DEF q
  <2>4. /\ net' \in Handled /\ net'.pc = (IF net'.pos = Head0 THEN "act" ELSE "clear")
        /\ net'.ack = p.ack /\ net'.state = tsk.state
    <3>1. send_buf' \in Buffers /\ send_buf.next[Head0] \in Entries
      BY <1>1, <1>2 DEF LinksOK
    <3> QED
      BY <1>1, <2>1, <2>3, <3>1, Walks
  <2>5. Shape'
    BY <1>1, <1>2, <1>3, <2>2, <2>4 DEF Shape, Places
  <2>6. SentOK' /\ ReadyOK'
    BY <1>1, <1>2, <1>5, <2>2 DEF SentOK, Below, ReadyOK
  <2>7. AcksOK'
    BY <1>1, <1>2, <1>3, <1>5, <2>2 DEF AcksOK
  <2>8. LinksOK'
    BY <1>1, <1>2, <2>2, <2>4 DEF LinksOK
  <2>9. CallOK'
    <3>1. AtConnect' => tsk.state = "SYN_SENT"
      BY <2>4 DEF AtConnect
    <3>2. net = Idle /\ app.pc \notin {"connect", "hash"}
      BY <1>1, <1>6 DEF Receive, CallOK
    <3> QED
      BY <1>1, <1>2, <2>2, <3>1, <3>2 DEF CallOK
  <2> QED
    BY <2>5, <2>6, <2>7, <2>8, <2>9 DEF RInv
<1>7. CASE ~tsk.hashed
  <2>1. UNCHANGED <<tsk, net>>
    BY <1>7 DEF Receive
  <2>2. Shape'
    BY <1>1, <1>2, <1>3, <2>1 DEF Shape
  <2>3. SentOK' /\ ReadyOK' /\ CallOK' /\ LinksOK'
    BY <1>1, <1>2, <1>5, <2>1 DEF SentOK, Below, ReadyOK, CallOK, LinksOK, AtConnect
  <2>4. AcksOK'
    BY <1>1, <1>2, <1>3, <1>5, <2>1 DEF AcksOK
  <2> QED
    BY <2>2, <2>3, <2>4 DEF RInv
<1> QED
  BY <1>6, <1>7

(* What is left of the list when the node n was freed.                     *)
LEMMA FreedList ==
  ASSUME NEW L \in Buffers, NEW n \in Entries \ {Head0},
         L.next[Head0] \in Entries, L.prev[Head0] \in Entries,
         L.next[n] \in Entries, L.prev[n] \in Entries
  PROVE  /\ Freed(L, n) \in Buffers
         /\ Freed(L, n).next[Head0] \in Entries /\ Freed(L, n).prev[Head0] \in Entries
BY DEF Freed, list_delete_entry, Buffers, Pointer, Entries

LEMMA ClearEntryKeeps == ASSUME RetransAssumption, RInv, ClearEntry PROVE RInv'
<1> DEFINE gone == Acked(net.pos, net.ack)
           wild == net.rest = Null
                   \/ (gone /\ Null \in {send_buf.next[net.pos], send_buf.prev[net.pos]})
<1>1. /\ tsk \in Sockets /\ net \in Places /\ LinksOK /\ CallOK
      /\ net.pc = "clear" /\ UNCHANGED <<tsk, adding, app, ready, out, in, peer>>
  BY Typed DEF ClearEntry
<1>2. net \in Handled /\ net.pos \in Entries /\ net.rest \in Pointer /\ net.pos # Head0
  BY <1>1 DEF Places, Handled, Idle, LinksOK
<1>3. CASE wild
  <2>1. UNCHANGED <<send_buf, net>>
    BY <1>3, Zenon DEF ClearEntry
  <2> QED
    BY <1>1, <2>1 DEF RInv, Shape, LinksOK, ReadyOK, SentOK, Below, AcksOK, CallOK,
       AtConnect, Top
<1>4. CASE ~wild
  <2>1. /\ send_buf' = (IF gone THEN Freed(send_buf, net.pos) ELSE send_buf)
        /\ Walk(net, net.rest)
    BY <1>4, Zenon DEF ClearEntry
  <2>2. net.rest \in Entries
    BY <1>2, <1>4 DEF Pointer
  <2>3. /\ send_buf' \in Buffers
        /\ send_buf'.next[Head0] \in Entries /\ send_buf'.prev[Head0] \in Entries
    <3>1. send_buf \in Buffers /\ send_buf.next[Head0] \in Entries
          /\ send_buf.prev[Head0] \in Entries
      BY <1>1 DEF LinksOK
    <3>2. CASE gone
      <4>1. send_buf.next[net.pos] \in Entries /\ send_buf.prev[net.pos] \in Entries
        BY <1>2, <1>4, <3>1, <3>2 DEF Buffers, Pointer
      <4> HIDE DEF gone
      <4> QED
        BY <1>2, <2>1, <3>1, <3>2, <4>1, FreedList
    <3>3. CASE ~gone
      BY <2>1, <3>1, <3>3
    <3> QED
      BY <3>2, <3>3
  <2> HIDE DEF gone, wild
  <2>4. /\ net' \in Handled /\ net'.pc = (IF net'.pos = Head0 THEN "act" ELSE "clear")
        /\ net'.ack = net.ack /\ net'.state = tsk.state
    BY <1>1, <1>2, <2>1, <2>2, <2>3, Walks
  <2>5. Shape'
    BY <1>1, <2>4 DEF RInv, Shape, Places
  <2>6. LinksOK'
    BY <1>1, <2>3, <2>4 DEF LinksOK
  <2>7. CallOK'
    <3>1. AtConnect' => tsk.state = "SYN_SENT"
      BY <2>4 DEF AtConnect
    <3>2. app.pc \notin {"connect", "hash"}
      BY <1>1 DEF CallOK, Idle
    <3> QED
      BY <1>1, <3>1, <3>2 DEF CallOK
  <2>8. ReadyOK' /\ SentOK' /\ AcksOK'
    BY <1>1, Typed DEF ReadyOK, SentOK, Below, AcksOK, Top
  <2> QED
    BY <2>5, <2>6, <2>7, <2>8 DEF RInv
<1> QED
  BY <1>3, <1>4

LEMMA InSynSentKeeps == ASSUME RetransAssumption, RInv, InSynSent PROVE RInv'
<1>1. /\ tsk \in Sockets /\ app \in Calls /\ net \in Places /\ CallOK /\ Window \in Nat
  BY Typed, Widths
<1>2. /\ net \in Handled /\ AtConnect /\ net.rwnd = Window
  <2>1. net.pc = "act" /\ net.state = "SYN_SENT"
    BY DEF InSynSent, In
  <2> QED
    BY <1>1, <2>1 DEF Places, Handled, AtConnect, Idle
<1>3. /\ app.pc \in {"sleep", "write", "full", "done"} /\ tsk.nxt = 1 /\ tsk.snd_wnd = 0
      /\ UNCHANGED <<lists, app, ready, in, peer>>
  BY <1>1, <1>2 DEF CallOK, InSynSent
<1>4. CASE net.kind = "synack"
  <2> DEFINE t == WindowUpdated(tsk, net.ack, net.rwnd)
  <2>1. /\ t \in Sockets /\ t.una = tsk.una /\ t.nxt = tsk.nxt /\ t.snd_wnd <= Window
    <3> DEFINE waits == tsk.notified \/ tsk.snd_wnd = 0
    <3>1. t = tsk \/ t = [tsk EXCEPT !.snd_wnd = Window, !.notified = waits]
      BY <1>2 DEF WindowUpdated
    <3>2. PICK w \in BOOLEAN : w = waits
      OBVIOUS
    <3>3. CASE t = tsk
      BY <1>1, <1>3, <3>3 DEF Sockets
    <3>4. CASE t = [tsk EXCEPT !.snd_wnd = Window, !.notified = waits]
      <4> HIDE DEF t, waits
      <4>1. t = [tsk EXCEPT !.snd_wnd = Window, !.notified = w]
        BY <3>2, <3>4
      <4>2. t \in Sockets
        BY <1>1, <4>1 DEF Sockets
      <4>3. t.una = tsk.una /\ t.nxt = tsk.nxt
        BY <1>1, <4>1 DEF Sockets
      <4>4. t.snd_wnd = Window
        BY <1>1, <4>1 DEF Sockets
      <4> QED
        BY <1>1, <4>2, <4>3, <4>4
    <3> QED
      BY <3>1, <3>3, <3>4
  <2> HIDE DEF t
  <2>2. tsk' = [t EXCEPT !.state = "ESTABLISHED", !.connected = TRUE]
    BY <1>4 DEF InSynSent, t
  <2>3. /\ tsk' \in Sockets /\ tsk'.una = tsk.una /\ tsk'.nxt = tsk.nxt
        /\ tsk'.snd_wnd <= Window /\ tsk'.state = "ESTABLISHED" /\ tsk'.snd_wnd \in Nat
    BY <2>1, <2>2 DEF Sockets, States
  <2>4. net' = [pc |-> "delete"] /\ out' = out \o Acks(1)
    BY <1>4 DEF InSynSent
  <2>5. net' \in Places /\ ~AtConnect' /\ net'.pc # "clear"
    BY <2>4 DEF Places, AtConnect
  <2>6. CallOK'
    BY <1>1, <1>3, <2>3, <2>5 DEF CallOK
  <2> QED
    BY <1>1, <1>3, <2>3, <2>4, <2>5, <2>6, SendsAcks
<1>5. CASE net.kind # "synack"
  <2>1. net' = Idle /\ UNCHANGED <<tsk, out>>
    BY <1>5 DEF InSynSent
  <2>2. net' \in Places /\ ~AtConnect' /\ net'.pc # "clear"
    BY <2>1 DEF Places, AtConnect, Idle
  <2>3. CallOK'
    BY <1>1, <1>3, <2>1, <2>2 DEF CallOK
  <2> QED
    BY <1>1, <1>3, <2>1, <2>2, <2>3, SendsNothing
<1> QED
  BY <1>4, <1>5

(* The network thread is done with a packet.                               *)
LEMMA Acted ==
  ASSUME RetransAssumption, RInv, net # Idle, net' = Idle, app' = app, tsk' \in Sockets,
         tsk'.nxt = tsk.nxt, tsk'.snd_wnd = tsk.snd_wnd,
         tsk'.state = tsk.state \/ tsk'.state # "SYN_SENT"
  PROVE  CallOK' /\ app' \in Calls /\ net' \in Places /\ net'.pc # "clear"
<1>1. CallOK /\ app \in Calls
  BY Typed
<1>2. net' \in Places /\ ~AtConnect' /\ net'.pc # "clear"
  BY DEF Places, AtConnect, Idle
<1> QED
  BY <1>1, <1>2 DEF CallOK

LEMMA DeleteTimerKeeps == ASSUME RetransAssumption, RInv, DeleteTimer PROVE RInv'
<1>1. /\ tsk \in Sockets /\ net # Idle /\ net' = Idle
      /\ UNCHANGED <<lists, app, ready, in, peer>>
  BY Typed DEF DeleteTimer, Idle
<1>2. /\ tsk' \in Sockets /\ tsk'.una = tsk.una /\ tsk'.nxt = tsk.nxt
      /\ tsk'.snd_wnd = tsk.snd_wnd
      /\ tsk'.state = tsk.state \/ tsk'.state # "SYN_SENT"
  BY <1>1 DEF DeleteTimer, Sockets, States
<1>3. CallOK' /\ app' \in Calls /\ net' \in Places /\ net'.pc # "clear"
  BY <1>1, <1>2, Acted
<1> QED
  BY <1>1, <1>2, <1>3, SendsNothing DEF DeleteTimer

LEMMA InEstablishedKeeps == ASSUME RetransAssumption, RInv, InEstablished PROVE RInv'
<1>1. /\ tsk \in Sockets /\ net # Idle /\ net' = Idle
      /\ UNCHANGED <<lists, app, ready, in, peer>>
  BY Typed DEF InEstablished, In, Idle
<1>2. /\ tsk' \in Sockets /\ tsk'.una = tsk.una /\ tsk'.nxt = tsk.nxt
      /\ tsk'.snd_wnd = tsk.snd_wnd
      /\ tsk'.state = tsk.state \/ tsk'.state # "SYN_SENT"
  BY <1>1 DEF InEstablished, ToState, Sockets, States
<1>3. CallOK' /\ app' \in Calls /\ net' \in Places /\ net'.pc # "clear"
  BY <1>1, <1>2, Acted
<1>4. out' = out \o Acks(1) \/ out' = out \o Acks(2)
  BY DEF InEstablished
<1> QED
  BY <1>1, <1>2, <1>3, <1>4, SendsNothing, SendsAcks

LEMMA InWaitKeeps == ASSUME RetransAssumption, RInv, InWait PROVE RInv'
<1>1. /\ tsk \in Sockets /\ net # Idle /\ net' = Idle
      /\ UNCHANGED <<lists, app, ready, in, peer>>
  BY Typed DEF InWait, In, Idle
<1>2. /\ tsk' \in Sockets /\ tsk'.una = tsk.una /\ tsk'.nxt = tsk.nxt
      /\ tsk'.snd_wnd = tsk.snd_wnd
      /\ tsk'.state = tsk.state \/ tsk'.state # "SYN_SENT"
  BY <1>1 DEF InWait, Sockets, States
<1>3. CallOK' /\ app' \in Calls /\ net' \in Places /\ net'.pc # "clear"
  BY <1>1, <1>2, Acted
<1>4. out' = out \/ out' = out \o Acks(1)
  BY DEF InWait
<1> QED
  BY <1>1, <1>2, <1>3, <1>4, SendsNothing, SendsAcks

LEMMA InFinWait1Keeps == ASSUME RetransAssumption, RInv, InFinWait1 PROVE RInv'
<1>1. /\ tsk \in Sockets /\ net # Idle /\ net' = Idle
      /\ UNCHANGED <<lists, app, ready, in, peer>>
  BY Typed DEF InFinWait1, In, Idle
<1>2. /\ tsk' \in Sockets /\ tsk'.una = tsk.una /\ tsk'.nxt = tsk.nxt
      /\ tsk'.snd_wnd = tsk.snd_wnd
      /\ tsk'.state = tsk.state \/ tsk'.state # "SYN_SENT"
  BY <1>1 DEF InFinWait1, Sockets, States
<1>3. CallOK' /\ app' \in Calls /\ net' \in Places /\ net'.pc # "clear"
  BY <1>1, <1>2, Acted
<1>4. out' = out \/ out' = out \o Acks(1)
  BY DEF InFinWait1
<1> QED
  BY <1>1, <1>2, <1>3, <1>4, SendsNothing, SendsAcks

LEMMA InFinWait2Keeps == ASSUME RetransAssumption, RInv, InFinWait2 PROVE RInv'
<1>1. /\ tsk \in Sockets /\ net # Idle /\ net' = Idle
      /\ UNCHANGED <<lists, app, ready, in, peer>>
  BY Typed DEF InFinWait2, In, Idle
<1>2. /\ tsk' \in Sockets /\ tsk'.una = tsk.una /\ tsk'.nxt = tsk.nxt
      /\ tsk'.snd_wnd = tsk.snd_wnd
      /\ tsk'.state = tsk.state \/ tsk'.state # "SYN_SENT"
  BY <1>1 DEF InFinWait2, ToState, Sockets, States
<1>3. CallOK' /\ app' \in Calls /\ net' \in Places /\ net'.pc # "clear"
  BY <1>1, <1>2, Acted
<1>4. out' = out \/ out' = out \o Acks(1)
  BY DEF InFinWait2
<1> QED
  BY <1>1, <1>2, <1>3, <1>4, SendsNothing, SendsAcks

LEMMA InLastAckKeeps == ASSUME RetransAssumption, RInv, InLastAck PROVE RInv'
<1>1. /\ tsk \in Sockets /\ net # Idle /\ net' = Idle
      /\ UNCHANGED <<lists, app, ready, in, peer>>
  BY Typed DEF InLastAck, In, Idle
<1>2. /\ tsk' \in Sockets /\ tsk'.una = tsk.una /\ tsk'.nxt = tsk.nxt
      /\ tsk'.snd_wnd = tsk.snd_wnd
      /\ tsk'.state = tsk.state \/ tsk'.state # "SYN_SENT"
  BY <1>1 DEF InLastAck, Unhashed, Sockets, States
<1>3. CallOK' /\ app' \in Calls /\ net' \in Places /\ net'.pc # "clear"
  BY <1>1, <1>2, Acted
<1> QED
  BY <1>1, <1>2, <1>3, SendsNothing DEF InLastAck

LEMMA InClosedKeeps == ASSUME RetransAssumption, RInv, InClosed PROVE RInv'
<1>1. /\ tsk \in Sockets /\ net # Idle /\ net' = Idle
      /\ UNCHANGED <<lists, app, ready, in, peer>>
  BY Typed DEF InClosed, In, Idle
<1>2. /\ tsk' \in Sockets /\ tsk'.una = tsk.una /\ tsk'.nxt = tsk.nxt
      /\ tsk'.snd_wnd = tsk.snd_wnd
      /\ tsk'.state = tsk.state \/ tsk'.state # "SYN_SENT"
  BY <1>1 DEF InClosed, Sockets, States
<1>3. CallOK' /\ app' \in Calls /\ net' \in Places /\ net'.pc # "clear"
  BY <1>1, <1>2, Acted
<1> QED
  BY <1>1, <1>2, <1>3, SendsNothing DEF InClosed

--------------------------------------------------------------------------------
(* Timers that expire.                                                     *)
LEMMA TimersKeep ==
  ASSUME RetransAssumption, RInv, RetransExpires \/ TimeWaitExpires PROVE RInv'
<1>1. /\ tsk \in Sockets /\ app \in Calls /\ net \in Places /\ CallOK
      /\ UNCHANGED <<lists, app, ready, net, out, in, peer>>
  BY Typed DEF RetransExpires, TimeWaitExpires
<1>2. /\ tsk' \in Sockets /\ tsk'.una = tsk.una /\ tsk'.nxt = tsk.nxt
      /\ tsk'.snd_wnd = tsk.snd_wnd
      /\ tsk'.hashed => tsk.hashed
      /\ tsk'.state = tsk.state \/ tsk'.state = "CLOSED"
  BY <1>1 DEF RetransExpires, TimeWaitExpires, Unhashed, Sockets, States
<1>3. CallOK'
  BY <1>1, <1>2 DEF CallOK, AtConnect
<1> QED
  BY <1>1, <1>2, <1>3, SendsNothing

--------------------------------------------------------------------------------
(* The peer and the link (external).                                       *)
LEMMA BelowTail ==
  ASSUME NEW q \in Seq(Segment), q # <<>>, NEW n, Below(q, n)
  PROVE  /\ Tail(q) \in Seq(Segment) /\ Below(Tail(q), n)
         /\ Head(q) \in Segment
         /\ Head(q).kind # "ack" => Head(q).seq + Size(Head(q).kind) <= n
<1>1. /\ Tail(q) \in Seq(Segment) /\ Len(Tail(q)) = Len(q) - 1 /\ Len(q) \in Nat \ {0}
      /\ \A i \in 1 .. Len(Tail(q)) : Tail(q)[i] = q[i + 1] /\ i + 1 \in 1 .. Len(q)
      /\ Head(q) = q[1] /\ 1 \in 1 .. Len(q) /\ q[1] \in Segment
  OBVIOUS
<1> QED
  BY <1>1 DEF Below

(* The peer takes the next number to be m and answers with it or not.      *)
LEMMA PeerAnswers ==
  ASSUME RetransAssumption, RInv, peer' \in Peers, \A n \in peer'.got : n < Top,
         peer.rnxt <= peer'.rnxt, peer'.rnxt <= Top,
         NEW kind \in {"synack", "ack", "finack"},
         in' = in \/ in' = Append(in, Reply(peer', kind)),
         out' \in Seq(Segment), Below(out', Top),
         UNCHANGED <<tsk, lists, app, ready, net>>
  PROVE  RInv'
<1> DEFINE a == Reply(peer', kind)
<1>0. Top' = Top /\ UNCHANGED <<send_buf, adding>>
  BY DEF Top, lists
<1>1. /\ tsk \in Sockets /\ peer \in Peers /\ in \in Seq(Answers) /\ AcksOK
  BY Typed
<1>2. /\ tsk.una \in Nat /\ tsk.nxt \in Nat /\ peer.rnxt \in Nat /\ peer'.rnxt \in Nat
      /\ peer'.nxt \in Nat
  BY <1>1 DEF Sockets, Peers
<1>3. a \in Answers /\ a.ack = peer'.rnxt
  BY <1>2 DEF Reply, Answers
<1> HIDE DEF a
<1>4. in' = in \/ in' = Append(in, a)
  BY DEF a
<1>5. in' \in Seq(Answers)
  BY <1>1, <1>3, <1>4
<1>6. \A i \in 1 .. Len(in) : in[i].ack \in Nat
  <2>1. \A i \in 1 .. Len(in) : in[i] \in Answers
    BY <1>1
  <2>2. \A b \in Answers : b.ack \in Nat
    BY DEF Answers
  <2> QED
    BY <2>1, <2>2
<1>7. \A i \in 1 .. Len(in) : tsk.una <= in[i].ack /\ in[i].ack <= peer'.rnxt
  BY <1>1, <1>2, <1>6 DEF AcksOK
<1>8. \A i \in 1 .. Len(in') : tsk.una <= in'[i].ack /\ in'[i].ack <= peer'.rnxt
  <2>1. tsk.una <= peer'.rnxt
    BY <1>1, <1>2 DEF AcksOK
  <2>2. CASE in' = in
    BY <1>7, <2>2
  <2>3. CASE in' = Append(in, a)
    <3>1. \A i \in 1 .. Len(in') :
            (i \in 1 .. Len(in) /\ in'[i] = in[i]) \/ in'[i] = a
      BY <1>1, <1>3, <2>3
    <3> QED
      BY <1>2, <1>3, <1>7, <2>1, <3>1
  <2> QED
    BY <1>4, <2>2, <2>3
<1>9. ASSUME NEW i \in 1 .. Len(in'), NEW j \in 1 .. Len(in'), i < j
      PROVE  in'[i].ack <= in'[j].ack
  <2>1. CASE in' = in
    BY <1>1, <1>9, <2>1 DEF AcksOK
  <2>2. CASE in' = Append(in, a) /\ j \in 1 .. Len(in)
    <3>1. i \in 1 .. Len(in) /\ in'[i] = in[i] /\ in'[j] = in[j]
      BY <1>1, <1>3, <1>9, <2>2
    <3> QED
      BY <1>1, <1>9, <2>2, <3>1 DEF AcksOK
  <2>3. CASE in' = Append(in, a) /\ j = Len(in) + 1
    <3>1. i \in 1 .. Len(in) /\ in'[i] = in[i] /\ in'[j] = a
      BY <1>1, <1>3, <1>9, <2>3
    <3> QED
      BY <1>3, <1>7, <3>1
  <2>4. in' = Append(in, a) => j \in 1 .. Len(in) \/ j = Len(in) + 1
    <3>1. Len(in) \in Nat /\ (in' = Append(in, a) => Len(in') = Len(in) + 1)
      BY <1>1, <1>3
    <3> QED
      BY <1>9, <3>1
  <2> QED
    BY <1>4, <2>1, <2>2, <2>3, <2>4
<1>10. AcksOK'
  <2>1. tsk.una <= peer'.rnxt
    BY <1>1, <1>2 DEF AcksOK
  <2> QED
    BY <1>0, <1>8, <1>9, <2>1 DEF AcksOK
<1>11. Shape'
  BY <1>5 DEF RInv, Shape
<1>12. SentOK' /\ LinksOK' /\ ReadyOK' /\ CallOK'
  BY <1>0 DEF RInv, SentOK, LinksOK, ReadyOK, CallOK, AtConnect
<1> QED
  BY <1>10, <1>11, <1>12 DEF RInv

LEMMA NextNumber == ASSUME RetransAssumption, NEW a \in Nat PROVE Plus(a, 1) \in Nat
<1>1. Mod \in Nat \ {0} /\ a + 1 \in Int
  BY Widths
<1>2. (a + 1) % Mod \in 0 .. Mod - 1
  BY <1>1, Remainders
<1> QED
  BY <1>1, <1>2 DEF Plus

LEMMA StaysBelow ==
  ASSUME NEW a \in Nat, NEW s \in Nat, NEW t \in Nat, NEW i \in Nat, i < s, a + s <= t
  PROVE  a + i < t
  OBVIOUS

LEMMA PeerReceiveKeeps == ASSUME RetransAssumption, RInv, PeerReceive PROVE RInv'
<1> DEFINE p == Head(out)
           got(n) == IF p.kind = "ack" THEN peer.got
                     ELSE peer.got \cup {Plus(p.seq, i) : i \in 0 .. n - 1}
           opens == peer.state = "listen"
<1>1. /\ tsk \in Sockets /\ peer \in Peers /\ out \in Seq(Segment) /\ in \in Seq(Answers)
      /\ SentOK /\ AcksOK /\ CallOK
  BY Typed
<1>2. /\ out # <<>> /\ out' = Tail(out)
      /\ UNCHANGED <<tsk, lists, app, ready, net>>
  BY DEF PeerReceive
<1>3. /\ out' \in Seq(Segment) /\ Below(out', Top) /\ p \in Segment
      /\ p.kind # "ack" => p.seq + Size(p.kind) <= Top
  BY <1>1, <1>2, BelowTail DEF SentOK
<1>4. /\ Top \in Nat /\ Top <= Window + 2 /\ Window \in Nat
      /\ peer.rnxt \in Nat /\ peer.nxt \in Nat
      /\ peer.rnxt <= Top /\ peer.got \in SUBSET Nat
  BY <1>1, TopBounds, Widths DEF Peers
<1> PICK n \in 1 .. Size(p.kind) :
       IF peer.state = "closed" \/ (opens /\ p.kind # "syn")
       THEN UNCHANGED <<peer, in>>
       ELSE /\ peer' = [peer EXCEPT
                          !.rnxt = Advanced(@, got(n)), !.got = got(n),
                          !.nxt = IF opens THEN Plus(@, 1) ELSE @,
                          !.state = IF opens THEN "synrecv"
                                    ELSE IF @ = "synrecv" THEN "open"
                                    ELSE IF @ = "lastack" /\ p.ack = peer.nxt THEN "closed"
                                    ELSE @]
            /\ in' = CASE p.kind = "syn" -> Append(in, Reply(peer', "synack"))
                       [] p.kind \in {"data", "fin"} -> Append(in, Reply(peer', "ack"))
                       [] OTHER -> in
  BY DEF PeerReceive
<1>5. got(n) \in SUBSET Nat /\ \A m \in got(n) : m < Top
  <2>1. p.seq \in Nat /\ Size(p.kind) \in Nat /\ n \in Nat /\ n <= Size(p.kind)
    BY <1>3, Sizes DEF Segment
  <2>2. \A m \in peer.got : m \in Nat /\ m < Top
    BY <1>1, <1>4 DEF SentOK
  <2>3. ASSUME p.kind # "ack", NEW i \in 0 .. n - 1
        PROVE  Plus(p.seq, i) \in Nat /\ Plus(p.seq, i) < Top
    <3>0. p.seq + Size(p.kind) <= Top /\ Top \in Nat
      BY <1>3, <1>4, <2>3
    <3>1. i \in Nat /\ i < Size(p.kind) /\ p.seq + i < Top
      <4>1. i \in Nat /\ i < n
        BY <2>1
      <4> HIDE DEF p
      <4>2. i < Size(p.kind)
        BY <2>1, <4>1
      <4> QED
        BY <2>1, <3>0, <4>1, <4>2, StaysBelow
    <3>2. Plus(p.seq, i) = p.seq + i
      <4>1. p.seq + i <= Window + 2
        BY <1>4, <2>1, <3>1
      <4> QED
        BY <2>1, <3>1, <4>1, Sum
    <3> QED
      BY <2>1, <3>1, <3>2
  <2> QED
    BY <2>2, <2>3
<1>6. CASE peer.state = "closed" \/ (opens /\ p.kind # "syn")
  <2>1. UNCHANGED <<peer, in>>
    BY <1>6
  <2>2. peer.rnxt <= peer'.rnxt /\ peer'.rnxt <= Top /\ \A m \in peer'.got : m < Top
    BY <1>1, <1>4, <2>1 DEF SentOK
  <2> QED
    BY <1>1, <1>2, <1>3, <2>1, <2>2, PeerAnswers
<1>7. CASE ~(peer.state = "closed" \/ (opens /\ p.kind # "syn"))
  <2> DEFINE st == IF opens THEN "synrecv"
                   ELSE IF peer.state = "synrecv" THEN "open"
                   ELSE IF peer.state = "lastack" /\ p.ack = peer.nxt THEN "closed"
                   ELSE peer.state
             nx == IF opens THEN Plus(peer.nxt, 1) ELSE peer.nxt
             gt == got(n)
             rn == Advanced(peer.rnxt, gt)
  <2>1. /\ peer' = [peer EXCEPT !.rnxt = rn, !.got = gt, !.nxt = nx, !.state = st]
        /\ in' = CASE p.kind = "syn" -> Append(in, Reply(peer', "synack"))
                   [] p.kind \in {"data", "fin"} -> Append(in, Reply(peer', "ack"))
                   [] OTHER -> in
    BY <1>7
  <2>2. rn \in peer.rnxt .. Top
    <3>1. gt \in SUBSET Nat /\ \A m \in gt : m < Top
      BY <1>5
    <3> HIDE DEF gt
    <3> QED
      BY <1>4, <3>1, AdvancedBounds
  <2>3. nx \in Nat
    <3>1. Plus(peer.nxt, 1) \in Nat
      BY <1>4, NextNumber
    <3> QED
      BY <1>4, <3>1
  <2>4. st \in {"listen", "synrecv", "open", "lastack", "closed"}
    BY <1>1 DEF Peers
  <2>5. gt \in SUBSET Nat /\ \A m \in gt : m < Top
    BY <1>5
  <2> HIDE DEF rn, nx, st, gt, opens
  <2>6. peer' \in Peers /\ peer'.rnxt = rn /\ peer'.got = gt
    <3>1. rn \in Nat
      BY <1>4, <2>2
    <3>3. peer' \in Peers
      BY <1>1, <2>1, <2>3, <2>4, <2>5, <3>1 DEF Peers
    <3>4. peer'.rnxt = rn
      BY <1>1, <2>1 DEF Peers
    <3>5. peer'.got = gt
      BY <1>1, <2>1 DEF Peers
    <3> QED
      BY <3>3, <3>4, <3>5
  <2>7. PICK kind \in {"synack", "ack", "finack"} :
          in' = in \/ in' = Append(in, Reply(peer', kind))
    BY <2>1
  <2>8. peer.rnxt <= peer'.rnxt /\ peer'.rnxt <= Top
    BY <1>4, <2>2, <2>6
  <2> QED
    BY <1>2, <1>3, <2>5, <2>6, <2>7, <2>8, PeerAnswers
<1> QED
  BY <1>6, <1>7

LEMMA PeerCloseKeeps == ASSUME RetransAssumption, RInv, PeerClose PROVE RInv'
<1>1. /\ tsk \in Sockets /\ peer \in Peers /\ out \in Seq(Segment) /\ SentOK /\ AcksOK
  BY Typed
<1>2. /\ UNCHANGED <<tsk, lists, app, ready, net, out>>
      /\ peer' = [peer EXCEPT !.state = "lastack", !.nxt = Plus(peer.nxt, 1)]
      /\ in' = Append(in, Reply(peer', "finack"))
  BY DEF PeerClose
<1>3. Plus(peer.nxt, 1) \in Nat
  <2>1. peer.nxt \in Nat
    BY <1>1 DEF Peers
  <2> QED
    BY <2>1, NextNumber
<1>4. peer' \in Peers /\ peer'.rnxt = peer.rnxt /\ peer'.got = peer.got
  BY <1>1, <1>2, <1>3 DEF Peers
<1>5. peer.rnxt <= peer'.rnxt /\ peer'.rnxt <= Top
  BY <1>1, <1>4 DEF AcksOK, Peers
<1>6. \A n \in peer'.got : n < Top
  BY <1>1, <1>4 DEF SentOK
<1>7. out' \in Seq(Segment) /\ Below(out', Top)
  BY <1>1, <1>2 DEF SentOK
<1> QED
  BY <1>2, <1>4, <1>5, <1>6, <1>7, PeerAnswers

LEMMA PeerRepeatKeeps == ASSUME RetransAssumption, RInv, PeerRepeat PROVE RInv'
<1>1. /\ tsk \in Sockets /\ peer \in Peers /\ out \in Seq(Segment) /\ SentOK /\ AcksOK
  BY Typed
<1>2. /\ UNCHANGED <<tsk, lists, app, ready, net, out, peer>> /\ in = <<>>
  BY DEF PeerRepeat
<1>3. PICK kind \in {"synack", "ack", "finack"} : in' = <<Reply(peer, kind)>>
  BY DEF PeerRepeat
<1>4. in' = Append(in, Reply(peer', kind))
  BY <1>2, <1>3
<1>5. peer' \in Peers /\ peer.rnxt <= peer'.rnxt /\ peer'.rnxt <= Top
  BY <1>1, <1>2 DEF AcksOK, Peers
<1>6. /\ \A n \in peer'.got : n < Top
      /\ out' \in Seq(Segment) /\ Below(out', Top)
  BY <1>1, <1>2 DEF SentOK
<1> QED
  BY <1>2, <1>4, <1>5, <1>6, PeerAnswers

(* The ACKs that are left when one is lost are still in order.             *)
LEMMA LoseKeeps == ASSUME RetransAssumption, RInv, Lose PROVE RInv'
<1>1. /\ tsk \in Sockets /\ peer \in Peers /\ out \in Seq(Segment) /\ in \in Seq(Answers)
      /\ SentOK /\ AcksOK /\ LinksOK /\ ReadyOK /\ CallOK
  BY Typed
<1>2. UNCHANGED <<tsk, send_buf, adding, app, ready, net, peer>> /\ Top' = Top
  BY DEF Lose, lists, Top
<1>3. CASE out # <<>> /\ out' = Tail(out) /\ UNCHANGED in
  <2>1. out' \in Seq(Segment) /\ Below(out', Top)
    BY <1>1, <1>3, BelowTail DEF SentOK
  <2>2. Shape' /\ SentOK'
    BY <1>1, <1>2, <1>3, <2>1 DEF RInv, Shape, SentOK
  <2>3. AcksOK' /\ LinksOK' /\ ReadyOK' /\ CallOK'
    BY <1>1, <1>2, <1>3 DEF AcksOK, LinksOK, ReadyOK, CallOK, AtConnect
  <2> QED
    BY <2>2, <2>3 DEF RInv
<1>4. CASE in # <<>> /\ in' = Tail(in) /\ UNCHANGED out
  <2>1. /\ in' \in Seq(Answers)
        /\ \A i \in 1 .. Len(in') : tsk.una <= in'[i].ack /\ in'[i].ack <= peer.rnxt
        /\ \A i, j \in 1 .. Len(in') : i < j => in'[i].ack <= in'[j].ack
    BY <1>4, TakesPacket
  <2>2. Shape' /\ SentOK' /\ AcksOK'
    BY <1>1, <1>2, <1>4, <2>1 DEF RInv, Shape, SentOK, Below, AcksOK
  <2>3. LinksOK' /\ ReadyOK' /\ CallOK'
    BY <1>1, <1>2 DEF LinksOK, ReadyOK, CallOK, AtConnect
  <2> QED
    BY <2>2, <2>3 DEF RInv
<1> QED
  BY <1>3, <1>4 DEF Lose

--------------------------------------------------------------------------------
LEMMA InitHolds == ASSUME RetransAssumption, Init PROVE RInv
<1>1. PICK left \in Files : app = [pc |-> "connect", left |-> left, goal |-> "CLOSED"]
  BY DEF Init
<1>2. /\ tsk = [state |-> "CLOSED", hashed |-> FALSE, una |-> 0, nxt |-> 0,
                rcv_nxt |-> 0, snd_wnd |-> 0, retrans |-> FALSE,
                connected |-> FALSE, notified |-> FALSE]
      /\ peer = [state |-> "listen", rnxt |-> 0, nxt |-> 5, got |-> {}]
      /\ send_buf = Empty /\ adding = NoAdd
      /\ ready = <<>> /\ net = Idle /\ out = <<>> /\ in = <<>>
  BY DEF Init, ISS
<1>3. Shape
  <2>1. left \in Nat
    BY DEF RetransAssumption
  <2>2. app \in Calls
    BY <1>1, <2>1 DEF Calls
  <2>3. tsk \in Sockets /\ peer \in Peers
    BY <1>2 DEF Sockets, Peers, States
  <2> QED
    BY <1>2, <2>2, <2>3 DEF Shape, Places
<1>4. SentOK /\ AcksOK /\ ReadyOK
  BY <1>2 DEF SentOK, Below, AcksOK, ReadyOK, Top, NoAdd
<1>5. LinksOK
  BY <1>2 DEF LinksOK, Buffers, Additions, Empty, NoAdd, Entries, Pointer, Idle
<1>6. CallOK
  BY <1>1, <1>2, Widths DEF CallOK, AtConnect, Idle
<1> QED
  BY <1>3, <1>4, <1>5, <1>6 DEF RInv

LEMMA StepKeeps == ASSUME RetransAssumption, RInv, [Next]_vars PROVE RInv'
<1>1. CASE App \/ Spurious
  BY <1>1, ConnectKeeps, HashKeeps, ConnectedKeeps, SpuriousKeeps, SendDataKeeps,
     WindowFullKeeps, WindowMovedKeeps, CloseKeeps, CloseUnopenedKeeps, ClosingKeeps,
     LinkKeeps, EmitKeeps DEF App
<1>2. CASE Net
  BY <1>2, ReceiveKeeps, ClearEntryKeeps, InSynSentKeeps, DeleteTimerKeeps,
     InEstablishedKeeps, InWaitKeeps, InFinWait1Keeps, InFinWait2Keeps, InLastAckKeeps,
     InClosedKeeps DEF Net
<1>3. CASE UNCHANGED vars
  BY <1>3 DEF vars, RInv, Shape, LinksOK, ReadyOK, SentOK, Below, AcksOK, CallOK,
     AtConnect, Top
<1> QED
  BY <1>1, <1>2, <1>3, TimersKeep, PeerReceiveKeeps, PeerCloseKeeps, PeerRepeatKeeps,
     LoseKeeps DEF Next

(* The invariant holds in every reachable state.                           *)
THEOREM RetransInvariant == Spec => []RInv
<1>1. Init => RInv
  BY InitHolds, RetransAssumption
<1>2. RInv /\ [Next]_vars => RInv'
  BY StepKeeps, RetransAssumption
<1> QED
  BY <1>1, <1>2, PTL DEF Spec

--------------------------------------------------------------------------------
(* The send buffer.                                                        *)

(* Where the numbers are, for packets of one number.                       *)
LEMMA Numbers ==
  ASSUME RetransAssumption, RInv, Seg = 1
  PROVE  /\ tsk.una \in Nat /\ tsk.nxt \in Nat /\ Linked \in Nat /\ Mod \in Nat
         /\ tsk.una <= Top /\ peer.rnxt <= Top /\ Top <= Linked /\ Linked <= tsk.nxt
         /\ tsk.nxt < Mod /\ Top \in Nat
         /\ adding.step = "no" => Linked = tsk.nxt
         /\ adding.step = "forward" => Linked = tsk.nxt - 1 /\ Head(ready).seq = Linked
         /\ adding.step = "back" => /\ Linked = tsk.nxt /\ Head(ready).seq = Linked - 1
                                    /\ Top = Linked - 1
         /\ adding.step \in {"no", "forward", "back"}
         /\ adding.step = "no" => adding = NoAdd
<1>1. /\ Top \in Nat /\ Top <= tsk.nxt /\ tsk.nxt <= Window + 2
      /\ tsk.nxt \in Nat /\ tsk.una \in Nat /\ tsk.una <= peer.rnxt /\ peer.rnxt <= Top
      /\ peer.rnxt \in Nat
  BY TopBounds
<1>2. tsk.nxt < Mod /\ Mod \in Nat
  BY <1>1, Widths
<1>3. adding.step \in {"no", "forward", "back"} /\ ReadyOK /\ ready \in Seq(Segment)
  BY Typed DEF LinksOK, Additions
<1>4. adding.step = "no" => adding = NoAdd
  BY <1>3 DEF ReadyOK
<1>5. ready # <<>> => /\ Head(ready).seq \in Nat /\ Head(ready).seq + 1 = tsk.nxt
                      /\ Top = Head(ready).seq
  <2> SUFFICES ASSUME ready # <<>>
               PROVE  /\ Head(ready).seq \in Nat /\ Head(ready).seq + 1 = tsk.nxt
                      /\ Top = Head(ready).seq
    OBVIOUS
  <2>1. Head(ready) = ready[1] /\ ready[1] \in Segment
        /\ ready[1].seq + Size(ready[1].kind) = tsk.nxt
    BY <1>3 DEF ReadyOK
  <2>2. Size(ready[1].kind) = 1
    BY DEF Size
  <2> QED
    BY <2>1, <2>2 DEF Segment, Top
<1>6. adding.step # "no" => ready # <<>>
  BY <1>3 DEF ReadyOK
<1> QED
  BY <1>1, <1>2, <1>3, <1>4, <1>5, <1>6 DEF Linked

(* What the steps do to the list: the two halves of an addition, ...       *)
LedTo(L, n, behind) == [next |-> [L.next EXCEPT ![behind] = n],
                        prev |-> [L.prev EXCEPT ![Head0] = n]]

LEMMA HalfAdded ==
  ASSUME NEW L \in Buffers, NEW lo \in Nat, NEW hi \in Nat, lo <= hi, hi < Mod, Mod \in Nat,
         Chain(L, lo, hi), \A n \in Seqs : n >= hi => L.next[n] = Null
  PROVE  /\ Half(LedTo(L, hi, Pred(lo, hi)), lo, hi + 1)
         /\ \A n \in Seqs : n >= hi + 1 => LedTo(L, hi, Pred(lo, hi)).next[n] = Null
<1> DEFINE M == LedTo(L, hi, Pred(lo, hi))
<1>1. /\ L.next \in [Entries -> Pointer] /\ L.prev \in [Entries -> Pointer]
      /\ M.next = [L.next EXCEPT ![Pred(lo, hi)] = hi] /\ M.prev = [L.prev EXCEPT ![Head0] = hi]
  BY DEF Buffers, LedTo
<1> HIDE DEF M
<1>2. Head0 = Mod /\ Head0 \in Entries /\ \A n \in 0 .. Mod - 1 : n \in Entries /\ n \in Seqs
  BY DEF Head0, Entries, Seqs
<1>3. \A n \in Entries : n # Pred(lo, hi) => M.next[n] = L.next[n]
  BY <1>1
<1>4. \A n \in Entries : n # Head0 => M.prev[n] = L.prev[n]
  BY <1>1
<1>5. Pred(lo, hi) \in Entries /\ M.next[Pred(lo, hi)] = hi /\ M.prev[Head0] = hi
  BY <1>1, <1>2 DEF Pred
<1>6. M.next[hi] = Null
  BY <1>2, <1>3 DEF Pred
<1>7. M.next[Head0] = lo
  BY <1>2, <1>3, <1>5 DEF Pred, Chain
<1>8. ASSUME NEW i \in lo .. hi - 1 PROVE M.next[i] = i + 1 /\ M.prev[i] = Pred(lo, i)
  <2>1. i \in Entries /\ i # Head0 /\ M.prev[i] = L.prev[i]
    BY <1>2, <1>4
  <2>2. L.next[i] = Succ(lo, hi, i) /\ L.prev[i] = Pred(lo, i)
    BY DEF Chain
  <2>3. CASE i = hi - 1
    <3>0. lo < hi
      BY <2>3
    <3>1. Pred(lo, hi) = i /\ hi = i + 1
      BY <2>3, <3>0 DEF Pred
    <3> QED
      BY <1>5, <2>1, <2>2, <3>1
  <2>4. CASE i # hi - 1
    <3>1. i # Pred(lo, hi)
      BY <2>1, <2>4 DEF Pred
    <3> QED
      BY <1>3, <2>1, <2>2, <2>4, <3>1 DEF Succ
  <2> QED
    BY <2>3, <2>4
<1>9. \A n \in Seqs : n >= hi + 1 => M.next[n] = Null
  BY <1>2, <1>3 DEF Pred, Seqs
<1> QED
  BY <1>5, <1>6, <1>7, <1>8, <1>9 DEF Half, M

LEMMA Added ==
  ASSUME NEW L \in Buffers, NEW lo \in Nat, NEW hi \in Nat, lo < hi, hi <= Mod, Mod \in Nat,
         Half(L, lo, hi), \A n \in Seqs : n >= hi => L.next[n] = Null,
         NEW M, M = [next |-> [L.next EXCEPT ![hi - 1] = Head0],
                     prev |-> [L.prev EXCEPT ![hi - 1] = Pred(lo, hi - 1)]]
  PROVE  /\ Chain(M, lo, hi)
         /\ \A n \in Seqs : n >= hi => M.next[n] = Null
<1>1. /\ L.next \in [Entries -> Pointer] /\ L.prev \in [Entries -> Pointer]
      /\ M.next = [L.next EXCEPT ![hi - 1] = Head0]
      /\ M.prev = [L.prev EXCEPT ![hi - 1] = Pred(lo, hi - 1)]
  BY DEF Buffers
<1>2. Head0 = Mod /\ Head0 \in Entries /\ \A n \in 0 .. Mod - 1 : n \in Entries /\ n \in Seqs
  BY DEF Head0, Entries, Seqs
<1>3. \A n \in Entries : n # hi - 1 => M.next[n] = L.next[n] /\ M.prev[n] = L.prev[n]
  BY <1>1
<1>4. hi - 1 \in Entries /\ M.next[hi - 1] = Head0 /\ M.prev[hi - 1] = Pred(lo, hi - 1)
  BY <1>1, <1>2
<1>5. M.next[Head0] = lo /\ M.prev[Head0] = hi - 1
  BY <1>2, <1>3 DEF Half
<1>6. ASSUME NEW i \in lo .. hi - 1 PROVE M.next[i] = Succ(lo, hi, i) /\ M.prev[i] = Pred(lo, i)
  <2>1. CASE i = hi - 1
    BY <1>4, <2>1 DEF Succ
  <2>2. CASE i # hi - 1
    <3>1. i \in lo .. hi - 2 /\ i \in Entries
      BY <1>2, <2>2
    <3> QED
      BY <1>3, <2>2, <3>1 DEF Half, Succ
  <2> QED
    BY <2>1, <2>2
<1>7. \A n \in Seqs : n >= hi => M.next[n] = Null
  BY <1>2, <1>3 DEF Seqs, Entries
<1> QED
  BY <1>5, <1>6, <1>7 DEF Chain

(* ... and the first entry freed, ...                                      *)
LEMMA FirstFreed ==
  ASSUME NEW L \in Buffers, NEW lo \in Nat, NEW hi \in Nat, lo < hi, hi <= Mod, Mod \in Nat,
         Chain(L, lo, hi), \A n \in Seqs : n >= hi => L.next[n] = Null
  PROVE  /\ Chain(Freed(L, lo), lo + 1, hi)
         /\ \A n \in Seqs : n >= hi => Freed(L, lo).next[n] = Null
<1> DEFINE M == Freed(L, lo)
           q == Succ(lo, hi, lo)
<1>1. L.next \in [Entries -> Pointer] /\ L.prev \in [Entries -> Pointer]
  BY DEF Buffers
<1>2. Head0 = Mod /\ Head0 \in Entries /\ \A n \in 0 .. Mod - 1 : n \in Entries /\ n \in Seqs
  BY DEF Head0, Entries, Seqs
<1>3. L.next[lo] = q /\ L.prev[lo] = Head0 /\ q \in Entries /\ lo \in Entries /\ q # lo
      /\ lo # Head0
  BY <1>2 DEF Chain, Pred, Succ
<1>4. /\ M.next = [[L.next EXCEPT ![Head0] = q] EXCEPT ![lo] = Null]
      /\ M.prev = [[L.prev EXCEPT ![q] = Head0] EXCEPT ![lo] = Null]
  BY <1>3 DEF Freed, list_delete_entry
<1> HIDE DEF M
<1>5. /\ M.next[Head0] = q /\ M.prev[q] = Head0
      /\ \A n \in Entries : n # Head0 /\ n # lo => M.next[n] = L.next[n]
      /\ \A n \in Entries : n # q /\ n # lo => M.prev[n] = L.prev[n]
  BY <1>1, <1>2, <1>3, <1>4
<1>6. M.next[Head0] = IF lo + 1 < hi THEN lo + 1 ELSE Head0
  BY <1>5 DEF Succ
<1>7. M.prev[Head0] = IF lo + 1 < hi THEN hi - 1 ELSE Head0
  <2>1. CASE lo + 1 < hi
    BY <1>2, <1>3, <1>5, <2>1 DEF Succ, Chain
  <2>2. CASE ~(lo + 1 < hi)
    BY <1>5, <2>2 DEF Succ
  <2> QED
    BY <2>1, <2>2
<1>8. ASSUME NEW i \in lo + 1 .. hi - 1
      PROVE  M.next[i] = Succ(lo + 1, hi, i) /\ M.prev[i] = Pred(lo + 1, i)
  <2>1. i \in Entries /\ i # Head0 /\ i # lo /\ i \in lo .. hi - 1
    BY <1>2
  <2>2. L.next[i] = Succ(lo, hi, i) /\ L.prev[i] = Pred(lo, i)
    BY <2>1 DEF Chain
  <2>3. M.next[i] = Succ(lo + 1, hi, i)
    BY <1>5, <2>1, <2>2 DEF Succ
  <2>4. M.prev[i] = Pred(lo + 1, i)
    <3>1. CASE i = lo + 1
      BY <1>5, <3>1 DEF Succ, Pred
    <3>2. CASE i # lo + 1
      <4>1. i # q
        BY <2>1, <3>2 DEF Succ
      <4> QED
        BY <1>5, <2>1, <2>2, <3>2, <4>1 DEF Pred
    <3> QED
      BY <3>1, <3>2
  <2> QED
    BY <2>3, <2>4
<1>9. \A n \in Seqs : n >= hi => M.next[n] = Null
  BY <1>2, <1>5 DEF Seqs, Entries
<1> QED
  BY <1>6, <1>7, <1>8, <1>9 DEF Chain, M

(* ... also while an entry behind the second one is half linked.           *)
LEMMA FirstFreedHalf ==
  ASSUME NEW L \in Buffers, NEW lo \in Nat, NEW hi \in Nat, lo + 2 < hi, hi <= Mod, Mod \in Nat,
         Half(L, lo, hi), \A n \in Seqs : n >= hi => L.next[n] = Null
  PROVE  /\ Half(Freed(L, lo), lo + 1, hi)
         /\ \A n \in Seqs : n >= hi => Freed(L, lo).next[n] = Null
<1> DEFINE M == Freed(L, lo)
           q == lo + 1
<1>1. L.next \in [Entries -> Pointer] /\ L.prev \in [Entries -> Pointer]
  BY DEF Buffers
<1>2. Head0 = Mod /\ Head0 \in Entries /\ \A n \in 0 .. Mod - 1 : n \in Entries /\ n \in Seqs
  BY DEF Head0, Entries, Seqs
<1>3. L.next[lo] = q /\ L.prev[lo] = Head0 /\ q \in Entries /\ lo \in Entries /\ q # lo
      /\ lo # Head0 /\ q # Head0
  BY <1>2 DEF Half, Pred
<1>4. /\ M.next = [[L.next EXCEPT ![Head0] = q] EXCEPT ![lo] = Null]
      /\ M.prev = [[L.prev EXCEPT ![q] = Head0] EXCEPT ![lo] = Null]
  BY <1>3 DEF Freed, list_delete_entry
<1> HIDE DEF M
<1>5. /\ M.next[Head0] = q /\ M.prev[q] = Head0
      /\ \A n \in Entries : n # Head0 /\ n # lo => M.next[n] = L.next[n]
      /\ \A n \in Entries : n # q /\ n # lo => M.prev[n] = L.prev[n]
  BY <1>1, <1>2, <1>3, <1>4
<1>6. M.next[Head0] = lo + 1 /\ M.prev[Head0] = hi - 1
  BY <1>2, <1>3, <1>5 DEF Half
<1>7. M.next[hi - 1] = Null
  BY <1>2, <1>5 DEF Half
<1>8. ASSUME NEW i \in lo + 1 .. hi - 2
      PROVE  M.next[i] = i + 1 /\ M.prev[i] = Pred(lo + 1, i)
  <2>1. i \in Entries /\ i # Head0 /\ i # lo /\ i \in lo .. hi - 2
    BY <1>2
  <2>2. L.next[i] = i + 1 /\ L.prev[i] = Pred(lo, i)
    BY <2>1 DEF Half
  <2>3. M.prev[i] = Pred(lo + 1, i)
    <3>1. CASE i = lo + 1
      BY <1>5, <3>1 DEF Pred
    <3>2. CASE i # lo + 1
      BY <1>5, <2>1, <2>2, <3>2 DEF Pred
    <3> QED
      BY <3>1, <3>2
  <2> QED
    BY <1>5, <2>1, <2>2, <2>3
<1>9. \A n \in Seqs : n >= hi => M.next[n] = Null
  BY <1>2, <1>5 DEF Seqs, Entries
<1> QED
  BY <1>6, <1>7, <1>8, <1>9 DEF Half, M

(* What is read at an entry.                                               *)
LEMMA Reads ==
  ASSUME NEW L, NEW lo \in Nat, NEW hi \in Nat, Chain(L, lo, hi) \/ Half(L, lo, hi),
         NEW pos \in lo .. hi - 1
  PROVE  \/ L.next[pos] = Null
         \/ L.next[pos] = pos + 1 /\ pos + 1 < hi
         \/ L.next[pos] = Head0 /\ pos + 1 = hi
<1>1. CASE Chain(L, lo, hi)
  BY <1>1 DEF Chain, Succ
<1>2. CASE Half(L, lo, hi)
  <2>1. CASE pos = hi - 1
    BY <1>2, <2>1 DEF Half
  <2>2. CASE pos # hi - 1
    <3>1. pos \in lo .. hi - 2
      BY <2>2
    <3> QED
      BY <1>2, <3>1 DEF Half
  <2> QED
    BY <2>1, <2>2
<1> QED
  BY <1>1, <1>2

LEMMA Filling ==
  ASSUME BInv, Seg = 1, ~torn
  PROVE  /\ net.pc = "clear" => \E lo \in 0 .. tsk.una : BufferOK(lo) /\ WalkOK(lo)
         /\ net.pc # "clear" => BufferOK(tsk.una)
BY DEF BInv

(* Steps that do not touch the list.                                       *)
LEMMA SameBuffer ==
  ASSUME RInv, BInv, UNCHANGED lists, tsk'.una = tsk.una,
         Linked' = Linked,
         net' = net \/ (net.pc # "clear" /\ net'.pc # "clear")
  PROVE  BInv'
BY DEF BInv, BufferOK, Filled, WalkOK, lists, Chain, Half

LEMMA BuildBuffer ==
  ASSUME RetransAssumption, RInv, BInv, NEW kind \in {"syn", "data", "fin"}, NEW wnd,
         Build(kind, wnd), ready = <<>>, net' = net
  PROVE  BInv'
<1> SUFFICES ASSUME Seg = 1, ~torn'
             PROVE  IF net'.pc = "clear"
                    THEN \E lo \in 0 .. tsk'.una : BufferOK(lo)' /\ WalkOK(lo)'
                    ELSE BufferOK(tsk.una)'
  BY DEF BInv
<1>0. ~torn /\ send_buf' = send_buf
  BY DEF Build
<1>1. adding.step = "no" /\ Linked = tsk.nxt /\ tsk.una \in Nat /\ Linked \in Nat
  BY Numbers, Typed DEF ReadyOK
<1>2. tsk \in Sockets
  BY Typed
<1>3. tsk'.una = tsk.una
  BY <1>2 DEF Build, Sockets
<1>4. Linked' = Linked
  BY <1>1 DEF Build, Linked, Packet
<1>5. ASSUME NEW lo \in Nat, BufferOK(lo) PROVE BufferOK(lo)'
  <2>1. adding' = [step |-> "forward", behind |-> send_buf.prev[Head0]]
    BY DEF Build
  <2>2. Chain(send_buf, lo, Linked) /\ \A n \in Seqs : n >= Linked => send_buf.next[n] = Null
    BY <1>1, <1>5 DEF BufferOK, Filled
  <2>3. adding'.behind = Pred(lo, Linked)
    BY <2>1, <2>2 DEF Chain, Pred
  <2> QED
    BY <1>0, <1>4, <2>1, <2>2, <2>3 DEF BufferOK, Filled, Chain
<1>6. \A lo : WalkOK(lo) => WalkOK(lo)'
  BY <1>3, <1>4 DEF WalkOK
<1> QED
  BY <1>0, <1>1, <1>3, <1>5, <1>6, Filling

(* Where the walk is does not change when the list grows behind it.        *)
LEMMA WalkStays ==
  ASSUME RetransAssumption, RInv, Seg = 1, NEW lo \in Nat, WalkOK(lo), net' = net,
         tsk' = tsk, Linked' \in {Linked, Linked + 1}
  PROVE  WalkOK(lo)'
<1>1. Linked \in Nat /\ tsk.una \in Nat
  BY Numbers
<1>2. net.pos \in lo .. Linked - 1 /\ net.pos \in lo .. Linked' - 1
  BY <1>1 DEF WalkOK
<1> QED
  BY <1>1, <1>2 DEF WalkOK

LEMMA LinkForwardBuffer ==
  ASSUME RetransAssumption, RInv, BInv, LinkForward PROVE BInv'
<1> SUFFICES ASSUME Seg = 1, ~torn'
             PROVE  IF net'.pc = "clear"
                    THEN \E lo \in 0 .. tsk'.una : BufferOK(lo)' /\ WalkOK(lo)'
                    ELSE BufferOK(tsk.una)'
  BY DEF BInv, LinkForward
<1>1. /\ ~torn /\ UNCHANGED <<tsk, net, ready>> /\ adding.step = "forward"
      /\ send_buf' = [next |-> [send_buf.next EXCEPT ![adding.behind] = Head(ready).seq],
                      prev |-> [send_buf.prev EXCEPT ![Head0] = Head(ready).seq]]
      /\ adding' = [adding EXCEPT !.step = "back"]
  BY DEF LinkForward
<1>2. /\ send_buf \in Buffers /\ adding \in Additions
      /\ Linked \in Nat /\ Linked < Mod /\ Mod \in Nat /\ tsk.una \in Nat /\ tsk.una <= Linked
      /\ Head(ready).seq = Linked /\ tsk.nxt = Linked + 1
  <2>1. send_buf \in Buffers /\ adding \in Additions
    BY Typed DEF LinksOK
  <2> QED
    BY <1>1, <2>1, Numbers
<1>3. /\ adding'.step = "back" /\ adding'.behind = adding.behind
  BY <1>1, <1>2 DEF Additions
<1>4. Linked' = Linked + 1
  BY <1>1, <1>2, <1>3 DEF Linked
<1>5. ASSUME NEW lo \in Nat, lo <= Linked, BufferOK(lo) PROVE BufferOK(lo)'
  <2>1. /\ Chain(send_buf, lo, Linked) /\ adding.behind = Pred(lo, Linked)
        /\ \A n \in Seqs : n >= Linked => send_buf.next[n] = Null
    BY <1>1, <1>5 DEF BufferOK, Filled
  <2>0. send_buf' = LedTo(send_buf, Linked, Pred(lo, Linked))
    BY <1>1, <1>2, <2>1 DEF LedTo
  <2>2. /\ Half(send_buf', lo, Linked + 1)
        /\ \A n \in Seqs : n >= Linked + 1 => send_buf'.next[n] = Null
    BY <1>2, <1>5, <2>0, <2>1, HalfAdded
  <2>3. Linked' - 1 = Linked
    BY <1>2, <1>4
  <2> QED
    BY <1>3, <1>4, <2>1, <2>2, <2>3 DEF BufferOK, Filled
<1>6. CASE net.pc = "clear"
  <2>1. PICK lo \in 0 .. tsk.una : BufferOK(lo) /\ WalkOK(lo)
    BY <1>1, <1>6, Filling
  <2>2. lo \in Nat /\ lo <= Linked
    BY <1>2
  <2> QED
    BY <1>1, <1>4, <1>5, <1>6, <2>1, <2>2, WalkStays
<1>7. CASE net.pc # "clear"
  BY <1>1, <1>2, <1>5, <1>7, Filling
<1> QED
  BY <1>6, <1>7

LEMMA LinkBackBuffer ==
  ASSUME RetransAssumption, RInv, BInv, LinkBack PROVE BInv'
<1> SUFFICES ASSUME Seg = 1, ~torn'
             PROVE  IF net'.pc = "clear"
                    THEN \E lo \in 0 .. tsk'.una : BufferOK(lo)' /\ WalkOK(lo)'
                    ELSE BufferOK(tsk.una)'
  BY DEF BInv, LinkBack
<1>1. /\ ~torn /\ UNCHANGED <<tsk, net, ready>> /\ adding.step = "back"
      /\ send_buf' = [next |-> [send_buf.next EXCEPT ![Head(ready).seq] = Head0],
                      prev |-> [send_buf.prev EXCEPT ![Head(ready).seq] = adding.behind]]
      /\ adding' = NoAdd
  BY DEF LinkBack
<1>2. /\ send_buf \in Buffers
      /\ Linked \in Nat /\ Linked < Mod /\ Mod \in Nat /\ tsk.una \in Nat /\ tsk.una < Linked
      /\ Head(ready).seq = Linked - 1 /\ tsk.nxt = Linked
  <2>1. send_buf \in Buffers
    BY Typed DEF LinksOK
  <2> QED
    BY <1>1, <2>1, Numbers
<1>3. adding'.step = "no"
  BY <1>1 DEF NoAdd
<1>4. Linked' = Linked
  BY <1>1, <1>2, <1>3 DEF Linked
<1>5. ASSUME NEW lo \in Nat, lo < Linked, BufferOK(lo) PROVE BufferOK(lo)'
  <2>1. /\ Half(send_buf, lo, Linked) /\ adding.behind = Pred(lo, Linked - 1)
        /\ \A n \in Seqs : n >= Linked => send_buf.next[n] = Null
    BY <1>1, <1>5 DEF BufferOK, Filled
  <2>2. /\ Chain(send_buf', lo, Linked)
        /\ \A n \in Seqs : n >= Linked => send_buf'.next[n] = Null
    BY <1>1, <1>2, <1>5, <2>1, Added
  <2> QED
    BY <1>3, <1>4, <2>2 DEF BufferOK, Filled
<1>6. CASE net.pc = "clear"
  <2>1. PICK lo \in 0 .. tsk.una : BufferOK(lo) /\ WalkOK(lo)
    BY <1>1, <1>6, Filling
  <2>2. lo \in Nat /\ lo < Linked
    BY <1>2
  <2> QED
    BY <1>1, <1>4, <1>5, <1>6, <2>1, <2>2, WalkStays
<1>7. CASE net.pc # "clear"
  BY <1>1, <1>2, <1>5, <1>7, Filling
<1> QED
  BY <1>6, <1>7

(* The network thread comes to the first entry, ...                        *)
LEMMA ReceiveBuffer ==
  ASSUME RetransAssumption, RInv, BInv, Receive PROVE BInv'
<1> DEFINE p == Head(in)
           q == [pc |-> "clear", kind |-> p.kind, ack |-> p.ack, rwnd |-> p.rwnd,
                 pos |-> Head0, rest |-> Head0, state |-> tsk.state]
           pos == send_buf.next[Head0]
<1>1. UNCHANGED <<send_buf, adding, torn, ready>> /\ UNCHANGED lists /\ net = Idle
  BY DEF Receive, lists
<1> PICK lo : lo = tsk.una
  OBVIOUS
<1>2. CASE ~tsk.hashed
  <2>1. UNCHANGED <<tsk, net>>
    BY <1>2 DEF Receive
  <2> QED
    BY <1>1, <2>1, SameBuffer DEF Linked
<1>3. CASE tsk.hashed
  <2> SUFFICES ASSUME Seg = 1, ~torn'
               PROVE  IF net'.pc = "clear"
                      THEN \E m \in 0 .. tsk'.una : BufferOK(m)' /\ WalkOK(m)'
                      ELSE BufferOK(tsk.una)'
    BY DEF BInv
  <2>1. /\ p \in Answers /\ p.ack \in Nat /\ lo <= p.ack /\ p.ack <= peer.rnxt
        /\ in # <<>>
    BY TakesPacket DEF Receive
  <2>2. /\ tsk' = [tsk EXCEPT !.una = p.ack, !.rcv_nxt = p.seq_end]
        /\ Walk(q, pos)
    BY <1>3 DEF Receive
  <2>3. tsk \in Sockets /\ send_buf' \in Buffers /\ pos \in Entries
    BY <1>1, Typed DEF LinksOK
  <2>4. tsk'.una = p.ack /\ tsk'.nxt = tsk.nxt /\ Linked' = Linked
    BY <1>1, <2>2, <2>3 DEF Sockets, Linked
  <2>5. /\ lo \in Nat /\ Linked \in Nat /\ p.ack <= Linked /\ lo <= Linked /\ Mod \in Nat
        /\ Linked < Mod
    BY <2>1, Numbers, TopBounds
  <2>6. Filled(send_buf, adding, lo, Linked)
    BY <1>1, Filling DEF Idle, BufferOK
  <2>7. BufferOK(lo)'
    BY <1>1, <2>4, <2>6 DEF BufferOK, Filled, Chain, Half
  <2>8. q \in Handled
    <3>1. p.kind \in {"synack", "ack", "finack"} /\ p.rwnd = Window /\ tsk.state \in States
      BY <2>1, <2>3 DEF Answers, Sockets
    <3> QED
      BY <2>1, <3>1 DEF Handled, Entries, Pointer
  <2> HIDE DEF p, q
  <2>9. /\ net'.pc = (IF pos = Head0 THEN "act" ELSE "clear")
        /\ net'.pos = pos /\ net'.rest = send_buf.next[pos]
    BY <1>1, <2>2, <2>3, <2>8, Walks
  <2>10. Chain(send_buf, lo, Linked) \/ Half(send_buf, lo, Linked)
    BY <2>6 DEF Filled
  <2>11. \/ lo < Linked /\ pos = lo /\ pos # Head0
         \/ lo = Linked /\ pos = Head0
    BY <2>5, <2>10 DEF Chain, Half, Head0
  <2>12. CASE lo = Linked /\ pos = Head0
    <3>1. p.ack = lo /\ net'.pc # "clear"
      BY <2>1, <2>5, <2>9, <2>12
    <3> QED
      BY <2>4, <2>7, <3>1
  <2>13. CASE lo < Linked /\ pos = lo /\ pos # Head0
    <3>1. net'.pc = "clear" /\ lo \in 0 .. tsk'.una
      BY <2>1, <2>4, <2>5, <2>9, <2>13
    <3>2. /\ \/ send_buf.next[lo] = Null
             \/ send_buf.next[lo] = lo + 1 /\ lo + 1 < Linked
             \/ send_buf.next[lo] = Head0 /\ lo + 1 = Linked
      <4> HIDE DEF pos
      <4>1. lo \in Nat /\ Linked \in Nat /\ lo \in lo .. Linked - 1
        BY <2>5, <2>13
      <4>2. CASE Chain(send_buf, lo, Linked)
        BY <4>1, <4>2 DEF Chain, Succ
      <4>3. CASE Half(send_buf, lo, Linked)
        BY <4>1, <4>3 DEF Half
      <4> QED
        BY <2>10, <4>2, <4>3
    <3>3. WalkOK(lo)'
      <4> HIDE DEF pos
      <4> QED
        BY <2>4, <2>5, <2>9, <2>13, <3>2 DEF WalkOK
    <3> QED
      BY <2>7, <3>1, <3>3
  <2> QED
    BY <2>11, <2>12, <2>13
<1> QED
  BY <1>2, <1>3

(* The first entry is freed: the list begins with the next one, unless the *)
(* entry is torn from under an addition.                                   *)
LEMMA FreesFirst ==
  ASSUME NEW L \in Buffers, NEW add \in Additions, NEW lo \in Nat, NEW hi \in Nat,
         lo < hi, hi <= Mod, Mod \in Nat, Filled(L, add, lo, hi), L.next[lo] # Null,
         add.step = "no" \/ add.behind # lo
  PROVE  Filled(Freed(L, lo), add, lo + 1, hi)
<1>1. \A n \in Seqs : n >= hi => L.next[n] = Null
  BY DEF Filled
<1>2. CASE add.step = "back"
  <2>1. Half(L, lo, hi) /\ add.behind = Pred(lo, hi - 1)
    BY <1>2 DEF Filled
  <2>2. L.next[hi - 1] = Null
    BY <2>1 DEF Half
  <2>3. lo # hi - 1
    BY <2>2
  <2>4. add.behind # lo
    BY <1>2
  <2>5. add.behind = hi - 2 /\ lo + 2 < hi /\ Pred(lo + 1, hi - 1) = hi - 2
    <3>1. lo < hi - 1
      BY <2>3
    <3>2. Pred(lo, hi - 1) = hi - 2
      BY <3>1 DEF Pred
    <3>3. hi - 2 # lo
      BY <2>1, <2>4, <3>2
    <3>4. lo + 1 < hi - 1
      BY <3>1, <3>3
    <3>5. lo + 2 < hi /\ Pred(lo + 1, hi - 1) = hi - 2
      BY <3>4 DEF Pred
    <3> QED
      BY <2>1, <3>2, <3>5
  <2>6. /\ Half(Freed(L, lo), lo + 1, hi)
        /\ \A n \in Seqs : n >= hi => Freed(L, lo).next[n] = Null
    BY <1>1, <2>1, <2>5, FirstFreedHalf
  <2> QED
    BY <1>2, <2>5, <2>6 DEF Filled
<1>3. CASE add.step # "back"
  <2>1. Chain(L, lo, hi)
    BY <1>3 DEF Filled
  <2>2. /\ Chain(Freed(L, lo), lo + 1, hi)
        /\ \A n \in Seqs : n >= hi => Freed(L, lo).next[n] = Null
    BY <1>1, <2>1, FirstFreed
  <2>3. add.step = "forward" => add.behind = Pred(lo + 1, hi)
    <3> SUFFICES ASSUME add.step = "forward" PROVE add.behind = Pred(lo + 1, hi)
      OBVIOUS
    <3>1. add.behind = Pred(lo, hi) /\ add.behind # lo
      BY DEF Filled
    <3>2. Pred(lo, hi) = hi - 1
      BY DEF Pred
    <3>3. lo + 1 < hi
      BY <3>1, <3>2
    <3> QED
      BY <3>1, <3>2, <3>3 DEF Pred
  <2> QED
    BY <1>3, <2>2, <2>3 DEF Filled
<1> QED
  BY <1>2, <1>3

(* ... and goes on to the next one, until it has come round to the head.   *)
LEMMA ClearEntryBuffer ==
  ASSUME RetransAssumption, RInv, BInv, ClearEntry PROVE BInv'
<1> DEFINE gone == Acked(net.pos, net.ack)
           wild == net.rest = Null
                   \/ (gone /\ Null \in {send_buf.next[net.pos], send_buf.prev[net.pos]})
<1>1. /\ net.pc = "clear" /\ UNCHANGED <<tsk, adding, ready>> /\ tsk \in Sockets
      /\ LinksOK /\ net \in Places
  BY Typed DEF ClearEntry
<1>2. Linked' = Linked
  BY <1>1 DEF Linked
<1>3. CASE wild
  <2>1. UNCHANGED <<send_buf, net, torn>>
    BY <1>3, Zenon DEF ClearEntry
  <2> QED
    BY <1>1, <1>2, <2>1, SameBuffer DEF lists
<1>4. CASE ~wild
  <2>1. /\ send_buf' = (IF gone THEN Freed(send_buf, net.pos) ELSE send_buf)
        /\ torn' = (torn \/ (gone /\ adding.step # "no" /\ adding.behind = net.pos))
        /\ Walk(net, net.rest)
    BY <1>4, Zenon DEF ClearEntry
  <2> SUFFICES ASSUME Seg = 1, ~torn'
               PROVE  IF net'.pc = "clear"
                      THEN \E m \in 0 .. tsk'.una : BufferOK(m)' /\ WalkOK(m)'
                      ELSE BufferOK(tsk.una)'
    BY DEF BInv
  <2>2. ~torn /\ (gone => adding.step = "no" \/ adding.behind # net.pos)
    BY <2>1
  <2>3. PICK lo \in 0 .. tsk.una : BufferOK(lo) /\ WalkOK(lo)
    BY <1>1, <2>2, Filling
  <2>4. PICK hi : hi = Linked
    OBVIOUS
  <2>5. PICK una : una = tsk.una
    OBVIOUS
  <2>6. PICK pos, rest : pos = net.pos /\ rest = net.rest
    OBVIOUS
  <2>7. /\ hi \in Nat /\ una \in Nat /\ Mod \in Nat /\ lo \in Nat /\ lo <= una /\ una <= hi
        /\ hi < Mod /\ hi <= Window + 2 /\ Window \in Nat /\ tsk'.una = una
    BY <1>1, <1>2, <2>3, <2>4, <2>5, Numbers, TopBounds, Widths
  <2>8. /\ pos \in lo .. hi - 1 /\ (lo < una => pos = lo)
        /\ \/ rest = Null
           \/ rest = pos + 1 /\ rest < hi
           \/ rest = Head0 /\ una <= pos + 1
    BY <2>3, <2>4, <2>5, <2>6 DEF WalkOK
  <2>9. gone <=> pos < una
    <3>1. net.ack = una
      BY <1>1, <2>5 DEF LinksOK
    <3>2. pos \in 0 .. Window + 1
      <4>1. pos \in lo .. hi - 1
        BY <2>8
      <4> QED
        BY <2>7, <4>1
    <3>3. una \in 0 .. Window + 2
      BY <2>7
    <3> QED
      BY <2>6, <3>1, <3>2, <3>3, Comparison DEF Acked
  <2>10. rest # Null /\ (gone => send_buf.next[pos] # Null)
    BY <1>4, <2>6
  <2>11. rest \in Entries /\ send_buf' \in Buffers /\ net \in Handled
         /\ send_buf \in Buffers /\ adding \in Additions
    <3>1. net \in Handled
      BY <1>1 DEF Places, Idle
    <3>2. rest \in Entries
      BY <2>6, <2>10, <3>1 DEF Handled, Pointer
    <3>3. send_buf' \in Buffers
      BY ClearEntryKeeps DEF RInv, LinksOK
    <3> QED
      BY <1>1, <3>1, <3>2, <3>3 DEF LinksOK
  <2> HIDE DEF gone, wild
  <2>12. /\ net'.pc = (IF rest = Head0 THEN "act" ELSE "clear")
         /\ net'.pos = rest /\ net'.rest = send_buf'.next[rest]
    BY <1>1, <2>1, <2>6, <2>11, Walks
  <2>13. Filled(send_buf, adding, lo, hi)
    BY <2>3, <2>4 DEF BufferOK
  <2>14. PICK nl \in 0 .. una : /\ Filled(send_buf', adding', nl, hi)
                                /\ gone => nl = lo + 1 /\ pos = lo
                                /\ ~gone => nl = una
    <3>1. CASE gone
      <4>1. pos = lo /\ lo < una /\ lo < hi /\ send_buf' = Freed(send_buf, lo)
        BY <2>1, <2>6, <2>7, <2>8, <2>9, <3>1
      <4>2. Filled(Freed(send_buf, lo), adding, lo + 1, hi)
        BY <2>2, <2>6, <2>7, <2>10, <2>11, <2>13, <3>1, <4>1, FreesFirst
      <4>3. lo + 1 \in 0 .. una /\ adding' = adding
        BY <1>1, <2>7, <4>1
      <4> QED
        BY <3>1, <4>1, <4>2, <4>3
    <3>2. CASE ~gone
      <4>1. lo = una /\ send_buf' = send_buf
        BY <2>1, <2>7, <2>8, <2>9, <3>2
      <4> QED
        BY <1>1, <2>7, <2>13, <3>2, <4>1
    <3> QED
      BY <3>1, <3>2
  <2>15. BufferOK(nl)'
    BY <1>2, <2>4, <2>14 DEF BufferOK, Filled, Chain, Half
  <2>16. CASE rest = Head0
    <3>1. una <= pos + 1
      BY <2>7, <2>8, <2>10, <2>16 DEF Head0
    <3>2. nl = una
      <4>1. CASE gone
        BY <2>7, <2>9, <2>14, <3>1, <4>1
      <4>2. CASE ~gone
        BY <2>14, <4>2
      <4> QED
        BY <4>1, <4>2
    <3> QED
      BY <2>7, <2>12, <2>15, <2>16, <3>2
  <2>17. CASE rest # Head0
    <3>1. rest = pos + 1 /\ rest < hi
      BY <2>8, <2>10, <2>17
    <3>2. rest \in nl .. hi - 1 /\ (nl < una => rest = nl)
      <4>1. pos \in Int /\ nl \in Nat
        BY <2>7, <2>8
      <4>2. CASE gone
        BY <2>7, <2>14, <3>1, <4>1, <4>2
      <4>3. CASE ~gone
        <5>1. nl = una /\ ~(pos < una)
          BY <2>9, <2>14, <4>3
        <5> QED
          BY <2>7, <3>1, <4>1, <5>1
      <4> QED
        BY <4>2, <4>3
    <3>3. /\ \/ send_buf'.next[rest] = Null
             \/ send_buf'.next[rest] = rest + 1 /\ rest + 1 < hi
             \/ send_buf'.next[rest] = Head0 /\ rest + 1 = hi
      <4>1. nl \in Nat
        BY <2>7
      <4>2. Chain(send_buf', nl, hi) \/ Half(send_buf', nl, hi)
        BY <2>14, Zenon DEF Filled
      <4>3. CASE Chain(send_buf', nl, hi)
        BY <2>7, <3>2, <4>1, <4>3 DEF Chain, Succ
      <4>4. CASE Half(send_buf', nl, hi)
        BY <2>7, <3>2, <4>1, <4>4 DEF Half
      <4> QED
        BY <4>2, <4>3, <4>4
    <3>4. WalkOK(nl)'
      BY <1>2, <2>4, <2>7, <2>12, <3>2, <3>3 DEF WalkOK
    <3> QED
      BY <2>7, <2>12, <2>15, <2>17, <3>4
  <2> QED
    BY <2>16, <2>17
<1> QED
  BY <1>3, <1>4

(* Steps that only the flags, the timer or the link see.                   *)
LEMMA OtherBuffer ==
  ASSUME RInv, BInv, UNCHANGED lists, tsk'.una = tsk.una, tsk'.nxt = tsk.nxt,
         ready' = ready \/ adding = NoAdd,
         net' = net \/ (net.pc # "clear" /\ net'.pc # "clear")
  PROVE  BInv'
<1>1. adding' = adding
  BY DEF lists
<1>2. Linked' = Linked
  BY <1>1 DEF Linked, NoAdd
<1> QED
  BY <1>2, SameBuffer

LEMMA BufferStep ==
  ASSUME RetransAssumption, RInv, BInv, [Next]_vars PROVE BInv'
<1>1. tsk \in Sockets /\ net \in Places
  BY Typed
<1>2. ASSUME Connect PROVE BInv'
  <2>1. Build("syn", tsk.snd_wnd) /\ ready = <<>> /\ net' = net
    BY <1>2 DEF Connect, AppAt
  <2> QED
    BY <2>1, BuildBuffer
<1>3. ASSUME SendData PROVE BInv'
  <2>1. Build("data", tsk.snd_wnd - Seg) /\ ready = <<>> /\ net' = net
    BY <1>3 DEF SendData, Writing, AppAt
  <2> QED
    BY <2>1, BuildBuffer
<1>4. ASSUME Close PROVE BInv'
  <2>1. Build("fin", tsk.snd_wnd) /\ ready = <<>> /\ net' = net
    BY <1>4 DEF Close, AppAt
  <2> QED
    BY <2>1, BuildBuffer
<1>5. ASSUME Hash \/ Connected \/ Spurious \/ WindowFull \/ WindowMoved \/ Closing
             \/ CloseUnopened
      PROVE  BInv'
  <2>1. UNCHANGED lists /\ ready' = ready /\ net' = net
    BY <1>5 DEF Hash, Connected, Spurious, WindowFull, WindowMoved, Closing, CloseUnopened
  <2>2. tsk'.una = tsk.una /\ tsk'.nxt = tsk.nxt
    BY <1>1, <1>5 DEF Sockets, Hash, Connected, Spurious, WindowFull, WindowMoved, Closing,
       CloseUnopened, Unhashed
  <2> QED
    BY <2>1, <2>2, OtherBuffer
<1>6. ASSUME Emit PROVE BInv'
  BY <1>6, OtherBuffer DEF Emit
<1>7. ASSUME InSynSent PROVE BInv'
  <2>1. UNCHANGED lists /\ ready' = ready /\ net.pc # "clear" /\ net'.pc # "clear"
    BY <1>7 DEF InSynSent, In, Idle
  <2>2. tsk'.una = tsk.una /\ tsk'.nxt = tsk.nxt
    <3> DEFINE t == WindowUpdated(tsk, net.ack, net.rwnd)
               waits == tsk.notified \/ tsk.snd_wnd = 0
    <3>1. t = tsk \/ t = [tsk EXCEPT !.snd_wnd = net.rwnd, !.notified = waits]
      BY DEF WindowUpdated
    <3> HIDE DEF waits
    <3>2. t.una = tsk.una /\ t.nxt = tsk.nxt /\ DOMAIN t = DOMAIN tsk
      <4> HIDE DEF t
      <4> QED
        BY <1>1, <3>1 DEF Sockets
    <3>3. tsk' = tsk \/ tsk' = [t EXCEPT !.state = "ESTABLISHED", !.connected = TRUE]
      BY <1>7 DEF InSynSent
    <3> HIDE DEF t
    <3> QED
      BY <1>1, <3>1, <3>2, <3>3 DEF Sockets
  <2> QED
    BY <2>1, <2>2, OtherBuffer
<1>8. ASSUME DeleteTimer \/ InEstablished \/ InWait \/ InFinWait1 \/ InFinWait2
             \/ InLastAck \/ InClosed
      PROVE  BInv'
  <2>1. UNCHANGED lists /\ ready' = ready /\ net.pc # "clear" /\ net'.pc # "clear"
    BY <1>8 DEF DeleteTimer, InEstablished, InWait, InFinWait1, InFinWait2, InLastAck,
       InClosed, In, Idle
  <2>2. tsk'.una = tsk.una /\ tsk'.nxt = tsk.nxt
    BY <1>1, <1>8 DEF Sockets, DeleteTimer, InEstablished, InWait, InFinWait1, InFinWait2,
       InLastAck, InClosed, ToState, Unhashed
  <2> QED
    BY <2>1, <2>2, OtherBuffer
<1>9. ASSUME RetransExpires \/ TimeWaitExpires \/ PeerReceive \/ PeerClose \/ PeerRepeat \/ Lose
      PROVE  BInv'
  <2>1. UNCHANGED lists /\ ready' = ready /\ net' = net
    BY <1>9 DEF RetransExpires, TimeWaitExpires, PeerReceive, PeerClose, PeerRepeat, Lose
  <2>2. tsk'.una = tsk.una /\ tsk'.nxt = tsk.nxt
    BY <1>1, <1>9 DEF Sockets, RetransExpires, TimeWaitExpires, PeerReceive, PeerClose,
       PeerRepeat, Lose, Unhashed
  <2> QED
    BY <2>1, <2>2, OtherBuffer
<1>10. ASSUME UNCHANGED vars PROVE BInv'
  BY <1>10, OtherBuffer DEF vars, lists
<1> QED
  BY <1>2, <1>3, <1>4, <1>5, <1>6, <1>7, <1>8, <1>9, <1>10, LinkForwardBuffer,
     LinkBackBuffer, ReceiveBuffer, ClearEntryBuffer DEF Next, App, Net

LEMMA BufferInit == ASSUME RetransAssumption, Init PROVE BInv
<1>1. Mod \in Nat
  BY Widths
<1>2. Linked = 0 /\ tsk.una = 0 /\ net.pc # "clear" /\ send_buf = Empty /\ adding = NoAdd
  BY DEF Init, Linked, NoAdd, Idle
<1>3. Chain(Empty, 0, 0) /\ \A n \in Seqs : Empty.next[n] = Null
  BY <1>1 DEF Empty, Chain, Entries, Seqs, Head0
<1> QED
  BY <1>2, <1>3 DEF BInv, BufferOK, Filled, NoAdd

(* The list is as it should be in every reachable state.                   *)
THEOREM SendBufferInvariant == Spec => []BInv
<1>1. Init => BInv
  BY BufferInit, RetransAssumption
<1>2. RInv /\ BInv /\ [Next]_vars => BInv'
  BY BufferStep, RetransAssumption
<1>3. Spec => []RInv
  BY RetransInvariant
<1> QED
  BY <1>1, <1>2, <1>3, PTL DEF Spec

LEMMA NodeCount ==
  ASSUME RetransAssumption, NEW L \in Buffers
  PROVE  DOMAIN L.next = Entries /\ Cardinality(Entries) = Mod + 1
<1>1. Mod \in Nat /\ Entries = 0 .. Mod
  BY Widths DEF Entries, Seqs, Head0
<1>2. Cardinality(0 .. Mod) = Mod + 1
  BY <1>1, FS_Interval
<1> QED
  BY <1>1, <1>2 DEF Buffers

(* list_for_each_entry comes to every entry that the head leads to.        *)
LEMMA Reached ==
  ASSUME RetransAssumption, NEW L \in Buffers, NEW lo \in Nat, NEW hi \in Nat,
         lo <= hi, hi <= Mod, Chain(L, lo, hi) \/ Half(L, lo, hi)
  PROVE  lo .. hi - 1 \subseteq list_for_each_entry(L, Head0)
<1> DEFINE N == Mod + 1
           D == Entries \ {Head0}
           Then(p, i) == IF i = 1 THEN L.next[Head0]
                         ELSE IF p[i - 1] \in D THEN L.next[p[i - 1]] ELSE p[i - 1]
           stop == IF Chain(L, lo, hi) THEN Head0 ELSE Null
           w == [i \in 1 .. N |-> IF i <= hi - lo THEN lo + i - 1 ELSE stop]
           pos == CHOOSE p : p = [i \in 1 .. N |-> Then(p, i)]
<1>1. /\ Mod \in Nat /\ Head0 = Mod /\ Null = Mod + 1 /\ D = 0 .. Mod - 1
  BY Widths DEF Head0, Null, Entries, Seqs
<1>2. L.next[Head0] = IF lo < hi THEN lo ELSE stop
  BY DEF Chain, Half
<1>3. \A n \in lo .. hi - 1 : L.next[n] = IF n + 1 < hi THEN n + 1 ELSE stop
  <2>1. CASE Chain(L, lo, hi)
    BY <2>1 DEF Chain, Succ
  <2>2. CASE ~Chain(L, lo, hi)
    <3>1. Half(L, lo, hi) /\ stop = Null
      BY <2>2
    <3> HIDE DEF stop
    <3> QED
      BY <3>1 DEF Half
  <2> QED
    BY <2>1, <2>2
<1>4. stop \notin D
  BY <1>1
<1> HIDE DEF stop, D
<1>5. w = [i \in 1 .. N |-> Then(w, i)]
  <2>1. ASSUME NEW i \in 1 .. N PROVE w[i] = Then(w, i)
    <3>1. CASE i = 1
      BY <1>1, <1>2, <3>1
    <3>2. CASE i # 1
      <4>1. i - 1 \in 1 .. N /\ i \in Nat
        BY <1>1, <3>2
      <4>2. w[i - 1] = IF i - 1 <= hi - lo THEN lo + i - 2 ELSE stop
        BY <1>1, <4>1
      <4>3. CASE i - 1 <= hi - lo
        <5>1. w[i - 1] = lo + i - 2 /\ lo + i - 2 \in lo .. hi - 1 /\ lo + i - 2 \in D
          BY <1>1, <4>1, <4>2, <4>3
        <5>2. L.next[lo + i - 2] = IF i <= hi - lo THEN lo + i - 1 ELSE stop
          BY <1>3, <4>1, <5>1
        <5> QED
          BY <3>2, <4>1, <5>1, <5>2
      <4>4. CASE ~(i - 1 <= hi - lo)
        <5>1. ~(i <= hi - lo) /\ w[i - 1] = stop
          BY <4>1, <4>2, <4>4
        <5> QED
          BY <1>4, <3>2, <5>1
      <4> QED
        BY <4>3, <4>4
    <3> QED
      BY <3>1, <3>2
  <2> QED
    BY <2>1
<1>6. pos = [i \in 1 .. N |-> Then(pos, i)]
  <2> HIDE DEF w
  <2> QED
    BY <1>5
<1>7. list_for_each_entry(L, Head0) = {pos[i] : i \in 1 .. N} \cap D
  BY NodeCount DEF list_for_each_entry, D
<1>8. \A i \in 1 .. N : pos[i] = Then(pos, i)
  BY <1>6
<1> HIDE DEF pos
<1>9. \A i \in 1 .. hi - lo : pos[i] = lo + i - 1
  <2> DEFINE S == {i \in 1 .. hi - lo : pos[i] # lo + i - 1}
  <2> SUFFICES ASSUME S # {} PROVE FALSE
    OBVIOUS
  <2>1. S \in SUBSET Nat
    OBVIOUS
  <2>2. PICK m \in S : \A n \in S : m <= n
    BY <2>1, LeastNat
  <2>3. m \in 1 .. hi - lo /\ m \in 1 .. N /\ pos[m] # lo + m - 1
    BY <1>1
  <2>4. m # 1
    BY <1>2, <1>8, <2>3
  <2>5. m - 1 \in 1 .. hi - lo /\ m - 1 \notin S
    BY <2>2, <2>3, <2>4
  <2>6. pos[m - 1] = lo + m - 2
    BY <2>5
  <2>7. lo + m - 2 \in lo .. hi - 1 /\ lo + m - 2 \in D /\ lo + m - 2 + 1 < hi
    BY <1>1, <2>3, <2>5 DEF D
  <2>8. L.next[lo + m - 2] = lo + m - 1
    BY <1>3, <2>3, <2>7
  <2> QED
    BY <1>8, <2>3, <2>4, <2>6, <2>7, <2>8
<1>10. ASSUME NEW n \in lo .. hi - 1 PROVE n \in list_for_each_entry(L, Head0)
  <2>1. n - lo + 1 \in 1 .. hi - lo /\ n - lo + 1 \in 1 .. N /\ n \in D
    BY <1>1
  <2>2. pos[n - lo + 1] = n
    BY <1>9, <2>1
  <2> QED
    BY <1>7, <2>1, <2>2
<1> QED
  BY <1>10

LEMMA Remains ==
  ASSUME RetransAssumption, RInv, BInv, Seg = 1, ~torn PROVE NothingMissing
<1> DEFINE kept == list_for_each_entry(send_buf, Head0)
<1>1. /\ tsk.una \in Nat /\ peer.rnxt \in Nat /\ Linked \in Nat /\ Mod \in Nat
      /\ tsk.una <= peer.rnxt /\ peer.rnxt <= Linked /\ Linked < Mod
      /\ Linked <= Window + 2 /\ Window \in Nat
  BY Numbers, TopBounds, Widths
<1>2. PICK lo \in 0 .. tsk.una : BufferOK(lo)
  BY <1>1, Filling
<1>3. lo \in Nat /\ lo <= peer.rnxt
  BY <1>1, <1>2
<1>4. Chain(send_buf, lo, Linked) \/ Half(send_buf, lo, Linked)
  BY <1>2 DEF BufferOK, Filled
<1>5. lo .. Linked - 1 \subseteq kept
  <2>1. send_buf \in Buffers
    BY Typed DEF LinksOK
  <2>2. lo <= Linked /\ Linked <= Mod
    BY <1>1, <1>3
  <2> HIDE DEF kept
  <2> QED
    BY <1>1, <1>3, <1>4, <2>1, <2>2, Reached DEF kept
<1>6. (Linked - peer.rnxt) % Mod = Linked - peer.rnxt
  <2>1. Linked - peer.rnxt \in 0 .. Mod - 1 /\ Mod \in Nat \ {0}
    BY <1>1
  <2> QED
    BY <2>1, Remainders
<1> HIDE DEF kept
<1>7. ASSUME NEW k \in 0 .. Linked - peer.rnxt - 1
      PROVE  \E e \in kept, j \in 0 .. Seg - 1 : Plus(e, j) = Plus(peer.rnxt, k)
  <2>1. peer.rnxt + k \in kept
    BY <1>1, <1>3, <1>5
  <2>2. k \in Nat /\ peer.rnxt + k <= Window + 2 /\ peer.rnxt + k \in Nat
    BY <1>1
  <2>3. Plus(peer.rnxt, k) = peer.rnxt + k
    BY <1>1, <2>2, Sum
  <2>4. Plus(peer.rnxt + k, 0) = peer.rnxt + k
    BY <1>1, <2>2, Sum
  <2> QED
    BY <2>1, <2>3, <2>4
<1> QED
  BY <1>6, <1>7 DEF NothingMissing, kept

LEMMA IsUnacked ==
  ASSUME RetransAssumption, RInv, BInv, Seg = 1 PROVE SendBufferIsUnacked
<1> SUFFICES ASSUME ~torn, adding = NoAdd, net.pc # "clear"
             PROVE  InOrder(send_buf, tsk.una, (tsk.nxt - tsk.una) % Mod)
  BY DEF SendBufferIsUnacked
<1> DEFINE a == tsk.una
           b == tsk.nxt
           n == b - a
           at(i) == IF i \in 1 .. n THEN Plus(a, i - 1) ELSE Head0
<1>1. /\ a \in Nat /\ b \in Nat /\ a <= b /\ b < Mod /\ Mod \in Nat /\ Linked = b
      /\ b <= Window + 2 /\ Window \in Nat
  BY Numbers, TopBounds, Widths DEF NoAdd
<1>2. Chain(send_buf, a, b)
  BY <1>1, Filling DEF BufferOK, Filled, NoAdd
<1> HIDE DEF a, b
<1>3. n % Mod = n
  <2>1. n \in 0 .. Mod - 1 /\ Mod \in Nat \ {0}
    BY <1>1
  <2> QED
    BY <2>1, Remainders
<1>4. \A i \in 1 .. n : at(i) = a + i - 1
  <2> SUFFICES ASSUME NEW i \in 1 .. n PROVE Plus(a, i - 1) = a + (i - 1)
    BY <1>1
  <2>1. i - 1 \in Nat /\ a + (i - 1) <= Window + 2
    BY <1>1
  <2> QED
    BY <1>1, <2>1, Sum
<1>5. at(0) = Head0 /\ at(n + 1) = Head0
  BY <1>1
<1> HIDE DEF at
<1>6. ASSUME NEW i \in 0 .. n
      PROVE  send_buf.next[at(i)] = at(i + 1) /\ send_buf.prev[at(i + 1)] = at(i)
  <2>1. send_buf.next[at(i)] = at(i + 1)
    <3>1. CASE i = 0
      <4>1. CASE n = 0
        BY <1>1, <1>2, <1>5, <3>1, <4>1 DEF Chain
      <4>2. CASE n # 0
        <5>1. at(1) = a /\ a < b
          BY <1>1, <1>4, <4>2
        <5> QED
          BY <1>2, <1>5, <3>1, <5>1 DEF Chain
      <4> QED
        BY <4>1, <4>2
    <3>2. CASE i # 0
      <4>1. at(i) = a + i - 1 /\ a + i - 1 \in a .. b - 1
        BY <1>1, <1>4, <3>2
      <4>2. send_buf.next[a + i - 1] = Succ(a, b, a + i - 1)
        BY <1>2, <4>1 DEF Chain
      <4>3. CASE i = n
        BY <1>1, <1>5, <4>1, <4>2, <4>3 DEF Succ
      <4>4. CASE i # n
        <5>1. at(i + 1) = a + i /\ a + i < b
          BY <1>1, <1>4, <4>4
        <5> QED
          BY <1>1, <4>1, <4>2, <5>1 DEF Succ
      <4> QED
        BY <4>3, <4>4
    <3> QED
      BY <3>1, <3>2
  <2>2. send_buf.prev[at(i + 1)] = at(i)
    <3>1. CASE i = n
      <4>1. CASE n = 0
        BY <1>1, <1>2, <1>5, <3>1, <4>1 DEF Chain
      <4>2. CASE n # 0
        <5>1. at(n) = b - 1 /\ a < b
          BY <1>1, <1>4, <4>2
        <5> QED
          BY <1>2, <1>5, <3>1, <5>1 DEF Chain
      <4> QED
        BY <4>1, <4>2
    <3>2. CASE i # n
      <4>1. at(i + 1) = a + i /\ a + i \in a .. b - 1
        BY <1>1, <1>4, <3>2
      <4>2. send_buf.prev[a + i] = Pred(a, a + i)
        BY <1>2, <4>1 DEF Chain
      <4>3. CASE i = 0
        BY <1>1, <1>5, <4>1, <4>2, <4>3 DEF Pred
      <4>4. CASE i # 0
        <5>1. at(i) = a + i - 1 /\ a < a + i
          BY <1>1, <1>4, <4>4
        <5> QED
          BY <1>1, <4>1, <4>2, <5>1 DEF Pred
      <4> QED
        BY <4>3, <4>4
    <3> QED
      BY <3>1, <3>2
  <2> QED
    BY <2>1, <2>2
<1> QED
  BY <1>3, <1>6 DEF InOrder, at, a, b

(* The list is what is not acknowledged, in order, both ways: ...          *)
THEOREM BufferIsUnacked == Seg = 1 => (Spec => []SendBufferIsUnacked)
<1> SUFFICES ASSUME Seg = 1 PROVE Spec => []SendBufferIsUnacked
  OBVIOUS
<1>1. RInv /\ BInv => SendBufferIsUnacked
  BY IsUnacked, RetransAssumption
<1> QED
  BY <1>1, RetransInvariant, SendBufferInvariant, PTL

(* ... and every packet that the peer still lacks is in it.                *)
THEOREM NothingIsForgotten == Seg = 1 => (Spec => []NothingForgotten)
<1> SUFFICES ASSUME Seg = 1 PROVE Spec => []NothingForgotten
  OBVIOUS
<1>1. RInv /\ BInv => NothingForgotten
  BY Remains, RetransAssumption DEF NothingForgotten
<1> QED
  BY <1>1, RetransInvariant, SendBufferInvariant, PTL

--------------------------------------------------------------------------------
(* include/list.h.                                                         *)

(* A new node that is not in the ring joins it behind any of its nodes     *)
(* (list.h:37-45): the ring stays one that can be walked in both ways.     *)
THEOREM InsertJoins ==
  ASSUME NEW N, NEW P, NEW L \in Lists(N, P), NEW S \in SUBSET N, Ring(L, S),
         NEW new \in N \ S, NEW p \in S
  PROVE  Ring(list_insert(L, new, p, L.next[p]), S \cup {new})
<1> DEFINE q == L.next[p]
           M == list_insert(L, new, p, q)
<1>1. q \in S /\ L.prev[q] = p
  BY DEF Ring
<1>2. /\ new \in N /\ new \notin S /\ p \in N /\ q \in N /\ p # new /\ q # new
      /\ L.next \in [N -> P] /\ L.prev \in [N -> P]
  BY <1>1 DEF Lists
<1>3. /\ M.next = [L.next EXCEPT ![p] = new, ![new] = q]
      /\ M.prev = [L.prev EXCEPT ![q] = new, ![new] = p]
  BY DEF list_insert
<1>4. M.next[new] = q /\ M.next[p] = new /\ M.prev[new] = p /\ M.prev[q] = new
  BY <1>2, <1>3
<1>5. \A n \in S : (n # p => M.next[n] = L.next[n]) /\ (n # q => M.prev[n] = L.prev[n])
  BY <1>2, <1>3
<1> HIDE DEF M, q
<1>6. ASSUME NEW n \in S \cup {new}
      PROVE  /\ M.next[n] \in S \cup {new} /\ M.prev[M.next[n]] = n
             /\ M.prev[n] \in S \cup {new} /\ M.next[M.prev[n]] = n
  <2>1. CASE n = new
    BY <2>1, <1>1, <1>4
  <2>2. CASE n \in S
    <3>1. M.next[n] \in S \cup {new} /\ M.prev[M.next[n]] = n
      <4>1. CASE n = p
        BY <4>1, <1>4
      <4>2. CASE n # p
        <5>1. L.next[n] \in S /\ L.prev[L.next[n]] = n
          BY <2>2 DEF Ring
        <5>2. L.next[n] # q
          BY <5>1, <4>2, <1>1
        <5> QED
          BY <5>1, <5>2, <4>2, <2>2, <1>5
      <4> QED
        BY <4>1, <4>2
    <3>2. M.prev[n] \in S \cup {new} /\ M.next[M.prev[n]] = n
      <4>1. CASE n = q
        BY <4>1, <1>4
      <4>2. CASE n # q
        <5>1. L.prev[n] \in S /\ L.next[L.prev[n]] = n
          BY <2>2 DEF Ring
        <5>2. L.prev[n] # p
          BY <5>1, <4>2 DEF q
        <5> QED
          BY <5>1, <5>2, <4>2, <2>2, <1>5
      <4> QED
        BY <4>1, <4>2
    <3> QED
      BY <3>1, <3>2
  <2> QED
    BY <2>1, <2>2
<1> QED
  BY <1>6 DEF Ring, M, q

(* A node that is in the ring leaves it (list.h:62-66), and the others     *)
(* stay in it.                                                             *)
THEOREM DeleteLeaves ==
  ASSUME NEW N, NEW P, NEW L \in Lists(N, P), NEW S \in SUBSET N, Ring(L, S),
         NEW e \in S
  PROVE  Ring(list_delete_entry(L, e), S \ {e})
<1> DEFINE p == L.prev[e]
           q == L.next[e]
           M == list_delete_entry(L, e)
<1>1. p \in S /\ L.next[p] = e /\ q \in S /\ L.prev[q] = e
  BY DEF Ring
<1>2. p \in N /\ q \in N /\ L.next \in [N -> P] /\ L.prev \in [N -> P]
  BY <1>1 DEF Lists
<1>3. /\ M.next = [L.next EXCEPT ![p] = q]
      /\ M.prev = [L.prev EXCEPT ![q] = p]
  BY DEF list_delete_entry
<1>4. M.next[p] = q /\ M.prev[q] = p
  BY <1>2, <1>3
<1>5. \A n \in S : (n # p => M.next[n] = L.next[n]) /\ (n # q => M.prev[n] = L.prev[n])
  BY <1>2, <1>3
<1> HIDE DEF M
<1>6. ASSUME NEW n \in S, n # e
      PROVE  /\ M.next[n] \in S \ {e} /\ M.prev[M.next[n]] = n
             /\ M.prev[n] \in S \ {e} /\ M.next[M.prev[n]] = n
  <2>1. /\ L.next[n] \in S /\ L.prev[L.next[n]] = n
        /\ L.prev[n] \in S /\ L.next[L.prev[n]] = n
    BY DEF Ring
  <2>2. M.next[n] \in S \ {e} /\ M.prev[M.next[n]] = n
    <3>1. CASE n = p
      BY <3>1, <1>1, <1>4, <1>6
    <3>2. CASE n # p
      BY <3>2, <2>1, <1>1, <1>5, <1>6
    <3> QED
      BY <3>1, <3>2
  <2>3. M.prev[n] \in S \ {e} /\ M.next[M.prev[n]] = n
    <3>1. CASE n = q
      BY <3>1, <1>1, <1>4, <1>6
    <3>2. CASE n # q
      BY <3>2, <2>1, <1>1, <1>5, <1>6
    <3> QED
      BY <3>1, <3>2
  <2> QED
    BY <2>2, <2>3
<1> QED
  BY <1>6 DEF Ring, M

(* A node that was alone in its list and was deleted still points at the   *)
(* head.  To delete it again (tcp_timer.c:64-67 does not look at `enable`) *)
(* empties the list, whatever has been added to it since.                  *)
THEOREM SecondDeletionEmpties ==
  ASSUME NEW N, NEW P, NEW L \in Lists(N, P), NEW head \in N, NEW e \in N,
         L.next[e] = head, L.prev[e] = head
  PROVE  list_empty(list_delete_entry(L, e), head)
<1>1. L.next \in [N -> P] /\ L.prev \in [N -> P]
  BY DEF Lists
<1>2. list_delete_entry(L, e).next = [L.next EXCEPT ![head] = head]
  BY DEF list_delete_entry
<1> QED
  BY <1>1, <1>2 DEF list_empty

(* What one call of the functions of list.h does to such lists.            *)
LEMMA FreshList ==
  LET L == init_list_head("head", {"retrans", "timewait"})
  IN  L \in Lists(Nodes, Pointers) /\ Holds(L, "head")
BY DEF init_list_head, Lists, Nodes, Pointers, Holds

LEMMA AddedAlone ==
  ASSUME NEW L \in Lists(Nodes, Pointers), Holds(L, "head"), NEW e \in Nodes \ {"head"}
  PROVE  LET M == list_add_tail(L, e, "head")
         IN  /\ M \in Lists(Nodes, Pointers) /\ Holds(M, e)
             /\ \A f \in Nodes \ {"head", e} : PointsBack(L, f) => PointsBack(M, f)
BY DEF list_add_tail, list_insert, Lists, Nodes, Pointers, Holds, PointsBack

LEMMA DeletedAlone ==
  ASSUME NEW L \in Lists(Nodes, Pointers), NEW e \in Nodes \ {"head"},
         Holds(L, e) \/ (PointsBack(L, e) /\ \E f \in Nodes : Holds(L, f))
  PROVE  LET M == list_delete_entry(L, e)
         IN  /\ M \in Lists(Nodes, Pointers) /\ Holds(M, "head")
             /\ PointsBack(M, e)
BY DEF list_delete_entry, Lists, Nodes, Pointers, Holds, PointsBack

(* The time-wait timer takes the place of the other one. *)
LEMMA Replaced ==
  ASSUME NEW L \in Lists(Nodes, Pointers), Holds(L, "retrans")
  PROVE  LET M == Unlinked(TimeWaitSet(L))
         IN  M \in Lists(Nodes, Pointers) /\ Holds(M, "timewait")
<1> DEFINE K == TimeWaitSet(L)
<1>1. K \in Lists(Nodes, Pointers)
  BY DEF TimeWaitSet, list_add_tail, list_insert, Lists, Nodes, Pointers, Holds
<1>2. /\ K.next["head"] = "retrans" /\ K.prev["head"] = "timewait"
      /\ K.next["retrans"] = "timewait" /\ K.prev["retrans"] = "head"
      /\ K.next["timewait"] = "head" /\ K.prev["timewait"] = "retrans"
  BY DEF TimeWaitSet, list_add_tail, list_insert, Lists, Nodes, Pointers, Holds
<1> DEFINE M == Unlinked(K)
<1>3. K.next \in [Nodes -> Pointers] /\ K.prev \in [Nodes -> Pointers]
  BY <1>1 DEF Lists
<1> HIDE DEF K
<1>4. /\ M.next = [K.next EXCEPT !["head"] = "timewait"]
      /\ M.prev = [K.prev EXCEPT !["timewait"] = "head"]
      /\ M = [next |-> M.next, prev |-> M.prev]
  BY <1>2 DEF Unlinked, list_delete_entry
<1>5. M.next["head"] = "timewait" /\ M.prev["head"] = "timewait"
      /\ M.next["timewait"] = "head" /\ M.prev["timewait"] = "head"
  BY <1>2, <1>3, <1>4 DEF Nodes
<1>6. M.next \in [Nodes -> Pointers] /\ M.prev \in [Nodes -> Pointers]
  BY <1>3, <1>4 DEF Nodes, Pointers
<1> HIDE DEF M
<1>7. M \in Lists(Nodes, Pointers) /\ Holds(M, "timewait")
  BY <1>4, <1>5, <1>6 DEF Lists, Holds
<1> QED
  BY <1>7 DEF K, M

(* list_for_each_entry comes to the one timer. *)
LEMMA WalkOne ==
  ASSUME NEW L \in Lists(Nodes, Pointers), NEW e \in Nodes, Holds(L, e)
  PROVE  list_for_each_entry(L, "head") = {e} \ {"head"}
<1> DEFINE D == Nodes \ {"head"}
           Then(p, i) == IF i = 1 THEN L.next["head"]
                         ELSE IF p[i - 1] \in D THEN L.next[p[i - 1]]
                              ELSE p[i - 1]
           w == [i \in 1 .. 3 |-> IF i = 1 THEN e ELSE "head"]
           pos == CHOOSE p : p = [i \in 1 .. 3 |-> Then(p, i)]
<1>1. w = [i \in 1 .. 3 |-> Then(w, i)]
  <2>1. \A i \in 1 .. 3 : w[i] = Then(w, i)
    <3> SUFFICES ASSUME NEW i \in 1 .. 3 PROVE w[i] = Then(w, i)
      OBVIOUS
    <3>1. CASE i = 1
      BY <3>1 DEF Holds
    <3>2. CASE i = 2
      BY <3>2 DEF Holds, Nodes
    <3>3. CASE i = 3
      BY <3>3
    <3> QED
      BY <3>1, <3>2, <3>3
  <2> QED
    BY <2>1
<1>2. pos = [i \in 1 .. 3 |-> Then(pos, i)]
  BY <1>1
<1>3. Cardinality(DOMAIN L.next) = 3
  <2>1. DOMAIN L.next = {"head", "retrans", "timewait"}
    BY DEF Lists, Nodes
  <2> DEFINE pair == {"head", "retrans"}
  <2>2. IsFiniteSet({"head"}) /\ Cardinality({"head"}) = 1
    BY FS_Singleton
  <2>3. pair = {"head"} \cup {"retrans"} /\ DOMAIN L.next = pair \cup {"timewait"}
    BY <2>1
  <2>4. IsFiniteSet(pair) /\ Cardinality(pair) = 2
    <3> DEFINE one == {"head"}
    <3>1. "retrans" \notin one
      OBVIOUS
    <3> HIDE DEF one
    <3>2. /\ IsFiniteSet(one \cup {"retrans"})
          /\ Cardinality(one \cup {"retrans"}) = Cardinality(one) + 1
      BY <2>2, <3>1, FS_AddElement DEF one
    <3> QED
      BY <2>2, <2>3, <3>2 DEF one
  <2> HIDE DEF pair
  <2>5. "timewait" \notin pair
    BY DEF pair
  <2>6. Cardinality(pair \cup {"timewait"}) = Cardinality(pair) + 1
    BY <2>4, <2>5, FS_AddElement
  <2> QED
    BY <2>3, <2>4, <2>6
<1>4. list_for_each_entry(L, "head") = {pos[i] : i \in 1 .. 3} \cap D
  <2>1. DOMAIN L.next = Nodes
    BY DEF Lists
  <2>2. Cardinality(Nodes) = 3
    BY <1>3, <2>1
  <2> HIDE DEF D, w
  <2> QED
    BY <2>1, <2>2 DEF list_for_each_entry, D
<1>5. pos[1] = e /\ pos[2] = "head" /\ pos[3] = "head"
  <2>1. \A i \in 1 .. 3 : pos[i] = Then(pos, i)
    BY <1>2
  <2> HIDE DEF pos
  <2>2. pos[1] = e
    BY <2>1 DEF Holds
  <2>3. pos[2] = "head"
    <3>1. CASE e = "head"
      BY <2>1, <2>2, <3>1
    <3>2. CASE e # "head"
      BY <2>1, <2>2, <3>2 DEF Holds
    <3> QED
      BY <3>1, <3>2
  <2> QED
    BY <2>1, <2>2, <2>3
<1> HIDE DEF pos
<1>6. {pos[i] : i \in 1 .. 3} = {e, "head"}
  BY <1>5
<1> QED
  BY <1>4, <1>6

--------------------------------------------------------------------------------
LEMMA PlusBelow ==
  ASSUME RetransAssumption, NEW a \in Nat, NEW n \in Nat
  PROVE  Plus(a, n) \in Nat /\ Plus(a, n) < Mod
  BY Widths DEF Plus

LEMMA ListInit == ASSUME RetransAssumption, Init PROVE LInv
<1>1. ValuesOK
  BY Widths DEF Init, ValuesOK
<1>2. ListOK /\ ThreadsOK
  BY FreshList DEF Init, ListOK, ThreadsOK, Over, Idle, AtConnect
<1> QED
  BY <1>1, <1>2 DEF LInv

(* Steps that leave the list alone.                                        *)
LEMMA SameList ==
  ASSUME RInv, LInv, UNCHANGED timer_list, tsk'.retrans = tsk.retrans,
         app.pc # "connect", app'.pc # "connect", ~Over, ~Over'
  PROVE  ListOK'
BY DEF LInv, ListOK

(* A packet that is built while its timer is not over.                     *)
LEMMA BuildList ==
  ASSUME RInv, LInv, timer_list' = Armed(timer_list, tsk.retrans), tsk'.retrans = TRUE,
         ~Over, ~Over', app'.pc # "connect"
  PROVE  ListOK'
<1>1. timer_list \in Lists(Nodes, Pointers) /\ tsk.retrans \in BOOLEAN
  BY Typed DEF LInv, ListOK, Sockets
<1>2. CASE tsk.retrans
  <2>1. Holds(timer_list, "retrans") /\ PointsBack(timer_list, "retrans")
    BY <1>2 DEF LInv, ListOK
  <2> QED
    BY <1>1, <1>2, <2>1 DEF ListOK, Armed
<1>3. CASE ~tsk.retrans
  <2>1. Holds(timer_list, "head")
    BY <1>3 DEF LInv, ListOK
  <2>2. timer_list' = list_add_tail(timer_list, "retrans", "head")
    BY <1>3 DEF Armed
  <2>3. timer_list' \in Lists(Nodes, Pointers) /\ Holds(timer_list', "retrans")
    BY <1>1, <2>1, <2>2, AddedAlone DEF Nodes
  <2>4. PointsBack(timer_list', "retrans")
    BY <2>3 DEF Holds, PointsBack
  <2> QED
    BY <2>3, <2>4 DEF ListOK
<1> QED
  BY <1>1, <1>2, <1>3

(* The timer is deleted, whether it is in the list or not.                 *)
LEMMA DeleteList ==
  ASSUME RInv, LInv, app.pc # "connect", ~Over
  PROVE  LET M == Unlinked(timer_list)
         IN  M \in Lists(Nodes, Pointers) /\ Holds(M, "head") /\ PointsBack(M, "retrans")
<1>1. /\ timer_list \in Lists(Nodes, Pointers) /\ PointsBack(timer_list, "retrans")
      /\ Holds(timer_list, "retrans") \/ Holds(timer_list, "head")
  BY DEF LInv, ListOK
<1> QED
  BY <1>1, DeletedAlone DEF Unlinked, Nodes

LEMMA Known ==
  ASSUME RInv, LInv
  PROVE  /\ tsk \in Sockets /\ app \in Calls /\ net \in Places /\ peer \in Peers
         /\ in \in Seq(Answers) /\ CallOK
         /\ ValuesOK /\ ListOK /\ ThreadsOK
  BY Typed DEF LInv

(* The application thread.                                                 *)
LEMMA ConnectLists == ASSUME RetransAssumption, RInv, LInv, Connect PROVE LInv'
<1> USE Known
<1>1. /\ app' = [app EXCEPT !.pc = "hash"] /\ app.pc = "connect" /\ tsk.state = "CLOSED"
      /\ tsk' = [tsk EXCEPT !.nxt = Plus(@, Size("syn")), !.snd_wnd = tsk.snd_wnd,
                            !.retrans = TRUE]
      /\ ~tsk.retrans /\ net = Idle /\ UNCHANGED <<net, in, peer>>
      /\ timer_list' = list_add_tail(timer_list, "retrans", "head")
  BY DEF Connect, AppAt, Build, Goto, CallOK, ListOK, Armed
<1>2. /\ app'.pc = "hash" /\ tsk'.retrans = TRUE /\ tsk'.state = "CLOSED"
      /\ tsk'.rcv_nxt = tsk.rcv_nxt
  BY <1>1 DEF Calls, Sockets
<1>3. ValuesOK'
  BY <1>1, <1>2 DEF ValuesOK
<1>4. ListOK'
  <2>1. timer_list' \in Lists(Nodes, Pointers) /\ Holds(timer_list', "retrans")
    BY <1>1, AddedAlone DEF ListOK, Nodes
  <2>2. PointsBack(timer_list', "retrans")
    BY <2>1 DEF Holds, PointsBack
  <2> QED
    BY <1>2, <2>1, <2>2 DEF ListOK, Over
<1>5. ThreadsOK'
  BY <1>1, <1>2 DEF ThreadsOK, Idle, AtConnect
<1> QED
  BY <1>3, <1>4, <1>5 DEF LInv

(* A packet that is built later.                                           *)
LEMMA BuildLists ==
  ASSUME RetransAssumption, RInv, LInv, SendData \/ Close
  PROVE  LInv'
<1> USE Known
<1> PICK kind, wnd : Build(kind, wnd)
  BY DEF SendData, Close
<1>1. /\ tsk' = [tsk EXCEPT !.nxt = Plus(@, Size(kind)), !.snd_wnd = wnd, !.retrans = TRUE]
      /\ timer_list' = Armed(timer_list, tsk.retrans)
      /\ UNCHANGED <<net, in, peer>>
  BY DEF Build, SendData, Close
<1>2. app.pc = "write"
      /\ \/ app'.pc = "write"
         \/ /\ app'.pc = "closing" /\ tsk.state \in {"ESTABLISHED", "CLOSE_WAIT"}
            /\ app'.goal = IF tsk.state = "CLOSE_WAIT" THEN "LAST_ACK" ELSE "FIN_WAIT_1"
  BY DEF SendData, Close, Writing, AppAt, Calls
<1>3. /\ tsk'.state = tsk.state /\ tsk'.retrans = TRUE /\ tsk'.rcv_nxt = tsk.rcv_nxt
      /\ tsk.state \in {"SYN_SENT", "ESTABLISHED", "CLOSE_WAIT"}
  BY <1>1, <1>2 DEF Sockets, ThreadsOK
<1>4. ValuesOK'
  BY <1>1, <1>3 DEF ValuesOK
<1>5. ListOK'
  BY <1>1, <1>2, <1>3, BuildList DEF Over
<1>6. ThreadsOK'
  BY <1>1, <1>2, <1>3 DEF ThreadsOK, AtConnect
<1> QED
  BY <1>4, <1>5, <1>6 DEF LInv

LEMMA AppLists ==
  ASSUME RetransAssumption, RInv, LInv,
         Hash \/ Connected \/ Spurious \/ WindowFull \/ WindowMoved \/ Closing
         \/ CloseUnopened \/ LinkForward \/ LinkBack \/ Emit
  PROVE  LInv'
<1> USE Known
<1>1. /\ UNCHANGED <<timer_list, net, in, peer>>
      /\ tsk'.retrans = tsk.retrans /\ tsk'.rcv_nxt = tsk.rcv_nxt
  BY DEF Hash, Connected, Spurious, WindowFull, WindowMoved, Closing, CloseUnopened,
     LinkForward, LinkBack, Emit, Sockets, Unhashed
<1>2. ValuesOK'
  BY <1>1 DEF ValuesOK
<1>3. CASE LinkForward \/ LinkBack \/ Emit
  <2>1. UNCHANGED <<tsk, app>>
    BY <1>3 DEF LinkForward, LinkBack, Emit
  <2> QED
    BY <1>1, <1>2, <2>1 DEF LInv, ListOK, ThreadsOK, Over, AtConnect
<1>4. CASE Hash
  <2>1. /\ app.pc = "hash" /\ app'.pc = "sleep" /\ tsk.state = "CLOSED" /\ tsk'.state = "SYN_SENT"
        /\ net = Idle /\ app'.goal = app.goal /\ tsk.retrans
    BY <1>4 DEF Hash, AppAt, Goto, CallOK, Calls, Sockets, ThreadsOK
  <2>2. ListOK'
    BY <1>1, <2>1, SameList DEF Over
  <2>3. ThreadsOK'
    BY <1>1, <2>1 DEF ThreadsOK, Idle, AtConnect
  <2> QED
    BY <1>2, <2>2, <2>3 DEF LInv
<1>5. CASE Connected \/ Spurious \/ WindowFull \/ WindowMoved
  <2>1. /\ app.pc \in {"sleep", "write", "full"} /\ app'.pc \in {"write", "full"}
        /\ tsk'.state = tsk.state
        /\ tsk.state \in {"SYN_SENT", "ESTABLISHED", "CLOSE_WAIT"}
    BY <1>5 DEF Connected, Spurious, WindowFull, WindowMoved, Writing, AppAt, Goto, Calls,
       Sockets, ThreadsOK
  <2>2. ListOK'
    BY <1>1, <2>1, SameList DEF Over
  <2>3. ThreadsOK'
    BY <1>1, <2>1 DEF ThreadsOK, AtConnect
  <2> QED
    BY <1>2, <2>2, <2>3 DEF LInv
<1>6. CASE Closing
  <2>1. /\ app.pc = "closing" /\ app'.pc = "done" /\ tsk'.state \in {"LAST_ACK", "FIN_WAIT_1"}
        /\ tsk.state \in {"ESTABLISHED", "CLOSE_WAIT"}
        /\ tsk'.state = "LAST_ACK" => tsk.state = "CLOSE_WAIT"
    BY <1>6 DEF Closing, AppAt, Goto, Calls, Sockets, ThreadsOK
  <2>2. ListOK'
    BY <1>1, <2>1, SameList DEF Over
  <2>3. ~AtConnect /\ ~AtConnect'
    BY <1>1, <2>1 DEF AtConnect, CallOK
  <2>4. ThreadsOK'
    BY <1>1, <2>1, <2>3 DEF ThreadsOK
  <2> QED
    BY <1>2, <2>2, <2>4 DEF LInv
<1>7. CASE CloseUnopened
  <2>1. /\ app.pc = "write" /\ app'.pc = "done" /\ tsk'.state = "CLOSED"
        /\ tsk.state = "SYN_SENT" /\ tsk.retrans
    <3>1. /\ app.pc = "write" /\ app'.pc = "done" /\ tsk'.state = "CLOSED"
          /\ tsk.state \notin {"ESTABLISHED", "CLOSE_WAIT"}
      BY <1>7 DEF CloseUnopened, AppAt, Goto, Calls, Sockets, Unhashed
    <3> QED
      BY <3>1 DEF ThreadsOK
  <2>2. ListOK'
    BY <1>1, <2>1, SameList DEF Over
  <2>3. ThreadsOK'
    BY <1>1, <2>1 DEF ThreadsOK, AtConnect
  <2> QED
    BY <1>2, <2>2, <2>3 DEF LInv
<1> QED
  BY <1>3, <1>4, <1>5, <1>6, <1>7

(* The network thread.                                                     *)
LEMMA TailBelow ==
  ASSUME NEW q \in Seq(Answers), q # <<>>, \A i \in 1 .. Len(q) : q[i].seq_end < Mod
  PROVE  Head(q).seq_end < Mod /\ \A i \in 1 .. Len(Tail(q)) : Tail(q)[i].seq_end < Mod
<1>1. Head(q) = q[1] /\ 1 \in 1 .. Len(q) /\ Len(Tail(q)) = Len(q) - 1
  OBVIOUS
<1>2. \A i \in 1 .. Len(Tail(q)) : i + 1 \in 1 .. Len(q) /\ Tail(q)[i] = q[i + 1]
  OBVIOUS
<1> QED
  BY <1>1, <1>2

LEMMA ReceiveLists == ASSUME RetransAssumption, RInv, LInv, Receive PROVE LInv'
<1> USE Known
<1>1. /\ in # <<>> /\ in' = Tail(in) /\ UNCHANGED <<timer_list, app, peer>>
      /\ \/ UNCHANGED <<tsk, net>>
         \/ tsk' = [tsk EXCEPT !.una = Head(in).ack, !.rcv_nxt = Head(in).seq_end]
  BY DEF Receive
<1>2. net' = net \/ (net'.pc \in {"act", "clear"} /\ net'.state = tsk.state)
  <2>1. CASE tsk.hashed
    <3> DEFINE q == [pc |-> "clear", kind |-> Head(in).kind, ack |-> Head(in).ack,
                     rwnd |-> Head(in).rwnd, pos |-> Head0, rest |-> Head0,
                     state |-> tsk.state]
    <3>1. Walk(q, send_buf.next[Head0])
      BY <2>1 DEF Receive
    <3> QED
      BY <3>1 DEF Walk
  <2>2. CASE ~tsk.hashed
    BY <2>2 DEF Receive
  <2> QED
    BY <2>1, <2>2
<1>3. /\ tsk'.state = tsk.state /\ tsk'.retrans = tsk.retrans
      /\ tsk'.rcv_nxt \in {tsk.rcv_nxt, Head(in).seq_end}
  BY <1>1 DEF Sockets
<1>4. ValuesOK'
  BY <1>1, <1>3, TailBelow DEF ValuesOK
<1>5. ListOK'
  BY <1>1, <1>3 DEF ListOK, Over
<1>6. ThreadsOK'
  BY <1>1, <1>2, <1>3 DEF ThreadsOK, AtConnect
<1> QED
  BY <1>4, <1>5, <1>6 DEF LInv

LEMMA ClearEntryLists == ASSUME RetransAssumption, RInv, LInv, ClearEntry PROVE LInv'
<1> USE Known
<1>1. UNCHANGED <<tsk, timer_list, app, in, peer>> /\ net.pc = "clear" /\ net \in Handled
  BY DEF ClearEntry, Places, Idle
<1>2. net' = net \/ (net'.pc \in {"act", "clear"} /\ net'.state = tsk.state)
  <2>1. net' = net \/ Walk(net, net.rest)
    BY DEF ClearEntry
  <2> QED
    BY <1>1, <2>1 DEF Walk, Handled
<1>3. ThreadsOK'
  BY <1>1, <1>2 DEF ThreadsOK, AtConnect
<1> QED
  BY <1>1, <1>3 DEF LInv, ValuesOK, ListOK, Over

(* The socket when a branch of tcp_process is done; the application cannot *)
(* be in connect.                                                          *)
LEMMA ActedOn ==
  ASSUME RetransAssumption, RInv, LInv, net # Idle, UNCHANGED <<app, in, peer>>,
         tsk'.rcv_nxt = tsk.rcv_nxt
  PROVE  ValuesOK' /\ app.pc \notin {"connect", "hash"}
<1> USE Known
<1>1. ValuesOK'
  BY DEF ValuesOK
<1>2. app.pc \notin {"connect", "hash"}
  BY DEF CallOK
<1> QED
  BY <1>1, <1>2

LEMMA InSynSentLists == ASSUME RetransAssumption, RInv, LInv, InSynSent PROVE LInv'
<1> USE Known
<1>1. /\ AtConnect /\ net # Idle /\ tsk.retrans
      /\ app.pc \in {"sleep", "write", "full", "done"}
      /\ tsk.state = "SYN_SENT" \/ (tsk.state = "CLOSED" /\ app.pc = "done")
      /\ UNCHANGED <<timer_list, app, in, peer>>
  BY DEF InSynSent, In, ThreadsOK, CallOK, AtConnect, Idle
<1>2. \/ tsk' = tsk /\ net' = Idle
      \/ /\ tsk' = [WindowUpdated(tsk, net.ack, net.rwnd) EXCEPT
                      !.state = "ESTABLISHED", !.connected = TRUE]
         /\ net' = [pc |-> "delete"]
  BY DEF InSynSent
<1> DEFINE w == WindowUpdated(tsk, net.ack, net.rwnd)
           waits == tsk.notified \/ tsk.snd_wnd = 0
<1>3. /\ w.rcv_nxt = tsk.rcv_nxt /\ w.retrans = tsk.retrans
      /\ DOMAIN w = DOMAIN tsk
  <2>1. w = tsk \/ w = [tsk EXCEPT !.snd_wnd = net.rwnd, !.notified = waits]
    BY DEF WindowUpdated
  <2> HIDE DEF w, waits
  <2> QED
    BY <2>1 DEF Sockets
<1> HIDE DEF w
<1>4. /\ tsk'.rcv_nxt = tsk.rcv_nxt /\ tsk'.retrans = tsk.retrans
      /\ \/ tsk'.state = tsk.state /\ net' = Idle
         \/ tsk'.state = "ESTABLISHED" /\ net' = [pc |-> "delete"]
  <2>1. CASE tsk' = tsk /\ net' = Idle
    BY <2>1
  <2>2. CASE /\ tsk' = [w EXCEPT !.state = "ESTABLISHED", !.connected = TRUE]
             /\ net' = [pc |-> "delete"]
    BY <1>3, <2>2 DEF Sockets
  <2> QED
    BY <1>2, <2>1, <2>2 DEF w
<1>5. ValuesOK'
  BY <1>1, <1>4, ActedOn
<1>6. ListOK'
  BY <1>1, <1>4, SameList DEF Over
<1>7. ThreadsOK'
  BY <1>1, <1>4 DEF ThreadsOK, Idle, AtConnect
<1> QED
  BY <1>5, <1>6, <1>7 DEF LInv

LEMMA DeleteTimerLists == ASSUME RetransAssumption, RInv, LInv, DeleteTimer PROVE LInv'
<1> USE Known
<1>1. /\ net.pc = "delete" /\ net # Idle /\ net' = Idle
      /\ tsk.state \in {"ESTABLISHED", "FIN_WAIT_1"}
      /\ tsk' = [tsk EXCEPT !.retrans = FALSE] /\ timer_list' = Unlinked(timer_list)
      /\ UNCHANGED <<app, in, peer>>
  BY DEF DeleteTimer, ThreadsOK, Idle
<1>2. /\ tsk'.rcv_nxt = tsk.rcv_nxt
      /\ tsk'.retrans = FALSE /\ tsk'.state = tsk.state
  BY <1>1 DEF Sockets
<1>3. ValuesOK' /\ app.pc \notin {"connect", "hash"}
  BY <1>1, <1>2, ActedOn
<1>4. ListOK'
  BY <1>1, <1>2, <1>3, DeleteList DEF ListOK, Over
<1>5. ThreadsOK'
  BY <1>1, <1>2, <1>3 DEF ThreadsOK, Idle, AtConnect
<1> QED
  BY <1>3, <1>4, <1>5 DEF LInv

(* Branches that do not look at the timers.                                *)
LEMMA AcksLists ==
  ASSUME RetransAssumption, RInv, LInv, InEstablished \/ InWait \/ InClosed PROVE LInv'
<1> USE Known
<1>1. /\ net.pc = "act" /\ net # Idle /\ net' = Idle /\ UNCHANGED <<timer_list, app, in, peer>>
      /\ \/ UNCHANGED tsk
         \/ /\ tsk' = [tsk EXCEPT !.state = "CLOSE_WAIT"]
            /\ tsk.state \in {"ESTABLISHED", "FIN_WAIT_1"}
  BY DEF InEstablished, InWait, InClosed, In, ToState, ThreadsOK, Idle
<1>2. /\ tsk'.rcv_nxt = tsk.rcv_nxt
      /\ tsk'.retrans = tsk.retrans
      /\ \/ tsk'.state = tsk.state
         \/ tsk'.state = "CLOSE_WAIT" /\ tsk.state \in {"ESTABLISHED", "FIN_WAIT_1"}
  BY <1>1 DEF Sockets
<1>3. ValuesOK' /\ app.pc \notin {"connect", "hash"}
  BY <1>1, <1>2, ActedOn
<1>4. ListOK'
  BY <1>1, <1>2, <1>3 DEF ListOK, Over
<1>5. ThreadsOK'
  BY <1>1, <1>2, <1>3 DEF ThreadsOK, Idle, AtConnect
<1> QED
  BY <1>3, <1>4, <1>5 DEF LInv

(* The timer that has been deleted once may be deleted again, and the list *)
(* has one timer or none all the same.                                     *)
LEMMA InFinWait1Lists == ASSUME RetransAssumption, RInv, LInv, InFinWait1 PROVE LInv'
<1> USE Known
<1>1. /\ net.pc = "act" /\ net # Idle /\ net' = Idle /\ tsk.state = "FIN_WAIT_1"
      /\ UNCHANGED <<app, in, peer>>
  BY DEF InFinWait1, In, ThreadsOK, Idle
<1>2. tsk'.rcv_nxt = tsk.rcv_nxt
  BY DEF InFinWait1, Sockets
<1>3. ValuesOK' /\ app.pc = "done"
  <2>1. ValuesOK' /\ app.pc \notin {"connect", "hash"}
    BY <1>1, <1>2, ActedOn
  <2> QED
    BY <1>1, <2>1 DEF ThreadsOK, Calls
<1>4. CASE /\ timer_list' = Unlinked(timer_list)
           /\ tsk' = [tsk EXCEPT !.state = "FIN_WAIT_2", !.retrans = FALSE]
  <2>1. tsk'.state = "FIN_WAIT_2" /\ tsk'.retrans = FALSE
    BY <1>4 DEF Sockets
  <2>2. ListOK'
    BY <1>1, <1>3, <1>4, <2>1, DeleteList DEF ListOK, Over
  <2>3. ThreadsOK'
    BY <1>1, <1>3, <2>1 DEF ThreadsOK, Idle, AtConnect
  <2> QED
    BY <1>3, <2>2, <2>3 DEF LInv
<1>5. CASE /\ timer_list' = Unlinked(TimeWaitSet(timer_list))
           /\ tsk' = [tsk EXCEPT !.state = "TIME_WAIT", !.retrans = FALSE]
  <2>1. tsk'.state = "TIME_WAIT" /\ tsk'.retrans = FALSE
    BY <1>5 DEF Sockets
  <2>2. /\ timer_list \in Lists(Nodes, Pointers) /\ PointsBack(timer_list, "retrans")
        /\ Holds(timer_list, "retrans") \/ Holds(timer_list, "head")
    BY <1>1, <1>3 DEF ListOK, Over
  <2>3. /\ timer_list' \in Lists(Nodes, Pointers)
        /\ Holds(timer_list', "head") \/ Holds(timer_list', "timewait")
    <3>1. CASE Holds(timer_list, "retrans")
      BY <1>5, <2>2, <3>1, Replaced
    <3>2. CASE Holds(timer_list, "head")
      <4> DEFINE K == TimeWaitSet(timer_list)
      <4>1. K \in Lists(Nodes, Pointers) /\ Holds(K, "timewait") /\ PointsBack(K, "retrans")
        BY <2>2, <3>2, AddedAlone DEF TimeWaitSet, Nodes
      <4> HIDE DEF K
      <4>2. Unlinked(K) \in Lists(Nodes, Pointers) /\ Holds(Unlinked(K), "head")
        BY <4>1, DeletedAlone DEF Unlinked, Nodes
      <4> QED
        BY <1>5, <4>2 DEF K
    <3> QED
      BY <2>2, <3>1, <3>2
  <2>4. ListOK'
    BY <1>1, <1>3, <2>1, <2>3 DEF ListOK, Over
  <2>5. ThreadsOK'
    BY <1>1, <1>3, <2>1 DEF ThreadsOK, Idle, AtConnect
  <2> QED
    BY <1>3, <2>4, <2>5 DEF LInv
<1>6. CASE UNCHANGED <<timer_list, tsk>>
  <2>1. ListOK'
    BY <1>1, <1>6 DEF ListOK, Over
  <2>2. ThreadsOK'
    BY <1>1, <1>3, <1>6 DEF ThreadsOK, Idle, AtConnect
  <2> QED
    BY <1>3, <2>1, <2>2 DEF LInv
<1> QED
  BY <1>4, <1>5, <1>6 DEF InFinWait1

LEMMA InFinWait2Lists == ASSUME RetransAssumption, RInv, LInv, InFinWait2 PROVE LInv'
<1> USE Known
<1>1. /\ net.pc = "act" /\ net # Idle /\ net' = Idle /\ tsk.state = "FIN_WAIT_2"
      /\ ~tsk.retrans /\ UNCHANGED <<app, in, peer>>
  BY DEF InFinWait2, In, ThreadsOK, Idle
<1>2. /\ tsk'.rcv_nxt = tsk.rcv_nxt
      /\ tsk'.retrans = tsk.retrans
      /\ \/ tsk'.state = "TIME_WAIT" /\ timer_list' = TimeWaitSet(timer_list)
         \/ tsk'.state = tsk.state /\ timer_list' = timer_list
  BY DEF InFinWait2, ToState, Sockets
<1>3. ValuesOK' /\ app.pc = "done"
  <2>1. ValuesOK' /\ app.pc \notin {"connect", "hash"}
    BY <1>1, <1>2, ActedOn
  <2> QED
    BY <1>1, <2>1 DEF ThreadsOK, Calls
<1>4. ListOK'
  <2>1. timer_list \in Lists(Nodes, Pointers) /\ Holds(timer_list, "head")
    BY <1>1, <1>3 DEF ListOK, Over
  <2>2. TimeWaitSet(timer_list) \in Lists(Nodes, Pointers) /\ Holds(TimeWaitSet(timer_list), "timewait")
    BY <2>1, AddedAlone DEF TimeWaitSet, Nodes
  <2> QED
    BY <1>1, <1>2, <1>3, <2>2 DEF ListOK, Over
<1>5. ThreadsOK'
  BY <1>1, <1>2, <1>3 DEF ThreadsOK, Idle, AtConnect
<1> QED
  BY <1>3, <1>4, <1>5 DEF LInv

LEMMA InLastAckLists == ASSUME RetransAssumption, RInv, LInv, InLastAck PROVE LInv'
<1> USE Known
<1>1. /\ net.pc = "act" /\ net # Idle /\ net' = Idle /\ tsk.state = "LAST_ACK"
      /\ timer_list' = Unlinked(timer_list) /\ UNCHANGED <<app, in, peer>>
  BY DEF InLastAck, In, ThreadsOK, Idle
<1>2. /\ tsk'.rcv_nxt = tsk.rcv_nxt
      /\ tsk'.retrans = FALSE /\ tsk'.state = "CLOSED"
  BY DEF InLastAck, Unhashed, Sockets
<1>3. ValuesOK' /\ app.pc = "done"
  <2>1. ValuesOK' /\ app.pc \notin {"connect", "hash"}
    BY <1>1, <1>2, ActedOn
  <2> QED
    BY <1>1, <2>1 DEF ThreadsOK, Calls
<1>4. ListOK'
  BY <1>1, <1>2, <1>3, DeleteList DEF ListOK, Over
<1>5. ThreadsOK'
  BY <1>1, <1>2, <1>3 DEF ThreadsOK, Idle, AtConnect
<1> QED
  BY <1>3, <1>4, <1>5 DEF LInv

(* A timer that expires is in the list.                                    *)
LEMMA ExpiresLists ==
  ASSUME RetransAssumption, RInv, LInv, RetransExpires \/ TimeWaitExpires
  PROVE  LInv'
<1> USE Known
<1>1. CASE RetransExpires
  BY <1>1 DEF RetransExpires, LInv, ValuesOK, ListOK, ThreadsOK, Over,
     AtConnect
<1>2. CASE TimeWaitExpires
  <2>1. /\ "timewait" \in Timers /\ timer_list' = list_delete_entry(timer_list, "timewait")
        /\ tsk' = [Unhashed(tsk) EXCEPT !.state = "CLOSED"]
        /\ UNCHANGED <<app, net, in, peer>>
    BY <1>2 DEF TimeWaitExpires
  <2>2. /\ tsk'.rcv_nxt = tsk.rcv_nxt
        /\ tsk'.state = "CLOSED" /\ tsk'.retrans = tsk.retrans
    BY <2>1 DEF Unhashed, Sockets
  <2>3. timer_list \in Lists(Nodes, Pointers)
    BY DEF ListOK
  <2>4. ~Holds(timer_list, "head") /\ ~Holds(timer_list, "retrans")
    BY <2>1, <2>3, WalkOne DEF Timers, Nodes
  <2>5. Over /\ Holds(timer_list, "timewait") /\ ~tsk.retrans
    BY <2>4 DEF ListOK
  <2>6. timer_list' \in Lists(Nodes, Pointers) /\ Holds(timer_list', "head")
    BY <2>1, <2>3, <2>5, DeletedAlone DEF Nodes
  <2>7. app.pc = "done"
    BY <2>5 DEF Over, ThreadsOK, CallOK, Calls
  <2>8. ValuesOK'
    BY <2>1, <2>2 DEF ValuesOK
  <2>9. ListOK'
    BY <2>1, <2>2, <2>5, <2>6, <2>7 DEF ListOK, Over
  <2>10. ThreadsOK'
    BY <2>1, <2>2, <2>5, <2>7 DEF ThreadsOK, Over, AtConnect
  <2> QED
    BY <2>8, <2>9, <2>10 DEF LInv
<1> QED
  BY <1>1, <1>2

(* The peer and the link.                                                  *)
LEMMA JoinedBelow ==
  ASSUME NEW q \in Seq(Answers), NEW r \in Answers, r.seq_end < Mod,
         \A i \in 1 .. Len(q) : q[i].seq_end < Mod
  PROVE  \A i \in 1 .. Len(Append(q, r)) : Append(q, r)[i].seq_end < Mod
<1>1. Len(Append(q, r)) = Len(q) + 1 /\ Len(q) \in Nat
  OBVIOUS
<1>2. \A i \in 1 .. Len(q) : Append(q, r)[i] = q[i]
  OBVIOUS
<1>3. Append(q, r)[Len(q) + 1] = r
  OBVIOUS
<1> QED
  BY <1>1, <1>2, <1>3

LEMMA LinkLists ==
  ASSUME RetransAssumption, RInv, LInv, UNCHANGED <<tsk, timer_list, app, net>>,
         peer' \in Peers,
         peer'.state # "listen" => peer'.nxt < Mod,
         \/ in' = in
         \/ in # <<>> /\ in' = Tail(in)
         \/ \E r \in Answers : /\ r.seq_end = peer'.nxt /\ peer'.state # "listen"
                               /\ in' = Append(in, r) \/ (in = <<>> /\ in' = <<r>>)
  PROVE  LInv'
<1> USE Known
<1>1. \A i \in 1 .. Len(in') : in'[i].seq_end < Mod
  <2>1. CASE in' = in
    BY <2>1 DEF ValuesOK
  <2>2. CASE in # <<>> /\ in' = Tail(in)
    BY <2>2, TailBelow DEF ValuesOK
  <2>3. CASE \E r \in Answers : /\ r.seq_end = peer'.nxt /\ peer'.state # "listen"
                                /\ in' = Append(in, r) \/ (in = <<>> /\ in' = <<r>>)
    <3>1. PICK r \in Answers : /\ r.seq_end < Mod
                               /\ in' = Append(in, r) \/ (in = <<>> /\ in' = <<r>>)
      BY <2>3
    <3>2. CASE in' = Append(in, r)
      BY <3>1, <3>2, JoinedBelow DEF ValuesOK
    <3>3. CASE in' = <<r>>
      BY <3>1, <3>3
    <3> QED
      BY <3>1, <3>2, <3>3
  <2> QED
    BY <2>1, <2>2, <2>3
<1>2. ValuesOK'
  BY <1>1 DEF ValuesOK
<1>3. ListOK' /\ ThreadsOK'
  BY DEF ListOK, ThreadsOK, Over, AtConnect
<1> QED
  BY <1>2, <1>3 DEF LInv

LEMMA PeerReceiveLists == ASSUME RetransAssumption, RInv, LInv, PeerReceive PROVE LInv'
<1> USE Known
<1>1. UNCHANGED <<tsk, timer_list, app, net>>
  BY DEF PeerReceive
<1>2. RInv'
  BY PeerReceiveKeeps
<1>3. peer' \in Peers /\ in' \in Seq(Answers)
  BY <1>2 DEF RInv, Shape
<1>4. CASE UNCHANGED <<peer, in>>
  BY <1>1, <1>4, LinkLists DEF ValuesOK
<1>5. CASE ~UNCHANGED <<peer, in>>
  <2> DEFINE p == Head(out)
             opens == peer.state = "listen"
             got(n) == IF p.kind = "ack" THEN peer.got
                       ELSE peer.got \cup {Plus(p.seq, i) : i \in 0 .. n - 1}
  <2>1. \E n \in 1 .. Size(p.kind) :
          /\ peer' = [peer EXCEPT
                        !.rnxt = Advanced(@, got(n)), !.got = got(n),
                        !.nxt = IF opens THEN Plus(@, 1) ELSE @,
                        !.state = IF opens THEN "synrecv"
                                  ELSE IF @ = "synrecv" THEN "open"
                                  ELSE IF @ = "lastack" /\ p.ack = peer.nxt THEN "closed"
                                  ELSE @]
          /\ in' = CASE p.kind = "syn" -> Append(in, Reply(peer', "synack"))
                     [] p.kind \in {"data", "fin"} -> Append(in, Reply(peer', "ack"))
                     [] OTHER -> in
    BY <1>5 DEF PeerReceive
  <2>2. peer'.nxt = (IF opens THEN Plus(peer.nxt, 1) ELSE peer.nxt) /\ peer'.state # "listen"
    BY <2>1 DEF Peers
  <2>3. peer'.nxt < Mod
    BY <2>2, PlusBelow DEF ValuesOK, Peers
  <2>4. \/ in' = in
        \/ \E k \in {"synack", "ack"} : in' = Append(in, Reply(peer', k))
    BY <2>1
  <2>5. \A k \in {"synack", "ack"} : /\ Reply(peer', k) \in Answers
                                     /\ Reply(peer', k).seq_end = peer'.nxt
    BY <1>3, Widths DEF Reply, Answers, Peers
  <2> QED
    BY <1>1, <1>3, <2>2, <2>3, <2>4, <2>5, LinkLists
<1> QED
  BY <1>4, <1>5

LEMMA PeerSendsLists ==
  ASSUME RetransAssumption, RInv, LInv, PeerClose \/ PeerRepeat \/ Lose
  PROVE  LInv'
<1> USE Known
<1>1. UNCHANGED <<tsk, timer_list, app, net>>
  BY DEF PeerClose, PeerRepeat, Lose
<1>2. CASE PeerClose
  <2>1. peer' \in Peers
    BY <1>2, PeerCloseKeeps, RetransAssumption DEF RInv, Shape
  <2>2. peer'.nxt = Plus(peer.nxt, 1) /\ peer'.state = "lastack"
    BY <1>2 DEF PeerClose, Peers
  <2>3. peer'.nxt < Mod
    BY <2>2, PlusBelow DEF Peers
  <2>4. Reply(peer', "finack") \in Answers /\ Reply(peer', "finack").seq_end = peer'.nxt
    BY <2>1, Widths DEF Reply, Answers, Peers
  <2>5. in' = Append(in, Reply(peer', "finack"))
    BY <1>2 DEF PeerClose
  <2> QED
    BY <1>1, <2>1, <2>2, <2>3, <2>4, <2>5, LinkLists
<1>3. CASE PeerRepeat
  <2> DEFINE r == Reply(peer, IF peer.state = "synrecv" THEN "synack" ELSE "finack")
  <2>1. peer' = peer /\ peer.state # "listen" /\ in = <<>> /\ in' = <<r>>
    BY <1>3 DEF PeerRepeat
  <2>2. r \in Answers /\ r.seq_end = peer.nxt
    BY Widths DEF Reply, Answers, Peers
  <2> HIDE DEF r
  <2> QED
    BY <1>1, <2>1, <2>2, LinkLists DEF ValuesOK
<1>4. CASE Lose
  <2>1. peer' = peer /\ (in' = in \/ (in # <<>> /\ in' = Tail(in)))
    BY <1>4 DEF Lose
  <2> QED
    BY <1>1, <2>1, LinkLists DEF ValuesOK
<1> QED
  BY <1>2, <1>3, <1>4

LEMMA ListStep == ASSUME RetransAssumption, RInv, LInv, [Next]_vars PROVE LInv'
<1>1. CASE App \/ Spurious
  BY <1>1, ConnectLists, BuildLists, AppLists DEF App
<1>2. CASE Net
  BY <1>2, ReceiveLists, ClearEntryLists, InSynSentLists, DeleteTimerLists, AcksLists, InFinWait1Lists,
     InFinWait2Lists, InLastAckLists DEF Net
<1>3. CASE UNCHANGED vars
  BY <1>3 DEF vars, LInv, ValuesOK, ListOK, ThreadsOK, Over, AtConnect
<1> QED
  BY <1>1, <1>2, <1>3, ExpiresLists, PeerReceiveLists, PeerSendsLists DEF Next

(* The invariant holds in every reachable state.                           *)
THEOREM ListInvariant == Spec => []LInv
<1>1. Init => LInv
  BY ListInit, RetransAssumption
<1>2. RInv /\ LInv /\ [Next]_vars => LInv'
  BY ListStep, RetransAssumption
<1> QED
  BY <1>1, <1>2, RetransInvariant, PTL DEF Spec

(* The type invariant: all numbers fit their width, the send buffer leads  *)
(* from node to node or ends in a null pointer, and the timer list can be  *)
(* walked in both ways at any time.                                        *)
THEOREM TypeCorrect == Spec => []TypeOK
<1>1. RInv /\ LInv => TypeOK
  <2> SUFFICES ASSUME RInv, LInv PROVE TypeOK
    OBVIOUS
  <2> USE Known
  <2>1. /\ tsk.state \in States /\ tsk.una \in Nat /\ tsk.nxt \in Nat /\ tsk.rcv_nxt \in Nat
        /\ tsk.snd_wnd \in Nat /\ peer.rnxt \in Nat
    BY DEF Sockets, Peers
  <2>2. tsk.una <= tsk.nxt /\ tsk.nxt < Mod
    <3>1. tsk.una <= peer.rnxt /\ peer.rnxt <= Top /\ Top <= tsk.nxt /\ tsk.nxt <= Window + 2
          /\ Top \in Nat
      BY TopBounds, RetransAssumption
    <3> QED
      BY <2>1, <3>1, Widths, RetransAssumption
  <2>3. {tsk.una, tsk.nxt, tsk.rcv_nxt} \subseteq Seqs /\ tsk.snd_wnd \in 0 .. Window
    <3>1. Mod \in Nat /\ Window \in Nat
      BY Widths, RetransAssumption
    <3>2. tsk.rcv_nxt < Mod /\ tsk.snd_wnd <= Window
      BY DEF ValuesOK, CallOK
    <3> QED
      BY <2>1, <2>2, <3>1, <3>2 DEF Seqs
  <2>4. send_buf \in [next : [Entries -> Entries \cup {Null}],
                      prev : [Entries -> Entries \cup {Null}]]
    BY Typed DEF LinksOK, Buffers, Pointer
  <2>5. Ring(timer_list, Timers \cup {"head"})
    <3>1. PICK e \in Nodes : Holds(timer_list, e)
      BY DEF ListOK, Nodes
    <3>2. Timers \cup {"head"} = {e, "head"}
      BY <3>1, WalkOne DEF ListOK, Timers, Nodes
    <3> QED
      BY <3>1, <3>2 DEF Ring, Holds
  <2> QED
    BY <2>1, <2>3, <2>4, <2>5 DEF TypeOK
<1> QED
  BY <1>1, RetransInvariant, ListInvariant, PTL

(* The retransmission timer is in the list exactly when it is enabled,     *)
(* although tcp_delete_retrans_timer does not look whether it is           *)
(* (tcp_timer.c:64-67), and is called by the network thread while the      *)
(* application goes on sending.                                            *)
THEOREM FlagsAreRight == Spec => []EnabledIsLinked
<1>1. RInv /\ LInv => EnabledIsLinked
  <2> SUFFICES ASSUME RInv, LInv PROVE tsk.retrans <=> "retrans" \in Timers
    BY DEF EnabledIsLinked
  <2> USE Known
  <2>1. Holds(timer_list, "head") => Timers = {}
    BY WalkOne DEF ListOK, Timers, Nodes
  <2>2. Holds(timer_list, "retrans") => Timers = {"retrans"}
    BY WalkOne DEF ListOK, Timers, Nodes
  <2>3. Holds(timer_list, "timewait") => Timers = {"timewait"}
    BY WalkOne DEF ListOK, Timers, Nodes
  <2>4. tsk.retrans \in BOOLEAN
    BY DEF Sockets
  <2> QED
    BY <2>1, <2>2, <2>3, <2>4 DEF ListOK
<1> QED
  BY <1>1, RetransInvariant, ListInvariant, PTL
================================================================================
