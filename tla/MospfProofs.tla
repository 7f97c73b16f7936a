------------------------------ MODULE MospfProofs ------------------------------
(***************************************************************************)
(* What holds of the flooding and of the routes of 09-mospf in every       *)
(* network, whatever fails, restarts or is overtaken.                      *)
(*                                                                         *)
(* A router whose 16-bit counter was never set back has numbered all that  *)
(* anybody holds of it, or that is under way, below the number it uses     *)
(* next, and the last of these names its present neighbours (Numbered).    *)
(* So an LSU that is taken is newer than what it replaces, and the last    *)
(* one is replaced by none.                                                *)
(*                                                                         *)
(* Once the databases agree, the graph that each router makes is that of   *)
(* the links that work, as far as it reaches (GraphIs).  Its distances are *)
(* then true, the way back from a router that it reaches ends at a         *)
(* neighbour that is one hop nearer (FirstHopIs), and so every hop of a    *)
(* packet brings it nearer, though every router has computed its own.      *)
(***************************************************************************)
EXTENDS Mospf, FiniteSetTheorems, SequenceTheorems, WellFoundedInduction, TLAPS

Lsus == [rid : Router, seq : Nat, nbrs : SUBSET Router, ttl : 1 .. MaxTtl]

(* Entry or LSU e, when num are the next numbers, nb the neighbours of all *)
(* routers, and the counters of the routers in back were set back.         *)
Numbered(e, num, nb, back) ==
  e.rid \notin back =>
    /\ e.seq < num[e.rid]
    /\ e.seq = num[e.rid] - 1 => e.nbrs = nb[e.rid]

(* A database: one entry for a router, as stored by insertion in place. *)
DbGood(q, num, nb, back) ==
  /\ q \in Seq(Entries)
  /\ \A i, j \in 1 .. Len(q) : q[i].rid = q[j].rid => i = j
  /\ \A i \in 1 .. Len(q) : Numbered(q[i], num, nb, back)

(* What is under way in direction d. *)
WireGood(q, num, nb, back) ==
  /\ q \in Seq(Lsus)
  /\ \A i \in 1 .. Len(q) : Numbered(q[i], num, nb, back)

RoutersOK ==
  /\ nbr \in [Router -> SUBSET Router] /\ leftover \in [Router -> SUBSET Router]
  /\ \A r \in Router : leftover[r] \subseteq nbr[r]
  /\ sequence_num \in [Router -> Nat]
  /\ faults \in 0 .. Faults /\ reset \subseteq Router

DatabasesOK ==
  /\ mospf_db = [r \in Router |-> mospf_db[r]]
  /\ \A r \in Router : DbGood(mospf_db[r], sequence_num, nbr, reset)

LinksOK ==
  /\ wire = [d \in Direction |-> wire[d]]
  /\ \A d \in Direction :
       /\ WireGood(wire[d], sequence_num, nbr, reset)
       /\ wire[d] # << >> => Net(d[1], d[2]) \notin down

MInv == RoutersOK /\ DatabasesOK /\ LinksOK
--------------------------------------------------------------------------------
(* Numbers go on: a router's next number stays, and so do its neighbours,  *)
(* or it is one more, unless its counter is set back.                      *)
GoesOn(num, nb, back, num2, nb2, back2) ==
  /\ back \subseteq back2
  /\ \A o \in Router \ back2 :
       \/ num2[o] = num[o] /\ nb2[o] = nb[o]
       \/ num2[o] = num[o] + 1

LEMMA Same == ASSUME NEW num, NEW nb, NEW back PROVE GoesOn(num, nb, back, num, nb, back)
  BY DEF GoesOn

LEMMA NumberedKeeps ==
  ASSUME NEW e, e.rid \in Router, e.seq \in Nat,
         NEW num \in [Router -> Nat], NEW nb, NEW back, NEW num2, NEW nb2, NEW back2,
         GoesOn(num, nb, back, num2, nb2, back2), Numbered(e, num, nb, back)
  PROVE  Numbered(e, num2, nb2, back2)
<1> DEFINE o == e.rid
<1> SUFFICES ASSUME o \notin back2 PROVE /\ e.seq < num2[o]
                                         /\ e.seq = num2[o] - 1 => e.nbrs = nb2[o]
  BY DEF Numbered
<1>1. e.seq < num[o] /\ (e.seq = num[o] - 1 => e.nbrs = nb[o]) /\ num[o] \in Nat
  BY DEF GoesOn, Numbered
<1>2. (num2[o] = num[o] /\ nb2[o] = nb[o]) \/ num2[o] = num[o] + 1
  BY DEF GoesOn
<1> QED
  BY <1>1, <1>2

LEMMA DbKeeps ==
  ASSUME NEW q, NEW num \in [Router -> Nat], NEW nb, NEW back, NEW num2, NEW nb2, NEW back2,
         GoesOn(num, nb, back, num2, nb2, back2), DbGood(q, num, nb, back)
  PROVE  DbGood(q, num2, nb2, back2)
<1>1. ASSUME NEW i \in 1 .. Len(q) PROVE Numbered(q[i], num2, nb2, back2)
  <2>1. q[i] \in Entries /\ Numbered(q[i], num, nb, back)
    BY DEF DbGood
  <2>2. q[i].rid \in Router /\ q[i].seq \in Nat
    BY <2>1 DEF Entries
  <2> QED
    BY <2>1, <2>2, NumberedKeeps
<1> QED
  BY <1>1 DEF DbGood

LEMMA WireKeeps ==
  ASSUME NEW q, NEW num \in [Router -> Nat], NEW nb, NEW back, NEW num2, NEW nb2, NEW back2,
         GoesOn(num, nb, back, num2, nb2, back2), WireGood(q, num, nb, back)
  PROVE  WireGood(q, num2, nb2, back2)
<1>1. ASSUME NEW i \in 1 .. Len(q) PROVE Numbered(q[i], num2, nb2, back2)
  <2>1. q[i] \in Lsus /\ Numbered(q[i], num, nb, back)
    BY DEF WireGood
  <2>2. q[i].rid \in Router /\ q[i].seq \in Nat
    BY <2>1 DEF Lsus
  <2> QED
    BY <2>1, <2>2, NumberedKeeps
<1> QED
  BY <1>1 DEF WireGood
--------------------------------------------------------------------------------
(* Queues of LSUs.                                                         *)
LEMMA DirectionFacts ==
  /\ \A d \in Direction : d[1] \in Router /\ d[2] \in Router /\ d = <<d[1], d[2]>>
  /\ \A r, t : Up(r, t) <=> <<r, t>> \in Direction /\ Net(r, t) \notin down
  BY DEF Direction, Up

LEMMA EmptyGood == ASSUME NEW num, NEW nb, NEW back PROVE WireGood(<< >>, num, nb, back)
  BY DEF WireGood

LEMMA TailGood ==
  ASSUME NEW q, NEW num, NEW nb, NEW back, WireGood(q, num, nb, back), q # << >>
  PROVE  WireGood(Tail(q), num, nb, back)
<1>1. q \in Seq(Lsus) /\ \A i \in 1 .. Len(q) : Numbered(q[i], num, nb, back)
  BY DEF WireGood
<1>2. /\ Tail(q) \in Seq(Lsus) /\ Len(Tail(q)) = Len(q) - 1 /\ Len(q) \in Nat
      /\ \A i \in 1 .. Len(Tail(q)) : Tail(q)[i] = q[i + 1]
  BY <1>1
<1>3. \A i \in 1 .. Len(Tail(q)) : i + 1 \in 1 .. Len(q)
  BY <1>2
<1> QED
  BY <1>1, <1>2, <1>3 DEF WireGood

LEMMA AppendGood ==
  ASSUME NEW q, NEW num, NEW nb, NEW back, WireGood(q, num, nb, back),
         NEW m \in Lsus, Numbered(m, num, nb, back)
  PROVE  WireGood(Append(q, m), num, nb, back)
<1>1. q \in Seq(Lsus) /\ \A i \in 1 .. Len(q) : Numbered(q[i], num, nb, back)
  BY DEF WireGood
<1>2. /\ Append(q, m) \in Seq(Lsus) /\ Len(Append(q, m)) = Len(q) + 1 /\ Len(q) \in Nat
      /\ \A i \in 1 .. Len(q) : Append(q, m)[i] = q[i]
      /\ Append(q, m)[Len(q) + 1] = m
  BY <1>1
<1>3. \A i \in 1 .. Len(q) + 1 : i \in 1 .. Len(q) \/ i = Len(q) + 1
  BY <1>2
<1> QED
  BY <1>1, <1>2, <1>3 DEF WireGood

(* What is good on every link, where only links that work carry anything. *)
AllGood(w, num, nb, back) ==
  /\ w = [d \in Direction |-> w[d]]
  /\ \A d \in Direction :
       /\ WireGood(w[d], num, nb, back)
       /\ w[d] # << >> => Net(d[1], d[2]) \notin down

LEMMA AllKeep ==
  ASSUME NEW w, NEW num \in [Router -> Nat], NEW nb, NEW back, NEW num2, NEW nb2, NEW back2,
         GoesOn(num, nb, back, num2, nb2, back2), AllGood(w, num, nb, back)
  PROVE  AllGood(w, num2, nb2, back2)
  BY WireKeeps DEF AllGood

(* Copies of a good LSU leave every queue good. *)
LEMMA SentGood ==
  ASSUME NEW w, NEW num, NEW nb, NEW back, AllGood(w, num, nb, back),
         NEW r, NEW receivers, NEW m,
         receivers # {} => m \in Lsus /\ Numbered(m, num, nb, back)
  PROVE  AllGood(SentTo(w, r, receivers, m), num, nb, back)
<1> DEFINE v == SentTo(w, r, receivers, m)
<1>1. v = [d \in Direction |-> IF d[1] = r /\ d[2] \in receivers /\ Up(r, d[2])
                               THEN Append(w[d], m) ELSE w[d]]
  BY DEF SentTo
<1>2. ASSUME NEW d \in Direction
      PROVE  /\ WireGood(v[d], num, nb, back)
             /\ v[d] # << >> => Net(d[1], d[2]) \notin down
  <2>1. /\ WireGood(w[d], num, nb, back)
        /\ w[d] # << >> => Net(d[1], d[2]) \notin down
    BY DEF AllGood
  <2>2. CASE d[1] = r /\ d[2] \in receivers /\ Up(r, d[2])
    <3>1. v[d] = Append(w[d], m)
      BY <1>1, <2>2
    <3>2. WireGood(Append(w[d], m), num, nb, back)
      BY <2>1, <2>2, AppendGood
    <3>3. Net(d[1], d[2]) \notin down
      BY <2>2 DEF Up
    <3> QED
      BY <3>1, <3>2, <3>3
  <2>3. CASE ~(d[1] = r /\ d[2] \in receivers /\ Up(r, d[2]))
    <3>1. v[d] = w[d]
      BY <1>1, <2>3
    <3> QED
      BY <2>1, <3>1
  <2> QED
    BY <2>2, <2>3
<1>3. v = [d \in Direction |-> v[d]]
  BY <1>1
<1> HIDE DEF v
<1>4. AllGood(v, num, nb, back)
  BY <1>2, <1>3 DEF AllGood
<1> QED
  BY <1>4 DEF v

(* One packet of a queue has been handled. *)
LEMMA TakenGood ==
  ASSUME NEW w, NEW num, NEW nb, NEW back, AllGood(w, num, nb, back),
         NEW e \in Direction, w[e] # << >>
  PROVE  AllGood([w EXCEPT ![e] = Tail(@)], num, nb, back)
<1> DEFINE v == [w EXCEPT ![e] = Tail(@)]
<1>1. v = [d \in Direction |-> IF d = e THEN Tail(w[e]) ELSE w[d]]
  BY DEF AllGood
<1>2. ASSUME NEW d \in Direction
      PROVE  /\ WireGood(v[d], num, nb, back)
             /\ v[d] # << >> => Net(d[1], d[2]) \notin down
  <2>1. /\ WireGood(w[d], num, nb, back)
        /\ w[d] # << >> => Net(d[1], d[2]) \notin down
    BY DEF AllGood
  <2>2. CASE d = e
    <3>1. v[d] = Tail(w[e])
      BY <1>1, <2>2
    <3> QED
      BY <2>1, <2>2, <3>1, TailGood
  <2>3. CASE d # e
    <3>1. v[d] = w[d]
      BY <1>1, <2>3
    <3> QED
      BY <2>1, <3>1
  <2> QED
    BY <2>2, <2>3
<1>3. v = [d \in Direction |-> v[d]]
  BY <1>1
<1> HIDE DEF v
<1>4. AllGood(v, num, nb, back)
  BY <1>2, <1>3 DEF AllGood
<1> QED
  BY <1>4 DEF v
--------------------------------------------------------------------------------
(* Databases.                                                              *)
LEMMA StoredIs ==
  ASSUME NEW r \in Router, mospf_db[r] \in Seq(Entries), NEW m \in Lsus
  PROVE  LET q == mospf_db[r]
             p == Stored(r, m)
             P == Positions(r, m.rid)
         IN  /\ Len(q) \in Nat /\ DOMAIN q = 1 .. Len(q) /\ P \subseteq 1 .. Len(q)
             /\ p \in Seq(Entries)
             /\ P = {} => /\ Len(p) = Len(q) + 1 /\ p[Len(q) + 1] = Entry(m)
                          /\ \A i \in 1 .. Len(q) : p[i] = q[i]
             /\ P # {} => /\ Len(p) = Len(q)
                          /\ \A i \in 1 .. Len(q) : p[i] = IF i \in P THEN Entry(m) ELSE q[i]
<1> DEFINE q == mospf_db[r]
           p == Stored(r, m)
           P == Positions(r, m.rid)
<1>1. q \in Seq(Entries) /\ Len(q) \in Nat /\ DOMAIN q = 1 .. Len(q)
  OBVIOUS
<1>2. P \subseteq 1 .. Len(q)
  BY <1>1 DEF Positions
<1>3. Entry(m) \in Entries
  BY DEF Entry, Entries, Lsus
<1>4. CASE P = {}
  <2>1. p = Append(q, Entry(m))
    BY <1>4 DEF Stored
  <2> HIDE DEF q, p
  <2>2. /\ p \in Seq(Entries) /\ Len(p) = Len(q) + 1 /\ p[Len(q) + 1] = Entry(m)
        /\ \A i \in 1 .. Len(q) : p[i] = q[i]
    BY <1>1, <1>3, <2>1
  <2> HIDE DEF P
  <2> QED
    BY <1>1, <1>2, <1>4, <2>2 DEF q, p, P
<1>5. CASE P # {}
  <2>1. p = [i \in 1 .. Len(q) |-> IF i \in P THEN Entry(m) ELSE q[i]]
    BY <1>1, <1>5 DEF Stored
  <2>2. p \in [1 .. Len(q) -> Entries]
    <3> HIDE DEF q, p, P
    <3>1. \A i \in 1 .. Len(q) : q[i] \in Entries
      BY <1>1
    <3> QED
      BY <1>3, <2>1, <3>1
  <2>3. p \in Seq(Entries) /\ Len(p) = Len(q)
    <3> HIDE DEF q, p, P
    <3> QED
      BY <1>1, <2>2
  <2>4. \A i \in 1 .. Len(q) : p[i] = IF i \in P THEN Entry(m) ELSE q[i]
    BY <2>1
  <2> QED
    BY <1>1, <1>2, <1>5, <2>3, <2>4
<1> QED
  BY <1>4, <1>5

LEMMA StoredGood ==
  ASSUME NEW r \in Router, NEW num, NEW nb, NEW back, DbGood(mospf_db[r], num, nb, back),
         NEW m \in Lsus, Numbered(m, num, nb, back)
  PROVE  DbGood(Stored(r, m), num, nb, back)
<1> DEFINE q == mospf_db[r]
           p == Stored(r, m)
           P == Positions(r, m.rid)
<1>1. /\ q \in Seq(Entries)
      /\ \A i, j \in 1 .. Len(q) : q[i].rid = q[j].rid => i = j
      /\ \A i \in 1 .. Len(q) : Numbered(q[i], num, nb, back)
  BY DEF DbGood
<1>2. /\ Len(q) \in Nat /\ P \subseteq 1 .. Len(q) /\ p \in Seq(Entries)
      /\ P = {} => /\ Len(p) = Len(q) + 1 /\ p[Len(q) + 1] = Entry(m)
                   /\ \A i \in 1 .. Len(q) : p[i] = q[i]
      /\ P # {} => /\ Len(p) = Len(q)
                   /\ \A i \in 1 .. Len(q) : p[i] = IF i \in P THEN Entry(m) ELSE q[i]
  BY <1>1, StoredIs
<1>3. Entry(m).rid = m.rid /\ Numbered(Entry(m), num, nb, back)
  BY DEF Entry, Numbered
<1>4. \A i \in 1 .. Len(q) : i \in P <=> q[i].rid = m.rid
  BY <1>1 DEF Positions
<1> HIDE DEF q, p, P
<1>5. CASE P = {}
  <2>1. \A i \in 1 .. Len(p) : i \in 1 .. Len(q) \/ i = Len(q) + 1
    BY <1>2, <1>5
  <2>2. \A i \in 1 .. Len(p) : Numbered(p[i], num, nb, back)
    BY <1>1, <1>2, <1>3, <1>5, <2>1
  <2>3. \A i \in 1 .. Len(q) : p[i].rid = q[i].rid /\ p[i].rid # m.rid
    BY <1>2, <1>4, <1>5
  <2>4. p[Len(q) + 1].rid = m.rid
    BY <1>2, <1>3, <1>5
  <2>5. \A i, j \in 1 .. Len(p) : p[i].rid = p[j].rid => i = j
    BY <1>1, <2>1, <2>3, <2>4
  <2> QED
    BY <1>2, <2>2, <2>5 DEF DbGood, p
<1>6. CASE P # {}
  <2>1. \A i \in 1 .. Len(q) : Numbered(p[i], num, nb, back) /\ p[i].rid = q[i].rid
    BY <1>1, <1>2, <1>3, <1>4, <1>6
  <2> QED
    BY <1>1, <1>2, <1>6, <2>1 DEF DbGood, p
<1> QED
  BY <1>5, <1>6

LEMMA RemoveAtIs ==
  ASSUME NEW T, NEW q \in Seq(T), NEW i \in 1 .. Len(q)
  PROVE  /\ RemoveAt(q, i) \in Seq(T) /\ Len(RemoveAt(q, i)) = Len(q) - 1
         /\ \A k \in 1 .. Len(q) - 1 : RemoveAt(q, i)[k] = IF k < i THEN q[k] ELSE q[k + 1]
<1> DEFINE a == SubSeq(q, 1, i - 1)
           b == SubSeq(q, i + 1, Len(q))
<1>1. /\ a \in Seq(T) /\ Len(a) = i - 1 /\ \A k \in 1 .. i - 1 : a[k] = q[k]
  <2>1. \A k \in 1 .. i - 1 : k \in 1 .. Len(q)
    OBVIOUS
  <2> QED
    BY <2>1, SubSeqProperties
<1>2. /\ b \in Seq(T) /\ Len(b) = Len(q) - i
      /\ \A k \in 1 .. Len(q) - i : b[k] = q[k + i]
  <2>1. \A k \in i + 1 .. Len(q) : k \in 1 .. Len(q)
    OBVIOUS
  <2> QED
    BY <2>1, SubSeqProperties
<1>3. RemoveAt(q, i) = a \o b
  BY DEF RemoveAt
<1> DEFINE p == a \o b
           n == Len(q)
<1>4. n \in Nat /\ i \in 1 .. n
  OBVIOUS
<1> HIDE DEF a, b, n
<1>5. p \in Seq(T) /\ Len(p) = (i - 1) + (n - i)
  <2>1. a \in Seq(T) /\ b \in Seq(T) /\ Len(a) = i - 1 /\ Len(b) = n - i
    BY <1>1, <1>2 DEF n
  <2>2. p \in Seq(T) /\ Len(p) = Len(a) + Len(b)
    BY <2>1, ConcatProperties
  <2> HIDE DEF p
  <2> QED
    BY <2>1, <2>2
<1>6. \A k \in 1 .. (i - 1) + (n - i) : p[k] = IF k <= i - 1 THEN a[k] ELSE b[k - (i - 1)]
  <2>1. \A k \in 1 .. Len(a) + Len(b) : p[k] = IF k <= Len(a) THEN a[k] ELSE b[k - Len(a)]
    BY <1>1, <1>2
  <2>2. Len(a) = i - 1 /\ Len(b) = n - i
    BY <1>1, <1>2 DEF n
  <2> HIDE DEF p
  <2> QED
    BY <2>1, <2>2
<1> HIDE DEF p
<1>7. ASSUME NEW k \in 1 .. n - 1 PROVE p[k] = IF k < i THEN q[k] ELSE q[k + 1]
  <2>1. CASE k < i
    <3>1. k \in 1 .. (i - 1) + (n - i) /\ k \in 1 .. i - 1 /\ k <= i - 1
      BY <1>4, <2>1
    <3> QED
      BY <1>1, <1>6, <2>1, <3>1
  <2>2. CASE ~(k < i)
    <3>1. /\ k \in 1 .. (i - 1) + (n - i) /\ ~(k <= i - 1)
          /\ k - (i - 1) \in 1 .. n - i /\ (k - (i - 1)) + i = k + 1
      BY <1>4, <2>2
    <3>2. b[k - (i - 1)] = q[k + 1]
      BY <1>2, <3>1 DEF n
    <3> QED
      BY <1>6, <2>2, <3>1, <3>2
  <2> QED
    BY <2>1, <2>2
<1>8. Len(p) = n - 1
  BY <1>4, <1>5
<1> QED
  BY <1>3, <1>5, <1>7, <1>8 DEF p, n

LEMMA RemovedGood ==
  ASSUME NEW q, NEW num, NEW nb, NEW back, DbGood(q, num, nb, back), NEW i \in 1 .. Len(q)
  PROVE  DbGood(RemoveAt(q, i), num, nb, back)
<1> DEFINE p == RemoveAt(q, i)
           from(k) == IF k < i THEN k ELSE k + 1
<1>1. /\ q \in Seq(Entries) /\ Len(q) \in Nat
      /\ \A k, j \in 1 .. Len(q) : q[k].rid = q[j].rid => k = j
      /\ \A k \in 1 .. Len(q) : Numbered(q[k], num, nb, back)
  BY DEF DbGood
<1>2. /\ p \in Seq(Entries) /\ Len(p) = Len(q) - 1
      /\ \A k \in 1 .. Len(q) - 1 : p[k] = q[from(k)]
  BY <1>1, RemoveAtIs
<1>3. /\ \A k \in 1 .. Len(q) - 1 : from(k) \in 1 .. Len(q)
      /\ \A k, j \in 1 .. Len(q) - 1 : from(k) = from(j) => k = j
  BY <1>1
<1> HIDE DEF p, from
<1>a. \A k \in 1 .. Len(p) : Numbered(p[k], num, nb, back)
  BY <1>1, <1>2, <1>3
<1>b. ASSUME NEW k \in 1 .. Len(p), NEW j \in 1 .. Len(p), p[k].rid = p[j].rid PROVE k = j
  <2>1. q[from(k)].rid = q[from(j)].rid /\ from(k) \in 1 .. Len(q) /\ from(j) \in 1 .. Len(q)
    BY <1>b, <1>2, <1>3
  <2>2. from(k) = from(j)
    BY <1>1, <2>1
  <2> QED
    BY <1>2, <1>3, <2>2
<1>4. DbGood(p, num, nb, back)
  BY <1>2, <1>a, <1>b DEF DbGood
<1> QED
  BY <1>4 DEF p
--------------------------------------------------------------------------------
(* The steps.                                                              *)
LEMMA Unpack ==
  ASSUME MInv
  PROVE  /\ nbr \in [Router -> SUBSET Router] /\ leftover \in [Router -> SUBSET Router]
         /\ \A r \in Router : leftover[r] \subseteq nbr[r]
         /\ sequence_num \in [Router -> Nat]
         /\ faults \in 0 .. Faults /\ reset \subseteq Router
         /\ mospf_db = [r \in Router |-> mospf_db[r]]
         /\ \A r \in Router : DbGood(mospf_db[r], sequence_num, nbr, reset)
         /\ AllGood(wire, sequence_num, nbr, reset)
  BY DEF MInv, RoutersOK, DatabasesOK, LinksOK, AllGood

LEMMA Pack ==
  ASSUME nbr' \in [Router -> SUBSET Router], leftover' \in [Router -> SUBSET Router],
         \A r \in Router : leftover'[r] \subseteq nbr'[r],
         sequence_num' \in [Router -> Nat], faults' \in 0 .. Faults, reset' \subseteq Router,
         mospf_db' = [r \in Router |-> mospf_db'[r]],
         \A r \in Router : DbGood(mospf_db'[r], sequence_num', nbr', reset'),
         wire' = [d \in Direction |-> wire'[d]],
         \A d \in Direction : /\ WireGood(wire'[d], sequence_num', nbr', reset')
                              /\ wire'[d] # << >> => Net(d[1], d[2]) \notin down'
  PROVE  MInv'
<1>1. RoutersOK'
  BY DEF RoutersOK
<1>2. DatabasesOK'
  BY DEF DatabasesOK
<1>3. LinksOK'
  BY DEF LinksOK
<1> QED
  BY <1>1, <1>2, <1>3 DEF MInv

LEMMA MaxTtlType == MaxTtl \in 1 .. MaxTtl
<1>1. MaxTtl \in 1 .. 255
  BY MospfAssumption
<1> QED
  BY <1>1

(* An LSU of a router's own names the neighbours it has from now on, and   *)
(* takes the number that was next.                                         *)
LEMMA SendKeeps ==
  ASSUME MInv, NEW r \in Router, NEW nbrs \in SUBSET Router, NEW cost \in Nat,
         SendLsu(r, nbrs, cost), nbr' = [nbr EXCEPT ![r] = nbrs],
         leftover' \in [Router -> SUBSET Router],
         \A t \in Router : leftover'[t] \subseteq nbr'[t],
         mospf_db' = mospf_db, down' = down
  PROVE  /\ MInv'
         /\ \A o \in Router \ reset' : sequence_num'[o] = sequence_num[o] => nbr'[o] = nbr[o]
<1>1. /\ nbr \in [Router -> SUBSET Router]
      /\ sequence_num \in [Router -> Nat]
      /\ faults \in 0 .. Faults /\ reset \subseteq Router
      /\ mospf_db = [t \in Router |-> mospf_db[t]]
      /\ \A t \in Router : DbGood(mospf_db[t], sequence_num, nbr, reset)
      /\ AllGood(wire, sequence_num, nbr, reset)
  BY Unpack
<1> DEFINE m == Lsu(r, sequence_num[r], nbrs, MaxTtl)
<1>2. PICK wraps \in 0 .. 1 :
        /\ faults' = faults + cost + wraps /\ faults' <= Faults
        /\ sequence_num' = [sequence_num EXCEPT ![r] = IF wraps = 1 THEN 0 ELSE @ + 1]
        /\ reset' = IF wraps = 1 THEN reset \cup {r} ELSE reset
  BY DEF SendLsu
<1>3. wire' = SentTo(wire, r, nbrs, m)
  BY DEF SendLsu
<1>4. nbr'[r] = nbrs /\ \A t \in Router \ {r} : nbr'[t] = nbr[t] /\ sequence_num'[t] = sequence_num[t]
  BY <1>1, <1>2
<1>5. sequence_num'[r] = (IF wraps = 1 THEN 0 ELSE sequence_num[r] + 1)
  BY <1>1, <1>2
<1>6. /\ nbr' \in [Router -> SUBSET Router] /\ sequence_num' \in [Router -> Nat]
      /\ faults' \in 0 .. Faults /\ reset' \subseteq Router
  <2>1. sequence_num[r] + 1 \in Nat /\ sequence_num[r] \in Nat
    BY <1>1
  <2>2. faults' \in 0 .. Faults
    BY <1>1, <1>2, MospfAssumption
  <2> QED
    BY <1>1, <1>2, <2>1, <2>2
<1>7. GoesOn(sequence_num, nbr, reset, sequence_num', nbr', reset')
  <2>1. reset \subseteq reset' /\ (wraps = 1 => r \in reset')
    BY <1>2
  <2>2. ASSUME NEW o \in Router \ reset'
        PROVE  \/ sequence_num'[o] = sequence_num[o] /\ nbr'[o] = nbr[o]
               \/ sequence_num'[o] = sequence_num[o] + 1
    <3>1. CASE o = r
      BY <1>5, <2>1, <3>1
    <3>2. CASE o # r
      BY <1>4, <3>2
    <3> QED
      BY <3>1, <3>2
  <2> QED
    BY <2>1, <2>2 DEF GoesOn
<1>8. ASSUME NEW t \in Router PROVE DbGood(mospf_db'[t], sequence_num', nbr', reset')
  BY <1>1, <1>7, DbKeeps
<1>9. AllGood(wire', sequence_num', nbr', reset')
  <2>1. AllGood(wire, sequence_num', nbr', reset')
    BY <1>1, <1>7, AllKeep
  <2>2. m \in Lsus /\ Numbered(m, sequence_num', nbr', reset')
    <3>1. m.rid = r /\ m.seq = sequence_num[r] /\ m.nbrs = nbrs
      BY DEF Lsu
    <3>2. m \in Lsus
      <4>1. MaxTtl \in 1 .. MaxTtl
        BY MaxTtlType
      <4>2. sequence_num[r] \in Nat
        BY <1>1
      <4> QED
        BY <4>1, <4>2 DEF Lsu, Lsus
    <3>3. r \notin reset' => sequence_num'[r] = sequence_num[r] + 1 /\ sequence_num[r] \in Nat
      BY <1>1, <1>2, <1>5
    <3> HIDE DEF m
    <3>4. Numbered(m, sequence_num', nbr', reset')
      BY <1>4, <3>1, <3>3 DEF Numbered
    <3> QED
      BY <3>2, <3>4
  <2> HIDE DEF m
  <2> QED
    BY <1>3, <2>1, <2>2, SentGood
<1>10. mospf_db' = [t \in Router |-> mospf_db'[t]]
  BY <1>1
<1>11. /\ wire' = [d \in Direction |-> wire'[d]]
       /\ \A d \in Direction : /\ WireGood(wire'[d], sequence_num', nbr', reset')
                               /\ wire'[d] # << >> => Net(d[1], d[2]) \notin down'
  BY <1>9 DEF AllGood
<1>12. MInv'
  BY <1>6, <1>8, <1>10, <1>11, Pack
<1>13. ASSUME NEW o \in Router \ reset', sequence_num'[o] = sequence_num[o]
       PROVE  nbr'[o] = nbr[o]
  <2>1. CASE o = r
    <3>1. sequence_num'[o] = sequence_num[o] + 1 /\ sequence_num[o] \in Nat
      BY <1>1, <1>2, <1>5, <2>1
    <3> QED
      BY <1>13, <3>1
  <2>2. CASE o # r
    BY <1>4, <2>2
  <2> QED
    BY <2>1, <2>2
<1> QED
  BY <1>12, <1>13

(* What LastStays says of one step. *)
LastStep ==
  \A r, o \in Router :
    HoldsLast(r, o) /\ o \notin reset' /\ sequence_num'[o] = sequence_num[o]
    => Positions(r, o)' = {} \/ HoldsLast(r, o)'

(* It is enough to look at what happens to the entries of a router that    *)
(* keeps its number and its neighbours.                                    *)
LEMMA SameDb ==
  ASSUME mospf_db' = mospf_db,
         \A o \in Router \ reset' : sequence_num'[o] = sequence_num[o] => nbr'[o] = nbr[o]
  PROVE  LastStep
<1> SUFFICES ASSUME NEW r \in Router, NEW o \in Router, HoldsLast(r, o), o \notin reset',
                    sequence_num'[o] = sequence_num[o]
             PROVE  HoldsLast(r, o)'
  BY DEF LastStep
<1>1. nbr'[o] = nbr[o]
  OBVIOUS
<1>2. PICK i \in Positions(r, o) :
        mospf_db[r][i].seq = sequence_num[o] - 1 /\ mospf_db[r][i].nbrs = nbr[o]
  BY DEF HoldsLast
<1>3. i \in Positions(r, o)'
  BY <1>2 DEF Positions
<1> QED
  BY <1>1, <1>2, <1>3 DEF HoldsLast

LEMMA HelloKnownKeeps ==
  ASSUME MInv, NEW r \in Router, NEW t \in Router, HelloKnown(r, t)
  PROVE  MInv' /\ LastStep
<1>1. UNCHANGED <<nbr, sequence_num, mospf_db, wire, down, faults, reset>>
  BY DEF HelloKnown
<1>2. /\ leftover' \in [Router -> SUBSET Router]
      /\ \A u \in Router : leftover'[u] \subseteq nbr[u]
  BY Unpack DEF HelloKnown
<1>3. MInv'
  BY <1>1, <1>2 DEF MInv, RoutersOK, DatabasesOK, LinksOK
<1> QED
  BY <1>1, <1>3, SameDb

LEMMA HelloNewKeeps ==
  ASSUME MInv, NEW r \in Router, NEW t \in Router, HelloNew(r, t)
  PROVE  MInv' /\ LastStep
<1> DEFINE nbrs == nbr[r] \cup {t}
<1>1. /\ nbr \in [Router -> SUBSET Router] /\ leftover \in [Router -> SUBSET Router]
      /\ \A u \in Router : leftover[u] \subseteq nbr[u]
  BY Unpack
<1>2. nbr' = [nbr EXCEPT ![r] = nbrs] /\ mospf_db' = mospf_db /\ down' = down
  BY DEF HelloNew
<1>3. PICK high \in {{}, {t}} :
        leftover' = [leftover EXCEPT ![r] = @ \cup high] /\ SendLsu(r, nbr'[r], Cardinality(high))
  BY DEF HelloNew
<1>4. nbr'[r] = nbrs /\ nbrs \in SUBSET Router
  BY <1>1, <1>2
<1>5. /\ leftover' \in [Router -> SUBSET Router]
      /\ \A u \in Router : leftover'[u] \subseteq nbr'[u]
  BY <1>1, <1>2, <1>3
<1>6. Cardinality(high) \in Nat
  <2>1. Cardinality({}) \in Nat /\ Cardinality({t}) \in Nat
    <3>1. Cardinality({}) = 0 /\ Cardinality({t}) = 1
      BY FS_EmptySet, FS_Singleton, Zenon
    <3> QED
      BY <3>1
  <2>2. high = {} \/ high = {t}
    BY <1>3
  <2> QED
    BY <2>1, <2>2, Zenon
<1>7. SendLsu(r, nbrs, Cardinality(high))
  BY <1>3, <1>4
<1> HIDE DEF nbrs
<1> QED
  BY <1>2, <1>4, <1>5, <1>6, <1>7, SendKeeps, SameDb

LEMMA NbrTimeoutKeeps ==
  ASSUME MInv, NEW r \in Router, NEW t \in Router, NbrTimeout(r, t)
  PROVE  MInv' /\ LastStep
<1> DEFINE nbrs == nbr[r] \ {t}
<1>1. /\ nbr \in [Router -> SUBSET Router] /\ leftover \in [Router -> SUBSET Router]
      /\ \A u \in Router : leftover[u] \subseteq nbr[u]
  BY Unpack
<1>2. /\ nbr' = [nbr EXCEPT ![r] = nbrs] /\ mospf_db' = mospf_db /\ down' = down
      /\ leftover' = [leftover EXCEPT ![r] = @ \ {t}] /\ SendLsu(r, nbr'[r], 0)
  BY DEF NbrTimeout
<1>3. nbr'[r] = nbrs /\ nbrs \in SUBSET Router
  BY <1>1, <1>2
<1>4. /\ leftover' \in [Router -> SUBSET Router]
      /\ \A u \in Router : leftover'[u] \subseteq nbr'[u]
  BY <1>1, <1>2
<1>5. SendLsu(r, nbrs, 0)
  BY <1>2, <1>3
<1> HIDE DEF nbrs
<1> QED
  BY <1>2, <1>3, <1>4, <1>5, SendKeeps, SameDb

LEMMA PeriodicKeeps ==
  ASSUME MInv, NEW r \in Router, PeriodicLsu(r)
  PROVE  MInv' /\ LastStep
<1>1. /\ nbr \in [Router -> SUBSET Router] /\ leftover \in [Router -> SUBSET Router]
      /\ \A u \in Router : leftover[u] \subseteq nbr[u]
  BY Unpack
<1>2. /\ nbr' = nbr /\ leftover' = leftover /\ mospf_db' = mospf_db /\ down' = down
      /\ SendLsu(r, nbr[r], 0)
  BY DEF PeriodicLsu
<1>3. nbr' = [nbr EXCEPT ![r] = nbr[r]] /\ nbr[r] \in SUBSET Router
  BY <1>1, <1>2
<1> QED
  BY <1>1, <1>2, <1>3, SendKeeps, SameDb

(* The packet thread.                                                      *)
LEMMA HeadFacts ==
  ASSUME MInv, NEW d \in Direction, wire[d] # << >>
  PROVE  /\ Head(wire[d]) \in Lsus
         /\ Numbered(Head(wire[d]), sequence_num, nbr, reset)
         /\ Net(d[1], d[2]) \notin down
<1>1. WireGood(wire[d], sequence_num, nbr, reset) /\ Net(d[1], d[2]) \notin down
  BY DEF MInv, LinksOK
<1> DEFINE q == wire[d]
<1>2. q \in Seq(Lsus) /\ q # << >> /\ \A i \in 1 .. Len(q) : Numbered(q[i], sequence_num, nbr, reset)
  BY <1>1 DEF WireGood
<1> HIDE DEF q
<1>3. Head(q) = q[1] /\ 1 \in 1 .. Len(q) /\ q[1] \in Lsus
  BY <1>2
<1>4. Head(q) \in Lsus /\ Numbered(Head(q), sequence_num, nbr, reset)
  BY <1>2, <1>3
<1> QED
  BY <1>1, <1>4 DEF q

LEMMA DropKeeps ==
  ASSUME MInv, NEW r \in Router, NEW s \in Router, <<s, r>> \in Direction,
         wire[<<s, r>>] # << >>, NEW m, DropLsu(r, s, m)
  PROVE  MInv' /\ LastStep
<1>1. /\ UNCHANGED <<nbr, leftover, sequence_num, mospf_db, down, faults, reset>>
      /\ wire' = [wire EXCEPT ![<<s, r>>] = Tail(@)]
  BY DEF DropLsu
<1>2. AllGood(wire', sequence_num, nbr, reset)
  BY <1>1, Unpack, TakenGood
<1>3. MInv'
  <2>1. RoutersOK' /\ DatabasesOK'
    BY <1>1 DEF MInv, RoutersOK, DatabasesOK
  <2>2. LinksOK'
    BY <1>1, <1>2 DEF AllGood, LinksOK
  <2> QED
    BY <2>1, <2>2 DEF MInv
<1> QED
  BY <1>1, <1>3, SameDb

LEMMA StoreKeeps ==
  ASSUME MInv, NEW r \in Router, NEW s \in Router, <<s, r>> \in Direction,
         wire[<<s, r>>] # << >>,
         NEW m \in Lsus, Numbered(m, sequence_num, nbr, reset), StoreLsu(r, s, m)
  PROVE  MInv' /\ LastStep
<1> DEFINE w == [wire EXCEPT ![<<s, r>>] = Tail(@)]
           forwarded == [m EXCEPT !.ttl = @ - 1]
<1>1. /\ sequence_num \in [Router -> Nat]
      /\ mospf_db = [t \in Router |-> mospf_db[t]]
      /\ \A t \in Router : DbGood(mospf_db[t], sequence_num, nbr, reset)
      /\ AllGood(wire, sequence_num, nbr, reset)
  BY Unpack
<1>2. m \in Lsus /\ Numbered(m, sequence_num, nbr, reset)
  OBVIOUS
<1>3. /\ UNCHANGED <<nbr, leftover, sequence_num, down, faults, reset>>
      /\ mospf_db' = [mospf_db EXCEPT ![r] = Stored(r, m)]
      /\ wire' = SentTo(w, r, ForwardTo(r, s, m), forwarded)
      /\ ~IsOld(r, m)
  BY DEF StoreLsu
<1>4. AllGood(w, sequence_num, nbr, reset)
  BY <1>1, TakenGood
<1>5. ForwardTo(r, s, m) # {} =>
        forwarded \in Lsus /\ Numbered(forwarded, sequence_num, nbr, reset)
  <2> SUFFICES ASSUME ForwardTo(r, s, m) # {}
               PROVE  forwarded \in Lsus /\ Numbered(forwarded, sequence_num, nbr, reset)
    OBVIOUS
  <2>1. m.ttl - 1 > 0
    BY DEF ForwardTo
  <2>2. m.ttl - 1 \in 1 .. MaxTtl
    <3>1. m.ttl \in 1 .. MaxTtl /\ MaxTtl \in Nat
      BY <1>2, MospfAssumption DEF Lsus
    <3> QED
      BY <2>1, <3>1
  <2>3. forwarded \in Lsus /\ forwarded.rid = m.rid /\ forwarded.seq = m.seq /\ forwarded.nbrs = m.nbrs
    BY <1>2, <2>2 DEF Lsus
  <2> HIDE DEF forwarded
  <2> QED
    BY <1>2, <2>3 DEF Numbered
<1> HIDE DEF w, forwarded
<1>6. AllGood(wire', sequence_num, nbr, reset)
  BY <1>3, <1>4, <1>5, SentGood
<1>7. mospf_db'[r] = Stored(r, m) /\ \A t \in Router \ {r} : mospf_db'[t] = mospf_db[t]
  BY <1>1, <1>3
<1>8. ASSUME NEW t \in Router PROVE DbGood(mospf_db'[t], sequence_num, nbr, reset)
  <2>1. CASE t = r
    BY <1>1, <1>2, <1>7, <2>1, StoredGood
  <2>2. CASE t # r
    BY <1>1, <1>7, <2>2
  <2> QED
    BY <2>1, <2>2
<1>9. MInv'
  <2>1. RoutersOK'
    BY <1>3 DEF MInv, RoutersOK
  <2>2. DatabasesOK'
    <3>1. mospf_db' = [t \in Router |-> mospf_db'[t]]
      BY <1>1, <1>3
    <3> QED
      BY <1>3, <1>8, <3>1 DEF DatabasesOK
  <2>3. LinksOK'
    BY <1>3, <1>6 DEF AllGood, LinksOK
  <2> QED
    BY <2>1, <2>2, <2>3 DEF MInv
<1>10. ASSUME NEW t \in Router, NEW o \in Router, HoldsLast(t, o), o \notin reset'
       PROVE  HoldsLast(t, o)'
  <2>1. PICK i \in Positions(t, o) :
          mospf_db[t][i].seq = sequence_num[o] - 1 /\ mospf_db[t][i].nbrs = nbr[o]
    BY <1>10 DEF HoldsLast
  <2>2. CASE t # r
    <3>1. mospf_db'[t] = mospf_db[t]
      BY <1>7, <2>2
    <3>2. i \in Positions(t, o)'
      BY <2>1, <3>1 DEF Positions
    <3> QED
      BY <1>3, <2>1, <3>1, <3>2 DEF HoldsLast
  <2>3. CASE t = r
    <3> DEFINE q == mospf_db[r]
               p == Stored(r, m)
               P == Positions(r, m.rid)
    <3>1. q \in Seq(Entries)
      BY <1>1 DEF DbGood
    <3>2. /\ Len(q) \in Nat /\ DOMAIN q = 1 .. Len(q) /\ P \subseteq 1 .. Len(q)
          /\ p \in Seq(Entries)
          /\ P = {} => /\ Len(p) = Len(q) + 1 /\ p[Len(q) + 1] = Entry(m)
                       /\ \A k \in 1 .. Len(q) : p[k] = q[k]
          /\ P # {} => /\ Len(p) = Len(q)
                       /\ \A k \in 1 .. Len(q) : p[k] = IF k \in P THEN Entry(m) ELSE q[k]
      BY <1>2, <3>1, StoredIs
    <3>3. i \in 1 .. Len(q) /\ q[i].rid = o
      BY <2>1, <2>3, <3>2 DEF Positions
    <3>4. m.rid # o
      <4> SUFFICES ASSUME m.rid = o PROVE FALSE
        OBVIOUS
      <4>1. m.seq < sequence_num[o] /\ m.seq \in Nat /\ sequence_num[o] \in Nat
        <5>1. o \notin reset
          BY <1>3, <1>10
        <5>2. m.seq < sequence_num[o]
          BY <1>2, <5>1 DEF Numbered
        <5>3. m.seq \in Nat
          BY <1>2 DEF Lsus
        <5> QED
          BY <1>1, <5>2, <5>3
      <4>2. i \in P
        BY <2>1, <2>3
      <4>3. ~(q[i].seq >= m.seq)
        BY <1>3, <4>2 DEF IsOld
      <4> QED
        BY <2>1, <2>3, <4>1, <4>3
    <3>5. i \notin P
      BY <3>3, <3>4 DEF Positions
    <3>6. DOMAIN p = 1 .. Len(p) /\ i \in 1 .. Len(p) /\ p[i] = q[i]
      <4>1. DOMAIN p = 1 .. Len(p)
        BY <3>2
      <4> HIDE DEF p, q, P
      <4>2. CASE P = {}
        BY <3>2, <3>3, <4>1, <4>2
      <4>3. CASE P # {}
        BY <3>2, <3>3, <3>5, <4>1, <4>3
      <4> QED
        BY <4>2, <4>3
    <3>7. mospf_db'[r] = p
      BY <1>7
    <3> HIDE DEF p, q, P
    <3>8. i \in Positions(r, o)'
      BY <3>3, <3>6, <3>7 DEF Positions
    <3>9. mospf_db'[r][i] = mospf_db[r][i]
      BY <3>6, <3>7 DEF q
    <3> QED
      BY <1>3, <2>1, <2>3, <3>8, <3>9 DEF HoldsLast
  <2> QED
    BY <2>2, <2>3
<1> QED
  BY <1>9, <1>10 DEF LastStep

(* An entry that nobody renewed: the others move up.                       *)
LEMMA DatabaseTimeoutKeeps ==
  ASSUME MInv, NEW r \in Router, NEW u \in Router, DatabaseTimeout(r, u)
  PROVE  MInv' /\ LastStep
<1>1. /\ mospf_db = [t \in Router |-> mospf_db[t]]
      /\ \A t \in Router : DbGood(mospf_db[t], sequence_num, nbr, reset)
  BY Unpack
<1> DEFINE q == mospf_db[r]
<1>2. q \in Seq(Entries) /\ \A j, k \in 1 .. Len(q) : q[j].rid = q[k].rid => j = k
  BY <1>1 DEF DbGood
<1>3. PICK i \in 1 .. Len(q) : mospf_db' = [mospf_db EXCEPT ![r] = RemoveAt(q, i)]
  <2>1. PICK i \in Positions(r, u) : mospf_db' = [mospf_db EXCEPT ![r] = RemoveAt(@, i)]
    BY DEF DatabaseTimeout
  <2>2. i \in DOMAIN q
    BY <2>1 DEF Positions
  <2>3. i \in 1 .. Len(q)
    <3> HIDE DEF q
    <3> QED
      BY <1>2, <2>2
  <2>4. mospf_db' = [mospf_db EXCEPT ![r] = RemoveAt(q, i)]
    BY <1>1, <2>1
  <2> QED
    BY <2>3, <2>4
<1>4. UNCHANGED <<nbr, leftover, sequence_num, wire, down, faults, reset>>
  BY DEF DatabaseTimeout
<1> DEFINE p == RemoveAt(q, i)
<1>5. mospf_db'[r] = p /\ \A t \in Router \ {r} : mospf_db'[t] = mospf_db[t]
  BY <1>1, <1>3
<1>6. MInv'
  <2>1. ASSUME NEW t \in Router PROVE DbGood(mospf_db'[t], sequence_num, nbr, reset)
    <3>1. CASE t = r
      BY <1>1, <1>5, <3>1, RemovedGood
    <3>2. CASE t # r
      BY <1>1, <1>5, <3>2
    <3> QED
      BY <3>1, <3>2
  <2>2. mospf_db' = [t \in Router |-> mospf_db'[t]]
    BY <1>1, <1>3
  <2>3. RoutersOK' /\ LinksOK'
    BY <1>4 DEF MInv, RoutersOK, LinksOK
  <2>4. DatabasesOK'
    BY <1>4, <2>1, <2>2 DEF DatabasesOK
  <2> QED
    BY <2>3, <2>4 DEF MInv
<1>7. ASSUME NEW t \in Router, NEW o \in Router, HoldsLast(t, o)
      PROVE  Positions(t, o)' = {} \/ HoldsLast(t, o)'
  <2>1. PICK k \in Positions(t, o) :
          mospf_db[t][k].seq = sequence_num[o] - 1 /\ mospf_db[t][k].nbrs = nbr[o]
    BY <1>7 DEF HoldsLast
  <2>2. CASE t # r
    <3>1. mospf_db'[t] = mospf_db[t]
      BY <1>5, <2>2
    <3>2. k \in Positions(t, o)'
      BY <2>1, <3>1 DEF Positions
    <3> QED
      BY <1>4, <2>1, <3>1, <3>2 DEF HoldsLast
  <2>3. CASE t = r
    <3>1. /\ p \in Seq(Entries) /\ Len(p) = Len(q) - 1 /\ Len(q) \in Nat
          /\ \A j \in 1 .. Len(q) - 1 : p[j] = IF j < i THEN q[j] ELSE q[j + 1]
      <4> HIDE DEF q
      <4>1. Len(q) \in Nat
        BY <1>2
      <4>2. /\ RemoveAt(q, i) \in Seq(Entries) /\ Len(RemoveAt(q, i)) = Len(q) - 1
            /\ \A j \in 1 .. Len(q) - 1 : RemoveAt(q, i)[j] = IF j < i THEN q[j] ELSE q[j + 1]
        BY <1>2, <1>3, RemoveAtIs
      <4> QED
        BY <4>1, <4>2
    <3>2. k \in 1 .. Len(q) /\ q[k].rid = o /\ DOMAIN p = 1 .. Len(p)
      BY <1>2, <2>1, <2>3, <3>1 DEF Positions
    <3> HIDE DEF p, q
    <3>3. CASE k = i
      <4>1. ASSUME NEW j \in 1 .. Len(p) PROVE p[j].rid # o
        <5>1. CASE j < i
          BY <1>2, <3>1, <3>2, <3>3, <5>1
        <5>2. CASE ~(j < i)
          <6>1. j + 1 \in 1 .. Len(q) /\ j + 1 # i /\ p[j] = q[j + 1]
            BY <3>1, <5>2
          <6> QED
            BY <1>2, <3>2, <3>3, <6>1
        <5> QED
          BY <5>1, <5>2
      <4>2. Positions(r, o)' = {}
        BY <1>5, <3>2, <4>1 DEF Positions
      <4> QED
        BY <2>3, <4>2
    <3>4. CASE k # i
      <4> DEFINE j == IF k < i THEN k ELSE k - 1
      <4>1. j \in 1 .. Len(p) /\ p[j] = q[k]
        <5>1. CASE k < i
          BY <3>1, <3>2, <5>1
        <5>2. CASE k > i
          <6>1. k - 1 \in 1 .. Len(q) - 1 /\ ~(k - 1 < i) /\ (k - 1) + 1 = k /\ ~(k < i)
            BY <3>1, <3>2, <5>2
          <6> QED
            BY <3>1, <6>1
        <5> QED
          BY <3>2, <3>4, <5>1, <5>2
      <4> HIDE DEF j
      <4>2. j \in Positions(r, o)'
        BY <1>5, <3>2, <4>1 DEF Positions
      <4>3. mospf_db'[r][j] = mospf_db[r][k]
        BY <1>5, <4>1 DEF q
      <4> QED
        BY <1>4, <2>1, <2>3, <4>2, <4>3 DEF HoldsLast
    <3> QED
      BY <3>3, <3>4
  <2> QED
    BY <2>2, <2>3
<1> QED
  BY <1>6, <1>7 DEF LastStep

(* What disturbs the network.                                              *)
LEMMA LinkDownKeeps ==
  ASSUME MInv, NEW r \in Router, NEW t \in Router, LinkDown(r, t)
  PROVE  MInv' /\ LastStep
<1>1. /\ faults < Faults /\ faults' = faults + 1
      /\ down' = down \cup {Net(r, t)}
      /\ wire' = [d \in Direction |-> IF Net(d[1], d[2]) = Net(r, t) THEN << >> ELSE wire[d]]
      /\ UNCHANGED <<nbr, leftover, sequence_num, mospf_db, reset>>
  BY DEF LinkDown
<1>2. LinksOK'
  <2>1. ASSUME NEW d \in Direction
        PROVE  /\ WireGood(wire'[d], sequence_num, nbr, reset)
               /\ wire'[d] # << >> => Net(d[1], d[2]) \notin down'
    <3>1. /\ WireGood(wire[d], sequence_num, nbr, reset)
          /\ wire[d] # << >> => Net(d[1], d[2]) \notin down
      BY DEF MInv, LinksOK
    <3>2. CASE Net(d[1], d[2]) = Net(r, t)
      <4>1. wire'[d] = << >>
        BY <1>1, <3>2
      <4> QED
        BY <4>1, EmptyGood
    <3>3. CASE Net(d[1], d[2]) # Net(r, t)
      <4>1. wire'[d] = wire[d]
        BY <1>1, <3>3
      <4> QED
        BY <1>1, <3>1, <3>3, <4>1
    <3> QED
      BY <3>2, <3>3
  <2>2. wire' = [d \in Direction |-> wire'[d]]
    BY <1>1
  <2> QED
    BY <1>1, <2>1, <2>2 DEF LinksOK
<1>3. RoutersOK' /\ DatabasesOK'
  <2>1. faults' \in 0 .. Faults
    BY <1>1, Unpack, MospfAssumption
  <2> QED
    BY <1>1, <2>1 DEF MInv, RoutersOK, DatabasesOK
<1> QED
  BY <1>1, <1>2, <1>3, SameDb DEF MInv

LEMMA LinkUpKeeps ==
  ASSUME MInv, NEW net, LinkUp(net)
  PROVE  MInv' /\ LastStep
<1>1. /\ down' = down \ {net}
      /\ UNCHANGED <<nbr, leftover, sequence_num, mospf_db, wire, faults, reset>>
  BY DEF LinkUp
<1>2. RoutersOK' /\ DatabasesOK' /\ LinksOK'
  BY <1>1 DEF MInv, RoutersOK, DatabasesOK, LinksOK
<1> QED
  BY <1>1, <1>2, SameDb DEF MInv

LEMMA RestartKeeps ==
  ASSUME MInv, NEW r \in Router, Restart(r)
  PROVE  MInv' /\ LastStep
<1>1. /\ faults < Faults /\ faults' = faults + 1
      /\ nbr' = [nbr EXCEPT ![r] = {}]
      /\ leftover' = [leftover EXCEPT ![r] = {}]
      /\ sequence_num' = [sequence_num EXCEPT ![r] = 0]
      /\ mospf_db' = [mospf_db EXCEPT ![r] = << >>]
      /\ wire' = [d \in Direction |-> IF d[2] = r THEN << >> ELSE wire[d]]
      /\ reset' = reset \cup {r} /\ down' = down
  BY DEF Restart
<1>2. /\ nbr \in [Router -> SUBSET Router] /\ leftover \in [Router -> SUBSET Router]
      /\ \A t \in Router : leftover[t] \subseteq nbr[t]
      /\ sequence_num \in [Router -> Nat]
      /\ faults \in 0 .. Faults /\ reset \subseteq Router
      /\ mospf_db = [t \in Router |-> mospf_db[t]]
      /\ \A t \in Router : DbGood(mospf_db[t], sequence_num, nbr, reset)
  BY Unpack
<1>3. /\ nbr' \in [Router -> SUBSET Router] /\ leftover' \in [Router -> SUBSET Router]
      /\ \A t \in Router : leftover'[t] \subseteq nbr'[t]
      /\ sequence_num' \in [Router -> Nat] /\ reset' \subseteq Router
  BY <1>1, <1>2
<1>4. faults' \in 0 .. Faults
  BY <1>1, <1>2, MospfAssumption
<1>5. GoesOn(sequence_num, nbr, reset, sequence_num', nbr', reset')
  BY <1>1, <1>2 DEF GoesOn
<1>6. mospf_db'[r] = << >> /\ \A t \in Router \ {r} : mospf_db'[t] = mospf_db[t]
  BY <1>1, <1>2
<1>7. ASSUME NEW t \in Router PROVE DbGood(mospf_db'[t], sequence_num', nbr', reset')
  <2>1. CASE t = r
    <3>1. DbGood(<< >>, sequence_num', nbr', reset')
      BY DEF DbGood
    <3> QED
      BY <1>6, <2>1, <3>1
  <2>2. CASE t # r
    BY <1>2, <1>5, <1>6, <2>2, DbKeeps
  <2> QED
    BY <2>1, <2>2
<1>8. ASSUME NEW d \in Direction
      PROVE  /\ WireGood(wire'[d], sequence_num', nbr', reset')
             /\ wire'[d] # << >> => Net(d[1], d[2]) \notin down'
  <2>1. CASE d[2] = r
    <3>1. wire'[d] = << >>
      BY <1>1, <2>1
    <3> QED
      BY <3>1, EmptyGood
  <2>2. CASE d[2] # r
    <3>1. wire'[d] = wire[d]
      BY <1>1, <2>2
    <3>2. /\ WireGood(wire[d], sequence_num, nbr, reset)
          /\ wire[d] # << >> => Net(d[1], d[2]) \notin down
      BY DEF MInv, LinksOK
    <3>3. WireGood(wire[d], sequence_num', nbr', reset')
      BY <1>2, <1>5, <3>2, WireKeeps
    <3> QED
      BY <1>1, <3>1, <3>2, <3>3
  <2> QED
    BY <2>1, <2>2
<1>9. mospf_db' = [t \in Router |-> mospf_db'[t]] /\ wire' = [d \in Direction |-> wire'[d]]
  BY <1>1, <1>2
<1>10. MInv'
  BY <1>3, <1>4, <1>7, <1>8, <1>9, Pack
<1>11. ASSUME NEW t \in Router, NEW o \in Router, HoldsLast(t, o), o \notin reset'
       PROVE  Positions(t, o)' = {} \/ HoldsLast(t, o)'
  <2>1. CASE t = r
    <3>1. Positions(r, o)' = {}
      BY <1>6 DEF Positions
    <3> QED
      BY <2>1, <3>1
  <2>2. CASE t # r
    <3>1. mospf_db'[t] = mospf_db[t] /\ o # r
      BY <1>1, <1>6, <1>11, <2>2
    <3>2. sequence_num'[o] = sequence_num[o] /\ nbr'[o] = nbr[o]
      BY <1>1, <1>2, <3>1
    <3>3. PICK k \in Positions(t, o) :
            mospf_db[t][k].seq = sequence_num[o] - 1 /\ mospf_db[t][k].nbrs = nbr[o]
      BY <1>11 DEF HoldsLast
    <3>4. k \in Positions(t, o)'
      BY <3>1, <3>3 DEF Positions
    <3> QED
      BY <3>1, <3>2, <3>3, <3>4 DEF HoldsLast
  <2> QED
    BY <2>1, <2>2
<1> QED
  BY <1>10, <1>11 DEF LastStep

LEMMA StepKeeps ==
  ASSUME MInv, [Next]_vars
  PROVE  MInv' /\ LastStep
<1>1. ASSUME NEW r \in Router, NEW t \in Router, HandleLsu(r, t)
      PROVE  MInv' /\ LastStep
  <2>1. <<t, r>> \in Direction /\ wire[<<t, r>>] # << >>
    BY <1>1 DEF HandleLsu
  <2> DEFINE m == Head(wire[<<t, r>>])
  <2>2. DropLsu(r, t, m) \/ StoreLsu(r, t, m)
    BY <1>1 DEF HandleLsu
  <2>3. m \in Lsus /\ Numbered(m, sequence_num, nbr, reset)
    BY <2>1, HeadFacts
  <2> HIDE DEF m
  <2>4. CASE DropLsu(r, t, m)
    BY <2>1, <2>4, DropKeeps
  <2>5. CASE StoreLsu(r, t, m)
    BY <2>1, <2>3, <2>5, StoreKeeps
  <2> QED
    BY <2>2, <2>4, <2>5
<1>2. ASSUME UNCHANGED vars PROVE MInv' /\ LastStep
  <2>1. MInv'
    BY <1>2 DEF vars, MInv, RoutersOK, DatabasesOK, LinksOK
  <2> QED
    BY <1>2, <2>1, SameDb DEF vars
<1> QED
  BY <1>1, <1>2, HelloKnownKeeps, HelloNewKeeps, NbrTimeoutKeeps, DatabaseTimeoutKeeps,
     LinkDownKeeps, PeriodicKeeps, RestartKeeps, LinkUpKeeps DEF Next

LEMMA FoundFacts ==
  ASSUME NEW o \in Router
  PROVE  /\ Found(o) \in SUBSET Router /\ Cardinality(Found(o)) \in Nat
         /\ Cardinality(Found(o)) >= 1
<1>1. Found(o) \in SUBSET Router
  BY DEF Found
<1>2. IsFiniteSet(Found(o))
  BY <1>1, FS_Subset, MospfAssumption
<1>3. PICK t \in Router \ {o} : {o, t} \in Networks(o)
  BY MospfAssumption
<1>4. t \in Found(o)
  <2> DEFINE d == <<o, t>>
  <2>1. d \in Router \X Router /\ d[1] = o /\ d[2] = t
    BY <1>3
  <2> HIDE DEF d
  <2>2. d \in Direction
    BY <1>3, <2>1 DEF Direction, Net
  <2> QED
    BY <1>3, <2>2 DEF Found, d
<1>5. Cardinality(Found(o)) # 0 /\ Cardinality(Found(o)) \in Nat
  BY <1>2, <1>4, FS_EmptySet, FS_CardinalityType
<1> QED
  BY <1>1, <1>5

LEMMA InitMInv == ASSUME Init PROVE MInv
<1>1. PICK order \in Arrival : mospf_db = [r \in Router |-> Filled(order[r])]
  BY DEF Init
<1>2. /\ nbr = [r \in Router |-> Found(r)]
      /\ sequence_num = [r \in Router |-> Cardinality(Found(r))]
      /\ leftover = [r \in Router |-> {}] /\ wire = [d \in Direction |-> << >>]
      /\ down = {} /\ faults = 0 /\ reset = {}
  BY DEF Init
<1>3. RoutersOK
  <2>1. sequence_num \in [Router -> Nat]
    BY <1>2, FoundFacts
  <2>2. nbr \in [Router -> SUBSET Router]
    BY <1>2, FoundFacts
  <2>3. faults \in 0 .. Faults
    BY <1>2, MospfAssumption
  <2> QED
    BY <1>2, <2>1, <2>2, <2>3 DEF RoutersOK
<1>4. ASSUME NEW r \in Router PROVE DbGood(mospf_db[r], sequence_num, nbr, reset)
  <2> DEFINE others == order[r]
             n == Cardinality(Router \ {r})
             q == Filled(others)
  <2>1. /\ others \in [1 .. n -> Router \ {r}]
        /\ \A i, j \in 1 .. n : i # j => others[i] # others[j]
    BY <1>1, MospfAssumption DEF SetToSeqs
  <2>2. n \in Nat
    <3>1. IsFiniteSet(Router \ {r})
      BY FS_Subset, MospfAssumption
    <3> QED
      BY <3>1, FS_CardinalityType
  <2>3. mospf_db[r] = q
    BY <1>1
  <2> HIDE DEF others, n
  <2>4. q = [i \in 1 .. n |-> [rid |-> others[i], nbrs |-> Found(others[i]),
                               seq |-> Cardinality(Found(others[i])) - 1]]
    BY <2>1 DEF Filled
  <2> HIDE DEF q
  <2>5. ASSUME NEW i \in 1 .. n
        PROVE  /\ q[i] \in Entries /\ q[i].rid = others[i]
               /\ Numbered(q[i], sequence_num, nbr, reset)
    <3>1. others[i] \in Router
      BY <2>1
    <3> DEFINE o == others[i]
               c == Cardinality(Found(o))
    <3>2. Found(o) \in SUBSET Router /\ c \in Nat /\ c >= 1
      BY <3>1, FoundFacts
    <3>3. q[i].rid = o /\ q[i].nbrs = Found(o) /\ q[i].seq = c - 1
      BY <2>4
    <3>4. sequence_num[o] = c /\ nbr[o] = Found(o)
      BY <1>2, <3>1
    <3>5. q[i] \in Entries
      <4>1. c - 1 \in Nat
        <5> HIDE DEF c
        <5> QED
          BY <3>2
      <4> QED
        BY <2>4, <3>1, <3>2, <4>1 DEF Entries
    <3> HIDE DEF o, c
    <3>6. Numbered(q[i], sequence_num, nbr, reset)
      BY <3>2, <3>3, <3>4 DEF Numbered
    <3> QED
      BY <3>3, <3>5, <3>6 DEF o
  <2>6. q \in Seq(Entries) /\ Len(q) = n
    <3>1. q \in [1 .. n -> Entries]
      BY <2>4, <2>5
    <3> QED
      BY <2>2, <3>1
  <2>7. DbGood(q, sequence_num, nbr, reset)
    BY <2>1, <2>5, <2>6 DEF DbGood
  <2> QED
    BY <2>3, <2>7
<1>5. DatabasesOK
  BY <1>1, <1>4 DEF DatabasesOK
<1>6. LinksOK
  <2>1. wire = [d \in Direction |-> wire[d]] /\ \A d \in Direction : wire[d] = << >>
    BY <1>2
  <2> QED
    BY <2>1, EmptyGood DEF LinksOK
<1> QED
  BY <1>3, <1>5, <1>6 DEF MInv

LEMMA MInvAlways == Spec => []MInv
<1>1. Init => MInv
  BY InitMInv
<1>2. MInv /\ [Next]_vars => MInv'
  BY StepKeeps
<1> QED
  BY <1>1, <1>2, PTL DEF Spec
--------------------------------------------------------------------------------
(* Routers, databases and links have their types in every network, and     *)
(* nothing is under way on a link that is down (mospf_database.h:12-18,    *)
(* mospf_daemon.c).                                                        *)
THEOREM MospfTypeCorrect == Spec => []TypeOK
<1>1. MInv => TypeOK
  <2> SUFFICES ASSUME MInv PROVE TypeOK
    OBVIOUS
  <2>1. mospf_db \in [Router -> Seq(Entries)]
    <3>1. \A r \in Router : mospf_db[r] \in Seq(Entries)
      BY DEF MInv, DatabasesOK, DbGood
    <3>2. mospf_db = [r \in Router |-> mospf_db[r]]
      BY DEF MInv, DatabasesOK
    <3> QED
      BY <3>1, <3>2
  <2>2. DOMAIN wire = Direction
    <3>1. wire = [d \in Direction |-> wire[d]]
      BY DEF MInv, LinksOK
    <3> QED
      BY <3>1
  <2>3. ASSUME NEW d \in Direction, NEW i \in DOMAIN wire[d]
        PROVE  /\ Entry(wire[d][i]) \in Entries /\ wire[d][i].ttl \in 1 .. MaxTtl
               /\ Up(d[1], d[2])
    <3> DEFINE q == wire[d]
    <3>1. q \in Seq(Lsus) /\ (q # << >> => Net(d[1], d[2]) \notin down)
      BY DEF MInv, LinksOK, WireGood
    <3>2. q[i] \in Lsus /\ q # << >>
      <4> HIDE DEF q
      <4>1. i \in DOMAIN q
        BY DEF q
      <4>2. DOMAIN q = 1 .. Len(q) /\ Len(q) \in Nat
        BY <3>1
      <4> QED
        BY <3>1, <4>1, <4>2
    <3>3. Entry(q[i]) \in Entries /\ q[i].ttl \in 1 .. MaxTtl
      <4> HIDE DEF q
      <4> QED
        BY <3>2 DEF Lsus, Entry, Entries
    <3>4. Up(d[1], d[2])
      BY <3>1, <3>2, DirectionFacts
    <3> QED
      BY <3>3, <3>4
  <2> QED
    BY <2>1, <2>2, <2>3 DEF MInv, RoutersOK, TypeOK
<1> QED
  BY <1>1, MInvAlways, PTL

(* In every network a router that holds the last LSU of another one is not *)
(* set back by an LSU that was overtaken or comes round by another way, as *)
(* long as the counter of the other one is not set back                    *)
(* (mospf_daemon.c, handle_mospf_lsu).                                     *)
THEOREM LastIsKept == Spec => LastStays
<1>1. MInv /\ [Next]_vars => LastStep
  BY StepKeeps
<1>2. MInv /\ [Next]_vars => [LastStep]_vars
  BY <1>1
<1> QED
  BY <1>2, MInvAlways, PTL DEF Spec, LastStays, LastStep

(* In every network an entry that carries the last number of a router      *)
(* whose counter was never set back names that router's present            *)
(* neighbours, and no entry carries a later number.                        *)
LastIsTrue ==
  \A r \in Router : \A i \in DOMAIN mospf_db[r] :
    LET e == mospf_db[r][i]
    IN  e.rid \notin reset =>
          e.seq < sequence_num[e.rid] /\ (e.seq = sequence_num[e.rid] - 1 => e.nbrs = nbr[e.rid])
THEOREM LastNamesPresent == Spec => []LastIsTrue
<1>1. MInv => LastIsTrue
  <2> SUFFICES ASSUME MInv, NEW r \in Router, NEW i \in DOMAIN mospf_db[r]
               PROVE  Numbered(mospf_db[r][i], sequence_num, nbr, reset)
    BY DEF LastIsTrue, Numbered
  <2> DEFINE q == mospf_db[r]
  <2>1. q \in Seq(Entries) /\ \A j \in 1 .. Len(q) : Numbered(q[j], sequence_num, nbr, reset)
    BY DEF MInv, DatabasesOK, DbGood
  <2>2. DOMAIN q = 1 .. Len(q)
    <3> HIDE DEF q
    <3> QED
      BY <2>1
  <2> QED
    BY <2>1, <2>2
<1> QED
  BY <1>1, MInvAlways, PTL
--------------------------------------------------------------------------------
(* What lies within n hops.  Balls(r, edges) is a recursive function: that *)
(* there is one, and what it is, follow from the least n for which they    *)
(* might fail.                                                             *)
LEMMA LeastNat == ASSUME NEW S \in SUBSET Nat, S # {} PROVE \E m \in S : \A n \in S : m <= n
<1> DEFINE R == {ss \in Nat \X Nat : ss[1] < ss[2]}
<1>1. OpToRel(<, Nat) = R
  BY DEF OpToRel
<1>2. IsWellFoundedOn(R, Nat)
  BY <1>1, NatLessThanWellFounded
<1>3. PICK m \in S : \A n \in S : ~(<<n, m>> \in R)
  BY <1>2, WFMin
<1>4. ASSUME NEW n \in S PROVE m <= n
  <2>1. m \in Nat /\ n \in Nat /\ <<n, m>> \notin R
    BY <1>3
  <2>2. <<n, m>> \in Nat \X Nat /\ <<n, m>>[1] = n /\ <<n, m>>[2] = m
    BY <2>1
  <2> QED
    BY <2>1, <2>2
<1> QED
  BY <1>4

(* Of a set of numbers up to N that misses some, the least that it misses  *)
(* is 0 or follows one that it has.                                        *)
LEMMA FirstMissing ==
  ASSUME NEW N \in Nat, NEW S \in SUBSET Nat, 0 \in S,
         \A n \in 1 .. N : n - 1 \in S => n \in S
  PROVE  0 .. N \subseteq S
<1> DEFINE T == {n \in Nat : n <= N /\ n \notin S}
<1> SUFFICES ASSUME T # {} PROVE FALSE
  OBVIOUS
<1>1. PICK n \in T : \A m \in T : n <= m
  <2>1. T \in SUBSET Nat
    OBVIOUS
  <2> HIDE DEF T
  <2> QED
    BY <2>1, LeastNat
<1>2. n \in Nat /\ n <= N /\ n \notin S /\ n # 0
  BY <1>1
<1>3. n - 1 \in Nat /\ n - 1 <= N /\ n \in 1 .. N /\ ~(n <= n - 1)
  BY <1>2
<1>4. n - 1 \in S
  BY <1>1, <1>3
<1> QED
  BY <1>2, <1>3, <1>4

IsBall(f, r, edges, N) == f = [n \in 0 .. N |-> IF n = 0 THEN {r} ELSE Wider(f[n - 1], edges)]

LEMMA BallExists == ASSUME NEW r, NEW edges, NEW N \in Nat PROVE \E f : IsBall(f, r, edges, N)
<1> DEFINE S == {n \in Nat : \E f : IsBall(f, r, edges, n)}
<1>1. 0 \in S
  <2> DEFINE f == [i \in 0 .. 0 |-> {r}]
  <2>1. f = [i \in 0 .. 0 |-> IF i = 0 THEN {r} ELSE Wider(f[i - 1], edges)]
    OBVIOUS
  <2>2. IsBall(f, r, edges, 0)
    BY <2>1 DEF IsBall
  <2> QED
    BY <2>2
<1>2. ASSUME NEW n \in 1 .. N, n - 1 \in S PROVE n \in S
  <2>1. PICK g : IsBall(g, r, edges, n - 1)
    BY <1>2
  <2>2. n \in Nat /\ n # 0 /\ n - 1 \in Nat
    OBVIOUS
  <2>3. \A j \in 0 .. n - 1 : g[j] = IF j = 0 THEN {r} ELSE Wider(g[j - 1], edges)
    BY <2>1 DEF IsBall
  <2> DEFINE f == [i \in 0 .. n |-> IF i = n THEN Wider(g[n - 1], edges) ELSE g[i]]
  <2>4. /\ f = [i \in 0 .. n |-> f[i]] /\ f[n] = Wider(g[n - 1], edges)
        /\ \A j \in 0 .. n - 1 : f[j] = g[j]
    <3>1. n \in 0 .. n /\ \A j \in 0 .. n - 1 : j \in 0 .. n /\ j # n
      BY <2>2
    <3> QED
      BY <3>1
  <2> HIDE DEF f
  <2>5. ASSUME NEW i \in 0 .. n PROVE f[i] = IF i = 0 THEN {r} ELSE Wider(f[i - 1], edges)
    <3>1. CASE i = n
      <4>0. n - 1 \in 0 .. n - 1
        BY <2>2
      <4>1. f[n - 1] = g[n - 1]
        BY <2>4, <4>0
      <4> QED
        BY <2>2, <2>4, <3>1, <4>1
    <3>2. CASE i # n
      <4>1. i \in 0 .. n - 1 /\ (i # 0 => i - 1 \in 0 .. n - 1)
        BY <2>2, <3>2
      <4> QED
        BY <2>3, <2>4, <4>1
    <3> QED
      BY <3>1, <3>2
  <2>6. IsBall(f, r, edges, n)
    BY <2>4, <2>5 DEF IsBall
  <2> QED
    BY <2>2, <2>6
<1>3. S \in SUBSET Nat /\ \A n \in 1 .. N : n - 1 \in S => n \in S
  BY <1>2
<1> HIDE DEF S
<1>4. N \in S
  <2>1. 0 .. N \subseteq S
    BY <1>1, <1>3, FirstMissing
  <2> QED
    BY <2>1
<1> QED
  BY <1>4 DEF S

LEMMA BallsAre ==
  ASSUME NEW r, NEW edges
  PROVE  /\ Cardinality(Router) \in Nat
         /\ Balls(r, edges)[0] = {r}
         /\ \A n \in 1 .. Cardinality(Router) :
              Balls(r, edges)[n] = Wider(Balls(r, edges)[n - 1], edges)
<1> DEFINE N == Cardinality(Router)
           f == CHOOSE g : IsBall(g, r, edges, N)
<1>1. N \in Nat
  BY FS_CardinalityType, MospfAssumption
<1>2. IsBall(f, r, edges, N)
  <2> HIDE DEF N
  <2> QED
    BY <1>1, BallExists
<1>3. f = CHOOSE ball : ball = [n \in 0 .. Cardinality(Router) |->
                                IF n = 0 THEN {r} ELSE Wider(ball[n - 1], edges)]
  BY DEF IsBall
<1>4. Balls(r, edges) = f
  BY <1>3 DEF Balls
<1>5. \A n \in 0 .. N : Balls(r, edges)[n] =
                          IF n = 0 THEN {r} ELSE Wider(Balls(r, edges)[n - 1], edges)
  <2> HIDE DEF f, N
  <2>1. \A n \in 0 .. N : f[n] = IF n = 0 THEN {r} ELSE Wider(f[n - 1], edges)
    BY <1>2 DEF IsBall
  <2> QED
    BY <1>4, <2>1
<1> HIDE DEF f, N
<1>6. Balls(r, edges)[0] = {r} /\ \A n \in 1 .. N : Balls(r, edges)[n] = Wider(Balls(r, edges)[n - 1], edges)
  BY <1>1, <1>5
<1> QED
  BY <1>1, <1>6 DEF N

LEMMA BallsIn ==
  ASSUME NEW r \in Router, NEW edges, NEW n \in 0 .. Cardinality(Router)
  PROVE  Balls(r, edges)[n] \subseteq Router /\ r \in Balls(r, edges)[n]
<1> DEFINE N == Cardinality(Router)
           b == Balls(r, edges)
           S == {k \in Nat : b[k] \subseteq Router /\ r \in b[k]}
<1>1. N \in Nat /\ b[0] = {r} /\ \A k \in 1 .. N : b[k] = Wider(b[k - 1], edges)
  BY BallsAre
<1> HIDE DEF N, b
<1>2. 0 \in S
  BY <1>1
<1>3. ASSUME NEW k \in 1 .. N, k - 1 \in S PROVE k \in S
  <2>1. b[k] = Wider(b[k - 1], edges) /\ k \in Nat
    BY <1>1
  <2> QED
    BY <1>3, <2>1 DEF Wider
<1>4. S \in SUBSET Nat
  OBVIOUS
<1> HIDE DEF S
<1>5. 0 .. N \subseteq S
  BY <1>1, <1>2, <1>3, <1>4, FirstMissing
<1>6. n \in S
  BY <1>5 DEF N
<1> QED
  BY <1>6 DEF S, b

LEMMA BallsNest ==
  ASSUME NEW r, NEW edges, NEW m \in 0 .. Cardinality(Router),
         NEW n \in 0 .. Cardinality(Router), m <= n
  PROVE  Balls(r, edges)[m] \subseteq Balls(r, edges)[n]
<1> DEFINE N == Cardinality(Router)
           b == Balls(r, edges)
           S == {k \in Nat : m <= k => b[m] \subseteq b[k]}
<1>1. N \in Nat /\ \A k \in 1 .. N : b[k] = Wider(b[k - 1], edges)
  BY BallsAre
<1> HIDE DEF N, b
<1>m. m \in Nat
  OBVIOUS
<1>2. 0 \in S
  BY <1>m
<1>3. ASSUME NEW k \in 1 .. N, k - 1 \in S PROVE k \in S
  <2>1. b[k - 1] \subseteq b[k] /\ k \in Nat /\ k - 1 \in Nat
    BY <1>1 DEF Wider
  <2>2. m <= k => m <= k - 1 \/ m = k
    BY <1>m, <2>1
  <2> QED
    BY <1>3, <2>1, <2>2
<1>4. S \in SUBSET Nat
  OBVIOUS
<1> HIDE DEF S
<1>5. 0 .. N \subseteq S
  BY <1>1, <1>2, <1>3, <1>4, FirstMissing
<1>6. n \in S
  BY <1>5 DEF N
<1> QED
  BY <1>6 DEF S, b

(* Nothing lies beyond as many hops as there are routers. *)
LEMMA BallsClose ==
  ASSUME NEW r \in Router, NEW edges,
         NEW x \in Balls(r, edges)[Cardinality(Router)], NEW y \in Router, <<x, y>> \in edges
  PROVE  y \in Balls(r, edges)[Cardinality(Router)]
<1> DEFINE N == Cardinality(Router)
           b == Balls(r, edges)
           Closed(k) == Wider(b[k], edges) = b[k]
           S == {k \in Nat : Closed(k) \/ Cardinality(b[k]) >= k + 1}
<1>1. N \in Nat /\ b[0] = {r} /\ \A k \in 1 .. N : b[k] = Wider(b[k - 1], edges)
  BY BallsAre
<1>2. ASSUME NEW k \in 0 .. N
      PROVE  /\ b[k] \subseteq Router /\ IsFiniteSet(b[k])
             /\ Cardinality(b[k]) \in Nat /\ Cardinality(b[k]) <= N
  <2>1. b[k] \subseteq Router
    BY BallsIn
  <2> QED
    BY <2>1, FS_Subset, FS_CardinalityType, MospfAssumption
<1> HIDE DEF N, b
<1>3. 0 \in S
  <2>1. Cardinality({r}) = 1
    BY FS_Singleton
  <2>2. Cardinality(b[0]) >= 0 + 1
    BY <1>1, <2>1
  <2> QED
    BY <2>2
<1>4. ASSUME NEW k \in 1 .. N, k - 1 \in S PROVE k \in S
  <2>1. b[k] = Wider(b[k - 1], edges) /\ k \in Nat /\ k - 1 \in 0 .. N /\ k \in 0 .. N
    BY <1>1
  <2>2. CASE Closed(k - 1)
    <3>1. Closed(k)
      BY <2>1, <2>2
    <3> QED
      BY <2>1, <3>1
  <2>3. CASE ~Closed(k - 1)
    <3>1. Cardinality(b[k - 1]) >= (k - 1) + 1
      BY <1>4, <2>3
    <3>2. b[k - 1] \subseteq b[k] /\ b[k] # b[k - 1]
      BY <2>1, <2>3 DEF Wider
    <3>3. PICK t \in b[k] : t \notin b[k - 1]
      BY <3>2
    <3>4. /\ IsFiniteSet(b[k - 1]) /\ Cardinality(b[k - 1]) \in Nat
          /\ IsFiniteSet(b[k]) /\ Cardinality(b[k]) \in Nat
      BY <1>2, <2>1
    <3>5. Cardinality(b[k - 1] \cup {t}) = Cardinality(b[k - 1]) + 1
      BY <3>3, <3>4, FS_AddElement
    <3>6. b[k - 1] \cup {t} \subseteq b[k]
      BY <3>2, <3>3
    <3>7. Cardinality(b[k - 1] \cup {t}) <= Cardinality(b[k])
      BY <3>4, <3>6, FS_Subset
    <3>8. Cardinality(b[k]) >= k + 1
      BY <2>1, <3>1, <3>4, <3>5, <3>7
    <3> QED
      BY <2>1, <3>8
  <2> QED
    BY <2>2, <2>3
<1>5. S \in SUBSET Nat
  OBVIOUS
<1>6. N \in S
  <2> HIDE DEF S
  <2>1. 0 .. N \subseteq S
    BY <1>1, <1>3, <1>4, <1>5, FirstMissing
  <2> QED
    BY <1>1, <2>1
<1>7. Closed(N)
  <2>1. N \in 0 .. N
    BY <1>1
  <2>2. Cardinality(b[N]) \in Nat /\ Cardinality(b[N]) <= N
    BY <1>2, <2>1
  <2>3. ~(Cardinality(b[N]) >= N + 1)
    BY <1>1, <2>2
  <2> QED
    BY <1>6, <2>3
<1>8. x \in b[N]
  BY DEF b, N
<1>9. y \in Wider(b[N], edges)
  BY <1>8 DEF Wider
<1> QED
  BY <1>7, <1>9 DEF b, N

(* A hop more at the beginning. *)
LEMMA BallsPrepend ==
  ASSUME NEW x \in Router, NEW y \in Router, NEW edges, <<x, y>> \in edges,
         NEW n \in 0 .. Cardinality(Router) - 1
  PROVE  Balls(y, edges)[n] \subseteq Balls(x, edges)[n + 1]
<1> DEFINE N == Cardinality(Router)
           b == Balls(x, edges)
           c == Balls(y, edges)
           S == {k \in Nat : k + 1 <= N => c[k] \subseteq b[k + 1]}
<1>1. /\ N \in Nat /\ \A k \in 1 .. N : b[k] = Wider(b[k - 1], edges)
      /\ c[0] = {y} /\ \A k \in 1 .. N : c[k] = Wider(c[k - 1], edges) /\ b[0] = {x}
  BY BallsAre
<1> HIDE DEF N, b, c
<1>2. 0 \in S
  <2> SUFFICES ASSUME 0 + 1 <= N PROVE c[0] \subseteq b[0 + 1]
    OBVIOUS
  <2>1. 1 \in 1 .. N /\ 1 - 1 = 0 /\ 0 + 1 = 1
    BY <1>1
  <2>2. b[1] = Wider({x}, edges)
    BY <1>1, <2>1
  <2>3. y \in b[1]
    BY <2>2 DEF Wider
  <2> QED
    BY <1>1, <2>1, <2>3
<1>3. ASSUME NEW k \in 1 .. N, k - 1 \in S PROVE k \in S
  <2> SUFFICES ASSUME k + 1 <= N PROVE c[k] \subseteq b[k + 1]
    OBVIOUS
  <2>1. /\ k + 1 \in 1 .. N /\ (k + 1) - 1 = k /\ (k - 1) + 1 = k /\ k <= N
    BY <1>1
  <2>2. c[k - 1] \subseteq b[k]
    BY <1>3, <2>1
  <2>3. b[k + 1] = Wider(b[k], edges) /\ c[k] = Wider(c[k - 1], edges)
    BY <1>1, <2>1
  <2> QED
    BY <2>2, <2>3 DEF Wider
<1>4. S \in SUBSET Nat
  OBVIOUS
<1>n. n \in 0 .. N /\ n + 1 <= N
  BY <1>1 DEF N
<1>5. n \in S
  <2> HIDE DEF S
  <2>1. 0 .. N \subseteq S
    BY <1>1, <1>2, <1>3, <1>4, FirstMissing
  <2> QED
    BY <1>n, <2>1
<1> QED
  BY <1>5, <1>n DEF b, c

(* Edges that lead both ways. *)
LEMMA BallsReverse ==
  ASSUME NEW edges,
         \A u, v \in Router : <<u, v>> \in edges => <<v, u>> \in edges,
         NEW x \in Router, NEW n \in 0 .. Cardinality(Router), NEW y \in Balls(x, edges)[n]
  PROVE  x \in Balls(y, edges)[n]
<1> DEFINE N == Cardinality(Router)
           b == Balls(x, edges)
           S == {k \in Nat : k <= N => \A z \in b[k] : x \in Balls(z, edges)[k]}
<1>1. N \in Nat /\ b[0] = {x} /\ \A k \in 1 .. N : b[k] = Wider(b[k - 1], edges)
  BY BallsAre
<1>b. \A k \in 0 .. N : b[k] \subseteq Router
  BY BallsIn
<1>c. \A z \in Router : \A m, k \in 0 .. N : m <= k => Balls(z, edges)[m] \subseteq Balls(z, edges)[k]
  BY BallsNest
<1>d. \A u, v \in Router : \A k \in 0 .. N - 1 :
        <<u, v>> \in edges => Balls(v, edges)[k] \subseteq Balls(u, edges)[k + 1]
  BY BallsPrepend
<1>e. Balls(x, edges)[0] = {x}
  BY BallsAre
<1> HIDE DEF N, b
<1>2. 0 \in S
  BY <1>1, <1>e
<1>3. ASSUME NEW k \in 1 .. N, k - 1 \in S PROVE k \in S
  <2> SUFFICES ASSUME NEW z \in b[k] PROVE x \in Balls(z, edges)[k]
    BY <1>1
  <2>1. /\ k \in 0 .. N /\ k - 1 \in 0 .. N /\ k - 1 <= k /\ k - 1 <= N /\ k - 1 \in 0 .. N - 1
        /\ (k - 1) + 1 = k
    BY <1>1
  <2>2. \A u \in b[k - 1] : x \in Balls(u, edges)[k - 1] /\ u \in Router
    BY <1>3, <1>b, <2>1
  <2>3. z \in Router /\ b[k] = Wider(b[k - 1], edges)
    BY <1>1, <1>b, <2>1
  <2>4. CASE z \in b[k - 1]
    BY <1>c, <2>1, <2>2, <2>3, <2>4
  <2>5. CASE z \notin b[k - 1]
    <3>1. PICK u \in b[k - 1] : <<u, z>> \in edges
      BY <2>3, <2>5 DEF Wider
    <3>2. <<z, u>> \in edges /\ u \in Router /\ x \in Balls(u, edges)[k - 1]
      BY <2>2, <2>3, <3>1
    <3>3. Balls(u, edges)[k - 1] \subseteq Balls(z, edges)[(k - 1) + 1]
      BY <1>d, <2>1, <2>3, <3>2
    <3> QED
      BY <2>1, <3>2, <3>3
  <2> QED
    BY <2>4, <2>5
<1>4. S \in SUBSET Nat
  OBVIOUS
<1>5. n \in S
  <2> HIDE DEF S
  <2>1. 0 .. N \subseteq S
    BY <1>1, <1>2, <1>3, <1>4, FirstMissing
  <2> QED
    BY <2>1 DEF N
<1>6. n <= N
  BY <1>1 DEF N
<1> QED
  BY <1>5, <1>6 DEF b

(* Edges that differ only where r does not come. *)
SameFrom(A, edges, others) ==
  \A x \in A, y \in Router : <<x, y>> \in edges <=> <<x, y>> \in others

LEMMA BallsAgree ==
  ASSUME NEW r \in Router, NEW edges, NEW others,
         SameFrom(Balls(r, edges)[Cardinality(Router)], edges, others),
         NEW n \in 0 .. Cardinality(Router)
  PROVE  Balls(r, others)[n] = Balls(r, edges)[n]
<1> DEFINE N == Cardinality(Router)
           b == Balls(r, edges)
           c == Balls(r, others)
           S == {k \in Nat : k <= N => c[k] = b[k]}
<1>1. /\ N \in Nat /\ b[0] = {r} /\ \A k \in 1 .. N : b[k] = Wider(b[k - 1], edges)
      /\ c[0] = {r} /\ \A k \in 1 .. N : c[k] = Wider(c[k - 1], others)
  BY BallsAre
<1>2. \A k \in 0 .. N : b[k] \subseteq b[N]
  <2>1. N \in 0 .. N /\ \A k \in 0 .. N : k <= N
    BY <1>1
  <2> QED
    BY <2>1, BallsNest
<1>3. \A x \in b[N], y \in Router : <<x, y>> \in edges <=> <<x, y>> \in others
  BY DEF SameFrom
<1> HIDE DEF N, b, c
<1>4. 0 \in S
  BY <1>1
<1>5. ASSUME NEW k \in 1 .. N, k - 1 \in S PROVE k \in S
  <2>1. k \in Nat /\ k - 1 \in 0 .. N /\ k - 1 <= N
    BY <1>1
  <2>2. c[k - 1] = b[k - 1] /\ b[k - 1] \subseteq b[N]
    BY <1>2, <1>5, <2>1
  <2>3. b[k] = Wider(b[k - 1], edges) /\ c[k] = Wider(b[k - 1], others)
    BY <1>1, <2>2
  <2>4. Wider(b[k - 1], edges) = Wider(b[k - 1], others)
    BY <1>3, <2>2 DEF Wider
  <2> QED
    BY <2>1, <2>3, <2>4
<1>6. S \in SUBSET Nat
  OBVIOUS
<1>7. n \in S
  <2> HIDE DEF S
  <2>1. 0 .. N \subseteq S
    BY <1>1, <1>4, <1>5, <1>6, FirstMissing
  <2> QED
    BY <2>1 DEF N
<1>8. n <= N
  BY <1>1 DEF N
<1> QED
  BY <1>7, <1>8 DEF b, c

(* dijkstra: within n hops is what has a distance of at most n. *)
LEMMA DistIs ==
  ASSUME NEW r \in Router, NEW edges, NEW m \in Router
  PROVE  /\ Dist(r, edges)[m] \in 0 .. Far
         /\ \A n \in 0 .. Cardinality(Router) :
              m \in Balls(r, edges)[n] <=> Dist(r, edges)[m] <= n
<1> DEFINE N == Cardinality(Router)
           b == Balls(r, edges)
           D == {d \in 0 .. N : m \notin b[d]}
<1>1. N \in Nat /\ Far = N + 1
  BY BallsAre DEF Far
<1>2. \A k, l \in 0 .. N : k <= l => b[k] \subseteq b[l]
  BY BallsNest
<1>3. Dist(r, edges)[m] = Cardinality(D)
  BY DEF Dist
<1>4. CASE m \in b[N]
  <2> DEFINE T == {k \in Nat : k <= N /\ m \in b[k]}
  <2>1. PICK k \in T : \A l \in T : k <= l
    <3>1. T \in SUBSET Nat /\ N \in T
      BY <1>1, <1>4
    <3> HIDE DEF T
    <3> QED
      BY <3>1, LeastNat
  <2>2. k \in Nat /\ k <= N /\ m \in b[k]
    BY <2>1
  <2>3. \A d \in 0 .. N : m \in b[d] <=> k <= d
    <3> TAKE d \in 0 .. N
    <3>1. d \in Nat /\ d <= N /\ k \in 0 .. N
      BY <1>1, <2>2
    <3> HIDE DEF b
    <3>2. m \in b[d] => k <= d
      BY <2>1, <3>1
    <3>3. k <= d => m \in b[d]
      BY <1>2, <2>2, <3>1
    <3> QED
      BY <3>2, <3>3
  <2>4. D = 0 .. k - 1
    <3> HIDE DEF b
    <3>1. ASSUME NEW d PROVE d \in D <=> d \in 0 .. k - 1
      BY <1>1, <2>2, <2>3
    <3> QED
      BY <3>1
  <2>5. Cardinality(0 .. k - 1) = k
    <3>1. 0 \in Int /\ k - 1 \in Int /\ (k - 1) - 0 + 1 = k /\ (0 > k - 1 => k = 0)
      BY <2>2
    <3> QED
      BY <3>1, FS_Interval
  <2>6. Dist(r, edges)[m] = k
    BY <1>3, <2>4, <2>5
  <2> QED
    BY <1>1, <2>2, <2>3, <2>6
<1>5. CASE m \notin b[N]
  <2>1. \A d \in 0 .. N : m \notin b[d]
    <3>1. \A d \in 0 .. N : d <= N /\ N \in 0 .. N
      BY <1>1
    <3> HIDE DEF b
    <3> QED
      BY <1>2, <1>5, <3>1
  <2>2. D = 0 .. N
    BY <2>1
  <2>3. Cardinality(0 .. N) = N + 1
    <3>1. 0 \in Int /\ N \in Int /\ N - 0 + 1 = N + 1 /\ ~(0 > N)
      BY <1>1
    <3> QED
      BY <3>1, FS_Interval
  <2>4. Dist(r, edges)[m] = N + 1
    BY <1>3, <2>2, <2>3
  <2>5. N + 1 \in 0 .. Far /\ \A n \in 0 .. N : ~(N + 1 <= n)
    BY <1>1
  <2> QED
    BY <2>1, <2>4, <2>5
<1> QED
  BY <1>4, <1>5
--------------------------------------------------------------------------------
(* Once all agree.                                                         *)

(* Neighbours are those at the other end of a link that works. *)
LEMMA LinksWork ==
  ASSUME Agreed
  PROVE  /\ \A x \in Router : nbr[x] \subseteq Router /\ x \notin nbr[x] /\ 0 \notin nbr[x]
         /\ \A x, y \in Router : <<x, y>> \in Working <=> y \in nbr[x]
         /\ \A x, y \in Router : y \in nbr[x] => x \in nbr[y] /\ {x, y} \in Networks(x)
<1>1. \A r \in Router : nbr[r] = {t \in Router : Up(r, t)}
  BY DEF Agreed
<1>2. 0 \notin Router
  BY MospfAssumption
<1>3. \A x, y \in Router : <<x, y>> \in Direction <=> x # y /\ {x, y} \in Networks(x)
  BY DEF Direction, Net
<1>4. ASSUME NEW x \in Router, NEW y \in Router, Up(x, y)
      PROVE  Up(y, x) /\ {x, y} \in Networks(x) /\ x # y
  <2>1. x # y /\ {x, y} \in Networks(x) /\ Net(x, y) \notin down
    BY <1>3, <1>4 DEF Up
  <2>2. {x, y} \in Networks(y)
    BY <2>1, MospfAssumption
  <2>3. {x, y} = {y, x}
    OBVIOUS
  <2> QED
    BY <1>3, <2>1, <2>2, <2>3 DEF Up, Net
<1>5. \A x, y \in Router : <<x, y>> \in Working <=> y \in nbr[x] /\ Up(x, y)
  BY DEF Working
<1>6. \A x, y \in Router : y \in nbr[x] <=> Up(x, y)
  BY <1>1
<1>7. \A x \in Router : nbr[x] \subseteq Router
  BY <1>1
<1>8. \A x \in Router : x \notin nbr[x] /\ 0 \notin nbr[x]
  BY <1>2, <1>4, <1>6, <1>7
<1>9. \A x, y \in Router : <<x, y>> \in Working <=> y \in nbr[x]
  BY <1>5, <1>6
<1>10. \A x, y \in Router : y \in nbr[x] => x \in nbr[y] /\ {x, y} \in Networks(x)
  BY <1>4, <1>6
<1> QED
  BY <1>7, <1>8, <1>9, <1>10

LEMMA ReachedIs ==
  ASSUME Agreed, NEW r \in Router
  PROVE  /\ Reached(r) \subseteq Router /\ r \in Reached(r)
         /\ \A x \in Reached(r) : r \in Reached(x) /\ nbr[x] \subseteq Reached(r)
<1>1. Cardinality(Router) \in Nat
  BY BallsAre
<1>2. Cardinality(Router) \in 0 .. Cardinality(Router)
  BY <1>1
<1>3. Reached(r) \subseteq Router /\ r \in Reached(r)
  BY <1>2, BallsIn DEF Reached
<1>4. ASSUME NEW x \in Reached(r) PROVE r \in Reached(x)
  <2>1. \A u, v \in Router : <<u, v>> \in Working => <<v, u>> \in Working
    BY LinksWork
  <2> QED
    BY <1>2, <2>1, BallsReverse DEF Reached
<1>5. ASSUME NEW x \in Reached(r), NEW y \in nbr[x] PROVE y \in Reached(r)
  <2>1. x \in Router /\ y \in Router /\ <<x, y>> \in Working
    BY <1>3, LinksWork
  <2> QED
    BY <2>1, BallsClose DEF Reached
<1> QED
  BY <1>3, <1>4, <1>5

(* A database is true, and complete as far as the links reach. *)
LEMMA DatabaseIs ==
  ASSUME MInv, Agreed, NEW r \in Router
  PROVE  /\ mospf_db[r] \in Seq(Entries)
         /\ \A i \in 1 .. Len(mospf_db[r]) :
              mospf_db[r][i].rid \in Router /\ mospf_db[r][i].nbrs = nbr[mospf_db[r][i].rid]
         /\ \A o \in Reached(r) \ {r} : \E i \in 1 .. Len(mospf_db[r]) : mospf_db[r][i].rid = o
<1> DEFINE q == mospf_db[r]
<1>1. q \in Seq(Entries) /\ \A i, j \in 1 .. Len(q) : q[i].rid = q[j].rid => i = j
  BY DEF MInv, DatabasesOK, DbGood
<1>2. Len(q) \in Nat /\ DOMAIN q = 1 .. Len(q) /\ \A i \in 1 .. Len(q) : q[i] \in Entries
  <2> HIDE DEF q
  <2> QED
    BY <1>1
<1>3. \A i \in 1 .. Len(q) : q[i].rid \in Router
  BY <1>2 DEF Entries
<1>4. \A o \in Router : \A i : i \in Positions(r, o) <=> i \in 1 .. Len(q) /\ q[i].rid = o
  BY <1>2 DEF Positions
<1>5. \A o \in Router : IF r \in Reached(o) \ {o} THEN Holds(r, o)
                        ELSE Positions(r, o) = {} \/ Holds(r, o)
  BY DEF Agreed
<1> HIDE DEF q
<1>6. ASSUME NEW i \in 1 .. Len(q) PROVE q[i].nbrs = nbr[q[i].rid]
  <2>1. q[i].rid \in Router /\ i \in Positions(r, q[i].rid)
    BY <1>3, <1>4
  <2>2. Holds(r, q[i].rid)
    <3>1. Positions(r, q[i].rid) # {}
      BY <2>1
    <3> QED
      BY <1>5, <2>1, <3>1
  <2>3. PICK j \in Positions(r, q[i].rid) : q[j].nbrs = nbr[q[i].rid]
    BY <2>2 DEF Holds, q
  <2>4. j = i
    BY <1>1, <1>4, <2>1, <2>3
  <2> QED
    BY <2>3, <2>4
<1>7. ASSUME NEW o \in Reached(r) \ {r} PROVE \E i \in 1 .. Len(q) : q[i].rid = o
  <2>1. o \in Router /\ r \in Reached(o) \ {o}
    BY ReachedIs
  <2>2. Holds(r, o)
    BY <1>5, <2>1
  <2>3. PICK j \in Positions(r, o) : TRUE
    BY <2>2 DEF Holds
  <2> QED
    BY <1>4, <2>1, <2>3
<1> QED
  BY <1>1, <1>3, <1>6, <1>7 DEF q
--------------------------------------------------------------------------------
(* The graph that a router makes of its database.                          *)

LEMMA TableIs ==
  ASSUME NEW r \in Router, mospf_db[r] \in Seq(Entries)
  PROVE  /\ RidTable(r) \in Seq(Router)
         /\ \A o \in Router : InTable(r, o) <=>
              o = r \/ \E i \in 1 .. Len(mospf_db[r]) : mospf_db[r][i].rid = o
<1> DEFINE q == mospf_db[r]
           rids == [i \in DOMAIN q |-> q[i].rid]
<1>1. Len(q) \in Nat /\ DOMAIN q = 1 .. Len(q) /\ \A i \in 1 .. Len(q) : q[i] \in Entries
  <2>1. q \in Seq(Entries)
    OBVIOUS
  <2> HIDE DEF q
  <2> QED
    BY <2>1
<1>2. \A i \in 1 .. Len(q) : q[i].rid \in Router
  BY <1>1 DEF Entries
<1>3. rids \in Seq(Router) /\ Len(rids) = Len(q) /\ \A i \in 1 .. Len(q) : rids[i] = q[i].rid
  <2> HIDE DEF q
  <2>1. rids \in [1 .. Len(q) -> Router]
    BY <1>1, <1>2
  <2> QED
    BY <1>1, <2>1
<1>4. RidTable(r) = <<r>> \o rids
  BY DEF RidTable
<1> HIDE DEF rids, q
<1>5. /\ RidTable(r) \in Seq(Router) /\ DOMAIN RidTable(r) = 1 .. Len(q) + 1
      /\ RidTable(r)[1] = r /\ \A i \in 1 .. Len(q) : RidTable(r)[i + 1] = q[i].rid
  BY <1>1, <1>3, <1>4
<1>6. ASSUME NEW o \in Router
      PROVE  InTable(r, o) <=> o = r \/ \E i \in 1 .. Len(q) : q[i].rid = o
  <2>1. ASSUME NEW i \in 1 .. Len(q) + 1, RidTable(r)[i] = o
        PROVE  o = r \/ \E j \in 1 .. Len(q) : q[j].rid = o
    <3>1. CASE i = 1
      BY <1>5, <2>1, <3>1
    <3>2. CASE i # 1
      <4>1. i - 1 \in 1 .. Len(q) /\ (i - 1) + 1 = i
        BY <1>1, <3>2
      <4> QED
        BY <1>5, <2>1, <4>1
    <3> QED
      BY <3>1, <3>2
  <2>2. 1 \in 1 .. Len(q) + 1 /\ \A i \in 1 .. Len(q) : i + 1 \in 1 .. Len(q) + 1
    BY <1>1
  <2> QED
    BY <1>5, <2>1, <2>2 DEF InTable
<1> QED
  BY <1>5, <1>6 DEF q

(* rid2index finds a router that is in the table. *)
LEMMA IndexIs ==
  ASSUME NEW r \in Router, RidTable(r) \in Seq(Router), NEW o \in Router, InTable(r, o)
  PROVE  Index(r, o) \in Nat
<1> DEFINE t == RidTable(r)
           S == {i \in 1 .. Len(t) : t[i] = o}
<1>1. Len(t) \in Nat /\ DOMAIN t = 1 .. Len(t)
  <2>1. t \in Seq(Router)
    OBVIOUS
  <2> HIDE DEF t
  <2> QED
    BY <2>1
<1>2. PICK i \in S : \A j \in S : i <= j
  <2>1. S \in SUBSET Nat /\ S # {}
    BY <1>1 DEF InTable
  <2> HIDE DEF S
  <2> QED
    BY <2>1, LeastNat
<1>3. i \in DOMAIN t /\ t[i] = o
  BY <1>1, <1>2
<1>4. \A j \in 1 .. i - 1 : t[j] # o
  <2> TAKE j \in 1 .. i - 1
  <2>1. j \in 1 .. Len(t) /\ ~(i <= j)
    BY <1>1, <1>2
  <2> QED
    BY <1>2, <2>1
<1>5. Index(r, o) \in DOMAIN t
  BY <1>3, <1>4 DEF Index
<1> QED
  BY <1>1, <1>5

(* The LSAs of a router that names its neighbours. *)
LEMMA LsasAre ==
  ASSUME Agreed, NEW x \in Router, NEW i \in DOMAIN Iface[x]
  PROVE  LET lsa == Lsas(x, nbr[x])[i]
         IN  /\ lsa.from = x /\ lsa.net = Iface[x][i]
             /\ lsa.rid = 0 \/ (lsa.rid \in nbr[x] /\ lsa.rid \in Iface[x][i])
             /\ \A y \in nbr[x] : Iface[x][i] = {x, y} => lsa.rid = y
<1> DEFINE lsa == Lsas(x, nbr[x])[i]
<1>1. /\ lsa.from = x /\ lsa.net = Iface[x][i]
      /\ lsa.rid = IF \E t \in nbr[x] : t \in Iface[x][i]
                   THEN CHOOSE t \in nbr[x] : t \in Iface[x][i] ELSE 0
  BY DEF Lsas
<1>2. x \notin nbr[x]
  BY LinksWork
<1> HIDE DEF lsa
<1>3. lsa.rid = 0 \/ (lsa.rid \in nbr[x] /\ lsa.rid \in Iface[x][i])
  BY <1>1
<1>4. ASSUME NEW y \in nbr[x], Iface[x][i] = {x, y} PROVE lsa.rid = y
  <2>1. \A t \in nbr[x] : t \in Iface[x][i] <=> t = y
    BY <1>2, <1>4
  <2>2. lsa.rid = CHOOSE t \in nbr[x] : t \in Iface[x][i]
    BY <1>1, <2>1
  <2> QED
    BY <2>1, <2>2
<1> QED
  BY <1>1, <1>3, <1>4 DEF lsa

(* The ifaces of a router. *)
LEMMA IfacesAre ==
  ASSUME NEW x \in Router
  PROVE  /\ Iface[x] \in Seq(SUBSET Router)
         /\ \A net \in Networks(x) : \E i \in 1 .. Len(Iface[x]) : Iface[x][i] = net
<1>1. Iface[x] \in Seq(SUBSET Router)
  BY MospfAssumption
<1> QED
  BY <1>1 DEF Networks

(* What an entry adds to the graph of router r: nothing that is not a      *)
(* link, and all links of a router that r reaches.                         *)
LEMMA EdgesAre ==
  ASSUME MInv, Agreed, NEW r \in Router, NEW i \in 1 .. Len(mospf_db[r])
  PROVE  LET e == mospf_db[r][i]
         IN  /\ e.rid \in Router
             /\ \A edge \in EdgesOf(r, e) : \E y \in nbr[e.rid] : edge = {e.rid, y}
             /\ e.rid \in Reached(r) => \A y \in nbr[e.rid] : {e.rid, y} \in EdgesOf(r, e)
<1> DEFINE e == mospf_db[r][i]
           x == e.rid
           lsas == Lsas(x, nbr[x])
           Read(j) == \A k \in 1 .. j : lsas[k].rid = 0 \/ InTable(r, lsas[k].rid)
<1>1. x \in Router /\ e.nbrs = nbr[x]
  BY DatabaseIs
<1> HIDE DEF e
<1>2. Iface[x] \in Seq(SUBSET Router) /\ DOMAIN lsas = DOMAIN Iface[x]
  BY <1>1, IfacesAre DEF Lsas
<1>3. EdgesOf(r, e) = {{x, lsas[j].rid} : j \in {k \in DOMAIN lsas : lsas[k].rid # 0 /\ Read(k)}}
  BY <1>1 DEF EdgesOf
<1>4. ASSUME NEW j \in DOMAIN Iface[x]
      PROVE  /\ lsas[j].rid = 0 \/ lsas[j].rid \in nbr[x]
             /\ \A y \in nbr[x] : Iface[x][j] = {x, y} => lsas[j].rid = y
  <2> HIDE DEF x
  <2> QED
    BY <1>1, LsasAre
<1> HIDE DEF lsas, x
<1>5. ASSUME NEW edge \in EdgesOf(r, e) PROVE \E y \in nbr[x] : edge = {x, y}
  <2>1. PICK j \in DOMAIN lsas : lsas[j].rid # 0 /\ edge = {x, lsas[j].rid}
    BY <1>3
  <2> QED
    BY <1>2, <1>4, <2>1
<1>6. ASSUME x \in Reached(r), NEW y \in nbr[x] PROVE {x, y} \in EdgesOf(r, e)
  <2>1. y \in Router /\ y # 0 /\ {x, y} \in Networks(x)
    BY <1>1, LinksWork
  <2>2. PICK j \in 1 .. Len(Iface[x]) : Iface[x][j] = {x, y}
    BY <1>1, <2>1, IfacesAre
  <2>3. j \in DOMAIN Iface[x] /\ \A k \in 1 .. j : k \in DOMAIN Iface[x]
    <3>1. DOMAIN Iface[x] = 1 .. Len(Iface[x]) /\ Len(Iface[x]) \in Nat
      BY <1>2
    <3> QED
      BY <3>1
  <2>4. \A z \in nbr[x] : InTable(r, z)
    <3> TAKE z \in nbr[x]
    <3>1. z \in Reached(r) /\ z \in Router
      BY <1>1, <1>6, ReachedIs
    <3>2. mospf_db[r] \in Seq(Entries)
      BY DatabaseIs
    <3>3. z = r \/ \E k \in 1 .. Len(mospf_db[r]) : mospf_db[r][k].rid = z
      BY <3>1, DatabaseIs
    <3> QED
      BY <3>1, <3>2, <3>3, TableIs
  <2>5. lsas[j].rid = y /\ Read(j)
    BY <1>4, <2>2, <2>3, <2>4
  <2> QED
    BY <1>2, <1>3, <2>1, <2>3, <2>5
<1> QED
  BY <1>1, <1>5, <1>6 DEF e, x

LEMMA ReachedInTable ==
  ASSUME MInv, Agreed, NEW r \in Router, NEW x \in Reached(r)
  PROVE  InTable(r, x) /\ Index(r, x) \in Nat
<1>1. x \in Router
  BY ReachedIs
<1>2. mospf_db[r] \in Seq(Entries)
  BY DatabaseIs
<1>3. x = r \/ \E k \in 1 .. Len(mospf_db[r]) : mospf_db[r][k].rid = x
  BY DatabaseIs
<1>4. InTable(r, x) /\ RidTable(r) \in Seq(Router)
  BY <1>1, <1>2, <1>3, TableIs
<1> QED
  BY <1>1, <1>4, IndexIs

(* As far as router r reaches, its graph is that of the links that work. *)
LEMMA GraphIs ==
  ASSUME MInv, Agreed, NEW r \in Router, NEW x \in Reached(r), NEW y \in Router
  PROVE  <<x, y>> \in Graph(r) <=> y \in nbr[x]
<1> DEFINE q == mospf_db[r]
           advertised == UNION {EdgesOf(r, q[i]) : i \in DOMAIN q}
<1>1. x \in Router /\ r \in Reached(r) /\ \A m \in nbr[r] : InTable(r, m)
  BY ReachedIs, ReachedInTable
<1>2. DOMAIN q = 1 .. Len(q)
  <2>1. q \in Seq(Entries)
    BY DatabaseIs
  <2> HIDE DEF q
  <2> QED
    BY <2>1
<1>3. Graph(r) = {p \in Router \X Router : {p[1], p[2]} \in advertised} \cup {<<r, m>> : m \in nbr[r]}
  BY <1>1 DEF Graph
<1>4. /\ \A i \in 1 .. Len(q) : /\ q[i].rid \in Router
                                /\ \A edge \in EdgesOf(r, q[i]) : \E z \in nbr[q[i].rid] :
                                     edge = {q[i].rid, z}
                                /\ q[i].rid \in Reached(r) =>
                                     \A z \in nbr[q[i].rid] : {q[i].rid, z} \in EdgesOf(r, q[i])
  BY EdgesAre
<1>5. \A u \in Router, v \in Router : v \in nbr[u] => u \in nbr[v]
  BY LinksWork
<1>l. \A u \in Router : nbr[u] \subseteq Router
  BY LinksWork
<1>6. ASSUME {x, y} \in advertised PROVE y \in nbr[x]
  <2>1. PICK i \in 1 .. Len(q) : {x, y} \in EdgesOf(r, q[i])
    <3>1. PICK E \in {EdgesOf(r, q[i]) : i \in DOMAIN q} : {x, y} \in E
      BY <1>6
    <3> QED
      BY <1>2, <3>1
  <2>2. PICK z \in nbr[q[i].rid] : {x, y} = {q[i].rid, z}
    BY <1>4, <2>1
  <2>u. PICK u \in Router : u = q[i].rid
    BY <1>4
  <2>3. q[i].rid \in Router /\ z \in Router /\ q[i].rid \in nbr[z]
    BY <1>5, <1>l, <2>2, <2>u
  <2>4. (x = q[i].rid /\ y = z) \/ (x = z /\ y = q[i].rid)
    <3>1. {x, y} = {u, z}
      BY <2>2, <2>u
    <3>2. x \in {u, z} /\ y \in {u, z} /\ u \in {x, y} /\ z \in {x, y}
      BY <3>1
    <3> QED
      BY <3>2, <2>u
  <2> QED
    BY <2>2, <2>3, <2>4
<1>7. ASSUME x # r, y \in nbr[x] PROVE {x, y} \in advertised
  <2>1. PICK i \in 1 .. Len(q) : q[i].rid = x
    BY <1>7, DatabaseIs
  <2>2. {x, y} \in EdgesOf(r, q[i])
    BY <1>4, <1>7, <2>1
  <2> QED
    BY <1>2, <2>2
<1> HIDE DEF advertised
<1>8. <<x, y>> \in Graph(r) <=> {x, y} \in advertised \/ (x = r /\ y \in nbr[r])
  <2> DEFINE A == {p \in Router \X Router : {p[1], p[2]} \in advertised}
             B == {<<r, m>> : m \in nbr[r]}
  <2>1. <<x, y>> \in A <=> {x, y} \in advertised
    <3>1. <<x, y>> \in Router \X Router /\ <<x, y>>[1] = x /\ <<x, y>>[2] = y
      BY <1>1
    <3> QED
      BY <3>1
  <2>2. <<x, y>> \in B <=> (x = r /\ y \in nbr[r])
    OBVIOUS
  <2>3. Graph(r) = A \cup B
    BY <1>3
  <2> HIDE DEF A, B
  <2> QED
    BY <2>1, <2>2, <2>3
<1> QED
  BY <1>6, <1>7, <1>8
--------------------------------------------------------------------------------
(* Distances, and the way back.                                            *)

LEMMA DistancesAre ==
  ASSUME MInv, Agreed, NEW r \in Router
  PROVE  LET dist == Dist(r, Graph(r))
         IN  /\ \A m \in Router : /\ dist[m] \in 0 .. Far
                                  /\ m \in Reached(r) <=> dist[m] < Far
                                  /\ dist[m] = 0 <=> m = r
                                  /\ dist[m] = 1 => m \in nbr[r]
             /\ \A n \in 0 .. Cardinality(Router) : \A m \in Router :
                  /\ m \in Balls(r, Graph(r))[n] <=> dist[m] <= n
                  /\ m \in Balls(r, Working)[n] <=> dist[m] <= n
<1> DEFINE N == Cardinality(Router)
           g == Graph(r)
           dist == Dist(r, g)
           b == Balls(r, g)
<1>1. N \in Nat /\ Far = N + 1
  BY BallsAre DEF Far
<1>2. \A m \in Router : dist[m] \in 0 .. Far /\ \A n \in 0 .. N : m \in b[n] <=> dist[m] <= n
  BY DistIs
<1>3. b[0] = {r} /\ \A n \in 1 .. N : b[n] = Wider(b[n - 1], g)
  BY BallsAre
<1>4. b[N] = Reached(r) /\ \A n \in 0 .. N : b[n] = Balls(r, Working)[n]
  <2>2. SameFrom(Reached(r), Working, g)
    <3>1. \A x \in Reached(r), y \in Router : <<x, y>> \in Working <=> <<x, y>> \in g
      <4> TAKE x \in Reached(r), y \in Router
      <4>1. x \in Router
        BY ReachedIs
      <4> QED
        BY <4>1, GraphIs, LinksWork
    <3> QED
      BY <3>1 DEF SameFrom
  <2>3. Reached(r) = Balls(r, Working)[N]
    BY DEF Reached
  <2>4. SameFrom(Balls(r, Working)[Cardinality(Router)], Working, g)
    BY <2>2, <2>3
  <2> HIDE DEF g
  <2>5. ASSUME NEW n \in 0 .. N PROVE b[n] = Balls(r, Working)[n]
    BY <2>4, BallsAgree
  <2>6. N \in 0 .. N
    BY <1>1
  <2> QED
    BY <2>3, <2>5, <2>6
<1>5. r \in Reached(r) /\ r \notin nbr[r]
  BY ReachedIs, LinksWork
<1>6. \A y \in Router : <<r, y>> \in g <=> y \in nbr[r]
  BY <1>5, GraphIs
<1> HIDE DEF N, g, dist, b
<1>7. ASSUME NEW m \in Router
      PROVE  /\ m \in Reached(r) <=> dist[m] < Far
             /\ dist[m] = 0 <=> m = r
             /\ dist[m] = 1 => m \in nbr[r]
  <2>1. dist[m] \in Nat /\ 0 \in 0 .. N /\ N \in 0 .. N
    BY <1>1, <1>2
  <2>2. m \in Reached(r) <=> dist[m] < Far
    BY <1>1, <1>2, <1>4, <2>1
  <2>3. dist[m] = 0 <=> m = r
    BY <1>2, <1>3, <2>1
  <2>4. ASSUME dist[m] = 1 PROVE m \in nbr[r]
    <3>1. m # r
      BY <2>3, <2>4
    <3>2. m \in Reached(r) => 1 \in 1 .. N /\ 1 - 1 = 0
      BY <1>1, <2>2, <2>4
    <3>3. CASE N = 0
      <4>1. b[0] = Reached(r)
        BY <1>4, <3>3
      <4>2. r \in Router /\ IsFiniteSet(Router) /\ Router # {}
        BY MospfAssumption
      <4> QED
        BY <3>3, <4>2, FS_EmptySet DEF N
    <3>4. CASE N # 0
      <4>1. 1 \in 1 .. N /\ 1 \in 0 .. N /\ 1 - 1 = 0
        BY <1>1, <3>4
      <4>2. m \in b[1] /\ b[1] = Wider({r}, g)
        <5>1. m \in b[1] <=> dist[m] <= 1
          BY <1>2, <4>1
        <5>2. b[1] = Wider(b[0], g)
          BY <1>3, <4>1
        <5> QED
          BY <1>3, <2>4, <5>1, <5>2
      <4>3. <<r, m>> \in g
        BY <3>1, <4>2 DEF Wider
      <4> QED
        BY <1>6, <4>3
    <3> QED
      BY <3>3, <3>4
  <2> QED
    BY <2>2, <2>3, <2>4
<1>8. \A n \in 0 .. N : \A m \in Router :
        (m \in b[n] <=> dist[m] <= n) /\ (m \in Balls(r, Working)[n] <=> dist[m] <= n)
  BY <1>2, <1>4
<1> QED
  BY <1>2, <1>7, <1>8 DEF N, g, dist, b

(* prev: a router that is reached over at least one hop has one before it. *)
LEMMA PrevIs ==
  ASSUME MInv, Agreed, NEW r \in Router, NEW m \in Reached(r), m # r
  PROVE  LET dist == Dist(r, Graph(r))
             p == Prev(r, dist, Graph(r), m)
         IN  p \in Reached(r) /\ dist[p] = dist[m] - 1 /\ m \in nbr[p]
<1> DEFINE N == Cardinality(Router)
           g == Graph(r)
           dist == Dist(r, g)
           b == Balls(r, g)
           B == Before(dist, g, m)
           p == Prev(r, dist, g, m)
<1>1. N \in Nat /\ Far = N + 1
  BY BallsAre DEF Far
<1>2. m \in Router
  BY ReachedIs
<1>3. \A n \in 1 .. N : b[n] = Wider(b[n - 1], g)
  BY BallsAre
<1>4. /\ \A k \in Router : /\ dist[k] \in 0 .. Far
                           /\ k \in Reached(r) <=> dist[k] < Far
                           /\ dist[k] = 0 <=> k = r
      /\ \A n \in 0 .. N : \A k \in Router : k \in b[n] <=> dist[k] <= n
  BY DistancesAre
<1>5. B = {n \in Router : dist[n] = dist[m] - 1 /\ <<n, m>> \in g}
  BY DEF Before
<1>b. \A n \in 0 .. N : b[n] \subseteq Router
  BY BallsIn
<1>p. p = CHOOSE n \in B : \A k \in B : Index(r, n) <= Index(r, k)
  BY DEF Prev
<1>g. \A x \in Reached(r) : <<x, m>> \in g <=> m \in nbr[x]
  BY <1>2, GraphIs
<1>i. \A x \in Reached(r) : Index(r, x) \in Nat
  BY ReachedInTable
<1> HIDE DEF N, g, dist, b, B, p
<1>6. dist[m] \in 1 .. N /\ dist[m] \in 0 .. N /\ dist[m] - 1 \in 0 .. N
  BY <1>1, <1>2, <1>4
<1>7. \A n \in B : n \in Reached(r) /\ m \in nbr[n]
  <2> TAKE n \in B
  <2>1. n \in Router /\ dist[n] = dist[m] - 1 /\ <<n, m>> \in g
    BY <1>5
  <2>2. n \in Reached(r)
    BY <1>1, <1>4, <1>6, <2>1
  <2> QED
    BY <1>g, <2>1, <2>2
<1>8. B # {}
  <2> DEFINE d == dist[m]
  <2>1. d \in 1 .. N /\ d \in 0 .. N /\ d - 1 \in 0 .. N /\ ~(d <= d - 1) /\ d <= d
    BY <1>6
  <2>2. m \in b[d] /\ m \notin b[d - 1] /\ b[d] = Wider(b[d - 1], g)
    BY <1>2, <1>3, <1>4, <2>1
  <2>3. PICK n \in b[d - 1] : <<n, m>> \in g
    BY <2>2 DEF Wider
  <2>4. n \in Router /\ dist[n] <= d - 1 /\ dist[n] \in 0 .. Far
    BY <1>4, <1>b, <2>1, <2>3
  <2>5. dist[n] = d - 1
    <3> SUFFICES ASSUME dist[n] # d - 1 PROVE FALSE
      OBVIOUS
    <3> DEFINE k == dist[n]
    <3>1. k \in 0 .. N /\ k + 1 \in 1 .. N /\ k + 1 \in 0 .. N /\ (k + 1) - 1 = k /\ ~(d <= k + 1)
          /\ k <= k
      BY <1>1, <2>1, <2>4
    <3>2. n \in b[k] /\ b[k + 1] = Wider(b[k], g)
      BY <1>3, <1>4, <2>4, <3>1
    <3>3. m \in b[k + 1]
      BY <1>2, <2>3, <3>2 DEF Wider
    <3> QED
      BY <1>2, <1>4, <3>1, <3>3
  <2> QED
    BY <1>5, <2>3, <2>4, <2>5
<1>9. \E n \in B : \A k \in B : Index(r, n) <= Index(r, k)
  <2> DEFINE S == {Index(r, n) : n \in B}
  <2>1. S \in SUBSET Nat /\ S # {}
    BY <1>7, <1>8, <1>i
  <2>2. \E i \in S : \A j \in S : i <= j
    <3> HIDE DEF S
    <3> QED
      BY <2>1, LeastNat
  <2> QED
    BY <2>2
<1>10. p \in B
  BY <1>9, <1>p
<1> QED
  BY <1>10, <1>5, <1>7 DEF p, dist, g

(* The first hop towards a router that is reached is a neighbour, and      *)
(* leads there in one hop less.                                            *)
LEMMA WayBackIs ==
  ASSUME MInv, Agreed, NEW r \in Router, NEW m \in Reached(r), m # r,
         NEW n \in 0 .. Cardinality(Router),
         NEW x \in Balls(m, Back(r, Dist(r, Graph(r)), Graph(r)))[n]
  PROVE  LET dist == Dist(r, Graph(r))
         IN  /\ x \in Reached(r) /\ x # r /\ dist[x] <= dist[m]
             /\ m \in Balls(x, Working)[dist[m] - dist[x]]
<1> DEFINE N == Cardinality(Router)
           g == Graph(r)
           dist == Dist(r, g)
           back == Back(r, dist, g)
           b == Balls(m, back)
           Right(y) == /\ y \in Reached(r) /\ y # r /\ dist[y] <= dist[m]
                       /\ m \in Balls(y, Working)[dist[m] - dist[y]]
           S == {k \in Nat : k <= N => \A y \in b[k] : Right(y)}
<1>f. N \in Nat /\ Far = N + 1
  BY BallsAre DEF Far
<1>1. N \in Nat /\ Far = N + 1 /\ b[0] = {m} /\ \A k \in 1 .. N : b[k] = Wider(b[k - 1], back)
  <2> HIDE DEF back
  <2> QED
    BY <1>f, BallsAre
<1>2. \A k \in Router : /\ dist[k] \in 0 .. Far
                        /\ k \in Reached(r) <=> dist[k] < Far
                        /\ dist[k] = 0 <=> k = r
  BY DistancesAre
<1>3. \A k \in Reached(r) : k \in Router
  BY ReachedIs
<1>4. \A k \in Reached(r) \ {r} :
        LET p == Prev(r, dist, g, k)
        IN  p \in Reached(r) /\ dist[p] = dist[k] - 1 /\ k \in nbr[p]
  BY PrevIs
<1>5. back = {<<k, Prev(r, dist, g, k)>> : k \in {y \in Router : dist[y] \in 2 .. Far - 1}}
  BY DEF Back
<1>6. Balls(m, Working)[0] = {m}
  BY BallsAre
<1>7. \A u, v \in Router : v \in nbr[u] => <<u, v>> \in Working
  BY LinksWork
<1>8. \A u, v \in Router : \A k \in 0 .. N - 1 :
        <<u, v>> \in Working => Balls(v, Working)[k] \subseteq Balls(u, Working)[k + 1]
  BY BallsPrepend
<1> HIDE DEF N, g, dist, back, b
<1>9. 0 \in S
  <2>1. dist[m] \in Nat /\ dist[m] - dist[m] = 0
    BY <1>1, <1>2, <1>3
  <2> QED
    BY <1>1, <1>6, <2>1
<1>10. ASSUME NEW k \in 1 .. N, k - 1 \in S PROVE k \in S
  <2> SUFFICES ASSUME NEW y \in b[k] PROVE Right(y)
    BY <1>1
  <2>1. k - 1 <= N /\ b[k] = Wider(b[k - 1], back)
    BY <1>1
  <2>2. \A z \in b[k - 1] : Right(z)
    BY <1>10, <2>1
  <2>3. CASE y \in b[k - 1]
    BY <2>2, <2>3
  <2>4. CASE y \notin b[k - 1]
    <3>1. PICK z \in b[k - 1] : <<z, y>> \in back
      BY <2>1, <2>4 DEF Wider
    <3>2. z \in Router /\ dist[z] \in 2 .. Far - 1 /\ y = Prev(r, dist, g, z)
      BY <1>5, <3>1
    <3>3. Right(z)
      BY <2>2
    <3>4. y \in Reached(r) /\ dist[y] = dist[z] - 1 /\ z \in nbr[y]
      BY <1>4, <3>2, <3>3
    <3>5. y \in Router /\ m \in Router
      BY <1>3, <3>4
    <3>6. dist[m] \in 0 .. N /\ dist[z] \in 2 .. N /\ dist[z] <= dist[m]
      BY <1>1, <1>2, <1>3, <3>2, <3>3, <3>5
    <3>7. y # r /\ dist[y] <= dist[m]
      <4>1. dist[y] # 0 /\ dist[y] <= dist[m]
        BY <3>4, <3>6
      <4> QED
        BY <1>2, <3>5, <4>1
    <3> DEFINE d == dist[m] - dist[z]
    <3>8. d \in 0 .. N - 1 /\ d + 1 = dist[m] - dist[y]
      BY <1>1, <3>4, <3>6
    <3>9. m \in Balls(z, Working)[d] /\ Balls(z, Working)[d] \subseteq Balls(y, Working)[d + 1]
      BY <1>7, <1>8, <3>2, <3>3, <3>4, <3>5, <3>8
    <3> QED
      BY <3>4, <3>7, <3>8, <3>9
  <2> QED
    BY <2>3, <2>4
<1>11. S \in SUBSET Nat
  OBVIOUS
<1>12. n \in S
  <2> HIDE DEF S
  <2>1. 0 .. N \subseteq S
    BY <1>1, <1>9, <1>10, <1>11, FirstMissing
  <2> QED
    BY <2>1 DEF N
<1>13. n <= N /\ x \in b[n]
  BY <1>1 DEF N, b, back, dist, g
<1> QED
  BY <1>12, <1>13 DEF dist, g

(* The way back ends one hop away from the router. *)
LEMMA WayBackEnds ==
  ASSUME MInv, Agreed, NEW r \in Router, NEW m \in Reached(r), m # r
  PROVE  LET dist == Dist(r, Graph(r))
         IN  \E h \in Balls(m, Back(r, dist, Graph(r)))[Cardinality(Router)] : dist[h] = 1
<1> DEFINE N == Cardinality(Router)
           g == Graph(r)
           dist == Dist(r, g)
           back == Back(r, dist, g)
           S == {k \in Nat : k + 1 <= N => \A y \in Reached(r) :
                   dist[y] = k + 1 => \E h \in Balls(y, back)[k] : dist[h] = 1}
<1>f. N \in Nat /\ Far = N + 1
  BY BallsAre DEF Far
<1>1. N \in Nat /\ Far = N + 1 /\ \A y \in Router : Balls(y, back)[0] = {y}
  <2> HIDE DEF back
  <2> QED
    BY <1>f, BallsAre
<1>2. \A k \in Router : /\ dist[k] \in 0 .. Far
                        /\ k \in Reached(r) <=> dist[k] < Far
                        /\ dist[k] = 0 <=> k = r
  BY DistancesAre
<1>3. \A k \in Reached(r) : k \in Router
  BY ReachedIs
<1>4. \A k \in Reached(r) \ {r} :
        LET p == Prev(r, dist, g, k)
        IN  p \in Reached(r) /\ dist[p] = dist[k] - 1
  BY PrevIs
<1>5. back = {<<k, Prev(r, dist, g, k)>> : k \in {y \in Router : dist[y] \in 2 .. Far - 1}}
  BY DEF Back
<1>6. \A u, v \in Router : \A k \in 0 .. N - 1 :
        <<u, v>> \in back => Balls(v, back)[k] \subseteq Balls(u, back)[k + 1]
  BY BallsPrepend
<1>7. \A k \in 0 .. N : k <= N => Balls(m, back)[k] \subseteq Balls(m, back)[N]
  <2>1. N \in 0 .. N
    BY <1>1
  <2> QED
    BY <2>1, BallsNest
<1> HIDE DEF N, g, dist, back
<1>8. 0 \in S
  <2>1. \A y \in Reached(r) : dist[y] = 0 + 1 => y \in Balls(y, back)[0] /\ dist[y] = 1
    BY <1>1, <1>3
  <2> QED
    BY <2>1
<1>9. ASSUME NEW k \in 1 .. N, k - 1 \in S PROVE k \in S
  <2> SUFFICES ASSUME k + 1 <= N, NEW y \in Reached(r), dist[y] = k + 1
               PROVE  \E h \in Balls(y, back)[k] : dist[h] = 1
    BY <1>1
  <2> DEFINE p == Prev(r, dist, g, y)
  <2>1. /\ (k - 1) + 1 = k /\ k <= N /\ k - 1 \in 0 .. N - 1 /\ k + 1 \in 2 .. Far - 1
        /\ (k + 1) - 1 = k /\ k + 1 # 0
    BY <1>1
  <2>2. y \in Router /\ y # r
    BY <1>2, <1>3, <2>1
  <2>3. p \in Reached(r) /\ dist[p] = k /\ <<y, p>> \in back
    <3>1. p \in Reached(r) /\ dist[p] = k
      BY <1>4, <2>1, <2>2
    <3>2. y \in {z \in Router : dist[z] \in 2 .. Far - 1}
      BY <2>1, <2>2
    <3>3. <<y, p>> \in back
      BY <1>5, <3>2
    <3> QED
      BY <3>1, <3>3
  <2>4. PICK h \in Balls(p, back)[k - 1] : dist[h] = 1
    BY <1>9, <2>1, <2>3
  <2>5. Balls(p, back)[k - 1] \subseteq Balls(y, back)[(k - 1) + 1]
    BY <1>3, <1>6, <2>1, <2>2, <2>3
  <2> QED
    BY <2>1, <2>4, <2>5
<1>10. S \in SUBSET Nat
  OBVIOUS
<1>11. dist[m] \in 1 .. N
  <2>1. m \in Router /\ dist[m] \in 0 .. Far /\ dist[m] < Far /\ dist[m] # 0
    BY <1>2, <1>3
  <2> QED
    BY <1>f, <2>1
<1> DEFINE d == dist[m] - 1
<1>12. d \in 0 .. N /\ d + 1 = dist[m] /\ d + 1 <= N /\ d <= N
  BY <1>1, <1>11
<1>13. d \in S
  <2> HIDE DEF S, d
  <2>1. 0 .. N \subseteq S
    BY <1>1, <1>8, <1>9, <1>10, FirstMissing
  <2> QED
    BY <1>12, <2>1
<1>14. PICK h \in Balls(m, back)[d] : dist[h] = 1
  BY <1>12, <1>13
<1>15. h \in Balls(m, back)[N]
  <2> HIDE DEF d
  <2> QED
    BY <1>7, <1>12, <1>14
<1> QED
  BY <1>14, <1>15 DEF N, dist, back, g

LEMMA FirstHopIs ==
  ASSUME MInv, Agreed, NEW r \in Router, NEW m \in Reached(r), m # r
  PROVE  LET dist == Dist(r, Graph(r))
             h == FirstHops(r)[m]
         IN  h \in nbr[r] /\ dist[m] \in 1 .. Cardinality(Router) /\ m \in Balls(h, Working)[dist[m] - 1]
<1> DEFINE N == Cardinality(Router)
           g == Graph(r)
           dist == Dist(r, g)
           back == Back(r, dist, g)
           b == Balls(m, back)[N]
           h == FirstHops(r)[m]
<1>1. N \in Nat /\ Far = N + 1
  BY BallsAre DEF Far
<1>2. \A k \in Router : /\ dist[k] \in 0 .. Far
                        /\ k \in Reached(r) <=> dist[k] < Far
                        /\ dist[k] = 0 <=> k = r
                        /\ dist[k] = 1 => k \in nbr[r]
  BY DistancesAre
<1>3. \A k \in Reached(r) : k \in Router
  BY ReachedIs
<1>4. back = {<<k, Prev(r, dist, g, k)>> : k \in {y \in Router : dist[y] \in 2 .. Far - 1}}
  BY DEF Back
<1>5. \A x \in b : /\ x \in Reached(r) /\ x # r /\ dist[x] <= dist[m]
                   /\ m \in Balls(x, Working)[dist[m] - dist[x]]
  <2>1. N \in 0 .. N
    BY <1>1
  <2> QED
    BY <2>1, WayBackIs
<1>6. \E x \in b : dist[x] = 1
  BY WayBackEnds
<1>7. h = CHOOSE x \in b : \A d \in back : d[1] # x
  BY <1>3 DEF FirstHops
<1> HIDE DEF N, g, dist, back, b, h
<1>8. ASSUME NEW x \in b PROVE (\A d \in back : d[1] # x) <=> dist[x] = 1
  <2>1. x \in Router /\ dist[x] \in 1 .. Far - 1
    <3>1. x \in Router /\ x \in Reached(r) /\ x # r
      BY <1>3, <1>5
    <3>2. dist[x] \in 0 .. Far /\ dist[x] < Far /\ dist[x] # 0
      BY <1>2, <3>1
    <3> QED
      BY <1>1, <3>1, <3>2
  <2>2. CASE dist[x] = 1
    <3>1. \A d \in back : dist[d[1]] \in 2 .. Far - 1
      BY <1>4
    <3> QED
      BY <2>2, <3>1
  <2>3. CASE dist[x] # 1
    <3>1. dist[x] \in 2 .. Far - 1
      BY <1>1, <2>1, <2>3
    <3>2. <<x, Prev(r, dist, g, x)>> \in back /\ <<x, Prev(r, dist, g, x)>>[1] = x
      BY <1>4, <2>1, <3>1
    <3> QED
      BY <2>3, <3>2
  <2> QED
    BY <2>2, <2>3
<1>9. h \in b /\ dist[h] = 1
  BY <1>6, <1>7, <1>8
<1>10. h \in nbr[r] /\ m \in Balls(h, Working)[dist[m] - 1]
  BY <1>2, <1>3, <1>5, <1>9
<1>11. dist[m] \in 1 .. N
  BY <1>1, <1>2, <1>3
<1> QED
  BY <1>10, <1>11 DEF N, dist, g, h
--------------------------------------------------------------------------------
(* The routes.                                                             *)

(* A set of places has a first one. *)
LEMMA SoonestExists ==
  ASSUME NEW W \in SUBSET (Nat \X Nat), W # {}
  PROVE  \E p \in W : \A q \in W : Sooner(p, q)
<1> DEFINE S == {p[1] : p \in W}
<1>1. S \in SUBSET Nat /\ S # {}
  OBVIOUS
<1>2. PICK a \in S : \A i \in S : a <= i
  <2> HIDE DEF S
  <2> QED
    BY <1>1, LeastNat
<1> DEFINE T == {p[2] : p \in {w \in W : w[1] = a}}
<1>3. T \in SUBSET Nat /\ T # {}
  BY <1>2
<1>4. PICK b \in T : \A j \in T : b <= j
  <2> HIDE DEF T
  <2> QED
    BY <1>3, LeastNat
<1>5. PICK p \in W : p[1] = a /\ p[2] = b
  BY <1>4
<1>6. ASSUME NEW q \in W PROVE Sooner(p, q)
  <2>1. q[1] \in Nat /\ q[2] \in Nat /\ a \in Nat /\ b \in Nat /\ a <= q[1]
    BY <1>1, <1>2, <1>3, <1>4
  <2>2. q[1] = a => b <= q[2]
    BY <1>4
  <2> QED
    BY <1>5, <2>1, <2>2 DEF Sooner
<1> QED
  BY <1>6

(* What an LSA for a network of hosts leads to: the router of that network. *)
LEMMA LsaIs ==
  ASSUME MInv, Agreed, NEW r \in Router, NEW o \in Router, NEW p \in Places(r),
         Lsa(r, p).net = {o}
  PROVE  Target(Lsa(r, p)) = o
<1> DEFINE q == mospf_db[r]
<1>1. PICK i \in DOMAIN q : p \in {i} \X DOMAIN Iface[q[i].rid]
  <2>1. PICK P \in {{i} \X DOMAIN Iface[q[i].rid] : i \in DOMAIN q} : p \in P
    BY DEF Places
  <2> QED
    BY <2>1
<1>2. DOMAIN q = 1 .. Len(q)
  <2>1. q \in Seq(Entries)
    BY DatabaseIs
  <2> HIDE DEF q
  <2> QED
    BY <2>1
<1>3. PICK x \in Router : x = q[i].rid /\ q[i].nbrs = nbr[x]
  BY <1>2, DatabaseIs
<1>4. PICK j \in DOMAIN Iface[x] : p[1] = i /\ p[2] = j
  BY <1>1, <1>3
<1>5. Lsa(r, p) = Lsas(x, nbr[x])[j]
  BY <1>3, <1>4 DEF Lsa
<1> DEFINE lsa == Lsas(x, nbr[x])[j]
<1>6. /\ lsa.from = x /\ lsa.net = Iface[x][j]
      /\ lsa.rid = 0 \/ (lsa.rid \in nbr[x] /\ lsa.rid \in Iface[x][j])
  BY LsasAre
<1>7. Iface[x][j] = {o}
  BY <1>5, <1>6
<1>8. x = o
  <2>1. Iface[x] \in Seq(SUBSET Router)
    BY IfacesAre
  <2>2. Iface[x][j] \in Networks(x)
    BY <2>1 DEF Networks
  <2>3. x \in Iface[x][j]
    BY <2>2, MospfAssumption
  <2> QED
    BY <1>7, <2>3
<1>9. o \notin nbr[o]
  BY LinksWork
<1>10. lsa.rid = 0 /\ lsa.from = o
  BY <1>6, <1>7, <1>8, <1>9
<1> HIDE DEF lsa
<1>11. Target(lsa) = o
  BY <1>10 DEF Target
<1> QED
  BY <1>5, <1>11 DEF lsa

(* The table of a router for a network of hosts. *)
LEMMA RtableIs ==
  ASSUME MInv, Agreed, NEW r \in Router, NEW o \in Reached(r), {o} \in Networks(o)
  PROVE  Rtable(r)[{o}] = IF r = o THEN o ELSE FirstHops(r)[o]
<1> DEFINE hops == FirstHops(r)
           q == mospf_db[r]
           ways == Ways(r, {o}, hops)
<1>1. o \in Router /\ {o} \in AllNetworks
  <2>1. o \in Router
    BY ReachedIs
  <2> QED
    BY <2>1 DEF AllNetworks
<1>2. Rtable(r)[{o}] = IF {o} \in Networks(r) THEN r ELSE Added(r, ways, hops)
  BY <1>1 DEF Rtable, KernelRoutes
<1>3. {o} \in Networks(r) <=> r = o
  <2>1. {o} \in Networks(r) => r \in {o}
    BY MospfAssumption
  <2> QED
    BY <2>1
<1>4. CASE r = o
  BY <1>2, <1>3, <1>4
<1>5. CASE r # o
  <2>1. hops[o] \in nbr[r] /\ InTable(r, o)
    BY <1>5, FirstHopIs, ReachedInTable
  <2>2. ways = {p \in Places(r) : LET lsa == Lsa(r, p)
                                  IN  /\ lsa.net = {o} /\ InTable(r, Target(lsa))
                                      /\ hops[Target(lsa)] \in nbr[r]}
    BY DEF Ways
  <2>3. q \in Seq(Entries) /\ \E i \in 1 .. Len(q) : q[i].rid = o
    BY <1>5, DatabaseIs
  <2>4. Places(r) = UNION {{i} \X DOMAIN Iface[q[i].rid] : i \in DOMAIN q}
    BY DEF Places
  <2>5. \A i \in 1 .. Len(q) : q[i].rid \in Router /\ q[i].nbrs = nbr[q[i].rid]
    BY DatabaseIs
  <2>6. \A p : Lsa(r, p) = Lsas(q[p[1]].rid, q[p[1]].nbrs)[p[2]]
    BY DEF Lsa
  <2> HIDE DEF hops, q, ways
  <2>7. DOMAIN q = 1 .. Len(q) /\ Len(q) \in Nat
    BY <2>3
  <2>8. \A p \in ways : Target(Lsa(r, p)) = o
    BY <1>1, <2>2, LsaIs
  <2>9. ways # {}
    <3>1. PICK i \in 1 .. Len(q) : q[i].rid = o
      BY <2>3
    <3>2. PICK j \in 1 .. Len(Iface[o]) : Iface[o][j] = {o}
      BY <1>1, IfacesAre
    <3>3. j \in DOMAIN Iface[o]
      <4>1. Iface[o] \in Seq(SUBSET Router)
        BY <1>1, IfacesAre
      <4> QED
        BY <4>1
    <3> DEFINE p == <<i, j>>
    <3>4. p \in Places(r)
      <4>1. p \in {i} \X DOMAIN Iface[q[i].rid]
        BY <3>1, <3>3
      <4> QED
        BY <2>4, <2>7, <4>1
    <3>5. p[1] = i /\ p[2] = j
      OBVIOUS
    <3> HIDE DEF p
    <3>6. Lsa(r, p) = Lsas(o, nbr[o])[j]
      BY <2>5, <2>6, <3>1, <3>5
    <3>7. Lsas(o, nbr[o])[j].net = {o}
      BY <1>1, <3>2, <3>3, LsasAre
    <3>8. Lsa(r, p).net = {o}
      BY <3>6, <3>7
    <3>9. Target(Lsa(r, p)) = o
      BY <1>1, <3>4, <3>8, LsaIs
    <3>10. p \in ways
      BY <2>1, <2>2, <3>4, <3>8, <3>9
    <3> QED
      BY <3>10
  <2>10. ways \in SUBSET (Nat \X Nat)
    <3> SUFFICES ASSUME NEW p \in ways PROVE p \in Nat \X Nat
      OBVIOUS
    <3>1. PICK i \in 1 .. Len(q) : p \in {i} \X DOMAIN Iface[q[i].rid]
      <4>1. PICK P \in {{i} \X DOMAIN Iface[q[i].rid] : i \in DOMAIN q} : p \in P
        BY <2>2, <2>4
      <4> QED
        BY <2>7, <4>1
    <3>2. DOMAIN Iface[q[i].rid] \subseteq Nat
      <4>1. PICK x \in Router : x = q[i].rid
        BY <2>5
      <4>2. Iface[x] \in Seq(SUBSET Router)
        BY IfacesAre
      <4> QED
        BY <4>1, <4>2
    <3>3. i \in Nat
      BY <2>7
    <3> QED
      BY <3>1, <3>2, <3>3
  <2>11. \E p \in ways : \A w \in ways : Sooner(p, w)
    BY <2>9, <2>10, SoonestExists
  <2> DEFINE first == CHOOSE p \in ways : \A w \in ways : Sooner(p, w)
  <2>12. first \in ways
    BY <2>11
  <2>13. Added(r, ways, hops) = hops[Target(Lsa(r, first))]
    BY <2>9 DEF Added
  <2> HIDE DEF first
  <2>14. Added(r, ways, hops) = hops[o]
    BY <2>8, <2>12, <2>13
  <2> QED
    BY <1>2, <1>3, <1>5, <2>14 DEF hops
<1> QED
  BY <1>4, <1>5

(* Every hop of a packet brings it one hop nearer. *)
LEMMA HopsArrive ==
  ASSUME MInv, Agreed, NEW rtables, rtables = [t \in Router |-> Rtable(t)],
         NEW o \in Router, {o} \in Networks(o), NEW r \in Router, o \in Reached(r)
  PROVE  o \in Balls(r, NextHop(rtables, {o}))[Cardinality(Router)]
<1> DEFINE N == Cardinality(Router)
           next == NextHop(rtables, {o})
           S == {k \in Nat : k <= N => \A x \in Router :
                   o \in Balls(x, Working)[k] => o \in Balls(x, next)[k]}
<1>1. N \in Nat /\ \A x \in Router : Balls(x, Working)[0] = {x}
  BY BallsAre
<1>2. next = {<<x, Rtable(x)[{o}]>> : x \in Router}
  BY DEF NextHop
<1>3. \A x \in Router : o \in Reached(x) =>
        Rtable(x)[{o}] = IF x = o THEN o ELSE FirstHops(x)[o]
  BY RtableIs
<1>4. \A x \in Router : o \in Reached(x) /\ x # o =>
        LET dist == Dist(x, Graph(x))
            h == FirstHops(x)[o]
        IN  h \in nbr[x] /\ dist[o] \in 1 .. N /\ o \in Balls(h, Working)[dist[o] - 1]
  BY FirstHopIs
<1>5. \A x \in Router : \A k \in 0 .. N :
        o \in Balls(x, Working)[k] <=> Dist(x, Graph(x))[o] <= k
  BY DistancesAre
<1>6. \A x \in Router : \A k, l \in 0 .. N :
        k <= l => Balls(x, Working)[k] \subseteq Balls(x, Working)[l]
  BY BallsNest
<1>7. \A x, y \in Router : \A k \in 0 .. N - 1 :
        <<x, y>> \in next => Balls(y, next)[k] \subseteq Balls(x, next)[k + 1]
  <2> HIDE DEF next
  <2> QED
    BY BallsPrepend
<1>8. \A k \in 0 .. N : o \in Balls(o, next)[k]
  <2> HIDE DEF next
  <2> QED
    BY BallsIn
<1>9. \A x \in Router : Reached(x) = Balls(x, Working)[N] /\ nbr[x] \subseteq Router
  BY LinksWork DEF Reached
<1> HIDE DEF N, next
<1>10. 0 \in S
  <2>1. 0 \in 0 .. N
    BY <1>1
  <2> QED
    BY <1>1, <1>8, <2>1
<1>11. ASSUME NEW k \in 1 .. N, k - 1 \in S PROVE k \in S
  <2> SUFFICES ASSUME NEW x \in Router, o \in Balls(x, Working)[k]
               PROVE  o \in Balls(x, next)[k]
    BY <1>1
  <2>1. /\ k \in 0 .. N /\ k <= N /\ k - 1 <= N /\ k - 1 \in 0 .. N - 1 /\ k - 1 \in 0 .. N
        /\ N \in 0 .. N /\ (k - 1) + 1 = k
    BY <1>1
  <2>2. CASE x = o
    BY <1>8, <2>1, <2>2
  <2>3. CASE x # o
    <3> DEFINE d == Dist(x, Graph(x))[o]
               h == FirstHops(x)[o]
    <3>1. o \in Reached(x)
      BY <1>6, <1>9, <2>1
    <3>2. h \in nbr[x] /\ h \in Router /\ d \in 1 .. N /\ o \in Balls(h, Working)[d - 1]
      BY <1>4, <1>9, <2>3, <3>1
    <3>3. d <= k
      BY <1>5, <2>1
    <3> HIDE DEF d
    <3>4. d - 1 \in 0 .. N /\ d - 1 <= k - 1
      BY <1>1, <3>2, <3>3
    <3>5. o \in Balls(h, Working)[k - 1]
      BY <1>6, <2>1, <3>2, <3>4
    <3>6. o \in Balls(h, next)[k - 1]
      BY <1>11, <2>1, <3>2, <3>5
    <3>7. <<x, h>> \in next
      BY <1>2, <1>3, <2>3, <3>1
    <3> QED
      BY <1>7, <2>1, <3>2, <3>6, <3>7
  <2> QED
    BY <2>2, <2>3
<1>12. S \in SUBSET Nat
  OBVIOUS
<1>13. N \in S
  <2> HIDE DEF S
  <2>1. 0 .. N \subseteq S
    BY <1>1, <1>10, <1>11, <1>12, FirstMissing
  <2> QED
    BY <1>1, <2>1
<1>14. o \in Balls(r, next)[N]
  BY <1>1, <1>9, <1>13
<1> QED
  BY <1>14 DEF N, next

(* Once the databases agree, a packet for a network of hosts arrives, in   *)
(* every network of routers and whatever the order in which the databases  *)
(* filled: the tables, which each router has computed for itself, form no  *)
(* loop (mospf_daemon.c, calculate_rtable and dijkstra; ip.c).             *)
THEOREM PacketsArrive == Spec => []HostRoutes
<1>1. MInv => HostRoutes
  <2> SUFFICES ASSUME MInv, Agreed, NEW r \in Router, NEW o \in Router,
                      r \in Reached(o), {o} \in Networks(o)
               PROVE  Delivered([t \in Router |-> Rtable(t)], r, {o})
    BY DEF HostRoutes
  <2>1. o \in Reached(r)
    BY ReachedIs
  <2> DEFINE rtables == [t \in Router |-> Rtable(t)]
  <2>2. rtables = [t \in Router |-> Rtable(t)]
    OBVIOUS
  <2> HIDE DEF rtables
  <2>3. o \in Balls(r, NextHop(rtables, {o}))[Cardinality(Router)]
    BY <2>1, <2>2, HopsArrive
  <2>4. Delivered(rtables, r, {o})
    BY <2>3 DEF Delivered
  <2> QED
    BY <2>2, <2>4
<1> QED
  BY <1>1, MInvAlways, PTL
================================================================================
