---------------------------- MODULE ArpCacheProofs ----------------------------
(***************************************************************************)
(* What holds of the ARP cache for every set of hops, every table size and *)
(* every number of packets.                                                *)
(*                                                                         *)
(* OneRequestPerHop and WaitsOnlyUnknown are inductive together with two   *)
(* facts about what the threads have in hand between a failed lookup and   *)
(* the append: the hop of the network thread's packet stays unknown, for   *)
(* only this thread inserts; the sweep thread's packet is an error, which  *)
(* comes from the router itself.                                           *)
(*                                                                         *)
(* OnceEach, InOrder and SentToNextHop say where packets are.  JInv says   *)
(* that each one that came in is in one place (Placed), that those that    *)
(* wait for a hop stand in the queue of this hop only, in the order they   *)
(* came in and behind what was sent to it (QueueOK), and that the frames   *)
(* sent and the valid entries of the table are right (OutOK, TableOK).     *)
(* LeastNat, every nonempty set of naturals has a least member, says which *)
(* entry arpcache_lookup finds.                                            *)
(***************************************************************************)
EXTENDS ArpCache, FiniteSetTheorems, WellFoundedInduction, TLAPS

AnyPacket == [pkt : Nat, hop : Hop \cup {Self}, src : Hop \cup {Self}]

Request == [hop : Hop \cup {Self}, retries : Nat, due : BOOLEAN,
            pkts : Seq(AnyPacket)]

Shape ==
  /\ reqs \subseteq Request
  /\ arrived \in Nat
  /\ net \in AnyPacket
  /\ error \in AnyPacket
  /\ unreach \subseteq AnyPacket

NetUnknown == net # None => ~Known(net.hop)
ErrorIsOwn == error.src = Self

IInv == Shape /\ OneRequestPerHop /\ WaitsOnlyUnknown /\ NetUnknown /\ ErrorIsOwn

-------------------------------------------------------------------------------
LEMMA InitIInv == Init => IInv
  <1> SUFFICES ASSUME Init PROVE IInv
    OBVIOUS
  <1>1. None \in AnyPacket
    BY DEF None, AnyPacket
  <1> QED
    BY <1>1 DEF Init, IInv, Shape, OneRequestPerHop, WaitsOnlyUnknown,
                NetUnknown, ErrorIsOwn, None

(* What appending a packet does to the requests. *)
LEMMA AppendKeeps ==
  ASSUME NEW p \in AnyPacket, IInv, AppendPacket(p), UNCHANGED entries,
         p.src # Self => ~Known(p.hop)
  PROVE  reqs' \subseteq Request /\ OneRequestPerHop' /\ WaitsOnlyUnknown'
  <1>u. \A h : Known(h)' <=> Known(h)
    BY DEF Known, Matches
  <1>n. NewRequest(p) \in Request /\ NewRequest(p).hop = p.hop
        /\ \A i \in DOMAIN NewRequest(p).pkts : NewRequest(p).pkts[i] = p
    BY DEF NewRequest, Request, AnyPacket
  <1>1. CASE \E r \in reqs : /\ r.hop = p.hop
                             /\ reqs' = (reqs \ {r}) \cup {[r EXCEPT !.pkts = Append(@, p)]}
    <2>1. PICK r \in reqs : /\ r.hop = p.hop
                            /\ reqs' = (reqs \ {r}) \cup {[r EXCEPT !.pkts = Append(@, p)]}
      BY <1>1
    <2> DEFINE n == [r EXCEPT !.pkts = Append(@, p)]
    <2>2. r \in Request
      BY DEF IInv, Shape
    <2>3. n \in Request /\ n.hop = r.hop /\ n.pkts = Append(r.pkts, p)
      BY <2>2 DEF Request
    <2>4. \A i \in DOMAIN n.pkts : n.pkts[i] = p \/ \E j \in DOMAIN r.pkts : n.pkts[i] = r.pkts[j]
      <3>1. r.pkts \in Seq(AnyPacket)
        BY <2>2 DEF Request
      <3> QED
        BY <3>1, <2>3
    <2>r. reqs' = (reqs \ {r}) \cup {n}
      BY <2>1
    <2> HIDE DEF n
    <2>5. reqs' \subseteq Request
      BY <2>r, <2>3 DEF IInv, Shape
    <2>6. OneRequestPerHop'
      BY <2>r, <2>3 DEF IInv, OneRequestPerHop
    <2>7. WaitsOnlyUnknown'
      <3> SUFFICES ASSUME NEW s \in reqs', NEW i \in DOMAIN s.pkts, s.pkts[i].src # Self
                   PROVE  ~Known(s.hop)
        BY <1>u DEF WaitsOnlyUnknown
      <3>1. CASE s = n
        <4>1. CASE n.pkts[i] = p
          BY <4>1, <3>1, <2>3, <2>1
        <4>2. CASE \E j \in DOMAIN r.pkts : n.pkts[i] = r.pkts[j]
          BY <4>2, <3>1, <2>3 DEF IInv, WaitsOnlyUnknown
        <4> QED
          BY <4>1, <4>2, <2>4, <3>1
      <3>2. CASE s \in reqs
        BY <3>2 DEF IInv, WaitsOnlyUnknown
      <3> QED
        BY <3>1, <3>2, <2>r
    <2> QED
      BY <2>5, <2>6, <2>7
  <1>2. CASE (\A r \in reqs : r.hop # p.hop) /\ reqs' = reqs \cup {NewRequest(p)}
    <2>1. reqs' \subseteq Request
      BY <1>2, <1>n DEF IInv, Shape
    <2>2. OneRequestPerHop'
      BY <1>2, <1>n DEF IInv, OneRequestPerHop
    <2>3. WaitsOnlyUnknown'
      BY <1>2, <1>n, <1>u DEF IInv, WaitsOnlyUnknown
    <2> QED
      BY <2>1, <2>2, <2>3
  <1> QED
    BY <1>1, <1>2 DEF AppendPacket

LEMMA StepIInv == ASSUME ArpAssumption, IInv, [Next]_vars PROVE IInv'
  <1>k. UNCHANGED entries => \A h : Known(h)' <=> Known(h)
    BY DEF Known, Matches
  <1>1. CASE Arrive
    <2>1. PICK h \in Hop, s \in Hop \cup {Self} :
            LET p == [pkt |-> arrived', hop |-> h, src |-> s]
            IN  Forward(p) \/ ForwardMiss(p)
      BY <1>1 DEF Arrive
    <2> DEFINE p == [pkt |-> arrived', hop |-> h, src |-> s]
    <2>2. arrived' \in Nat
      BY <1>1 DEF Arrive, IInv, Shape
    <2>3. p \in AnyPacket /\ p.hop = h
      BY <2>2 DEF AnyPacket
    <2>4. Forward(p) \/ ForwardMiss(p)
      BY <2>1
    <2> HIDE DEF p
    <2>5. UNCHANGED <<entries, reqs, error, unreach>>
      BY <2>4 DEF Forward, ForwardMiss
    <2>6. net' = net \/ (net' = p /\ ~Known(p.hop))
      BY <2>4 DEF Forward, ForwardMiss
    <2>7. Shape'
      BY <2>2, <2>3, <2>5, <2>6 DEF IInv, Shape
    <2>8. NetUnknown'
      BY <2>5, <2>6, <1>k DEF IInv, NetUnknown
    <2> QED
      BY <2>5, <2>7, <2>8, <1>k DEF IInv, OneRequestPerHop, WaitsOnlyUnknown, ErrorIsOwn
  <1>2. CASE Pend
    <2>1. net \in AnyPacket /\ ~Known(net.hop) /\ AppendPacket(net) /\ UNCHANGED entries
      BY <1>2 DEF Pend, IInv, Shape, NetUnknown
    <2>2. reqs' \subseteq Request /\ OneRequestPerHop' /\ WaitsOnlyUnknown'
      BY <2>1, AppendKeeps
    <2>3. net' = None /\ UNCHANGED <<entries, arrived, error, unreach>>
      BY <1>2 DEF Pend
    <2>4. None \in AnyPacket
      BY DEF None, AnyPacket
    <2> QED
      BY <2>2, <2>3, <2>4 DEF IInv, Shape, NetUnknown, ErrorIsOwn
  <1>3. ASSUME NEW mac \in Mac, Answer(mac) PROVE IInv'
    <2> DEFINE h == Owner[mac]
    <2>1. PICK i \in ChosenSlots : entries' = [entries EXCEPT ![i] = Fill(h, mac)]
      BY <1>3 DEF Answer, Insert
    <2>2. reqs' = reqs \ Waiting(h)
      BY <1>3 DEF Answer, Insert
    <2>3. net = None /\ UNCHANGED <<arrived, net, error, unreach>>
      BY <1>3 DEF Answer
    <2>4. \A g : g # h /\ Known(g)' => Known(g)
      BY <2>1 DEF Known, Matches, Fill
    <2> HIDE DEF h
    <2>5. \A r \in reqs' : r \in reqs /\ r.hop # h
      BY <2>2 DEF Waiting
    <2>6. Shape' /\ OneRequestPerHop'
      BY <2>3, <2>5 DEF IInv, Shape, OneRequestPerHop
    <2>7. WaitsOnlyUnknown'
      BY <2>4, <2>5 DEF IInv, WaitsOnlyUnknown
    <2> QED
      BY <2>3, <2>6, <2>7 DEF IInv, NetUnknown, ErrorIsOwn
  <1>4. CASE Pass
    <2>1. reqs' = ((reqs \ GivenUp) \ Repeated) \cup {Retry(r) : r \in Repeated}
      BY <1>4 DEF Pass
    <2>2. UNCHANGED <<entries, arrived, net, error>> /\ unreach' = Packets(GivenUp)
      BY <1>4 DEF Pass
    <2>3. \A r \in reqs : /\ r \in Request /\ Retry(r) \in Request
                          /\ Retry(r).hop = r.hop /\ Retry(r).pkts = r.pkts
      <3> SUFFICES ASSUME NEW r \in reqs
                   PROVE  /\ r \in Request /\ Retry(r) \in Request
                          /\ Retry(r).hop = r.hop /\ Retry(r).pkts = r.pkts
        OBVIOUS
      <3>1. r \in Request
        BY DEF IInv, Shape
      <3> DEFINE n == r.retries + 1
      <3>2. n \in Nat
        BY <3>1 DEF Request
      <3>3. Retry(r) = [r EXCEPT !.retries = n, !.due = FALSE]
        BY Zenon DEF Retry
      <3> HIDE DEF n
      <3>4. Retry(r) \in Request
        BY <3>1, <3>2, <3>3 DEF Request
      <3>5. Retry(r).hop = r.hop /\ Retry(r).pkts = r.pkts
        BY <3>1, <3>3 DEF Request
      <3> QED
        BY <3>1, <3>4, <3>5
    <2>4. Repeated \subseteq reqs /\ GivenUp \subseteq reqs
      BY DEF Repeated, GivenUp
    <2>5. \A s \in reqs' : (s \in reqs /\ s \notin Repeated) \/ \E r \in Repeated : s = Retry(r)
      BY <2>1
    <2>6. unreach' \subseteq AnyPacket
      BY <2>2, <2>3, <2>4 DEF Packets, Request
    <2>7. Shape'
      BY <2>2, <2>3, <2>4, <2>5, <2>6 DEF IInv, Shape
    <2>8. OneRequestPerHop'
      BY <2>3, <2>4, <2>5 DEF IInv, OneRequestPerHop
    <2>9. WaitsOnlyUnknown'
      BY <2>2, <2>3, <2>4, <2>5, <1>k DEF IInv, WaitsOnlyUnknown
    <2> QED
      BY <2>2, <2>7, <2>8, <2>9, <1>k DEF IInv, NetUnknown, ErrorIsOwn
  <1>5. ASSUME NEW p \in unreach, Report(p) PROVE IInv'
    <2>1. UNCHANGED <<entries, reqs, arrived, net>> /\ unreach' \subseteq unreach
      BY <1>5 DEF Report
    <2>2. error' = error \/ error' = ErrorAbout(p)
      BY <1>5 DEF Report
    <2>3. ErrorAbout(p) \in AnyPacket /\ ErrorAbout(p).src = Self
      BY DEF IInv, Shape, ErrorAbout, AnyPacket
    <2>4. Shape' /\ ErrorIsOwn'
      BY <2>1, <2>2, <2>3 DEF IInv, Shape, ErrorIsOwn
    <2> QED
      BY <2>1, <2>4, <1>k DEF IInv, OneRequestPerHop, WaitsOnlyUnknown, NetUnknown
  <1>6. CASE PendReport
    <2>1. error \in AnyPacket /\ error.src = Self /\ AppendPacket(error) /\ UNCHANGED entries
      BY <1>6 DEF PendReport, IInv, Shape, ErrorIsOwn
    <2>2. reqs' \subseteq Request /\ OneRequestPerHop' /\ WaitsOnlyUnknown'
      BY <2>1, AppendKeeps
    <2>3. error' = None /\ UNCHANGED <<entries, arrived, net, unreach>>
      BY <1>6 DEF PendReport
    <2>4. None \in AnyPacket /\ None.src = Self
      BY DEF None, AnyPacket
    <2> QED
      BY <2>2, <2>3, <2>4, <1>k DEF IInv, Shape, NetUnknown, ErrorIsOwn
  <1>7. CASE Rest \/ UNCHANGED vars
    <2>1. UNCHANGED <<entries, reqs, arrived, net, error, unreach>>
      BY <1>7 DEF Rest, vars
    <2> QED
      BY <2>1, <1>k DEF IInv, Shape, OneRequestPerHop, WaitsOnlyUnknown, NetUnknown, ErrorIsOwn
  <1>8. CASE Second
    <2>1. reqs' = {[r EXCEPT !.due = TRUE] : r \in reqs}
      BY <1>8 DEF Second
    <2>2. UNCHANGED <<arrived, net, error, unreach>>
      BY <1>8 DEF Second
    <2>3. \A h : Known(h)' => Known(h)
      BY <1>8 DEF Second, Known, Matches
    <2>4. \A s \in reqs' : \E r \in reqs : /\ s = [r EXCEPT !.due = TRUE] /\ s \in Request
                                           /\ s.hop = r.hop /\ s.pkts = r.pkts
      BY <2>1 DEF IInv, Shape, Request
    <2>5. Shape'
      BY <2>2, <2>4 DEF IInv, Shape
    <2>6. OneRequestPerHop'
      <3> SUFFICES ASSUME NEW s \in reqs', NEW t \in reqs', s.hop = t.hop PROVE s = t
        BY DEF OneRequestPerHop
      <3>1. PICK r \in reqs : s = [r EXCEPT !.due = TRUE] /\ s.hop = r.hop
        BY <2>4
      <3>2. PICK q \in reqs : t = [q EXCEPT !.due = TRUE] /\ t.hop = q.hop
        BY <2>4
      <3>3. r = q
        BY <3>1, <3>2 DEF IInv, OneRequestPerHop
      <3> QED
        BY <3>1, <3>2, <3>3
    <2>7. WaitsOnlyUnknown'
      BY <2>3, <2>4 DEF IInv, WaitsOnlyUnknown
    <2> QED
      BY <2>2, <2>3, <2>5, <2>6, <2>7 DEF IInv, NetUnknown, ErrorIsOwn
  <1> QED
    BY <1>1, <1>2, <1>3, <1>4, <1>5, <1>6, <1>7, <1>8 DEF Next, Sweep

(* The inductive invariant holds in every reachable state.                 *)
THEOREM ArpInvariant == Spec => []IInv
  <1>1. IInv /\ [Next]_vars => IInv'
    BY StepIInv, ArpAssumption
  <1> QED
    BY <1>1, InitIInv, PTL DEF Spec

(* Two requests for the same hop are never pending together.               *)
THEOREM OneRequest == Spec => []OneRequestPerHop
  <1>1. IInv => OneRequestPerHop
    BY DEF IInv
  <1> QED
    BY <1>1, ArpInvariant, PTL

(* A forwarded packet waits only while its next hop is unknown.            *)
THEOREM WaitersAreUnknown == Spec => []WaitsOnlyUnknown
  <1>1. IInv => WaitsOnlyUnknown
    BY DEF IInv
  <1> QED
    BY <1>1, ArpInvariant, PTL
-------------------------------------------------------------------------------
(* What an answer flushes.  At most one request is for its hop, so nothing *)
(* is strung together.                                                     *)
LEMMA FlattenOne == ASSUME NEW T, NEW q \in Seq(T) PROVE FlattenSeq(<<q>>) = q
  <1> DEFINE fl == CHOOSE f : f = [i \in 1 .. 1 |-> IF i = 1 THEN <<q>>[i] ELSE f[i - 1] \o <<q>>[i]]
             g == [i \in 1 .. 1 |-> q]
  <1>1. Len(<<q>>) = 1 /\ <<q>>[1] = q
    OBVIOUS
  <1>2. g = [i \in 1 .. 1 |-> IF i = 1 THEN <<q>>[i] ELSE g[i - 1] \o <<q>>[i]]
    OBVIOUS
  <1>3. fl = [i \in 1 .. 1 |-> IF i = 1 THEN <<q>>[i] ELSE fl[i - 1] \o <<q>>[i]]
    BY <1>2
  <1>4. fl[1] = q
    BY <1>3, <1>1
  <1> HIDE DEF fl
  <1>5. FlattenSeq(<<q>>) = fl[1]
    BY <1>1 DEF FlattenSeq, fl
  <1> QED
    BY <1>4, <1>5

LEMMA SeqsOfNone == ASSUME NEW f \in SetToSeqs({}) PROVE f = << >>
  <1>1. Cardinality({}) = 0
    BY FS_EmptySet
  <1>2. f \in [1 .. 0 -> {}]
    BY <1>1 DEF SetToSeqs
  <1>3. f \in Seq({}) /\ Len(f) = 0
    BY <1>2
  <1> QED
    BY <1>3

LEMMA SeqsOfOne == ASSUME NEW x PROVE SetToSeqs({x}) = {<<x>>}
  <1>1. Cardinality({x}) = 1
    BY FS_Singleton
  <1>2. \A f : f \in [1 .. 1 -> {x}] <=> f = <<x>>
    OBVIOUS
  <1>3. \A i, j \in 1 .. 1 : i = j
    OBVIOUS
  <1> QED
    BY <1>1, <1>2, <1>3 DEF SetToSeqs

FrameSet == [pkt : Nat, hop : Hop \cup {Self}, src : Hop \cup {Self}, mac : Mac]

LEMMA FrameFacts ==
  ASSUME NEW p \in AnyPacket, NEW mac \in Mac
  PROVE  /\ Frame(p, mac) \in FrameSet /\ Frame(p, mac).pkt = p.pkt
         /\ Frame(p, mac).hop = p.hop /\ Frame(p, mac).src = p.src /\ Frame(p, mac).mac = mac
  BY DEF Frame, FrameSet, AnyPacket

(* Packet p waits as number i for the hop h. *)
Waits(h, i, p) == \E r \in reqs : r.hop = h /\ i \in DOMAIN r.pkts /\ r.pkts[i] = p

LEMMA WaitsFacts ==
  ASSUME IInv, NEW h, NEW i, NEW p, Waits(h, i, p)
  PROVE  /\ h \in Hop \cup {Self} /\ i \in Nat /\ p \in AnyPacket
         /\ \A q : Waits(h, i, q) => q = p
  <1>1. PICK r \in reqs : r.hop = h /\ i \in DOMAIN r.pkts /\ r.pkts[i] = p
    BY DEF Waits
  <1>2. r \in Request
    BY DEF IInv, Shape
  <1>3. r.pkts \in Seq(AnyPacket) /\ r.hop \in Hop \cup {Self}
    BY <1>2 DEF Request
  <1>4. i \in Nat /\ r.pkts[i] \in AnyPacket
    BY <1>1, <1>3
  <1> QED
    BY <1>1, <1>3, <1>4 DEF Waits, IInv, OneRequestPerHop

LEMMA FlushedFacts ==
  ASSUME IInv, NEW mac \in Mac, NEW hop, NEW rs \in SetToSeqs(Waiting(hop))
  PROVE  /\ Flushed(rs, mac) \in Seq(FrameSet)
         /\ \A j \in 1 .. Len(Flushed(rs, mac)) :
              \E p \in AnyPacket : Waits(hop, j, p) /\ Flushed(rs, mac)[j] = Frame(p, mac)
         /\ \A j, p : Waits(hop, j, p) => j \in 1 .. Len(Flushed(rs, mac))
  <1>1. CASE Waiting(hop) = {}
    <2>1. rs = << >>
      BY <1>1, SeqsOfNone
    <2> DEFINE qs == [i \in DOMAIN rs |->
                        [j \in DOMAIN rs[i].pkts |-> Frame(rs[i].pkts[j], mac)]]
    <2>2. qs = << >>
      BY <2>1
    <2> HIDE DEF qs
    <2>3. FlattenSeq(qs) = << >>
      BY <2>2 DEF FlattenSeq
    <2>4. Flushed(rs, mac) = << >>
      BY <2>3 DEF Flushed, qs
    <2>5. \A j, p : ~Waits(hop, j, p)
      BY <1>1 DEF Waits, Waiting
    <2> QED
      BY <2>4, <2>5
  <1>2. CASE Waiting(hop) # {}
    <2>1. PICK r \in reqs : r.hop = hop /\ Waiting(hop) = {r}
      BY <1>2 DEF Waiting, IInv, OneRequestPerHop
    <2>2. rs = <<r>>
      BY <2>1, SeqsOfOne
    <2>3. r \in Request /\ r.pkts \in Seq(AnyPacket)
      BY DEF IInv, Shape, Request
    <2> DEFINE q == [j \in 1 .. Len(r.pkts) |-> Frame(r.pkts[j], mac)]
               qs == [i \in DOMAIN rs |->
                        [j \in DOMAIN rs[i].pkts |-> Frame(rs[i].pkts[j], mac)]]
    <2>4. DOMAIN r.pkts = 1 .. Len(r.pkts) /\ Len(r.pkts) \in Nat
      BY <2>3
    <2>5. ASSUME NEW j \in 1 .. Len(r.pkts) PROVE Frame(r.pkts[j], mac) \in FrameSet
      BY <2>3, FrameFacts
    <2>6. q \in Seq(FrameSet) /\ Len(q) = Len(r.pkts)
      BY <2>4, <2>5
    <2>7. qs = [i \in 1 .. 1 |-> q]
      BY <2>2, <2>4
    <2> HIDE DEF q, qs
    <2>8. qs = <<q>>
      BY <2>7
    <2>9. Flushed(rs, mac) = q
      BY <2>6, <2>8, FlattenOne DEF Flushed, qs
    <2>10. ASSUME NEW j \in 1 .. Len(q)
           PROVE  \E p \in AnyPacket : Waits(hop, j, p) /\ q[j] = Frame(p, mac)
      <3>1. j \in DOMAIN r.pkts /\ r.pkts[j] \in AnyPacket
        BY <2>3, <2>4, <2>6
      <3>2. q[j] = Frame(r.pkts[j], mac)
        BY <2>6 DEF q
      <3>3. Waits(hop, j, r.pkts[j])
        BY <2>1, <3>1 DEF Waits
      <3> QED
        BY <3>1, <3>2, <3>3
    <2>11. ASSUME NEW j, NEW p, Waits(hop, j, p) PROVE j \in 1 .. Len(q)
      BY <2>1, <2>4, <2>6, <2>11 DEF Waits, Waiting
    <2> QED
      BY <2>6, <2>9, <2>10, <2>11
  <1> QED
    BY <1>1, <1>2

LEMMA LeastNat == ASSUME NEW S \in SUBSET Nat, S # {} PROVE \E m \in S : \A n \in S : m <= n
  <1> DEFINE R == {ss \in Nat \X Nat : ss[1] < ss[2]}
  <1>1. OpToRel(<, Nat) = R
    BY DEF OpToRel
  <1>2. IsWellFoundedOn(R, Nat)
    BY <1>1, NatLessThanWellFounded
  <1>3. PICK m \in S : \A n \in S : ~(<<n, m>> \in R)
    BY <1>2, WFMin
  <1>4. ASSUME NEW n \in S PROVE m <= n
    <2>1. m \in Nat /\ n \in Nat /\ <<n, m>> \notin R
      BY <1>3
    <2>2. <<n, m>> \in Nat \X Nat /\ <<n, m>>[1] = n /\ <<n, m>>[2] = m
      BY <2>1
    <2>3. ~(n < m)
      BY <2>1, <2>2
    <2> QED
      BY <2>1, <2>3
  <1> QED
    BY <1>4

(* The table: an entry is of the hop that its MAC address belongs to. *)
Entry == [valid : {FALSE}] \cup [valid : {TRUE}, ip : Hop, mac : Mac, age : Nat]

TableOK ==
  /\ entries \in [Slot -> Entry]
  /\ \A i \in Slot : entries[i].valid => Owner[entries[i].mac] = entries[i].ip

LEMMA EntryFacts ==
  ASSUME NEW e \in Entry
  PROVE  /\ e.valid \in BOOLEAN
         /\ ~e.valid => e = [valid |-> FALSE]
         /\ e.valid => e \in [valid : {TRUE}, ip : Hop, mac : Mac, age : Nat]
  BY DEF Entry

LEMMA LookupFinds ==
  ASSUME ArpAssumption, TableOK, NEW hop, Known(hop)
  PROVE  Lookup(hop) \in Mac /\ Owner[Lookup(hop)] = hop
  <1> DEFINE S == {i \in Slot : Matches(i, hop)}
  <1>1. Slot \subseteq Nat
    BY DEF Slot, ArpAssumption
  <1>2. S \in SUBSET Nat /\ S # {}
    BY <1>1 DEF Known
  <1>3. PICK m \in S : \A n \in S : m <= n
    BY <1>2, LeastNat
  <1>4. \A j \in 1 .. (m - 1) : ~Matches(j, hop)
    <2> SUFFICES ASSUME NEW j \in 1 .. (m - 1), Matches(j, hop) PROVE FALSE
      OBVIOUS
    <2>1. m \in 1 .. Size /\ Size \in Nat
      BY DEF Slot, ArpAssumption
    <2>2. j \in Slot
      BY <2>1 DEF Slot
    <2>3. m <= j /\ j \in Nat
      BY <1>3, <2>2
    <2> QED
      BY <2>1, <2>3
  <1> DEFINE First(i) == Matches(i, hop) /\ \A j \in 1 .. (i - 1) : ~Matches(j, hop)
             k == CHOOSE i \in Slot : First(i)
  <1>5. \E i \in Slot : First(i)
    BY <1>4
  <1>6. k \in Slot /\ First(k)
    BY <1>5
  <1>7. Lookup(hop) = entries[k].mac
    BY DEF Lookup
  <1> HIDE DEF k
  <1>8. k \in Slot /\ entries[k].valid /\ entries[k].ip = hop /\ entries[k] \in Entry
    BY <1>6 DEF Matches, TableOK
  <1>9. entries[k].mac \in Mac
    BY <1>8, EntryFacts
  <1> QED
    BY <1>7, <1>8, <1>9 DEF TableOK

(* What appending a packet does to the packets that wait. *)
LEMMA AppendWaits ==
  ASSUME NEW p \in AnyPacket, IInv, AppendPacket(p)
  PROVE  \E n \in Nat :
           /\ \A i, q : Waits(p.hop, i, q) => i \in 1 .. n
           /\ \A h, i, q : Waits(h, i, q)' <=>
                Waits(h, i, q) \/ (h = p.hop /\ i = n + 1 /\ q = p)
  <1>1. CASE \E r \in reqs : /\ r.hop = p.hop
                             /\ reqs' = (reqs \ {r}) \cup {[r EXCEPT !.pkts = Append(@, p)]}
    <2>1. PICK r \in reqs : /\ r.hop = p.hop
                            /\ reqs' = (reqs \ {r}) \cup {[r EXCEPT !.pkts = Append(@, p)]}
      BY <1>1
    <2> DEFINE m == [r EXCEPT !.pkts = Append(@, p)]
               n == Len(r.pkts)
    <2>2. r \in Request /\ r.pkts \in Seq(AnyPacket)
      BY DEF IInv, Shape, Request
    <2>3. m.hop = p.hop /\ m.pkts = Append(r.pkts, p)
      BY <2>1, <2>2 DEF Request
    <2>4. reqs' = (reqs \ {r}) \cup {m}
      BY <2>1
    <2> HIDE DEF m
    <2>5. n \in Nat /\ DOMAIN r.pkts = 1 .. n /\ DOMAIN m.pkts = 1 .. n + 1
      BY <2>2, <2>3
    <2>6. m.pkts[n + 1] = p /\ \A i \in 1 .. n : m.pkts[i] = r.pkts[i]
      BY <2>2, <2>3
    <2> HIDE DEF n
    <2>7. \A s \in reqs : s.hop = p.hop => s = r
      BY <2>1 DEF IInv, OneRequestPerHop
    <2>8. \A i, q : Waits(p.hop, i, q) => i \in 1 .. n
      BY <2>5, <2>7 DEF Waits
    <2>9. ASSUME NEW h, NEW i, NEW q
          PROVE  Waits(h, i, q)' <=> Waits(h, i, q) \/ (h = p.hop /\ i = n + 1 /\ q = p)
      <3>1. CASE h # p.hop
        BY <3>1, <2>1, <2>3, <2>4 DEF Waits
      <3>2. CASE h = p.hop
        <4>1. Waits(h, i, q)' <=> i \in 1 .. n + 1 /\ m.pkts[i] = q
          BY <3>2, <2>3, <2>4, <2>5, <2>7 DEF Waits
        <4>2. Waits(h, i, q) <=> i \in 1 .. n /\ r.pkts[i] = q
          BY <3>2, <2>1, <2>5, <2>7 DEF Waits
        <4>3. i \in 1 .. n + 1 <=> i \in 1 .. n \/ i = n + 1
          BY <2>5
        <4> QED
          BY <4>1, <4>2, <4>3, <2>5, <2>6, <3>2
      <3> QED
        BY <3>1, <3>2
    <2> QED
      BY <2>5, <2>8, <2>9
  <1>2. CASE (\A r \in reqs : r.hop # p.hop) /\ reqs' = reqs \cup {NewRequest(p)}
    <2>1. NewRequest(p).hop = p.hop /\ NewRequest(p).pkts = <<p>>
      BY DEF NewRequest
    <2>2. DOMAIN <<p>> = {1} /\ <<p>>[1] = p
      OBVIOUS
    <2>3. \A i, q : ~Waits(p.hop, i, q)
      BY <1>2 DEF Waits
    <2>4. ASSUME NEW h, NEW i, NEW q
          PROVE  Waits(h, i, q)' <=> Waits(h, i, q) \/ (h = p.hop /\ i = 0 + 1 /\ q = p)
      BY <1>2, <2>1, <2>2 DEF Waits
    <2> QED
      BY <2>3, <2>4
  <1> QED
    BY <1>1, <1>2 DEF AppendPacket

(* The packets of an answered request no longer wait; a second changes     *)
(* nothing; a pass takes the packets of the requests it gives up.          *)
LEMMA WaitsAfter ==
  ASSUME IInv
  PROVE  /\ \A hop : reqs' = reqs \ Waiting(hop) =>
              \A h, i, p : Waits(h, i, p)' <=> Waits(h, i, p) /\ h # hop
         /\ Second => \A h, i, p : Waits(h, i, p)' <=> Waits(h, i, p)
         /\ reqs' = reqs => \A h, i, p : Waits(h, i, p)' <=> Waits(h, i, p)
         /\ Pass => /\ \A h, i, p : Waits(h, i, p)' <=>
                         Waits(h, i, p) /\ \A r \in GivenUp : r.hop # h
                    /\ \A p : p \in unreach' <=>
                         \E r \in GivenUp : \E i : Waits(r.hop, i, p)
  <1>1. \A hop : reqs' = reqs \ Waiting(hop) =>
              \A h, i, p : Waits(h, i, p)' <=> Waits(h, i, p) /\ h # hop
    BY DEF Waits, Waiting
  <1>2. ASSUME Second PROVE \A h, i, p : Waits(h, i, p)' <=> Waits(h, i, p)
    <2>1. reqs' = {[r EXCEPT !.due = TRUE] : r \in reqs}
      BY <1>2 DEF Second
    <2>2. \A r \in reqs : /\ [r EXCEPT !.due = TRUE] \in reqs'
                          /\ [r EXCEPT !.due = TRUE].hop = r.hop
                          /\ [r EXCEPT !.due = TRUE].pkts = r.pkts
      BY <2>1 DEF IInv, Shape, Request
    <2>3. \A s \in reqs' : \E r \in reqs : s.hop = r.hop /\ s.pkts = r.pkts
      BY <2>1, <2>2
    <2> QED
      BY <2>2, <2>3 DEF Waits
  <1>3. reqs' = reqs => \A h, i, p : Waits(h, i, p)' <=> Waits(h, i, p)
    BY DEF Waits
  <1>4. ASSUME Pass
        PROVE  /\ \A h, i, p : Waits(h, i, p)' <=>
                    Waits(h, i, p) /\ \A r \in GivenUp : r.hop # h
               /\ \A p : p \in unreach' <=>
                    \E r \in GivenUp : \E i : Waits(r.hop, i, p)
    <2>1. reqs' = ((reqs \ GivenUp) \ Repeated) \cup {Retry(r) : r \in Repeated}
      BY <1>4 DEF Pass
    <2>2. unreach' = Packets(GivenUp)
      BY <1>4 DEF Pass
    <2>3. \A r \in reqs : Retry(r).hop = r.hop /\ Retry(r).pkts = r.pkts
      <3> SUFFICES ASSUME NEW r \in reqs
                   PROVE  Retry(r).hop = r.hop /\ Retry(r).pkts = r.pkts
        OBVIOUS
      <3> DEFINE n == r.retries + 1
      <3>1. r \in Request
        BY DEF IInv, Shape
      <3>2. Retry(r) = [r EXCEPT !.retries = n, !.due = FALSE]
        BY Zenon DEF Retry
      <3> HIDE DEF n
      <3> QED
        BY <3>1, <3>2 DEF Request
    <2>4. Repeated \subseteq reqs \ GivenUp /\ GivenUp \subseteq reqs
      BY DEF Repeated, GivenUp
    <2>5. \A r \in reqs, s \in GivenUp : r.hop = s.hop => r \in GivenUp
      BY <2>4 DEF IInv, OneRequestPerHop
    <2>6. ASSUME NEW h, NEW i, NEW p
          PROVE  Waits(h, i, p)' <=> Waits(h, i, p) /\ \A r \in GivenUp : r.hop # h
      <3>1. ASSUME Waits(h, i, p)' PROVE Waits(h, i, p) /\ \A r \in GivenUp : r.hop # h
        <4>1. PICK s \in reqs' : s.hop = h /\ i \in DOMAIN s.pkts /\ s.pkts[i] = p
          BY <3>1 DEF Waits
        <4>2. PICK r \in reqs \ GivenUp : s.hop = r.hop /\ s.pkts = r.pkts
          BY <2>1, <2>3, <2>4
        <4> QED
          BY <4>1, <4>2, <2>5 DEF Waits
      <3>2. ASSUME Waits(h, i, p), \A r \in GivenUp : r.hop # h PROVE Waits(h, i, p)'
        <4>1. PICK r \in reqs : r.hop = h /\ i \in DOMAIN r.pkts /\ r.pkts[i] = p
          BY <3>2 DEF Waits
        <4>2. r \in reqs' \/ Retry(r) \in reqs'
          BY <4>1, <3>2, <2>1
        <4> QED
          BY <4>1, <4>2, <2>3 DEF Waits
      <3> QED
        BY <3>1, <3>2
    <2>7. ASSUME NEW p
          PROVE  p \in unreach' <=> \E r \in GivenUp : \E i : Waits(r.hop, i, p)
      <3>1. p \in unreach' <=> \E r \in GivenUp : \E i \in DOMAIN r.pkts : r.pkts[i] = p
        BY <2>2 DEF Packets
      <3>2. \A r \in GivenUp : \A i :
              Waits(r.hop, i, p) <=> i \in DOMAIN r.pkts /\ r.pkts[i] = p
        BY <2>4 DEF Waits, IInv, OneRequestPerHop
      <3> QED
        BY <3>1, <3>2
    <2> QED
      BY <2>6, <2>7
  <1> QED
    BY <1>1, <1>2, <1>3, <1>4
-------------------------------------------------------------------------------
(* Where a packet is: in the hands of a thread, in the cache, on the list  *)
(* of packets to report, or sent.                                          *)
InNet(n) == net # None /\ net.pkt = n
InError(n) == error # None /\ error.pkt = n
InReqs(n) == \E h, i, p : Waits(h, i, p) /\ p.pkt = n
InUnreach(n) == \E p \in unreach : p.pkt = n
InOut(n) == \E k \in 1 .. Len(out) : out[k].pkt = n

OnePlace(n) ==
  /\ n \in 1 .. arrived <=> InNet(n) \/ InError(n) \/ InReqs(n) \/ InUnreach(n) \/ InOut(n)
  /\ InNet(n) => ~InError(n) /\ ~InReqs(n) /\ ~InUnreach(n) /\ ~InOut(n)
  /\ InError(n) => ~InReqs(n) /\ ~InUnreach(n) /\ ~InOut(n)
  /\ InReqs(n) => ~InUnreach(n) /\ ~InOut(n)
  /\ InUnreach(n) => ~InOut(n)

Placed ==
  /\ \A n \in Nat : OnePlace(n)
  /\ \A p, q \in unreach : p.pkt = q.pkt => p = q
  /\ sweep = "sleep" => unreach = {}
  /\ sweep = "append" <=> error # None

Forwarded(p) == p.src # Self

(* The packets that wait for a hop, in the order they came in and after    *)
(* the ones that left over it; the network thread's packet after all.      *)
QueueHome == \A h, i, p : Waits(h, i, p) => p.hop = h
QueueApart ==
  \A h, g, i, j, p, q :
    Waits(h, i, p) /\ Waits(g, j, q) /\ p.pkt = q.pkt => h = g /\ i = j
QueueInOrder ==
  \A h, i, j, p, q :
    Waits(h, i, p) /\ Waits(h, j, q) /\ Forwarded(p) /\ Forwarded(q) /\ i < j
      => p.pkt < q.pkt
QueueAfterOut ==
  \A h, i, p : \A k \in 1 .. Len(out) :
    Waits(h, i, p) /\ out[k].hop = h /\ Forwarded(p) /\ Forwarded(out[k])
      => out[k].pkt < p.pkt
NetIsLast ==
  Forwarded(net) =>
    /\ \A k \in 1 .. Len(out) :
         out[k].hop = net.hop /\ Forwarded(out[k]) => out[k].pkt < net.pkt
    /\ \A h, i, p : h = net.hop /\ Waits(h, i, p) /\ Forwarded(p) => p.pkt < net.pkt

QueueOK == QueueHome /\ QueueApart /\ QueueInOrder /\ QueueAfterOut /\ NetIsLast

OutOK ==
  /\ out \in Seq(FrameSet)
  /\ \A k \in 1 .. Len(out) : Owner[out[k].mac] = out[k].hop
  /\ \A j, k \in 1 .. Len(out) : out[j].pkt = out[k].pkt => j = k
  /\ \A j, k \in 1 .. Len(out) :
       j < k /\ out[j].hop = out[k].hop /\ Forwarded(out[j]) /\ Forwarded(out[k])
         => out[j].pkt < out[k].pkt

JInv == IInv /\ TableOK /\ OutOK /\ QueueOK /\ Placed

(* Frames are sent. *)
LEMMA SentMore ==
  ASSUME OutOK, NEW q \in Seq(FrameSet), out' = out \o q,
         \A j \in 1 .. Len(q) : Owner[q[j].mac] = q[j].hop /\ ~InOut(q[j].pkt),
         \A i, j \in 1 .. Len(q) : q[i].pkt = q[j].pkt => i = j,
         \A j \in 1 .. Len(q), k \in 1 .. Len(out) :
           out[k].hop = q[j].hop /\ Forwarded(out[k]) /\ Forwarded(q[j]) => out[k].pkt < q[j].pkt,
         \A i, j \in 1 .. Len(q) :
           i < j /\ q[i].hop = q[j].hop /\ Forwarded(q[i]) /\ Forwarded(q[j])
             => q[i].pkt < q[j].pkt
  PROVE  /\ OutOK'
         /\ \A n : InOut(n)' <=> InOut(n) \/ \E j \in 1 .. Len(q) : q[j].pkt = n
         /\ \A k \in 1 .. Len(out') : \/ \E i \in 1 .. Len(out) : out'[k] = out[i]
                                      \/ \E j \in 1 .. Len(q) : out'[k] = q[j]
  <1>0. out \in Seq(FrameSet)
    BY DEF OutOK
  <1>1. /\ out' \in Seq(FrameSet) /\ Len(out') = Len(out) + Len(q)
        /\ Len(out) \in Nat /\ Len(q) \in Nat
    BY <1>0
  <1>2. \A k \in 1 .. Len(out) : k \in 1 .. Len(out') /\ out'[k] = out[k]
    BY <1>0, <1>1
  <1>3. \A j \in 1 .. Len(q) : Len(out) + j \in 1 .. Len(out') /\ out'[Len(out) + j] = q[j]
    BY <1>0, <1>1
  <1>4. \A k \in 1 .. Len(out') : \/ k \in 1 .. Len(out)
                                  \/ \E j \in 1 .. Len(q) : k = Len(out) + j
    <2> SUFFICES ASSUME NEW k \in 1 .. Len(out'), k \notin 1 .. Len(out)
                 PROVE  \E j \in 1 .. Len(q) : k = Len(out) + j
      OBVIOUS
    <2>1. k - Len(out) \in 1 .. Len(q) /\ k = Len(out) + (k - Len(out))
      BY <1>1
    <2> QED
      BY <2>1
  <1>5. \A k \in 1 .. Len(out') : Owner[out'[k].mac] = out'[k].hop
    BY <1>2, <1>3, <1>4 DEF OutOK
  <1>6. ASSUME NEW j \in 1 .. Len(out'), NEW k \in 1 .. Len(out'), out'[j].pkt = out'[k].pkt
        PROVE  j = k
    <2>1. CASE j \in 1 .. Len(out) /\ k \in 1 .. Len(out)
      BY <2>1, <1>2, <1>6 DEF OutOK
    <2>2. CASE j \in 1 .. Len(out) /\ \E i \in 1 .. Len(q) : k = Len(out) + i
      BY <2>2, <1>2, <1>3, <1>6 DEF InOut
    <2>3. CASE k \in 1 .. Len(out) /\ \E i \in 1 .. Len(q) : j = Len(out) + i
      BY <2>3, <1>2, <1>3, <1>6 DEF InOut
    <2>4. CASE (\E i \in 1 .. Len(q) : j = Len(out) + i) /\ \E i \in 1 .. Len(q) : k = Len(out) + i
      BY <2>4, <1>3, <1>6
    <2> QED
      BY <2>1, <2>2, <2>3, <2>4, <1>4
  <1>7. ASSUME NEW j \in 1 .. Len(out'), NEW k \in 1 .. Len(out'), j < k,
               out'[j].hop = out'[k].hop, Forwarded(out'[j]), Forwarded(out'[k])
        PROVE  out'[j].pkt < out'[k].pkt
    <2>1. CASE j \in 1 .. Len(out) /\ k \in 1 .. Len(out)
      BY <2>1, <1>2, <1>7 DEF OutOK
    <2>2. CASE j \in 1 .. Len(out) /\ \E i \in 1 .. Len(q) : k = Len(out) + i
      BY <2>2, <1>2, <1>3, <1>7
    <2>3. CASE \E i \in 1 .. Len(q) : j = Len(out) + i
      <3>1. PICK a \in 1 .. Len(q) : j = Len(out) + a
        BY <2>3
      <3>2. PICK b \in 1 .. Len(q) : k = Len(out) + b
        BY <1>1, <1>4, <1>7, <3>1
      <3>3. a < b
        BY <1>1, <1>7, <3>1, <3>2
      <3> QED
        BY <1>3, <1>7, <3>1, <3>2, <3>3
    <2> QED
      BY <2>1, <2>2, <2>3, <1>4
  <1>8. OutOK'
    BY <1>1, <1>5, <1>6, <1>7 DEF OutOK, Forwarded
  <1>9. ASSUME NEW n PROVE InOut(n)' <=> InOut(n) \/ \E j \in 1 .. Len(q) : q[j].pkt = n
    <2>1. ASSUME NEW k \in 1 .. Len(out'), out'[k].pkt = n
          PROVE  InOut(n) \/ \E j \in 1 .. Len(q) : q[j].pkt = n
      <3>1. CASE k \in 1 .. Len(out)
        BY <3>1, <2>1, <1>2 DEF InOut
      <3>2. CASE \E j \in 1 .. Len(q) : k = Len(out) + j
        BY <3>2, <2>1, <1>3
      <3> QED
        BY <3>1, <3>2, <1>4
    <2>2. InOut(n) => \E k \in 1 .. Len(out') : out'[k].pkt = n
      BY <1>2 DEF InOut
    <2>3. \A j \in 1 .. Len(q) : q[j].pkt = n => \E k \in 1 .. Len(out') : out'[k].pkt = n
      BY <1>3
    <2>4. InOut(n)' <=> \E k \in 1 .. Len(out') : out'[k].pkt = n
      BY DEF InOut
    <2> QED
      BY <2>1, <2>2, <2>3, <2>4
  <1> QED
    BY <1>2, <1>3, <1>4, <1>8, <1>9

(* One frame is sent. *)
LEMMA SentOne ==
  ASSUME OutOK, NEW f \in FrameSet, out' = Append(out, f),
         Owner[f.mac] = f.hop, ~InOut(f.pkt),
         \A k \in 1 .. Len(out) :
           out[k].hop = f.hop /\ Forwarded(out[k]) /\ Forwarded(f) => out[k].pkt < f.pkt
  PROVE  /\ OutOK'
         /\ \A n : InOut(n)' <=> InOut(n) \/ f.pkt = n
         /\ \A k \in 1 .. Len(out') : out'[k] = f \/ \E i \in 1 .. Len(out) : out'[k] = out[i]
  <1> DEFINE q == <<f>>
  <1>1. q \in Seq(FrameSet) /\ Len(q) = 1 /\ q[1] = f
    OBVIOUS
  <1>2. out' = out \o q
    BY DEF OutOK
  <1>3. \A j \in 1 .. Len(q) : j = 1
    BY <1>1
  <1> HIDE DEF q
  <1>4. /\ OutOK'
        /\ \A n : InOut(n)' <=> InOut(n) \/ \E j \in 1 .. Len(q) : q[j].pkt = n
        /\ \A k \in 1 .. Len(out') : \/ \E i \in 1 .. Len(out) : out'[k] = out[i]
                                     \/ \E j \in 1 .. Len(q) : out'[k] = q[j]
    <2>1. \A j \in 1 .. Len(q) : Owner[q[j].mac] = q[j].hop /\ ~InOut(q[j].pkt)
      BY <1>1, <1>3
    <2>2. \A j \in 1 .. Len(q), k \in 1 .. Len(out) :
            out[k].hop = q[j].hop /\ Forwarded(out[k]) /\ Forwarded(q[j]) => out[k].pkt < q[j].pkt
      BY <1>1, <1>3
    <2>3. \A i, j \in 1 .. Len(q) : i = j /\ ~(i < j)
      BY <1>1
    <2> QED
      BY <1>1, <1>2, <2>1, <2>2, <2>3, SentMore
  <1> QED
    BY <1>1, <1>3, <1>4

LEMMA Numbers ==
  ASSUME JInv
  PROVE  /\ arrived \in Nat /\ \A n \in Nat : OnePlace(n)
         /\ \A h, i, p : Waits(h, i, p) => InReqs(p.pkt) /\ p.pkt \in 1 .. arrived
         /\ \A k \in 1 .. Len(out) :
              out[k] \in FrameSet /\ InOut(out[k].pkt) /\ out[k].pkt \in 1 .. arrived
         /\ \A p \in unreach : p \in AnyPacket /\ InUnreach(p.pkt) /\ p.pkt \in 1 .. arrived
         /\ net # None => InNet(net.pkt) /\ net.pkt \in 1 .. arrived
         /\ error # None => InError(error.pkt) /\ error.pkt \in 1 .. arrived
  <1>1. arrived \in Nat /\ \A n \in Nat : OnePlace(n)
    BY DEF JInv, IInv, Shape, Placed
  <1>2. ASSUME NEW h, NEW i, NEW p, Waits(h, i, p) PROVE InReqs(p.pkt) /\ p.pkt \in 1 .. arrived
    <2>1. p.pkt \in Nat
      BY <1>2, WaitsFacts DEF JInv, AnyPacket
    <2>2. InReqs(p.pkt)
      BY <1>2 DEF InReqs
    <2> QED
      BY <1>1, <2>1, <2>2 DEF OnePlace
  <1>3. ASSUME NEW k \in 1 .. Len(out)
        PROVE  out[k] \in FrameSet /\ InOut(out[k].pkt) /\ out[k].pkt \in 1 .. arrived
    <2>1. out[k] \in FrameSet /\ out[k].pkt \in Nat
      <3>1. out \in Seq(FrameSet)
        BY DEF JInv, OutOK
      <3>2. out[k] \in FrameSet
        BY <3>1
      <3> QED
        BY <3>2 DEF FrameSet
    <2>2. InOut(out[k].pkt)
      BY DEF InOut
    <2> QED
      BY <1>1, <2>1, <2>2 DEF OnePlace
  <1>4. ASSUME NEW p \in unreach
        PROVE  p \in AnyPacket /\ InUnreach(p.pkt) /\ p.pkt \in 1 .. arrived
    <2>1. p \in AnyPacket /\ p.pkt \in Nat
      BY DEF JInv, IInv, Shape, AnyPacket
    <2>2. InUnreach(p.pkt)
      BY DEF InUnreach
    <2> QED
      BY <1>1, <2>1, <2>2 DEF OnePlace
  <1>5. net # None => InNet(net.pkt) /\ net.pkt \in 1 .. arrived
    <2>1. net.pkt \in Nat
      BY DEF JInv, IInv, Shape, AnyPacket
    <2> QED
      BY <1>1, <2>1 DEF OnePlace, InNet
  <1>6. error # None => InError(error.pkt) /\ error.pkt \in 1 .. arrived
    <2>1. error.pkt \in Nat
      BY DEF JInv, IInv, Shape, AnyPacket
    <2> QED
      BY <1>1, <2>1 DEF OnePlace, InError
  <1> QED
    BY <1>1, <1>2, <1>3, <1>4, <1>5, <1>6

(* What stays where it is when a variable does. *)
LEMMA Stays ==
  ASSUME IInv
  PROVE  /\ UNCHANGED net => \A n : InNet(n)' <=> InNet(n)
         /\ UNCHANGED error => \A n : InError(n)' <=> InError(n)
         /\ UNCHANGED reqs => \A n : InReqs(n)' <=> InReqs(n)
         /\ UNCHANGED unreach => \A n : InUnreach(n)' <=> InUnreach(n)
         /\ UNCHANGED out => \A n : InOut(n)' <=> InOut(n)
         /\ UNCHANGED out /\ OutOK => OutOK'
         /\ UNCHANGED entries /\ TableOK => TableOK'
         /\ UNCHANGED reqs => \A h, i, p : Waits(h, i, p)' <=> Waits(h, i, p)
  <1>1. UNCHANGED net => \A n : InNet(n)' <=> InNet(n)
    BY DEF InNet
  <1>2. UNCHANGED error => \A n : InError(n)' <=> InError(n)
    BY DEF InError
  <1>3. UNCHANGED reqs => \A h, i, p : Waits(h, i, p)' <=> Waits(h, i, p)
    BY DEF Waits
  <1>4. UNCHANGED reqs => \A n : InReqs(n)' <=> InReqs(n)
    BY <1>3 DEF InReqs
  <1>5. UNCHANGED unreach => \A n : InUnreach(n)' <=> InUnreach(n)
    BY DEF InUnreach
  <1>6. UNCHANGED out => \A n : InOut(n)' <=> InOut(n)
    BY DEF InOut
  <1>7. UNCHANGED out /\ OutOK => OutOK'
    BY DEF OutOK, Forwarded
  <1>8. UNCHANGED entries /\ TableOK => TableOK'
    BY DEF TableOK
  <1> QED
    BY <1>1, <1>2, <1>3, <1>4, <1>5, <1>6, <1>7, <1>8

LEMMA ArriveMoves ==
  ASSUME ArpAssumption, JInv, Arrive PROVE TableOK' /\ OutOK' /\ QueueOK' /\ Placed'
  <1>1. PICK h \in Hop, s \in Hop \cup {Self} :
          LET p == [pkt |-> arrived', hop |-> h, src |-> s]
          IN  Forward(p) \/ ForwardMiss(p)
    BY DEF Arrive
  <1> DEFINE p == [pkt |-> arrived', hop |-> h, src |-> s]
  <1>2. arrived \in Nat /\ arrived' = arrived + 1
    BY Numbers DEF Arrive
  <1>3. p \in AnyPacket /\ p.pkt = arrived + 1 /\ p # None
    BY <1>2 DEF AnyPacket, None
  <1>4. Forward(p) \/ ForwardMiss(p)
    BY <1>1
  <1> HIDE DEF p
  <1>5. /\ UNCHANGED <<entries, reqs, sweep, error, unreach>> /\ net = None
        /\ \A n : InReqs(n)' <=> InReqs(n)
        /\ \A n : InError(n)' <=> InError(n)
        /\ \A n : InUnreach(n)' <=> InUnreach(n)
        /\ \A i, j, q : Waits(i, j, q)' <=> Waits(i, j, q)
    BY <1>4, Stays DEF Forward, ForwardMiss, JInv
  <1>6. \A n \in Nat : n \in 1 .. arrived' <=> n \in 1 .. arrived \/ n = p.pkt
    BY <1>2, <1>3
  <1>7. OnePlace(p.pkt) /\ p.pkt \notin 1 .. arrived
    BY <1>2, <1>3, Numbers
  <1>8. TableOK'
    BY <1>5, Stays DEF JInv
  <1>9. CASE Forward(p)
    <2>1. Known(p.hop) /\ net' = None /\ out' = Append(out, Frame(p, Lookup(p.hop)))
      BY <1>9, <1>5 DEF Forward
    <2> DEFINE f == Frame(p, Lookup(p.hop))
    <2>2. Lookup(p.hop) \in Mac /\ Owner[Lookup(p.hop)] = p.hop
      BY <2>1, LookupFinds DEF JInv
    <2>3. f \in FrameSet /\ f.pkt = p.pkt /\ f.hop = p.hop /\ f.src = p.src /\ Owner[f.mac] = f.hop
      BY <1>3, <2>2, FrameFacts
    <2>4. out' = Append(out, f)
      BY <2>1
    <2> HIDE DEF f
    <2>5. ~InOut(f.pkt)
      BY <1>7, <2>3 DEF OnePlace
    <2>6. \A k \in 1 .. Len(out) : out[k].pkt < f.pkt
      <3>1. \A k \in 1 .. Len(out) : out[k].pkt \in 1 .. arrived
        BY Numbers
      <3> QED
        BY <3>1, <1>2, <1>3, <2>3
    <2>7. /\ OutOK'
          /\ \A n : InOut(n)' <=> InOut(n) \/ f.pkt = n
          /\ \A k \in 1 .. Len(out') : out'[k] = f \/ \E i \in 1 .. Len(out) : out'[k] = out[i]
      BY <2>3, <2>4, <2>5, <2>6, SentOne DEF JInv
    <2>8. \A i, q : Waits(f.hop, i, q) => ~Forwarded(q)
      BY <2>1, <2>3 DEF JInv, IInv, WaitsOnlyUnknown, Waits, Forwarded
    <2>9. ~Forwarded(net) /\ ~Forwarded(net')
      BY <2>1, <1>5 DEF Forwarded, None
    <2>10. QueueOK'
      <3>1. ASSUME NEW i, NEW j, NEW q, NEW k \in 1 .. Len(out'), Waits(i, j, q),
                   out'[k].hop = i, Forwarded(q), Forwarded(out'[k])
            PROVE  out'[k].pkt < q.pkt
        <4>1. out'[k] # f
          BY <2>8, <3>1
        <4>2. PICK m \in 1 .. Len(out) : out'[k] = out[m]
          BY <4>1, <2>7
        <4>3. out[m].hop = i /\ Forwarded(out[m])
          BY <4>2, <3>1 DEF Forwarded
        <4>4. out[m].pkt < q.pkt
          BY <4>3, <3>1 DEF JInv, QueueOK, QueueHome, QueueApart, QueueInOrder, QueueAfterOut, NetIsLast
        <4> QED
          BY <4>2, <4>4
      <3>2. QueueAfterOut'
        BY <3>1, <1>5 DEF QueueAfterOut, Forwarded
      <3>3. QueueHome' /\ QueueApart' /\ QueueInOrder'
        BY <1>5 DEF JInv, QueueOK, QueueHome, QueueApart, QueueInOrder, Forwarded
      <3>4. NetIsLast'
        BY <2>9 DEF NetIsLast, Forwarded
      <3> QED
        BY <3>2, <3>3, <3>4 DEF QueueOK
    <2>11. \A n : ~InNet(n) /\ ~InNet(n)'
      BY <2>1, <1>5 DEF InNet
    <2>12. ASSUME NEW n \in Nat PROVE OnePlace(n)'
      <3>1. OnePlace(n) /\ (n = p.pkt => ~InReqs(n) /\ ~InError(n) /\ ~InUnreach(n) /\ ~InOut(n))
        BY <1>7, Numbers DEF OnePlace
      <3>2. /\ ~InNet(n) /\ ~InNet(n)' /\ (InReqs(n)' <=> InReqs(n)) /\ (InError(n)' <=> InError(n))
            /\ (InUnreach(n)' <=> InUnreach(n)) /\ (InOut(n)' <=> InOut(n) \/ n = p.pkt)
            /\ (n \in 1 .. arrived' <=> n \in 1 .. arrived \/ n = p.pkt)
        BY <2>11, <1>5, <2>7, <1>6, <2>3
      <3> QED
        BY <3>1, <3>2 DEF OnePlace
    <2> QED
      BY <1>5, <1>8, <2>7, <2>10, <2>12 DEF JInv, Placed
  <1>10. CASE ForwardMiss(p)
    <2>1. net' = p /\ UNCHANGED out
      BY <1>10 DEF ForwardMiss
    <2>2. OutOK' /\ \A n : InOut(n)' <=> InOut(n)
      BY <2>1, Stays DEF JInv
    <2>3. QueueOK'
      <3>1. \A k \in 1 .. Len(out) : out[k].pkt < p.pkt
        <4>1. \A k \in 1 .. Len(out) : out[k].pkt \in 1 .. arrived
          BY Numbers
        <4> QED
          BY <4>1, <1>2, <1>3
      <3>2. \A i, q : Waits(p.hop, i, q) => q.pkt < p.pkt
        <4>1. \A i, q : Waits(p.hop, i, q) => q.pkt \in 1 .. arrived
          BY Numbers
        <4> QED
          BY <4>1, <1>2, <1>3
      <3>3. QueueHome' /\ QueueApart' /\ QueueInOrder'
        BY <1>5 DEF JInv, QueueOK, QueueHome, QueueApart, QueueInOrder, Forwarded
      <3>4. QueueAfterOut'
        BY <1>5, <2>1 DEF JInv, QueueOK, QueueAfterOut, Forwarded
      <3>5. NetIsLast'
        BY <3>1, <3>2, <2>1, <1>5 DEF NetIsLast, Forwarded
      <3> QED
        BY <3>3, <3>4, <3>5 DEF QueueOK
    <2>4. \A n : ~InNet(n) /\ (InNet(n)' <=> n = p.pkt)
      BY <2>1, <1>3, <1>5 DEF InNet
    <2>5. ASSUME NEW n \in Nat PROVE OnePlace(n)'
      <3>1. OnePlace(n) /\ (n = p.pkt => ~InReqs(n) /\ ~InError(n) /\ ~InUnreach(n) /\ ~InOut(n))
        BY <1>7, Numbers DEF OnePlace
      <3>2. /\ ~InNet(n) /\ (InNet(n)' <=> n = p.pkt)
            /\ (InReqs(n)' <=> InReqs(n)) /\ (InError(n)' <=> InError(n))
            /\ (InUnreach(n)' <=> InUnreach(n)) /\ (InOut(n)' <=> InOut(n))
            /\ (n \in 1 .. arrived' <=> n \in 1 .. arrived \/ n = p.pkt)
        BY <2>4, <1>5, <2>2, <1>6
      <3> QED
        BY <3>1, <3>2 DEF OnePlace
    <2> QED
      BY <1>5, <1>8, <2>2, <2>3, <2>5 DEF JInv, Placed
  <1> QED
    BY <1>4, <1>9, <1>10

(* A packet joins the queue for its hop. *)
LEMMA Joined ==
  ASSUME JInv, NEW p \in AnyPacket, AppendPacket(p), UNCHANGED out, ~InReqs(p.pkt),
         Forwarded(p) =>
           /\ \A k \in 1 .. Len(out) :
                out[k].hop = p.hop /\ Forwarded(out[k]) => out[k].pkt < p.pkt
           /\ \A i, q : Waits(p.hop, i, q) /\ Forwarded(q) => q.pkt < p.pkt,
         net' = None \/ (net' = net /\ ~Forwarded(p))
  PROVE  QueueOK' /\ \A n : InReqs(n)' <=> InReqs(n) \/ n = p.pkt
  <1>1. PICK len \in Nat :
          /\ \A i, q : Waits(p.hop, i, q) => i \in 1 .. len
          /\ \A h, i, q : Waits(h, i, q)' <=>
               Waits(h, i, q) \/ (h = p.hop /\ i = len + 1 /\ q = p)
    BY AppendWaits DEF JInv
  <1>2. \A h, i, q : Waits(h, i, q) => q.pkt # p.pkt /\ q.hop = h
    BY DEF InReqs, JInv, QueueOK, QueueHome
  <1>3. \A h, i, q : Waits(h, i, q)' => q.hop = h
    BY <1>1, <1>2
  <1>4. ASSUME NEW h, NEW g, NEW i, NEW j, NEW q, NEW r,
               Waits(h, i, q)', Waits(g, j, r)', q.pkt = r.pkt
        PROVE  h = g /\ i = j
    <2>1. CASE Waits(h, i, q) /\ Waits(g, j, r)
      BY <2>1, <1>4 DEF JInv, QueueOK, QueueHome, QueueApart, QueueInOrder, QueueAfterOut, NetIsLast
    <2>2. CASE (h = p.hop /\ i = len + 1 /\ q = p) /\ (g = p.hop /\ j = len + 1 /\ r = p)
      BY <2>2
    <2>3. CASE Waits(h, i, q) /\ r = p
      BY <2>3, <1>2, <1>4
    <2>4. CASE Waits(g, j, r) /\ q = p
      BY <2>4, <1>2, <1>4
    <2> QED
      BY <1>1, <1>4, <2>1, <2>2, <2>3, <2>4
  <1>5. ASSUME NEW h, NEW i, NEW j, NEW q, NEW r, Waits(h, i, q)', Waits(h, j, r)',
               Forwarded(q), Forwarded(r), i < j
        PROVE  q.pkt < r.pkt
    <2>1. CASE Waits(h, i, q) /\ Waits(h, j, r)
      BY <2>1, <1>5 DEF JInv, QueueOK, QueueHome, QueueApart, QueueInOrder, QueueAfterOut, NetIsLast
    <2>2. CASE Waits(h, i, q) /\ h = p.hop /\ r = p
      BY <2>2, <1>5
    <2>3. CASE h = p.hop /\ i = len + 1
      <3>1. j = len + 1 \/ j \in 1 .. len
        BY <2>3, <1>1, <1>5
      <3> QED
        BY <3>1, <2>3, <1>1, <1>5
    <2> QED
      BY <1>1, <1>5, <2>1, <2>2, <2>3
  <1>6. ASSUME NEW h, NEW i, NEW q, NEW k \in 1 .. Len(out), Waits(h, i, q)',
               out[k].hop = h, Forwarded(q), Forwarded(out[k])
        PROVE  out[k].pkt < q.pkt
    <2>1. CASE Waits(h, i, q)
      BY <2>1, <1>6 DEF JInv, QueueOK, QueueHome, QueueApart, QueueInOrder, QueueAfterOut, NetIsLast
    <2>2. CASE h = p.hop /\ q = p
      BY <2>2, <1>6
    <2> QED
      BY <1>1, <1>6, <2>1, <2>2
  <1>7. ~Forwarded(None)
    BY DEF Forwarded, None
  <1>8. ASSUME NEW k \in 1 .. Len(out), Forwarded(net'), out[k].hop = net'.hop,
               Forwarded(out[k])
        PROVE  out[k].pkt < net'.pkt
    <2>1. net' = net
      BY <1>7, <1>8
    <2>2. Forwarded(net) /\ out[k].hop = net.hop
      BY <2>1, <1>8
    <2> QED
      BY <2>1, <2>2, <1>8 DEF JInv, QueueOK, QueueHome, QueueApart, QueueInOrder, QueueAfterOut, NetIsLast
  <1>9. ASSUME NEW h, NEW i, NEW q, Forwarded(net'), h = net'.hop, Waits(h, i, q)', Forwarded(q)
        PROVE  q.pkt < net'.pkt
    <2>1. net' = net /\ ~Forwarded(p)
      BY <1>7, <1>9
    <2>2. Waits(h, i, q) /\ h = net.hop /\ Forwarded(net)
      BY <2>1, <1>1, <1>9
    <2> QED
      BY <2>1, <2>2, <1>9 DEF JInv, QueueOK, QueueHome, QueueApart, QueueInOrder, QueueAfterOut, NetIsLast
  <1>10. QueueOK'
    BY <1>3, <1>4, <1>5, <1>6, <1>8, <1>9 DEF QueueOK, QueueHome, QueueApart, QueueInOrder, QueueAfterOut, NetIsLast, Forwarded
  <1>11. ASSUME NEW n PROVE InReqs(n)' <=> InReqs(n) \/ n = p.pkt
    BY <1>1 DEF InReqs
  <1> QED
    BY <1>10, <1>11

LEMMA PendMoves ==
  ASSUME ArpAssumption, JInv, Pend PROVE TableOK' /\ OutOK' /\ QueueOK' /\ Placed'
  <1>1. /\ net # None /\ net \in AnyPacket /\ AppendPacket(net) /\ net' = None
        /\ UNCHANGED <<entries, arrived, sweep, error, unreach, out>>
    BY DEF Pend, JInv, IInv, Shape
  <1>2. InNet(net.pkt) /\ net.pkt \in Nat /\ OnePlace(net.pkt)
    BY <1>1, Numbers DEF AnyPacket
  <1>3. ~InReqs(net.pkt)
    BY <1>2 DEF OnePlace
  <1>4. QueueOK' /\ \A n : InReqs(n)' <=> InReqs(n) \/ n = net.pkt
    <2>1. Forwarded(net) =>
            /\ \A k \in 1 .. Len(out) :
                 out[k].hop = net.hop /\ Forwarded(out[k]) => out[k].pkt < net.pkt
            /\ \A i, q : Waits(net.hop, i, q) /\ Forwarded(q) => q.pkt < net.pkt
      BY DEF JInv, QueueOK, QueueHome, QueueApart, QueueInOrder, QueueAfterOut, NetIsLast
    <2> QED
      BY <2>1, <1>1, <1>3, Joined
  <1>5. /\ TableOK' /\ OutOK'
        /\ \A n : InError(n)' <=> InError(n)
        /\ \A n : InUnreach(n)' <=> InUnreach(n)
        /\ \A n : InOut(n)' <=> InOut(n)
    BY <1>1, Stays DEF JInv
  <1>6. \A n : (InNet(n) <=> n = net.pkt) /\ ~InNet(n)'
    BY <1>1 DEF InNet
  <1>7. ASSUME NEW n \in Nat PROVE OnePlace(n)'
    <2>1. OnePlace(n)
      BY Numbers
    <2>2. /\ (InNet(n) <=> n = net.pkt) /\ ~InNet(n)'
          /\ (InReqs(n)' <=> InReqs(n) \/ n = net.pkt) /\ (InError(n)' <=> InError(n))
          /\ (InUnreach(n)' <=> InUnreach(n)) /\ (InOut(n)' <=> InOut(n))
          /\ (n \in 1 .. arrived' <=> n \in 1 .. arrived)
      BY <1>1, <1>4, <1>5, <1>6
    <2> QED
      BY <2>1, <2>2 DEF OnePlace
  <1> QED
    BY <1>1, <1>4, <1>5, <1>7 DEF JInv, Placed

LEMMA PendReportMoves ==
  ASSUME ArpAssumption, JInv, PendReport PROVE TableOK' /\ OutOK' /\ QueueOK' /\ Placed'
  <1>1. /\ error # None /\ error \in AnyPacket /\ AppendPacket(error) /\ error' = None
        /\ sweep' = "report" /\ UNCHANGED <<entries, arrived, net, unreach, out>>
    BY DEF PendReport, JInv, IInv, Shape, Placed
  <1>2. InError(error.pkt) /\ error.pkt \in Nat /\ OnePlace(error.pkt)
    BY <1>1, Numbers DEF AnyPacket
  <1>3. ~InReqs(error.pkt) /\ ~Forwarded(error)
    BY <1>2 DEF OnePlace, JInv, IInv, ErrorIsOwn, Forwarded
  <1>4. QueueOK' /\ \A n : InReqs(n)' <=> InReqs(n) \/ n = error.pkt
    BY <1>1, <1>3, Joined
  <1>5. /\ TableOK' /\ OutOK'
        /\ \A n : InNet(n)' <=> InNet(n)
        /\ \A n : InUnreach(n)' <=> InUnreach(n)
        /\ \A n : InOut(n)' <=> InOut(n)
    BY <1>1, Stays DEF JInv
  <1>6. \A n : (InError(n) <=> n = error.pkt) /\ ~InError(n)'
    BY <1>1 DEF InError
  <1>7. ASSUME NEW n \in Nat PROVE OnePlace(n)'
    <2>1. OnePlace(n)
      BY Numbers
    <2>2. /\ (InError(n) <=> n = error.pkt) /\ ~InError(n)'
          /\ (InReqs(n)' <=> InReqs(n) \/ n = error.pkt) /\ (InNet(n)' <=> InNet(n))
          /\ (InUnreach(n)' <=> InUnreach(n)) /\ (InOut(n)' <=> InOut(n))
          /\ (n \in 1 .. arrived' <=> n \in 1 .. arrived)
      BY <1>1, <1>4, <1>5, <1>6
    <2> QED
      BY <2>1, <2>2 DEF OnePlace
  <1> QED
    BY <1>1, <1>4, <1>5, <1>7 DEF JInv, Placed

LEMMA AnswerMoves ==
  ASSUME ArpAssumption, JInv, NEW mac \in Mac, Answer(mac)
  PROVE  TableOK' /\ OutOK' /\ QueueOK' /\ Placed'
  <1> DEFINE hop == Owner[mac]
  <1>1. PICK i \in ChosenSlots : entries' = [entries EXCEPT ![i] = Fill(hop, mac)]
    BY DEF Answer, Insert
  <1>2. PICK rs \in SetToSeqs(Waiting(hop)) : out' = out \o Flushed(rs, mac)
    BY DEF Answer, Insert
  <1>3. /\ reqs' = reqs \ Waiting(hop) /\ net = None
        /\ UNCHANGED <<arrived, net, sweep, error, unreach>>
    BY DEF Answer, Insert
  <1>4. hop \in Hop
    BY DEF ArpAssumption
  <1>5. TableOK'
    <2>1. Fill(hop, mac) \in Entry /\ Fill(hop, mac).mac = mac /\ Fill(hop, mac).ip = hop
      BY <1>4 DEF Fill, Entry
    <2>2. entries \in [Slot -> Entry]
      BY DEF JInv, TableOK
    <2>3. entries' \in [Slot -> Entry]
      BY <1>1, <2>1, <2>2
    <2>4. \A j \in Slot : entries'[j] = IF j = i THEN Fill(hop, mac) ELSE entries[j]
      BY <1>1, <2>2
    <2> QED
      BY <2>1, <2>3, <2>4 DEF JInv, TableOK
  <1> DEFINE fl == Flushed(rs, mac)
  <1>6. /\ fl \in Seq(FrameSet)
        /\ \A j \in 1 .. Len(fl) : \E p \in AnyPacket : Waits(hop, j, p) /\ fl[j] = Frame(p, mac)
        /\ \A j, p : Waits(hop, j, p) => j \in 1 .. Len(fl)
    BY FlushedFacts DEF JInv
  <1>7. out' = out \o fl
    BY <1>2
  <1>8. Owner[mac] = hop
    OBVIOUS
  <1> HIDE DEF fl, hop
  <1>9. \A h, j, p : Waits(h, j, p)' <=> Waits(h, j, p) /\ h # hop
    BY <1>3, WaitsAfter DEF JInv
  <1>10. ASSUME NEW j \in 1 .. Len(fl)
         PROVE  \E p \in AnyPacket :
                  /\ Waits(hop, j, p) /\ fl[j].pkt = p.pkt /\ fl[j].hop = hop
                  /\ (Forwarded(fl[j]) <=> Forwarded(p)) /\ fl[j].mac = mac
    <2>1. PICK p \in AnyPacket : Waits(hop, j, p) /\ fl[j] = Frame(p, mac)
      BY <1>6
    <2>2. p.hop = hop
      BY <2>1 DEF JInv, QueueOK, QueueHome, QueueApart, QueueInOrder, QueueAfterOut, NetIsLast
    <2> QED
      BY <2>1, <2>2, FrameFacts DEF Forwarded
  <1>11. ASSUME NEW j, NEW p, Waits(hop, j, p)
         PROVE  j \in 1 .. Len(fl) /\ fl[j].pkt = p.pkt
    <2>1. j \in 1 .. Len(fl)
      BY <1>6, <1>11
    <2>2. PICK q \in AnyPacket : Waits(hop, j, q) /\ fl[j].pkt = q.pkt
      BY <2>1, <1>10
    <2>3. q = p
      BY <2>2, <1>11, WaitsFacts DEF JInv
    <2> QED
      BY <2>1, <2>2, <2>3
  <1>12. /\ OutOK'
         /\ \A n : InOut(n)' <=> InOut(n) \/ \E j \in 1 .. Len(fl) : fl[j].pkt = n
         /\ \A k \in 1 .. Len(out') : \/ \E m \in 1 .. Len(out) : out'[k] = out[m]
                                      \/ \E j \in 1 .. Len(fl) : out'[k] = fl[j]
    <2>1. ASSUME NEW j \in 1 .. Len(fl) PROVE Owner[fl[j].mac] = fl[j].hop /\ ~InOut(fl[j].pkt)
      <3>1. PICK p \in AnyPacket : /\ Waits(hop, j, p) /\ fl[j].pkt = p.pkt
                                   /\ fl[j].hop = hop /\ fl[j].mac = mac
        BY <1>10
      <3>2. InReqs(p.pkt) /\ OnePlace(p.pkt)
        BY <3>1, Numbers DEF AnyPacket
      <3> QED
        BY <3>1, <3>2, <1>8 DEF OnePlace
    <2>2. ASSUME NEW a \in 1 .. Len(fl), NEW b \in 1 .. Len(fl), fl[a].pkt = fl[b].pkt
          PROVE  a = b
      <3>1. PICK p \in AnyPacket : Waits(hop, a, p) /\ fl[a].pkt = p.pkt
        BY <1>10
      <3>2. PICK q \in AnyPacket : Waits(hop, b, q) /\ fl[b].pkt = q.pkt
        BY <1>10
      <3> QED
        BY <3>1, <3>2, <2>2 DEF JInv, QueueOK, QueueHome, QueueApart, QueueInOrder, QueueAfterOut, NetIsLast
    <2>3. ASSUME NEW j \in 1 .. Len(fl), NEW k \in 1 .. Len(out), out[k].hop = fl[j].hop,
                 Forwarded(out[k]), Forwarded(fl[j])
          PROVE  out[k].pkt < fl[j].pkt
      <3>1. PICK p \in AnyPacket : /\ Waits(hop, j, p) /\ fl[j].pkt = p.pkt
                                   /\ fl[j].hop = hop /\ (Forwarded(fl[j]) <=> Forwarded(p))
        BY <1>10
      <3> QED
        BY <3>1, <2>3 DEF JInv, QueueOK, QueueHome, QueueApart, QueueInOrder, QueueAfterOut, NetIsLast
    <2>4. ASSUME NEW a \in 1 .. Len(fl), NEW b \in 1 .. Len(fl), a < b, fl[a].hop = fl[b].hop,
                 Forwarded(fl[a]), Forwarded(fl[b])
          PROVE  fl[a].pkt < fl[b].pkt
      <3>1. PICK p \in AnyPacket : Waits(hop, a, p) /\ fl[a].pkt = p.pkt /\ Forwarded(p)
        BY <1>10, <2>4
      <3>2. PICK q \in AnyPacket : Waits(hop, b, q) /\ fl[b].pkt = q.pkt /\ Forwarded(q)
        BY <1>10, <2>4
      <3> QED
        BY <3>1, <3>2, <2>4 DEF JInv, QueueOK, QueueHome, QueueApart, QueueInOrder, QueueAfterOut, NetIsLast
    <2> QED
      BY <1>6, <1>7, <2>1, <2>2, <2>3, <2>4, SentMore DEF JInv
  <1>13. ~Forwarded(net) /\ ~Forwarded(net')
    BY <1>3 DEF Forwarded, None
  <1>14. ASSUME NEW h, NEW j, NEW p, NEW k \in 1 .. Len(out'), Waits(h, j, p)',
                out'[k].hop = h, Forwarded(p), Forwarded(out'[k])
         PROVE  out'[k].pkt < p.pkt
    <2>1. Waits(h, j, p) /\ h # hop
      BY <1>9, <1>14
    <2>2. \A a \in 1 .. Len(fl) : out'[k] # fl[a]
      BY <2>1, <1>10, <1>14
    <2>3. PICK m \in 1 .. Len(out) : out'[k] = out[m]
      BY <2>2, <1>12
    <2>4. out[m].hop = h /\ Forwarded(out[m])
      BY <2>3, <1>14 DEF Forwarded
    <2> QED
      BY <2>1, <2>3, <2>4, <1>14 DEF JInv, QueueOK, QueueHome, QueueApart, QueueInOrder, QueueAfterOut, NetIsLast
  <1>15. QueueOK'
    <2>1. QueueHome' /\ QueueApart' /\ QueueInOrder'
      BY <1>9 DEF JInv, QueueOK, QueueHome, QueueApart, QueueInOrder, Forwarded
    <2>2. QueueAfterOut'
      BY <1>14 DEF QueueAfterOut, Forwarded
    <2>3. NetIsLast'
      BY <1>13 DEF NetIsLast, Forwarded
    <2> QED
      BY <2>1, <2>2, <2>3 DEF QueueOK
  <1>16. ASSUME NEW n
         PROVE  InReqs(n)' <=> InReqs(n) /\ ~\E j \in 1 .. Len(fl) : fl[j].pkt = n
    <2>1. ASSUME NEW h, NEW j, NEW p, Waits(h, j, p), h # hop, p.pkt = n,
                 NEW a \in 1 .. Len(fl), fl[a].pkt = n
          PROVE  FALSE
      <3>1. PICK q \in AnyPacket : Waits(hop, a, q) /\ fl[a].pkt = q.pkt
        BY <1>10
      <3> QED
        BY <3>1, <2>1 DEF JInv, QueueOK, QueueHome, QueueApart, QueueInOrder, QueueAfterOut, NetIsLast
    <2>2. InReqs(n)' => InReqs(n) /\ ~\E j \in 1 .. Len(fl) : fl[j].pkt = n
      BY <2>1, <1>9 DEF InReqs
    <2>3. ASSUME InReqs(n), ~\E j \in 1 .. Len(fl) : fl[j].pkt = n PROVE InReqs(n)'
      <3>1. PICK h, j, p : Waits(h, j, p) /\ p.pkt = n
        BY <2>3 DEF InReqs
      <3>2. h # hop
        BY <3>1, <2>3, <1>11
      <3>3. Waits(h, j, p)'
        BY <3>1, <3>2, <1>9
      <3> QED
        BY <3>1, <3>3 DEF InReqs
    <2> QED
      BY <2>2, <2>3
  <1>17. ASSUME NEW n, NEW j \in 1 .. Len(fl), fl[j].pkt = n PROVE InReqs(n)
    BY <1>10, <1>17 DEF InReqs
  <1>18. /\ \A n : InNet(n)' <=> InNet(n)
         /\ \A n : InError(n)' <=> InError(n)
         /\ \A n : InUnreach(n)' <=> InUnreach(n)
    BY <1>3, Stays DEF JInv
  <1>19. ASSUME NEW n \in Nat PROVE OnePlace(n)'
    <2> DEFINE X == \E j \in 1 .. Len(fl) : fl[j].pkt = n
    <2>1. OnePlace(n) /\ (X => InReqs(n))
      BY <1>17, Numbers
    <2>2. /\ (InNet(n)' <=> InNet(n)) /\ (InError(n)' <=> InError(n))
          /\ (InReqs(n)' <=> InReqs(n) /\ ~X) /\ (InOut(n)' <=> InOut(n) \/ X)
          /\ (InUnreach(n)' <=> InUnreach(n)) /\ (n \in 1 .. arrived' <=> n \in 1 .. arrived)
      BY <1>3, <1>12, <1>16, <1>18
    <2> HIDE DEF X
    <2> QED
      BY <2>1, <2>2 DEF OnePlace
  <1> QED
    BY <1>3, <1>5, <1>12, <1>15, <1>19 DEF JInv, Placed

LEMMA PassMoves ==
  ASSUME ArpAssumption, JInv, Pass PROVE TableOK' /\ OutOK' /\ QueueOK' /\ Placed'
  <1>1. /\ unreach = {} /\ error = None /\ sweep' = "report"
        /\ UNCHANGED <<entries, arrived, net, error, out>>
    BY DEF Pass, JInv, Placed
  <1>2. /\ \A h, i, p : Waits(h, i, p)' <=> Waits(h, i, p) /\ \A r \in GivenUp : r.hop # h
        /\ \A p : p \in unreach' <=> \E r \in GivenUp : \E i : Waits(r.hop, i, p)
    BY WaitsAfter DEF JInv
  <1>3. /\ TableOK' /\ OutOK'
        /\ \A n : InNet(n)' <=> InNet(n)
        /\ \A n : InError(n)' <=> InError(n)
        /\ \A n : InOut(n)' <=> InOut(n)
    BY <1>1, Stays DEF JInv
  <1>4. QueueOK'
    <2>1. QueueHome' /\ QueueApart' /\ QueueInOrder'
      BY <1>2 DEF JInv, QueueOK, QueueHome, QueueApart, QueueInOrder, Forwarded
    <2>2. QueueAfterOut'
      BY <1>1, <1>2 DEF JInv, QueueOK, QueueAfterOut, Forwarded
    <2>3. NetIsLast'
      BY <1>1, <1>2 DEF JInv, QueueOK, NetIsLast, Forwarded
    <2> QED
      BY <2>1, <2>2, <2>3 DEF QueueOK
  <1>5. ASSUME NEW n PROVE InReqs(n)' <=> InReqs(n) /\ ~InUnreach(n)'
    <2>1. InUnreach(n)' <=> \E r \in GivenUp : \E i, p : Waits(r.hop, i, p) /\ p.pkt = n
      BY <1>2 DEF InUnreach
    <2>2. ASSUME NEW h, NEW i, NEW p, Waits(h, i, p), p.pkt = n, \A r \in GivenUp : r.hop # h
          PROVE  ~InUnreach(n)'
      <3>1. \A g, j, q : Waits(g, j, q) /\ q.pkt = n => g = h
        BY <2>2 DEF JInv, QueueOK, QueueApart
      <3> QED
        BY <2>1, <2>2, <3>1
    <2>3. ASSUME NEW h, NEW i, NEW p, Waits(h, i, p), p.pkt = n, ~InUnreach(n)'
          PROVE  \A r \in GivenUp : r.hop # h
      BY <2>1, <2>3
    <2>4. InReqs(n)' <=>
            \E h, i, p : Waits(h, i, p) /\ p.pkt = n /\ \A r \in GivenUp : r.hop # h
      BY <1>2 DEF InReqs
    <2>5. InReqs(n) <=> \E h, i, p : Waits(h, i, p) /\ p.pkt = n
      BY DEF InReqs
    <2> QED
      BY <2>2, <2>3, <2>4, <2>5
  <1>6. ASSUME NEW n, InUnreach(n)' PROVE InReqs(n)
    BY <1>2, <1>6 DEF InReqs, InUnreach
  <1>7. ASSUME NEW n \in Nat PROVE OnePlace(n)'
    <2>1. OnePlace(n) /\ ~InUnreach(n) /\ (InUnreach(n)' => InReqs(n))
      BY <1>1, <1>6, Numbers DEF InUnreach
    <2>2. /\ (InNet(n)' <=> InNet(n)) /\ (InError(n)' <=> InError(n))
          /\ (InReqs(n)' <=> InReqs(n) /\ ~InUnreach(n)') /\ (InOut(n)' <=> InOut(n))
          /\ (n \in 1 .. arrived' <=> n \in 1 .. arrived)
      BY <1>1, <1>3, <1>5
    <2> QED
      BY <2>1, <2>2 DEF OnePlace
  <1>8. ASSUME NEW p \in unreach', NEW q \in unreach', p.pkt = q.pkt PROVE p = q
    <2>1. PICK r \in GivenUp : \E i : Waits(r.hop, i, p)
      BY <1>2
    <2>2. PICK s \in GivenUp : \E i : Waits(s.hop, i, q)
      BY <1>2
    <2>3. PICK i : Waits(r.hop, i, p)
      BY <2>1
    <2>4. PICK j : Waits(s.hop, j, q)
      BY <2>2
    <2>5. r.hop = s.hop /\ i = j
      BY <2>3, <2>4, <1>8 DEF JInv, QueueOK, QueueApart
    <2> QED
      BY <2>3, <2>4, <2>5, WaitsFacts DEF JInv
  <1> QED
    BY <1>1, <1>3, <1>4, <1>7, <1>8 DEF Placed

LEMMA ReportMoves ==
  ASSUME ArpAssumption, JInv, NEW p \in unreach, Report(p)
  PROVE  TableOK' /\ OutOK' /\ QueueOK' /\ Placed'
  <1> DEFINE e == ErrorAbout(p)
  <1>1. /\ unreach' = unreach \ {p} /\ sweep = "report" /\ error = None
        /\ UNCHANGED <<entries, reqs, arrived, net>>
    BY DEF Report, JInv, Placed
  <1>2. /\ p \in AnyPacket /\ InUnreach(p.pkt) /\ p.pkt \in Nat \ {0} /\ OnePlace(p.pkt)
    BY Numbers DEF AnyPacket
  <1>3. /\ e \in AnyPacket /\ e.pkt = p.pkt /\ e.hop = p.src /\ ~Forwarded(e) /\ e # None
    BY <1>2 DEF ErrorAbout, AnyPacket, Forwarded, None
  <1>4. \/ Known(p.src) /\ out' = Append(out, Frame(e, Lookup(p.src))) /\ UNCHANGED <<sweep, error>>
        \/ sweep' = "append" /\ error' = e /\ UNCHANGED out
    BY DEF Report
  <1> HIDE DEF e
  <1>5. /\ TableOK'
        /\ \A n : InNet(n)' <=> InNet(n)
        /\ \A n : InReqs(n)' <=> InReqs(n)
        /\ \A h, i, q : Waits(h, i, q)' <=> Waits(h, i, q)
    BY <1>1, Stays DEF JInv
  <1>6. ASSUME NEW n PROVE InUnreach(n)' <=> InUnreach(n) /\ n # p.pkt
    BY <1>1 DEF InUnreach, JInv, Placed
  <1>7. \A q, r \in unreach' : q.pkt = r.pkt => q = r
    BY <1>1 DEF JInv, Placed
  <1>8. QueueHome' /\ QueueApart' /\ QueueInOrder'
    BY <1>5 DEF JInv, QueueOK, QueueHome, QueueApart, QueueInOrder, Forwarded
  <1>9. CASE Known(p.src) /\ out' = Append(out, Frame(e, Lookup(p.src)))
             /\ UNCHANGED <<sweep, error>>
    <2> DEFINE f == Frame(e, Lookup(p.src))
    <2>1. Lookup(p.src) \in Mac /\ Owner[Lookup(p.src)] = p.src
      BY <1>9, LookupFinds DEF JInv
    <2>2. f \in FrameSet /\ f.pkt = p.pkt /\ f.hop = p.src /\ f.src = e.src /\ Owner[f.mac] = f.hop
      BY <1>3, <2>1, FrameFacts
    <2>3. out' = Append(out, f)
      BY <1>9
    <2> HIDE DEF f
    <2>4. ~Forwarded(f)
      BY <1>3, <2>2 DEF Forwarded
    <2>5. ~InOut(f.pkt)
      BY <1>2, <2>2 DEF OnePlace
    <2>6. /\ OutOK'
          /\ \A n : InOut(n)' <=> InOut(n) \/ f.pkt = n
          /\ \A k \in 1 .. Len(out') : out'[k] = f \/ \E i \in 1 .. Len(out) : out'[k] = out[i]
      BY <2>2, <2>3, <2>4, <2>5, SentOne DEF JInv
    <2>7. ASSUME NEW k \in 1 .. Len(out'), Forwarded(out'[k])
          PROVE  \E i \in 1 .. Len(out) : out'[k] = out[i] /\ Forwarded(out[i])
      BY <2>4, <2>6, <2>7 DEF Forwarded
    <2>8. QueueAfterOut'
      <3> SUFFICES ASSUME NEW h, NEW i, NEW q, NEW k \in 1 .. Len(out'), Waits(h, i, q)',
                          out'[k].hop = h, Forwarded(q), Forwarded(out'[k])
                   PROVE  out'[k].pkt < q.pkt
        BY DEF QueueAfterOut, Forwarded
      <3>1. PICK m \in 1 .. Len(out) : out'[k] = out[m] /\ Forwarded(out[m])
        BY <2>7
      <3>2. Waits(h, i, q)
        BY <1>5
      <3>3. out[m].pkt < q.pkt
        BY <3>1, <3>2 DEF JInv, QueueOK, QueueAfterOut
      <3> QED
        BY <3>1, <3>3
    <2>9. NetIsLast'
      <3> SUFFICES ASSUME Forwarded(net)
                   PROVE  /\ \A k \in 1 .. Len(out') :
                               out'[k].hop = net.hop /\ Forwarded(out'[k])
                                 => out'[k].pkt < net.pkt
                          /\ \A h, i, q : h = net.hop /\ Waits(h, i, q)' /\ Forwarded(q)
                                            => q.pkt < net.pkt
        BY <1>1 DEF NetIsLast, Forwarded
      <3>1. ASSUME NEW k \in 1 .. Len(out'), out'[k].hop = net.hop, Forwarded(out'[k])
            PROVE  out'[k].pkt < net.pkt
        <4>1. PICK m \in 1 .. Len(out) : out'[k] = out[m] /\ Forwarded(out[m])
          BY <2>7, <3>1
        <4>2. out[m].pkt < net.pkt
          BY <3>1, <4>1 DEF JInv, QueueOK, NetIsLast
        <4> QED
          BY <4>1, <4>2
      <3> QED
        BY <3>1, <1>5 DEF JInv, QueueOK, NetIsLast
    <2>10. \A n : InError(n)' <=> InError(n)
      BY <1>9, Stays DEF JInv
    <2>11. ASSUME NEW n \in Nat PROVE OnePlace(n)'
      <3>1. OnePlace(n) /\ (n = p.pkt => InUnreach(n))
        BY <1>2, Numbers
      <3>2. /\ (InNet(n)' <=> InNet(n)) /\ (InError(n)' <=> InError(n))
            /\ (InReqs(n)' <=> InReqs(n)) /\ (InOut(n)' <=> InOut(n) \/ n = p.pkt)
            /\ (InUnreach(n)' <=> InUnreach(n) /\ n # p.pkt)
            /\ (n \in 1 .. arrived' <=> n \in 1 .. arrived)
        BY <1>1, <1>5, <1>6, <2>2, <2>6, <2>10
      <3> QED
        BY <3>1, <3>2 DEF OnePlace
    <2> QED
      BY <1>1, <1>5, <1>7, <1>8, <1>9, <2>6, <2>8, <2>9, <2>11 DEF Placed, QueueOK
  <1>10. CASE sweep' = "append" /\ error' = e /\ UNCHANGED out
    <2>1. OutOK' /\ \A n : InOut(n)' <=> InOut(n)
      BY <1>10, Stays DEF JInv
    <2>2. \A n : ~InError(n) /\ (InError(n)' <=> n = p.pkt)
      BY <1>1, <1>3, <1>10 DEF InError
    <2>3. QueueAfterOut'
      BY <1>5, <1>10 DEF JInv, QueueOK, QueueAfterOut, Forwarded
    <2>4. NetIsLast'
      BY <1>1, <1>5, <1>10 DEF JInv, QueueOK, NetIsLast, Forwarded
    <2>5. ASSUME NEW n \in Nat PROVE OnePlace(n)'
      <3>1. OnePlace(n) /\ (n = p.pkt => InUnreach(n))
        BY <1>2, Numbers
      <3>2. /\ (InNet(n)' <=> InNet(n)) /\ ~InError(n) /\ (InError(n)' <=> n = p.pkt)
            /\ (InReqs(n)' <=> InReqs(n)) /\ (InOut(n)' <=> InOut(n))
            /\ (InUnreach(n)' <=> InUnreach(n) /\ n # p.pkt)
            /\ (n \in 1 .. arrived' <=> n \in 1 .. arrived)
        BY <1>1, <1>5, <1>6, <2>1, <2>2
      <3> QED
        BY <3>1, <3>2 DEF OnePlace
    <2> QED
      BY <1>3, <1>5, <1>7, <1>8, <1>10, <2>1, <2>3, <2>4, <2>5 DEF Placed, QueueOK
  <1> QED
    BY <1>4, <1>9, <1>10

(* A second, the end of a sweep, and nothing at all move no packet. *)
LEMMA RestMoves ==
  ASSUME ArpAssumption, JInv, Rest \/ Second \/ UNCHANGED vars
  PROVE  TableOK' /\ OutOK' /\ QueueOK' /\ Placed'
  <1>1. /\ UNCHANGED <<arrived, net, error, unreach, out>>
        /\ sweep' = sweep \/ (sweep = "report" /\ unreach = {} /\ sweep' = "sleep")
    BY DEF Rest, Second, vars
  <1>2. \A h, i, p : Waits(h, i, p)' <=> Waits(h, i, p)
    BY WaitsAfter DEF Rest, vars, JInv
  <1>3. /\ OutOK'
        /\ \A n : InNet(n)' <=> InNet(n)
        /\ \A n : InError(n)' <=> InError(n)
        /\ \A n : InUnreach(n)' <=> InUnreach(n)
        /\ \A n : InOut(n)' <=> InOut(n)
    BY <1>1, Stays DEF JInv
  <1>4. \A n : InReqs(n)' <=> InReqs(n)
    BY <1>2 DEF InReqs
  <1>5. QueueHome' /\ QueueApart' /\ QueueInOrder'
    BY <1>2 DEF JInv, QueueOK, QueueHome, QueueApart, QueueInOrder, Forwarded
  <1>6. QueueAfterOut'
    BY <1>1, <1>2 DEF JInv, QueueOK, QueueAfterOut, Forwarded
  <1>7. NetIsLast'
    BY <1>1, <1>2 DEF JInv, QueueOK, NetIsLast, Forwarded
  <1>8. ASSUME NEW n \in Nat PROVE OnePlace(n)'
    <2>1. OnePlace(n)
      BY Numbers
    <2>2. /\ (InNet(n)' <=> InNet(n)) /\ (InError(n)' <=> InError(n))
          /\ (InReqs(n)' <=> InReqs(n)) /\ (InOut(n)' <=> InOut(n))
          /\ (InUnreach(n)' <=> InUnreach(n)) /\ (n \in 1 .. arrived' <=> n \in 1 .. arrived)
      BY <1>1, <1>3, <1>4
    <2> QED
      BY <2>1, <2>2 DEF OnePlace
  <1>9. TableOK'
    <2>1. CASE UNCHANGED entries
      BY <2>1, Stays DEF JInv
    <2>2. CASE Second
      <3>1. entries' = [i \in Slot |->
               IF entries[i].valid /\ entries[i].age <= EntryTimeout
               THEN [entries[i] EXCEPT !.age = @ + 1] ELSE entries[i]]
        BY <2>2 DEF Second
      <3>2. ASSUME NEW i \in Slot
            PROVE  /\ entries'[i] \in Entry
                   /\ entries'[i].valid => Owner[entries'[i].mac] = entries'[i].ip
        <4>1. entries[i] \in Entry
          BY DEF JInv, TableOK
        <4>2. CASE ~(entries[i].valid /\ entries[i].age <= EntryTimeout)
          <5>1. entries'[i] = entries[i]
            BY <3>1, <4>2
          <5> QED
            BY <4>1, <5>1 DEF JInv, TableOK
        <4>3. CASE entries[i].valid /\ entries[i].age <= EntryTimeout
          <5> DEFINE n == entries[i].age + 1
          <5>1. entries[i] \in [valid : {TRUE}, ip : Hop, mac : Mac, age : Nat]
            BY <4>1, <4>3, EntryFacts
          <5>2. n \in Nat
            <6>1. entries[i].age \in Nat
              BY <5>1
            <6> QED
              BY <6>1
          <5>3. entries'[i] = [entries[i] EXCEPT !.age = n]
            BY <3>1, <4>3, Zenon
          <5> HIDE DEF n
          <5>4. /\ entries'[i] \in [valid : {TRUE}, ip : Hop, mac : Mac, age : Nat]
                /\ entries'[i].mac = entries[i].mac /\ entries'[i].ip = entries[i].ip
            BY <5>1, <5>2, <5>3
          <5> QED
            BY <4>3, <5>4 DEF Entry, JInv, TableOK
        <4> QED
          BY <4>2, <4>3
      <3>3. entries' \in [Slot -> Entry]
        <4>1. entries' = [i \in Slot |-> entries'[i]]
          BY <3>1
        <4> QED
          BY <3>2, <4>1
      <3> QED
        BY <3>2, <3>3 DEF TableOK
    <2> QED
      BY <2>1, <2>2 DEF Rest, vars
  <1> QED
    BY <1>1, <1>3, <1>5, <1>6, <1>7, <1>8, <1>9 DEF JInv, Placed, QueueOK

LEMMA InitPlaces ==
  ASSUME ArpAssumption, Init PROVE TableOK /\ OutOK /\ QueueOK /\ Placed
  <1>1. /\ entries = [i \in Slot |-> [valid |-> FALSE]] /\ reqs = {} /\ out = << >>
        /\ net = None /\ error = None /\ unreach = {} /\ arrived = 0 /\ sweep = "sleep"
    BY DEF Init
  <1>2. TableOK
    BY <1>1 DEF TableOK, Entry
  <1>3. Len(out) = 0 /\ out \in Seq(FrameSet)
    BY <1>1
  <1>4. OutOK
    BY <1>3 DEF OutOK
  <1>5. \A h, i, p : ~Waits(h, i, p)
    BY <1>1 DEF Waits
  <1>6. QueueOK
    BY <1>3, <1>5 DEF QueueOK, QueueHome, QueueApart, QueueInOrder, QueueAfterOut, NetIsLast
  <1>7. ASSUME NEW n \in Nat PROVE OnePlace(n)
    <2>1. ~InNet(n) /\ ~InError(n) /\ ~InReqs(n) /\ ~InUnreach(n) /\ ~InOut(n)
      BY <1>1, <1>3, <1>5 DEF InNet, InError, InReqs, InUnreach, InOut
    <2> QED
      BY <1>1, <2>1 DEF OnePlace
  <1> QED
    BY <1>1, <1>2, <1>4, <1>6, <1>7 DEF Placed

(* Every packet is in one place, in its turn.                              *)
THEOREM PlaceInvariant == Spec => []JInv
  <1>1. Init => JInv
    BY InitIInv, InitPlaces, ArpAssumption DEF JInv
  <1>2. JInv /\ [Next]_vars => JInv'
    <2> SUFFICES ASSUME JInv, [Next]_vars PROVE JInv'
      OBVIOUS
    <2>1. IInv'
      BY StepIInv, ArpAssumption DEF JInv
    <2>2. TableOK' /\ OutOK' /\ QueueOK' /\ Placed'
      BY ArpAssumption, ArriveMoves, PendMoves, AnswerMoves, PassMoves, ReportMoves,
         PendReportMoves, RestMoves DEF Next, Sweep
    <2> QED
      BY <2>1, <2>2 DEF JInv
  <1> QED
    BY <1>1, <1>2, PTL DEF Spec

(* A packet handed to the router is in exactly one place, whatever the     *)
(* order in which the two threads get the lock (arp.c:97-104,              *)
(* arpcache.c:133-150, 182-196).                                           *)
THEOREM PacketsAreOnceEach == Spec => []OnceEach
  <1>1. JInv => OnceEach
    <2> SUFFICES ASSUME JInv, NEW n \in 1 .. arrived
                 PROVE  Cardinality({p \in Held : p.pkt = n})
                          + Cardinality({k \in DOMAIN out : out[k].pkt = n}) = 1
      BY DEF OnceEach
    <2> DEFINE H == {p \in Held : p.pkt = n}
               O == {k \in DOMAIN out : out[k].pkt = n}
    <2>1. n \in Nat /\ OnePlace(n) /\ n # 0
      BY Numbers
    <2>2. DOMAIN out = 1 .. Len(out)
      BY DEF JInv, OutOK
    <2>3. InOut(n) => \E k : O = {k}
      <3> SUFFICES ASSUME InOut(n) PROVE \E k : O = {k}
        OBVIOUS
      <3>1. PICK k \in 1 .. Len(out) : out[k].pkt = n
        BY DEF InOut
      <3>2. O = {k}
        BY <2>2, <3>1 DEF JInv, OutOK
      <3> QED
        BY <3>2
    <2>4. ~InOut(n) => O = {}
      BY <2>2 DEF InOut
    <2>5. \A p : p \in Packets(reqs) <=> \E h, i : Waits(h, i, p)
      BY DEF Packets, Waits
    <2>6. \A p : p \in H <=>
            /\ p.pkt = n /\ p # None
            /\ (\E h, i : Waits(h, i, p)) \/ p \in unreach \/ p = net \/ p = error
      BY <2>5 DEF Held
    <2> HIDE DEF H, O
    <2>7. None.pkt = 0
      BY DEF None
    <2>8. InOut(n) => H = {}
      <3>1. ASSUME NEW p \in H, InOut(n) PROVE FALSE
        <4>1. InNet(n) \/ InError(n) \/ InReqs(n) \/ InUnreach(n)
          BY <2>6 DEF InNet, InError, InReqs, InUnreach
        <4> QED
          BY <4>1, <3>1, <2>1 DEF OnePlace
      <3> QED
        BY <3>1
    <2>9. ~InOut(n) => \E p : H = {p}
      <3> SUFFICES ASSUME ~InOut(n) PROVE \E p : H = {p}
        OBVIOUS
      <3>1. CASE InNet(n)
        <4>1. ~InError(n) /\ ~InReqs(n) /\ ~InUnreach(n)
          BY <2>1, <3>1 DEF OnePlace
        <4>2. \A p : p \in H <=> p = net
          BY <2>6, <3>1, <4>1 DEF InNet, InError, InReqs, InUnreach
        <4>3. H = {net}
          BY <4>2
        <4> QED
          BY <4>3
      <3>2. CASE InError(n)
        <4>1. ~InNet(n) /\ ~InReqs(n) /\ ~InUnreach(n)
          BY <2>1, <3>2 DEF OnePlace
        <4>2. \A p : p \in H <=> p = error
          BY <2>6, <3>2, <4>1 DEF InNet, InError, InReqs, InUnreach
        <4>3. H = {error}
          BY <4>2
        <4> QED
          BY <4>3
      <3>3. CASE InReqs(n)
        <4>1. ~InNet(n) /\ ~InError(n) /\ ~InUnreach(n)
          BY <2>1, <3>3 DEF OnePlace
        <4>2. PICK h, i, q : Waits(h, i, q) /\ q.pkt = n
          BY <3>3 DEF InReqs
        <4>3. ASSUME NEW g, NEW j, NEW p, Waits(g, j, p), p.pkt = n PROVE p = q
          <5>1. g = h /\ j = i
            BY <4>2, <4>3 DEF JInv, QueueOK, QueueApart
          <5> QED
            BY <5>1, <4>2, <4>3, WaitsFacts DEF JInv
        <4>4. \A p : p \in H => p = q
          BY <2>6, <4>1, <4>3 DEF InNet, InError, InUnreach
        <4>5. q \in H
          BY <2>1, <2>6, <2>7, <4>2
        <4>6. H = {q}
          BY <4>4, <4>5
        <4> QED
          BY <4>6
      <3>4. CASE InUnreach(n)
        <4>1. ~InNet(n) /\ ~InError(n) /\ ~InReqs(n)
          BY <2>1, <3>4 DEF OnePlace
        <4>2. PICK q \in unreach : q.pkt = n
          BY <3>4 DEF InUnreach
        <4>3. \A p : p \in H => p = q
          BY <2>6, <4>1, <4>2 DEF InNet, InError, InReqs, JInv, Placed
        <4>4. q \in H
          BY <2>1, <2>6, <2>7, <4>2
        <4>5. H = {q}
          BY <4>3, <4>4
        <4> QED
          BY <4>5
      <3> QED
        BY <2>1, <3>1, <3>2, <3>3, <3>4 DEF OnePlace
    <2>10. \/ Cardinality(H) = 0 /\ Cardinality(O) = 1
           \/ Cardinality(H) = 1 /\ Cardinality(O) = 0
      BY <2>3, <2>4, <2>8, <2>9, FS_EmptySet, FS_Singleton
    <2>11. Cardinality(H) + Cardinality(O) = 1
      BY <2>10
    <2> QED
      BY <2>11 DEF H, O
  <1> QED
    BY <1>1, PlaceInvariant, PTL

(* Forwarded packets never overtake one another on their way to a hop,     *)
(* although some wait and some do not (arp.c:97-104, arpcache.c:140-147).  *)
THEOREM PacketsInOrder == Spec => []InOrder
  <1>1. JInv => InOrder
    <2>1. OutOK => DOMAIN out = 1 .. Len(out)
      BY DEF OutOK
    <2> QED
      BY <2>1 DEF JInv, OutOK, InOrder, Forwarded
  <1> QED
    BY <1>1, PlaceInvariant, PTL

(* Every frame, forwarded at once or flushed later, carries a MAC address  *)
(* of its next hop (arp.c:97-101, arpcache.c:140-147).                     *)
THEOREM FramesGoToNextHop == Spec => []SentToNextHop
  <1>1. JInv => SentToNextHop
    <2>1. OutOK => DOMAIN out = 1 .. Len(out)
      BY DEF OutOK
    <2> QED
      BY <2>1 DEF JInv, OutOK, SentToNextHop
  <1> QED
    BY <1>1, PlaceInvariant, PTL
===============================================================================
