---------------------------------- MODULE Mospf --------------------------------
(***************************************************************************)
(* The link-state routing of 09-mospf: hellos find the neighbours, LSUs    *)
(* flood each router's links to all the others, and every router computes  *)
(* its routes from the database of the LSUs it holds.                      *)
(*                                                                         *)
(* The four daemon threads and the packet thread of a router hold          *)
(* mospf_lock for a whole handler or a whole turn, so each is one step.    *)
(* Two routers share at most one link, as in topo.py: a network is the set *)
(* of the routers attached to it, two for a link and one where only hosts  *)
(* are attached, and Iface gives a router's networks in the order of its   *)
(* iface list.  The LSAs of an LSU follow from its sender's neighbours.    *)
(*                                                                         *)
(* Time is not counted.  A neighbour times out (15 s) when its hellos do   *)
(* not arrive, and a database entry (40 s) when no LSU can renew it.       *)
(* Faults bounds the events that disturb a running network: a link going   *)
(* down, a router restarting, the 16-bit LSU counter coming round to 0,    *)
(* and a neighbour entry whose age byte holds what was left in its memory. *)
(***************************************************************************)
EXTENDS Integers, FiniteSets, Sequences, SequencesExt

CONSTANTS Router,    \* the router ids
          Iface,     \* the networks of each router, in the order of its ifaces
          Arrival,   \* how the databases may have filled until then: what order each has
          MaxTtl,    \* MOSPF_MAX_LSU_TTL
          Faults,    \* bound: disturbances of the network
          MaxQueue   \* bound: LSUs under way in one direction of a link

Networks(r) == {Iface[r][i] : i \in 1 .. Len(Iface[r])}

ASSUME MospfAssumption ==
  /\ Router \subseteq Nat \ {0} /\ IsFiniteSet(Router)
  /\ \A order \in Arrival : \A r \in Router : order[r] \in SetToSeqs(Router \ {r})
  /\ MaxTtl \in 1 .. 255 /\ Faults \in Nat /\ MaxQueue \in Nat \ {0}
  /\ Iface \in [Router -> Seq(SUBSET Router)]
  /\ \A r \in Router : \A net \in Networks(r) :
       /\ r \in net /\ net \subseteq Router /\ Cardinality(net) \in 1 .. 2
       /\ \A t \in net : net \in Networks(t)
  /\ \A r \in Router : \E t \in Router \ {r} : {r, t} \in Networks(r)

VARIABLES
  nbr,           \* the neighbours each router knows
  leftover,      \* those of them whose alive byte was never set and is high
  sequence_num,  \* the number of its next LSU
  mospf_db,      \* its database: a list of [rid, seq, nbrs]
  wire,          \* the LSUs under way, from one router to the next
  down,          \* the links that are down
  faults,        \* the disturbances so far
  reset          \* history: the routers whose counter was set back

vars == <<nbr, leftover, sequence_num, mospf_db, wire, down, faults, reset>>

Net(r, t) == {r, t}
Direction ==
  {d \in Router \X Router : d[1] # d[2] /\ Net(d[1], d[2]) \in Networks(d[1])}
Up(r, t) == <<r, t>> \in Direction /\ Net(r, t) \notin down

(* The routers have run for a while: every one has found its neighbours,   *)
(* one after the other, and the last LSU of each has reached all the       *)
(* others, in one of the orders of Arrival.                                *)
Found(r) == {t \in Router : <<r, t>> \in Direction}
Filled(others) ==
  [i \in DOMAIN others |-> [rid |-> others[i], nbrs |-> Found(others[i]),
                            seq |-> Cardinality(Found(others[i])) - 1]]
Init ==
  /\ nbr = [r \in Router |-> Found(r)]
  /\ sequence_num = [r \in Router |-> Cardinality(Found(r))]
  /\ \E order \in Arrival : mospf_db = [r \in Router |-> Filled(order[r])]
  /\ leftover = [r \in Router |-> {}]
  /\ wire = [d \in Direction |-> << >>]
  /\ down = {}
  /\ faults = 0
  /\ reset = {}
-------------------------------------------------------------------------------
(* LSUs on the wire.                                                       *)

Lsu(rid, seq, nbrs, ttl) == [rid |-> rid, seq |-> seq, nbrs |-> nbrs, ttl |-> ttl]

(* A copy of LSU m from router r to each router of a set, if the link is up. *)
SentTo(w, r, receivers, m) ==
  [d \in Direction |->
     IF d[1] = r /\ d[2] \in receivers /\ Up(r, d[2]) THEN Append(w[d], m) ELSE w[d]]

Room(r, receivers) == \A t \in receivers : Up(r, t) => Len(wire[<<r, t>>]) < MaxQueue

(* send_mospf_lsu of a router whose neighbours are nbrs: one copy for each *)
(* neighbour, then the counter goes on.  The step may be the one in which  *)
(* the 16 bits come round: numbers then start again below all those sent.  *)
SendLsu_NoBump(r, nbrs, cost) ==
  /\ Room(r, nbrs)
  /\ wire' = SentTo(wire, r, nbrs, Lsu(r, sequence_num[r], nbrs, MaxTtl))
  /\ faults' = faults + cost /\ faults' <= Faults
  /\ UNCHANGED <<sequence_num, reset>>
SendLsu(r, nbrs, cost) ==
  /\ Room(r, nbrs)
  /\ wire' = SentTo(wire, r, nbrs, Lsu(r, sequence_num[r], nbrs, MaxTtl))
  /\ \E wraps \in 0 .. 1 :
       /\ faults' = faults + cost + wraps /\ faults' <= Faults
       /\ sequence_num' = [sequence_num EXCEPT ![r] = IF wraps = 1 THEN 0 ELSE @ + 1]
       /\ reset' = IF wraps = 1 THEN reset \cup {r} ELSE reset
-------------------------------------------------------------------------------
(* A hello of router t reaches router r, behind the LSUs sent before it.   *)
(* A new neighbour's age is not set: whatever its memory held may let it   *)
(* time out before the next hello.                                         *)
HelloFrom(r, t) ==
  /\ Up(r, t)
  /\ wire[<<t, r>>] = << >>

HelloKnown(r, t) ==
  /\ HelloFrom(r, t)
  /\ t \in nbr[r]
  /\ leftover' = [leftover EXCEPT ![r] = @ \ {t}]
  /\ UNCHANGED <<nbr, sequence_num, mospf_db, wire, down, faults, reset>>

HelloNew(r, t) ==
  /\ HelloFrom(r, t)
  /\ t \notin nbr[r]
  /\ nbr' = [nbr EXCEPT ![r] = @ \cup {t}]
  /\ \E high \in {{}, {t}} :
       /\ leftover' = [leftover EXCEPT ![r] = @ \cup high]
       /\ SendLsu(r, nbr'[r], Cardinality(high))
  /\ UNCHANGED <<mospf_db, down>>

(* checking_nbr_thread: hellos have been missing for three intervals, or   *)
(* the age byte counted on from what it held.                              *)
NbrTimeout(r, t) ==
  /\ t \in nbr[r]
  /\ ~Up(r, t) \/ t \in leftover[r]
  /\ nbr' = [nbr EXCEPT ![r] = @ \ {t}]
  /\ leftover' = [leftover EXCEPT ![r] = @ \ {t}]
  /\ SendLsu(r, nbr'[r], 0)
  /\ UNCHANGED <<mospf_db, down>>
-------------------------------------------------------------------------------
(* handle_mospf_lsu of router r, for the LSU m that router s sent it.      *)

Entry(m) == [rid |-> m.rid, seq |-> m.seq, nbrs |-> m.nbrs]
Positions(r, o) == {i \in DOMAIN mospf_db[r] : mospf_db[r][i].rid = o}

IsOld_Never(r, m) == FALSE
IsOld(r, m) == \E i \in Positions(r, m.rid) : mospf_db[r][i].seq >= m.seq

DropLsu(r, s, m) ==
  /\ IsOld(r, m)
  /\ wire' = [wire EXCEPT ![<<s, r>>] = Tail(@)]
  /\ UNCHANGED <<nbr, leftover, sequence_num, mospf_db, down, faults, reset>>

(* An entry is updated in its place, a new one goes to the end of the list. *)
Stored(r, m) ==
  IF Positions(r, m.rid) = {} THEN Append(mospf_db[r], Entry(m))
  ELSE [i \in DOMAIN mospf_db[r] |->
          IF i \in Positions(r, m.rid) THEN Entry(m) ELSE mospf_db[r][i]]

(* The LSU goes on to the neighbours on every other iface. *)
ForwardTo_NoTtl(r, s, m) == nbr[r] \ {s}
ForwardTo(r, s, m) == IF m.ttl - 1 > 0 THEN nbr[r] \ {s} ELSE {}

StoreLsu(r, s, m) ==
  /\ ~IsOld(r, m)
  /\ Room(r, ForwardTo(r, s, m))
  /\ mospf_db' = [mospf_db EXCEPT ![r] = Stored(r, m)]
  /\ wire' = SentTo([wire EXCEPT ![<<s, r>>] = Tail(@)], r, ForwardTo(r, s, m),
                    [m EXCEPT !.ttl = @ - 1])
  /\ UNCHANGED <<nbr, leftover, sequence_num, down, faults, reset>>

HandleLsu(r, s) ==
  /\ <<s, r>> \in Direction
  /\ wire[<<s, r>>] # << >>
  /\ LET m == Head(wire[<<s, r>>]) IN DropLsu(r, s, m) \/ StoreLsu(r, s, m)
-------------------------------------------------------------------------------
(* What the timers of a router depend on.                                  *)

(* What lies within n hops of a router, for every n. *)
Wider(A, edges) == A \cup {m \in Router : \E n \in A : <<n, m>> \in edges}
Balls(r, edges) ==
  LET ball[n \in 0 .. Cardinality(Router)] ==
        IF n = 0 THEN {r} ELSE Wider(ball[n - 1], edges)
  IN  ball

(* The routers that an LSU of router o reaches. *)
Working == {d \in Router \X Router : d[2] \in nbr[d[1]] /\ Up(d[1], d[2])}
Reached(o) == Balls(o, Working)[Cardinality(Router)]

(* Router r holds the present neighbours of router o. *)
Holds(r, o) == \E i \in Positions(r, o) : mospf_db[r][i].nbrs = nbr[o]

(* checking_database_thread: no LSU has renewed an entry of router o for   *)
(* 40 s.  That takes LSUs that do not arrive, or a counter that has not    *)
(* passed the number of the entry.  A router's own LSUs come back to it    *)
(* only by chance, so its entry about itself may always go.                *)
NotRenewed(r, e) ==
  e.rid = r \/ r \notin Reached(e.rid) \/ sequence_num[e.rid] <= e.seq

Quiet == \A d \in Direction : wire[d] = << >>

DatabaseTimeout(r, o) ==
  /\ Quiet
  /\ \E i \in Positions(r, o) :
       /\ NotRenewed(r, mospf_db[r][i])
       /\ mospf_db' = [mospf_db EXCEPT ![r] = RemoveAt(@, i)]
  /\ UNCHANGED <<nbr, leftover, sequence_num, wire, down, faults, reset>>

(* sending_mospf_lsu_thread, 30 s after the last time, when earlier LSUs   *)
(* have long arrived.  An LSU that tells nobody anything new is left out.  *)
PeriodicLsu(r) ==
  /\ Quiet
  /\ \E t \in Reached(r) \ {r} : ~Holds(t, r)
  /\ SendLsu(r, nbr[r], 0)
  /\ UNCHANGED <<nbr, leftover, mospf_db, down>>
-------------------------------------------------------------------------------
(* What disturbs the network.                                              *)

(* A link goes down with the LSUs on it, for long enough to be noticed.    *)
LinkDown(r, t) ==
  /\ faults < Faults /\ faults' = faults + 1
  /\ Up(r, t)
  /\ down' = down \cup {Net(r, t)}
  /\ wire' = [d \in Direction |-> IF Net(d[1], d[2]) = Net(r, t) THEN << >> ELSE wire[d]]
  /\ UNCHANGED <<nbr, leftover, sequence_num, mospf_db, reset>>

LinkUp(net) ==
  /\ net \in down /\ \A r, t \in net : t \notin nbr[r]
  /\ down' = down \ {net}
  /\ UNCHANGED <<nbr, leftover, sequence_num, mospf_db, wire, faults, reset>>

(* A router stops and starts again (mospf_init), before it is missed. *)
Restart(r) ==
  /\ faults < Faults /\ faults' = faults + 1
  /\ nbr' = [nbr EXCEPT ![r] = {}]
  /\ leftover' = [leftover EXCEPT ![r] = {}]
  /\ sequence_num' = [sequence_num EXCEPT ![r] = 0]
  /\ mospf_db' = [mospf_db EXCEPT ![r] = << >>]
  /\ wire' = [d \in Direction |-> IF d[2] = r THEN << >> ELSE wire[d]]
  /\ reset' = reset \cup {r}
  /\ UNCHANGED down

Next ==
  \/ \E r, t \in Router :
       \/ HelloKnown(r, t) \/ HelloNew(r, t) \/ NbrTimeout(r, t)
       \/ HandleLsu(r, t) \/ DatabaseTimeout(r, t) \/ LinkDown(r, t)
  \/ \E r \in Router : PeriodicLsu(r) \/ Restart(r)
  \/ \E net \in down : LinkUp(net)

Spec == Init /\ [][Next]_vars

(* The threads of a router keep running; nobody has to repair a link.      *)
PacketThread(r) ==
  \E s \in Router : HelloKnown(r, s) \/ HelloNew(r, s) \/ HandleLsu(r, s)
FairSpec ==
  /\ Spec
  /\ \A r \in Router :
       /\ WF_vars(PacketThread(r))
       /\ WF_vars(\E t \in Router : NbrTimeout(r, t))
       /\ WF_vars(\E o \in Router : DatabaseTimeout(r, o))
       /\ WF_vars(PeriodicLsu(r))
-------------------------------------------------------------------------------
(* calculate_rtable.                                                       *)

(* The LSAs of an LSU: one for each iface, with the neighbour on it or 0.  *)
Lsas(r, nbrs) ==
  [i \in DOMAIN Iface[r] |->
     [from |-> r, net |-> Iface[r][i],
      rid |-> IF \E t \in nbrs : t \in Iface[r][i]
              THEN CHOOSE t \in nbrs : t \in Iface[r][i] ELSE 0]]

(* LSA p[2] of entry p[1] of the database, and the order they are read in. *)
Lsa(r, p) == Lsas(mospf_db[r][p[1]].rid, mospf_db[r][p[1]].nbrs)[p[2]]
Places(r) ==
  UNION {{i} \X DOMAIN Iface[mospf_db[r][i].rid] : i \in DOMAIN mospf_db[r]}
Sooner(p, q) == p[1] < q[1] \/ (p[1] = q[1] /\ p[2] <= q[2])

(* rid_table: the router itself, then its database. *)
RidTable(r) == <<r>> \o [i \in DOMAIN mospf_db[r] |-> mospf_db[r][i].rid]
Index(r, o) == CHOOSE i \in DOMAIN RidTable(r) :
                 RidTable(r)[i] = o /\ \A j \in 1 .. i - 1 : RidTable(r)[j] # o
InTable(r, o) == \E i \in DOMAIN RidTable(r) : RidTable(r)[i] = o

(* The edges that entry e adds, in both directions; the first neighbour    *)
(* that is not in the database ends the reading of the entry.              *)
EdgesOf(r, e) ==
  LET lsas == Lsas(e.rid, e.nbrs)
      Read(i) == \A j \in 1 .. i : lsas[j].rid = 0 \/ InTable(r, lsas[j].rid)
  IN  {{e.rid, lsas[i].rid} : i \in {j \in DOMAIN lsas : lsas[j].rid # 0 /\ Read(j)}}

(* The graph: the router's own neighbours are added in one direction, from *)
(* itself.                                                                 *)
Graph(r) ==
  LET advertised == UNION {EdgesOf(r, mospf_db[r][i]) : i \in DOMAIN mospf_db[r]}
  IN  {p \in Router \X Router : {p[1], p[2]} \in advertised}
      \cup {<<r, m>> : m \in {t \in nbr[r] : InTable(r, t)}}

(* dijkstra, over edges of weight 1: the distance of every router, Far     *)
(* when it is not reached.                                                 *)
Far == Cardinality(Router) + 1
Dist(r, graph) ==
  LET at == Balls(r, graph)
  IN  [m \in Router |-> Cardinality({d \in 0 .. Cardinality(Router) : m \notin at[d]})]

(* The routers that lead to m at its distance; prev[m] is the one settled  *)
(* first, which is the one of lowest index.                                *)
Before(dist, graph, m) == {n \in Router : dist[n] = dist[m] - 1 /\ <<n, m>> \in graph}
Prev(r, dist, graph, m) ==
  CHOOSE n \in Before(dist, graph, m) :
    \A k \in Before(dist, graph, m) : Index(r, n) <= Index(r, k)

(* The way back from each router that is reached over more than one hop.   *)
Back(r, dist, graph) ==
  {<<m, Prev(r, dist, graph, m)>> : m \in {n \in Router : dist[n] \in 2 .. Far - 1}}

(* For every router, the one where the way back from it ends: a neighbour, *)
(* or itself when it is not reached.                                       *)
FirstHops(r) ==
  LET graph == Graph(r)
      dist == Dist(r, graph)
      back == Back(r, dist, graph)
  IN  [m \in Router |-> CHOOSE h \in Balls(m, back)[Cardinality(Router)] :
                         \A d \in back : d[1] # h]

(* An LSA leads to the neighbour that it names, or to its sender when it   *)
(* names none.                                                             *)
Target_Zero(lsa) == lsa.rid
Target(lsa) == IF lsa.rid = 0 THEN lsa.from ELSE lsa.rid

(* load_rtable_from_kernel: a router has entries for the networks that it  *)
(* is attached to; the kernel knows no others in the topology of the lab.  *)
KernelRoutes(r) == Networks(r)

(* The LSAs for a network that lead to a neighbour.  The first of them     *)
(* decides, for later ones find its entry there; 0: no entry.              *)
Ways(r, net, hops) ==
  {p \in Places(r) : LET lsa == Lsa(r, p)
                     IN  /\ lsa.net = net /\ InTable(r, Target(lsa))
                         /\ hops[Target(lsa)] \in nbr[r]}
Added(r, ways, hops) ==
  IF ways = {} THEN 0
  ELSE hops[Target(Lsa(r, CHOOSE p \in ways : \A q \in ways : Sooner(p, q)))]

(* The routing table, as the next hop for each network: the router itself  *)
(* when it is attached.                                                    *)
AllNetworks == UNION {Networks(r) : r \in Router}
Rtable(r) ==
  LET hops == FirstHops(r)
  IN  [net \in AllNetworks |->
         IF net \in KernelRoutes(r) THEN r ELSE Added(r, Ways(r, net, hops), hops)]

(* longest_prefix_match: the networks of the lab are apart, so an address  *)
(* matches the one entry of its network or none.  ip_forward_packet: the   *)
(* packet goes from router to router, as long as there is an entry, and    *)
(* never leaves a loop (it goes round until its ttl is used up).           *)
NextHop(rtables, net) == {<<x, rtables[x][net]>> : x \in Router}
Delivered(rtables, r, net) ==
  Balls(r, NextHop(rtables, net))[Cardinality(Router)] \cap net # {}
-------------------------------------------------------------------------------
Entries == [rid : Router, seq : Nat, nbrs : SUBSET Router]

(* Type correctness of the routers and of the links; nothing is under way  *)
(* on a link that is down.                                                 *)
TypeOK ==
  /\ nbr \in [Router -> SUBSET Router] /\ leftover \in [Router -> SUBSET Router]
  /\ \A r \in Router : leftover[r] \subseteq nbr[r]
  /\ sequence_num \in [Router -> Nat]
  /\ mospf_db \in [Router -> Seq(Entries)]
  /\ DOMAIN wire = Direction
  /\ \A d \in Direction : \A i \in DOMAIN wire[d] :
       /\ Entry(wire[d][i]) \in Entries /\ wire[d][i].ttl \in 1 .. MaxTtl
       /\ Up(d[1], d[2])
  /\ faults \in 0 .. Faults /\ reset \subseteq Router

(* A router that holds the last LSU of another one is not set back: an LSU *)
(* that was overtaken, or comes round again by another way, never replaces *)
(* it.  Only a counter that was set back can bring that about.             *)
HoldsLast(r, o) ==
  \E i \in Positions(r, o) :
    mospf_db[r][i].seq = sequence_num[o] - 1 /\ mospf_db[r][i].nbrs = nbr[o]
LastStays ==
  [][\A r, o \in Router :
       HoldsLast(r, o) /\ o \notin reset' /\ sequence_num'[o] = sequence_num[o]
       => Positions(r, o)' = {} \/ HoldsLast(r, o)']_vars

(* Every router knows the neighbours it has, and holds the present         *)
(* neighbours of every other one; what it may hold about itself is true.   *)
Agreed ==
  /\ \A r \in Router : nbr[r] = {t \in Router : Up(r, t)}
  /\ \A o \in Router : LET reached == Reached(o) IN \A r \in Router :
       IF r \in reached \ {o} THEN Holds(r, o) ELSE Positions(r, o) = {} \/ Holds(r, o)

(* The network settles: whatever goes down, restarts or comes round, the   *)
(* databases agree in the end, and stay so.                                *)
Settles == <>[]Agreed

(* Once the databases agree, a packet for a network of hosts arrives from  *)
(* every router that has a way to it, over the next hops that the routers  *)
(* on its way have computed each for itself, whatever the order in which   *)
(* their databases filled.                                                 *)
HostRoutes ==
  Agreed =>
    LET rtables == [r \in Router |-> Rtable(r)]
    IN  \A r, o \in Router :
          r \in Reached(o) /\ {o} \in Networks(o) => Delivered(rtables, r, {o})

(* The same for the networks between two routers. *)
TransitRoutes ==
  Agreed =>
    LET rtables == [r \in Router |-> Rtable(r)]
    IN  \A d \in Direction, r \in Router :
          r \in Reached(d[1]) /\ Up(d[1], d[2]) => Delivered(rtables, r, Net(d[1], d[2]))
===============================================================================
