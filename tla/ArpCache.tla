------------------------------- MODULE ArpCache -------------------------------
(***************************************************************************)
(* The ARP cache of 07-router (copied to labs 09 to 12): the table of      *)
(* known MAC addresses, and the packets that wait for one.                 *)
(*                                                                         *)
(* Two threads use it.  The network thread (ustack_run) handles one frame  *)
(* at a time: it sends an IP packet to its next hop, or takes an ARP       *)
(* reply.  The sweep thread wakes up every second, repeats requests and    *)
(* reports the packets whose next hop does not answer, for which it sends  *)
(* IP packets itself.  A step is one critical section of arpcache.lock.    *)
(*                                                                         *)
(* A packet is its number, its next hop, and the next hop towards its      *)
(* source, to which an ICMP error about it goes.  Routing is external: a   *)
(* hop stands for the pair of an interface and an address.  Packets that   *)
(* the router generates have Self as their source: nobody answers an ARP   *)
(* request for the router's own address.  The requests themselves leave no *)
(* trace in the router, and are not modelled.  The order in which the list *)
(* of requests is walked is left open.                                     *)
(***************************************************************************)
EXTENDS Integers, FiniteSets, SequencesExt

CONSTANTS Hop, Self,     \* next hops; the router's own address
          Mac, Owner,    \* MAC addresses and the hop each one belongs to
          Size,          \* MAX_ARP_SIZE
          EntryTimeout,  \* ARP_ENTRY_TIMEOUT, in seconds
          MaxRetries,    \* ARP_REQUEST_MAX_RETRIES
          NumPackets     \* bound: packets the network thread sends

ASSUME ArpAssumption ==
  /\ Self \notin Hop
  /\ Owner \in [Mac -> Hop]
  /\ Size \in Nat \ {0} /\ EntryTimeout \in Nat /\ MaxRetries \in Nat
  /\ NumPackets \in Nat

VARIABLES
  entries,  \* the table; ages are in seconds, and stop when they are overdue
  reqs,     \* the pending requests, each with the packets that wait for it
  arrived,  \* number of packets the network thread has begun to send
  net,      \* the network thread: the packet it goes on to append, if any
  sweep,    \* what the sweep thread does next
  error,    \* the sweep thread: the ICMP error it goes on to append, if any
  slept,    \* a second has passed since it fell asleep
  unreach,  \* its list of packets to report
  out       \* the frames sent, in order

vars == <<entries, reqs, arrived, net, sweep, error, slept, unreach, out>>

None == [pkt |-> 0, hop |-> Self, src |-> Self]
Slot == 1 .. Size
Fill(hop, mac) == [valid |-> TRUE, ip |-> hop, mac |-> mac, age |-> 0]

Init ==
  /\ entries = [i \in Slot |-> [valid |-> FALSE]]
  /\ reqs = {}
  /\ arrived = 0 /\ net = None
  /\ sweep = "sleep" /\ error = None /\ slept = FALSE /\ unreach = {}
  /\ out = << >>
-------------------------------------------------------------------------------
Matches_AnyValid(i, hop) == entries[i].valid
Matches(i, hop) == entries[i].valid /\ entries[i].ip = hop

Known(hop) == \E i \in Slot : Matches(i, hop)

(* arpcache_lookup: the first entry that matches. *)
Lookup(hop) ==
  entries[CHOOSE i \in Slot : Matches(i, hop) /\ \A j \in 1 .. (i - 1) : ~Matches(j, hop)].mac

Frame(p, mac) == [pkt |-> p.pkt, hop |-> p.hop, src |-> p.src, mac |-> mac]

(* arpcache_append_packet: the packet joins the request for its hop, or a  *)
(* new request is made, and sent.                                          *)
NewRequest(p) ==
  [hop |-> p.hop, retries |-> 0, due |-> FALSE, pkts |-> <<p>>]

AppendPacket(p) ==
  \/ \E r \in reqs :
       /\ r.hop = p.hop
       /\ reqs' = (reqs \ {r}) \cup {[r EXCEPT !.pkts = Append(@, p)]}
  \/ /\ \A r \in reqs : r.hop # p.hop
     /\ reqs' = reqs \cup {NewRequest(p)}
-------------------------------------------------------------------------------
(* The network thread. *)

(* iface_send_packet_by_arp of a packet whose next hop is known, and of one *)
(* whose next hop is not, which is appended in a step of its own.          *)
Forward(p) ==
  /\ net = None /\ Known(p.hop)
  /\ out' = Append(out, Frame(p, Lookup(p.hop)))
  /\ UNCHANGED <<entries, reqs, net, sweep, error, slept, unreach>>

ForwardMiss(p) ==
  /\ net = None /\ ~Known(p.hop)
  /\ net' = p
  /\ UNCHANGED <<entries, reqs, sweep, error, slept, unreach, out>>

Arrive ==
  /\ arrived < NumPackets
  /\ arrived' = arrived + 1
  /\ \E hop \in Hop, src \in Hop \cup {Self} :
       LET p == [pkt |-> arrived', hop |-> hop, src |-> src]
       IN  Forward(p) \/ ForwardMiss(p)

Pend ==
  /\ net # None
  /\ AppendPacket(net)
  /\ net' = None
  /\ UNCHANGED <<entries, arrived, sweep, error, slept, unreach, out>>

(* arpcache_insert: the first free slot, or else any; then the packets that *)
(* wait for this hop leave, in order, and their request is gone.           *)
FreeSlot == {i \in Slot : ~entries[i].valid}
ChosenSlots ==
  IF FreeSlot = {} THEN Slot
  ELSE {i \in FreeSlot : \A j \in FreeSlot : i <= j}

Waiting(hop) == {r \in reqs : r.hop = hop}

Flushed(rs, mac) ==
  FlattenSeq([i \in DOMAIN rs |->
    [j \in DOMAIN rs[i].pkts |-> Frame(rs[i].pkts[j], mac)]])

Insert_KeepsRequest(hop, mac) ==
  /\ \E i \in ChosenSlots : entries' = [entries EXCEPT ![i] = Fill(hop, mac)]
  /\ \E rs \in SetToSeqs(Waiting(hop)) : out' = out \o Flushed(rs, mac)
  /\ reqs' = reqs
Insert_LastFirst(hop, mac) ==
  /\ \E i \in ChosenSlots : entries' = [entries EXCEPT ![i] = Fill(hop, mac)]
  /\ \E rs \in SetToSeqs(Waiting(hop)) : out' = out \o Reverse(Flushed(rs, mac))
  /\ reqs' = reqs \ Waiting(hop)
Insert_LeavesPackets(hop, mac) ==
  /\ \E i \in ChosenSlots : entries' = [entries EXCEPT ![i] = Fill(hop, mac)]
  /\ UNCHANGED <<out, reqs>>
Insert(hop, mac) ==
  /\ \E i \in ChosenSlots : entries' = [entries EXCEPT ![i] = Fill(hop, mac)]
  /\ \E rs \in SetToSeqs(Waiting(hop)) : out' = out \o Flushed(rs, mac)
  /\ reqs' = reqs \ Waiting(hop)

(* handle_arp_packet of a reply, which a hop may send at any time: asked,   *)
(* once more, or unasked, and with any MAC it has had.                     *)
Answer(mac) ==
  /\ net = None
  /\ Insert(Owner[mac], mac)
  /\ UNCHANGED <<arrived, net, sweep, error, slept, unreach>>
-------------------------------------------------------------------------------
(* The sweep thread. *)

GivenUp == {r \in reqs : r.retries >= MaxRetries}
Repeated == {r \in reqs \ GivenUp : r.due}

Retry_Uncounted(r) == [r EXCEPT !.due = FALSE]
Retry(r) == [r EXCEPT !.retries = @ + 1, !.due = FALSE]

Packets(rs) == UNION {{r.pkts[i] : i \in DOMAIN r.pkts} : r \in rs}

(* The locked part.  The loop over the table clears valid in a copy of the *)
(* entry, so the table stays as it is.                                     *)
Pass ==
  /\ sweep = "sleep" /\ slept
  /\ reqs' = ((reqs \ GivenUp) \ Repeated) \cup {Retry(r) : r \in Repeated}
  /\ unreach' = Packets(GivenUp)
  /\ sweep' = "report"
  /\ UNCHANGED <<entries, arrived, net, error, slept, out>>

(* icmp_send_packet: an error about p, sent towards its source. *)
ErrorAbout(p) == [pkt |-> p.pkt, hop |-> p.src, src |-> Self]

Report(p) ==
  /\ sweep = "report"
  /\ unreach' = unreach \ {p}
  /\ \/ /\ Known(p.src)
        /\ out' = Append(out, Frame(ErrorAbout(p), Lookup(p.src)))
        /\ UNCHANGED <<sweep, error>>
     \/ /\ ~Known(p.src)
        /\ sweep' = "append" /\ error' = ErrorAbout(p)
        /\ UNCHANGED out
  /\ UNCHANGED <<entries, reqs, arrived, net, slept>>

PendReport ==
  /\ sweep = "append"
  /\ AppendPacket(error)
  /\ sweep' = "report" /\ error' = None
  /\ UNCHANGED <<entries, arrived, net, slept, unreach, out>>

Rest ==
  /\ sweep = "report" /\ unreach = {}
  /\ sweep' = "sleep" /\ slept' = FALSE
  /\ UNCHANGED <<entries, reqs, arrived, net, error, unreach, out>>

Second ==
  /\ slept' = TRUE
  /\ reqs' = {[r EXCEPT !.due = TRUE] : r \in reqs}
  /\ entries' = [i \in Slot |->
       IF entries[i].valid /\ entries[i].age <= EntryTimeout
       THEN [entries[i] EXCEPT !.age = @ + 1] ELSE entries[i]]
  /\ UNCHANGED <<arrived, net, sweep, error, unreach, out>>

Sweep == Pass \/ (\E p \in unreach : Report(p)) \/ PendReport \/ Rest

Next == Arrive \/ Pend \/ (\E mac \in Mac : Answer(mac)) \/ Sweep \/ Second

Spec == Init /\ [][Next]_vars

(* The threads run and the clock advances; answers may never come. *)
FairSpec == Spec /\ WF_vars(Pend) /\ WF_vars(Sweep) /\ WF_vars(Second)
-------------------------------------------------------------------------------
Packet == [pkt : 1 .. NumPackets, hop : Hop \cup {Self}, src : Hop \cup {Self}]

(* Type correctness of the table, the requests and the two threads. *)
TypeOK ==
  /\ \A i \in Slot :
       \/ entries[i] = [valid |-> FALSE]
       \/ entries[i] \in [valid : {TRUE}, ip : Hop, mac : Mac, age : 0 .. EntryTimeout + 1]
  /\ \A r \in reqs :
       /\ r.hop \in Hop \cup {Self}
       /\ r.retries \in 0 .. MaxRetries /\ r.due \in BOOLEAN
       /\ r.pkts \in Seq(Packet)
  /\ arrived \in 0 .. NumPackets
  /\ net \in Packet \cup {None}
  /\ sweep \in {"sleep", "report", "append"} /\ error \in Packet \cup {None}
  /\ slept \in BOOLEAN
  /\ unreach \subseteq Packet
  /\ out \in Seq([pkt : 1 .. NumPackets, hop : Hop, src : Hop \cup {Self}, mac : Mac])

(* The packets that wait, in either thread or in the cache.                *)
Held == (Packets(reqs) \cup unreach \cup {net, error}) \ {None}

(* A packet handed over is never lost and never sent twice, though lookup  *)
(* and append (arp.c:97-104) are two critical sections and the sweep takes *)
(* packets out of the cache while answers flush it (arpcache.c:133-150,    *)
(* 182-196): each one is in exactly one place, as itself or as the error   *)
(* that reports it.                                                        *)
OnceEach ==
  \A n \in 1 .. arrived :
    Cardinality({p \in Held : p.pkt = n})
      + Cardinality({k \in DOMAIN out : out[k].pkt = n}) = 1

(* Packets that the network thread sends over one hop leave in the order   *)
(* they came in, whether they had to wait for the MAC or not.              *)
InOrder ==
  \A j, k \in DOMAIN out :
    j < k /\ out[j].hop = out[k].hop /\ out[j].src # Self /\ out[k].src # Self
      => out[j].pkt < out[k].pkt

(* A frame goes to a MAC of its next hop. *)
SentToNextHop == \A k \in DOMAIN out : Owner[out[k].mac] = out[k].hop

(* There is one pending request for a hop at most (arpcache.c:85-92), so   *)
(* the network is not asked for the same address by two of them.           *)
OneRequestPerHop == \A r, s \in reqs : r.hop = s.hop => r = s

(* A forwarded packet waits only while its hop is unknown: between a miss  *)
(* (arp.c:97) and the append (arp.c:104) no answer can be inserted.        *)
WaitsOnlyUnknown ==
  \A r \in reqs : (\E i \in DOMAIN r.pkts : r.pkts[i].src # Self) => ~Known(r.hop)

(* A packet does not wait for ever: it is sent, or given up and reported   *)
(* (arpcache.c:158-162), even when no hop ever answers.  The exception is  *)
(* an error about an error, which the router keeps sending to itself.      *)
PacketSettles ==
  \A n \in 1 .. NumPackets :
    LET waits == \E p \in Held : p.pkt = n /\ p.hop # Self IN waits ~> ~waits
-------------------------------------------------------------------------------
(* What the comments of the repository say, and the code does not do.      *)

Swept == sweep = "sleep" /\ sweep' = "report"

(* arpcache.c:156-157, "if the entry has been in the table for more than   *)
(* 15 seconds, remove it from the table": after a sweep no entry is older. *)
EntriesExpire ==
  [][Swept => \A i \in Slot : entries'[i].valid => entries'[i].age <= EntryTimeout]_vars
===============================================================================
