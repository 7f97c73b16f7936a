----------------------------------- MODULE Lan ---------------------------------
(***************************************************************************)
(* The learning switch of 04-switch and the hub of 03-broadcast, in a      *)
(* network of hosts.                                                       *)
(*                                                                         *)
(* A switch has two threads, which share the table of MAC addresses under  *)
(* its lock: one handles the packets, one sweeps the table every second.   *)
(* A packet takes two critical sections, lookup_port and insert_mac_port,  *)
(* and goes out between them: three steps.  lookup_port reads the port of  *)
(* the entry it found after it has given the lock back (mac.c:46-47), and  *)
(* the sweep may have freed the entry by then.  The one thread that        *)
(* allocates memory is the one that reads, and the allocator writes only   *)
(* where the links of the list were: what is read is the port that was     *)
(* found, whatever the build, as long as it frees no memory to the system. *)
(*                                                                         *)
(* A port is wired to a port of another device or is a jack for a host,    *)
(* and a host is its MAC address.  Age counts seconds since time visited.  *)
(***************************************************************************)
EXTENDS Integers, FiniteSets, Sequences

CONSTANTS Host,
          MacSwitch,  \* the switches that learn addresses
          Hub,
          PortsOf,    \* the ports of each switch and hub
          Wire,       \* the wires: sets of two ports
          Start,      \* the jack where each host is at first
          Timeout,    \* MAC_PORT_TIMEOUT
          MaxFrames,  \* bound: the frames that hosts send
          MaxMoves    \* bound: the hosts that are moved, each once

Device == MacSwitch \cup Hub
Ports == UNION {PortsOf[d] : d \in Device}
Jack == {p \in Ports : \A w \in Wire : p \notin w}
None == "none"      \* no port

ASSUME LanAssumption ==
  /\ MacSwitch \cap Hub = {} /\ DOMAIN PortsOf = Device /\ None \notin Ports
  /\ \A d, e \in Device : d # e => PortsOf[d] \cap PortsOf[e] = {}
  /\ \A w \in Wire : \E p, q \in Ports : p # q /\ w = {p, q}
  /\ \A v, w \in Wire : v # w => v \cap w = {}
  /\ Start \in [Host -> Jack] /\ \A g, h \in Host : g # h => Start[g] # Start[h]
  /\ Timeout \in Nat /\ MaxFrames \in Nat /\ MaxMoves \in Nat

VARIABLES
  at,       \* the jack where each host is
  table,    \* the MAC table of each switch: a port (or None) and an age for a host
  swept,    \* the switches that have swept their table in this second
  work,     \* the packet each switch is handling, and what lookup_port found
  inbox,    \* the packets that wait at each port
  sent,     \* history: the frames the hosts sent
  got,      \* history: how often each host has got each frame
  moved     \* history: how long ago each host was moved (0: just now, -1: never)

lanVars == <<at, table, swept, work, inbox, sent, got, moved>>

NoEntry == [port |-> None, age |-> 0]
Idle == [pc |-> "poll", frame |-> 0, in |-> None, out |-> None]

LanInit ==
  /\ at = Start
  /\ table = [s \in MacSwitch |-> [h \in Host |-> NoEntry]]
  /\ swept = {}
  /\ work = [s \in MacSwitch |-> Idle]
  /\ inbox = [p \in Ports |-> << >>]
  /\ sent = << >>
  /\ got = [h \in Host |-> [f \in 1 .. MaxFrames |-> 0]]
  /\ moved = [h \in Host |-> -1]
-------------------------------------------------------------------------------
(* Frame f leaves a device by a set of ports: it waits at the other end of *)
(* a wire, or the host at a jack gets it.                                  *)
Peer(p) == CHOOSE q \in Ports : q # p /\ {p, q} \in Wire
Arrived(boxes, ports, f) ==
  [q \in Ports |-> IF \E p \in ports \ Jack : q = Peer(p) THEN Append(boxes[q], f) ELSE boxes[q]]
Received(ports, f) ==
  [h \in Host |-> IF at[h] \in ports THEN [got[h] EXCEPT ![f] = @ + 1] ELSE got[h]]

(* broadcast_packet: all ports but the one the packet came by. *)
AllBut_None(d, p) == PortsOf[d]
AllBut(d, p) == PortsOf[d] \ {p}

(* handle_packet of a hub. *)
Repeat(b, p) ==
  /\ inbox[p] # << >>
  /\ inbox' = Arrived([inbox EXCEPT ![p] = Tail(@)], AllBut(b, p), Head(inbox[p]))
  /\ got' = Received(AllBut(b, p), Head(inbox[p]))
  /\ UNCHANGED <<at, table, swept, work, sent, moved>>
-------------------------------------------------------------------------------
(* handle_packet of a switch.                                              *)

(* lookup_port of the destination. *)
Lookup(s, p) ==
  /\ work[s] = Idle
  /\ inbox[p] # << >>
  /\ inbox' = [inbox EXCEPT ![p] = Tail(@)]
  /\ LET f == Head(inbox[p])
     IN  work' = [work EXCEPT ![s] =
                    [pc |-> "send", frame |-> f, in |-> p,
                     out |-> table[s][sent[f].dst].port]]
  /\ UNCHANGED <<at, table, swept, sent, got, moved>>

(* iface_send_packet or broadcast_packet: the packet goes out on the port  *)
(* found or on all the others.                                             *)
OutPorts(s, w) == IF w.out # None THEN {w.out} ELSE AllBut(s, w.in)
Send(s) ==
  /\ work[s].pc = "send"
  /\ inbox' = Arrived(inbox, OutPorts(s, work[s]), work[s].frame)
  /\ got' = Received(OutPorts(s, work[s]), work[s].frame)
  /\ work' = [work EXCEPT ![s].pc = "insert"]
  /\ UNCHANGED <<at, table, swept, sent, moved>>

(* insert_mac_port of the sender: an entry that exists gets the port and a *)
(* new time.                                                               *)
Learned_KeepPort(s, h, p) ==
  [table[s] EXCEPT ![h] = [port |-> IF @.port = None THEN p ELSE @.port, age |-> 0]]
Learned(s, h, p) == [table[s] EXCEPT ![h] = [port |-> p, age |-> 0]]

Insert(s) ==
  /\ work[s].pc = "insert"
  /\ table' = [table EXCEPT ![s] = Learned(s, sent[work[s].frame].src, work[s].in)]
  /\ work' = [work EXCEPT ![s] = Idle]
  /\ UNCHANGED <<at, swept, inbox, sent, got, moved>>

(* sweep_aged_mac_port_entry, after a sleep of one second. *)
Aged(e) == e.age > Timeout
Sweep(s) ==
  /\ s \notin swept
  /\ swept' = swept \cup {s}
  /\ table' = [table EXCEPT ![s] =
                 [h \in Host |-> IF Aged(table[s][h]) THEN NoEntry ELSE table[s][h]]]
  /\ UNCHANGED <<at, work, inbox, sent, got, moved>>
-------------------------------------------------------------------------------
(* Around the switches.                                                    *)

(* A second passes; every switch sweeps once in a second.  Ages and times  *)
(* are counted up to the point where nothing depends on them any more.     *)
Later(n) == IF n < 2 * Timeout + 2 THEN n + 1 ELSE n
Tick ==
  /\ swept = MacSwitch
  /\ swept' = {}
  /\ table' = [s \in MacSwitch |-> [h \in Host |->
       IF table[s][h] = NoEntry THEN NoEntry ELSE [table[s][h] EXCEPT !.age = Later(@)]]]
  /\ moved' = [h \in Host |-> IF moved[h] = -1 THEN -1 ELSE Later(moved[h])]
  /\ UNCHANGED <<at, work, inbox, sent, got>>

HostSends(h, dst) ==
  /\ Len(sent) < MaxFrames
  /\ dst # h
  /\ sent' = Append(sent, [src |-> h, dst |-> dst])
  /\ inbox' = [inbox EXCEPT ![at[h]] = Append(@, Len(sent'))]
  /\ UNCHANGED <<at, table, swept, work, got, moved>>

UnderWay == (UNION {{inbox[p][i] : i \in DOMAIN inbox[p]} : p \in Ports})
            \cup {work[s].frame : s \in {t \in MacSwitch : work[t] # Idle}}

(* A host is unplugged and plugged in elsewhere, which takes longer than   *)
(* its packets are under way.                                              *)
Move(h, p) ==
  /\ Cardinality({g \in Host : moved[g] # -1}) < MaxMoves
  /\ moved[h] = -1
  /\ \A g \in Host : at[g] # p
  /\ \A f \in UnderWay : sent[f].src # h
  /\ at' = [at EXCEPT ![h] = p]
  /\ moved' = [moved EXCEPT ![h] = 0]
  /\ UNCHANGED <<table, swept, work, inbox, sent, got>>

LanNext ==
  \/ \E b \in Hub : \E p \in PortsOf[b] : Repeat(b, p)
  \/ \E s \in MacSwitch : Send(s) \/ Insert(s) \/ Sweep(s) \/ \E p \in PortsOf[s] : Lookup(s, p)
  \/ Tick
  \/ \E h \in Host : (\E dst \in Host : HostSends(h, dst)) \/ (\E p \in Jack : Move(h, p))

LanSpec == LanInit /\ [][LanNext]_lanVars
-------------------------------------------------------------------------------
Entries == [port : Ports \cup {None}, age : Nat]
Frames == 1 .. MaxFrames
Works == [pc : {"poll", "send", "insert"}, frame : Frames \cup {0},
          in : Ports \cup {None}, out : Ports \cup {None}]

(* Type correctness of the hosts, the switches and what is under way. *)
LanTypeOK ==
  /\ at \in [Host -> Jack]
  /\ table \in [MacSwitch -> [Host -> Entries]]
  /\ swept \subseteq MacSwitch
  /\ work \in [MacSwitch -> Works]
  /\ inbox \in [Ports -> Seq(Frames)]
  /\ sent \in Seq([src : Host, dst : Host]) /\ Len(sent) <= MaxFrames
  /\ got \in [Host -> [Frames -> Nat]]
  /\ moved \in [Host -> Int]

(* What lies behind a port of a device, over its wire: the jacks, and the *)
(* ports by which the devices there pass on what comes in.                *)
DeviceOf(p) == CHOOSE d \in Device : p \in PortsOf[d]
Onward(p) == PortsOf[DeviceOf(Peer(p))] \ {Peer(p)}
Closed(ports) == \A p \in ports \ Jack : Onward(p) \subseteq ports
Behind == [p \in Ports |->
             {q \in Ports : \A S \in SUBSET Ports : p \in S /\ Closed(S) => q \in S}]

(* A network without loops: every device reaches every jack by one port.  *)
LoopFree ==
  \A d \in Device, j \in Jack :
    \E p \in PortsOf[d] : \A q \in PortsOf[d] : j \in Behind[q] <=> q = p

(* Behind a port of a switch there are only hubs and one jack, as in the   *)
(* networks of the two labs: no two switches are joined, neither directly  *)
(* nor through hubs.  Else a packet may come back, for its receiver may be *)
(* behind the port that it came by: then neither of the two properties     *)
(* below holds.                                                            *)
NoEcho ==
  \A s \in MacSwitch : \A p \in PortsOf[s] :
    /\ \A q \in Behind[p] \ Jack : DeviceOf(Peer(q)) \in Hub
    /\ \A i, j \in Behind[p] \cap Jack : i = j

(* A switch looks for a host in the wrong place for a bounded time only:   *)
(* the entry of a host that was moved and keeps silent is not renewed by   *)
(* the packets for it, and is swept away.                                  *)
StaleIsBrief ==
  \A s \in MacSwitch, h \in Host :
    moved[h] > Timeout + 1 /\ table[s][h] # NoEntry => at[h] \in Behind[table[s][h].port]

(* Every packet for a host that has stayed where it is arrives, once, and  *)
(* does not come back to its sender, whether the switch knows the host,    *)
(* has just forgotten it or looks it up while the table is swept.          *)
ArrivesOnce ==
  UnderWay = {} => \A f \in DOMAIN sent :
    /\ moved[sent[f].dst] = -1 => got[sent[f].dst][f] = 1
    /\ moved[sent[f].src] = -1 => got[sent[f].src][f] = 0
===============================================================================
