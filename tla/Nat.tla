---------------------------------- MODULE Nat ----------------------------------
(***************************************************************************)
(* The translation table of 10-nat: one thread translates packets, another *)
(* removes the mappings of flows that are over.  Each translation and each *)
(* sweep runs under nat.lock, which one path of do_translation never gives *)
(* back.                                                                   *)
(*                                                                         *)
(* An endpoint is an address and a port.  Packets are the TCP packets with *)
(* a valid direction; others leave the table alone.  The hash buckets hold *)
(* no state of their own: a mapping is compared with the whole remote      *)
(* endpoint.  Acknowledgment numbers are kept in network byte order and    *)
(* compared with sequence numbers in host order (nat.c:82, 212), so a      *)
(* comparison may turn out either way.                                     *)
(***************************************************************************)
EXTENDS Integers, FiniteSets

CONSTANTS Internal, Remote,   \* endpoints of the private and the public network
          PortMin, PortMax,   \* NAT_PORT_MIN, NAT_PORT_MAX
          DnatRules,          \* the dnat-rules of the configuration file, in its order
          InPorts,            \* external ports that remote endpoints address
          Timeout,            \* TCP_ESTABLISHED_TIMEOUT, in seconds
          NumPackets          \* bound: packets that arrive

(* parse_config: a list of rules, in which do_translation takes the first   *)
(* for an external port; Rule is the internal endpoint that it finds.      *)
Rule ==
  [port \in {DnatRules[i].external_port : i \in DOMAIN DnatRules} |->
     DnatRules[CHOOSE i \in DOMAIN DnatRules :
                 /\ DnatRules[i].external_port = port
                 /\ \A j \in 1 .. i - 1 : DnatRules[j].external_port # port].internal]

ASSUME NatAssumption ==
  /\ PortMin \in Nat /\ PortMax \in Nat
  /\ \A port \in DOMAIN Rule : port \in Nat /\ Rule[port] \in Internal
  /\ Timeout \in Nat /\ NumPackets \in Nat

VARIABLES
  mappings,        \* the table
  assigned_ports,  \* the port pool: the ports marked as assigned
  locked,          \* nat.lock has been left locked
  packets          \* packets handled so far

vars == <<mappings, assigned_ports, locked, packets>>

Pool == PortMin .. PortMax

(* No rule names a port of the pool: so it is in every configuration file  *)
(* of the repository, but parse_config does not look.                      *)
RulesApart == DOMAIN Rule \cap Pool = {}

(* What the last packet of a side carried, if one came. *)
Heard == {"nothing", "open", "fin"}

(* idle is the time since update_time; Never stands for an uninitialised   *)
(* update_time that lies in the future.  The last four fields are history: *)
(* they are not in struct nat_mapping, and no action depends on them.      *)
(* inside and outside are what has really come from each side, quiet is    *)
(* the time since a packet, and pooled tells a port of the pool.           *)
Never == -1
Mapping ==
  [int : Internal, rem : Remote, ext : Nat,
   internal_fin : BOOLEAN, external_fin : BOOLEAN, idle : Never .. Timeout + 1,
   inside : Heard, outside : Heard, quiet : 0 .. Timeout + 1, pooled : BOOLEAN]

Init ==
  /\ mappings = {} /\ assigned_ports = {}
  /\ locked = FALSE /\ packets = 0
-------------------------------------------------------------------------------
(* The flags of a packet that do_translation looks at. *)
Flags == SUBSET {"SYN", "FIN"}
Said(flags) == IF "FIN" \in flags THEN "fin" ELSE "open"

Touch(m) == [m EXCEPT !.idle = 0, !.quiet = 0]
FromInside(m, flags) ==
  [Touch(m) EXCEPT !.internal_fin = "FIN" \in flags, !.inside = Said(flags)]
FromOutside(m, flags) ==
  [Touch(m) EXCEPT !.external_fin = "FIN" \in flags, !.outside = Said(flags)]

Outgoing(int, rem) == {m \in mappings : m.rem = rem /\ m.int = int}
Incoming(rem, ext) == {m \in mappings : m.rem = rem /\ m.ext = ext}

Update(m, n) == mappings' = (mappings \ {m}) \cup {n}

TranslateOut(int, rem, flags) ==
  \E m \in Outgoing(int, rem) :
    /\ Update(m, FromInside(m, flags))
    /\ UNCHANGED <<assigned_ports, locked>>

TranslateIn(rem, ext, flags) ==
  \E m \in Incoming(rem, ext) :
    /\ Update(m, FromOutside(m, flags))
    /\ UNCHANGED <<assigned_ports, locked>>

(* assign_external_port: the lowest port that is not marked. *)
FreePorts_Any == Pool
FreePorts == Pool \ assigned_ports

(* SNAT.  A new entry says of the inside what the packet says; what it     *)
(* says of the outside is not initialised.                                 *)
OutFlow(int, rem, port, flags, garbage) ==
  [int |-> int, rem |-> rem, ext |-> port,
   internal_fin |-> "FIN" \in flags, external_fin |-> garbage, idle |-> 0,
   inside |-> Said(flags), outside |-> "nothing", quiet |-> 0, pooled |-> TRUE]

NewFlowOut(int, rem, flags) ==
  /\ Outgoing(int, rem) = {} /\ "SYN" \in flags
  /\ \E port \in FreePorts, garbage \in BOOLEAN :
       /\ \A free \in FreePorts : port <= free
       /\ assigned_ports' = assigned_ports \cup {port}
       /\ mappings' = mappings \cup {OutFlow(int, rem, port, flags, garbage)}
  /\ UNCHANGED locked

(* DNAT.  A new entry says of the outside what the packet says; what it    *)
(* says of the inside is not initialised, and neither is update_time.      *)
InFlow(int, rem, ext, flags, garbage, idle) ==
  [int |-> int, rem |-> rem, ext |-> ext,
   internal_fin |-> garbage, external_fin |-> "FIN" \in flags, idle |-> idle,
   inside |-> "nothing", outside |-> Said(flags), quiet |-> 0, pooled |-> FALSE]

NewFlowIn(rem, ext, flags) ==
  /\ Incoming(rem, ext) = {} /\ "SYN" \in flags /\ ext \in DOMAIN Rule
  /\ \E garbage \in BOOLEAN, idle \in Never .. Timeout + 1 :
       mappings' = mappings \cup {InFlow(Rule[ext], rem, ext, flags, garbage, idle)}
  /\ UNCHANGED <<assigned_ports, locked>>

(* No rule: do_translation runs off its end without unlocking. *)
NoRule(rem, ext, flags) ==
  /\ Incoming(rem, ext) = {} /\ "SYN" \in flags /\ ext \notin DOMAIN Rule
  /\ locked' = TRUE
  /\ UNCHANGED <<mappings, assigned_ports>>

(* Answered with an ICMP error: no flow and no SYN, or no port left. *)
RefuseOut(int, rem, flags) ==
  /\ Outgoing(int, rem) = {} /\ ("SYN" \notin flags \/ FreePorts = {})
  /\ UNCHANGED <<mappings, assigned_ports, locked>>

RefuseIn(rem, ext, flags) ==
  /\ Incoming(rem, ext) = {} /\ "SYN" \notin flags
  /\ UNCHANGED <<mappings, assigned_ports, locked>>

(* get_packet_direction: a packet from inside for an outer address, or one *)
(* for the address of the external interface.                              *)
DirOut(rem, flags) ==
  \E int \in Internal :
    TranslateOut(int, rem, flags) \/ NewFlowOut(int, rem, flags) \/ RefuseOut(int, rem, flags)
DirIn(rem, flags) ==
  \E ext \in InPorts :
    \/ TranslateIn(rem, ext, flags) \/ NewFlowIn(rem, ext, flags)
    \/ NoRule(rem, ext, flags) \/ RefuseIn(rem, ext, flags)

(* nat_translate_packet *)
Translate ==
  /\ ~locked /\ packets < NumPackets
  /\ packets' = packets + 1
  /\ \E rem \in Remote, flags \in Flags : DirOut(rem, flags) \/ DirIn(rem, flags)
-------------------------------------------------------------------------------
(* nat_timeout: flows that are overdue, and flows with both FIN flags up   *)
(* for which the comparisons of is_flow_finished hold.                     *)
Overdue_Exactly == {m \in mappings : m.idle = Timeout}
Overdue == {m \in mappings : m.idle > Timeout}
BothFin_Either == {m \in mappings : m.internal_fin \/ m.external_fin}
BothFin == {m \in mappings : m.internal_fin /\ m.external_fin}

Remove_KeepsPorts(gone) ==
  /\ mappings' = mappings \ gone
  /\ UNCHANGED assigned_ports
Remove(gone) ==
  /\ mappings' = mappings \ gone
  /\ assigned_ports' = assigned_ports \ {m.ext : m \in gone}

Sweep ==
  /\ ~locked
  /\ \E finished \in SUBSET BothFin : Remove(Overdue \cup finished)
  /\ UNCHANGED <<locked, packets>>

Older(seconds) == IF seconds > Timeout THEN seconds ELSE seconds + 1

Second ==
  /\ mappings' = {[m EXCEPT !.idle = IF @ = Never THEN @ ELSE Older(@),
                            !.quiet = Older(@)] : m \in mappings}
  /\ UNCHANGED <<assigned_ports, locked, packets>>

Next == Translate \/ Sweep \/ Second

Spec == Init /\ [][Next]_vars

(* The sweep runs every second; packets may stop coming. *)
FairSpec == Spec /\ WF_vars(Sweep) /\ WF_vars(Second)
-------------------------------------------------------------------------------
(* Type correctness of the table and the pool. *)
TypeOK ==
  /\ mappings \subseteq Mapping
  /\ assigned_ports \subseteq Pool
  /\ locked \in BOOLEAN
  /\ packets \in 0 .. NumPackets

(* An external port taken from the pool belongs to one flow; a port of a   *)
(* DNAT rule to one flow of each remote endpoint.  So a packet from        *)
(* outside matches one mapping (nat.c:73-77), although ports are given     *)
(* back by one thread and assigned by another.                             *)
PortsUnique ==
  \A m, n \in mappings :
    m.ext = n.ext /\ (m.pooled \/ n.pooled \/ m.rem = n.rem) => m = n

(* nat.h:58, "port pool, indicates whether a port is assigned": exactly    *)
(* the ports in use are marked, so no port is lost to the pool and none is *)
(* assigned while a flow still has it.                                     *)
PoolIsRight == assigned_ports = {m.ext : m \in {n \in mappings : n.pooled}}

(* Once no more packets come, a port returns to the pool (nat.c:216-240),  *)
(* unless a packet has left the lock locked.                               *)
PortsComeBack ==
  \A port \in Pool : port \in assigned_ports ~> port \notin assigned_ports \/ locked

SameFlow(m, n) == m.int = n.int /\ m.rem = n.rem /\ m.ext = n.ext

(* A flow with a port of the pool is removed after a silence longer than   *)
(* the timeout, or when the last packet of each side was a FIN, and not    *)
(* before (nat.c:80, 89, 93, 211, 226), whatever order packets and sweeps  *)
(* come in.  An outside that has sent nothing is excepted: the sweep then  *)
(* reads the external_fin that nobody has set, and one FIN of the inside   *)
(* may be enough, which NoFlowGoesHalfClosed shows.                        *)
RemovedOnlyIdle ==
  [][\A m \in mappings :
       \/ \E n \in mappings' : SameFlow(m, n)
       \/ ~m.pooled \/ m.quiet > Timeout
       \/ m.inside = "fin" /\ m.outside \in {"fin", "nothing"}]_vars
-------------------------------------------------------------------------------
(* What the comments of the repository say, and the code does not do.      *)

(* nat.c:216-217, "find the finished flows, remove them and free port      *)
(* resource": a port returns to the pool, whatever packets have come.      *)
PortIsFreed == \A port \in Pool : port \in assigned_ports ~> port \notin assigned_ports

(* nat.c:207-208, "check whether the flow is finished according to FIN     *)
(* bit", with nat.h:28, "indicates whether received fin packet from outer  *)
(* node": a flow that is removed early has had a FIN from both sides.      *)
NoFlowGoesHalfClosed ==
  [][\A m \in mappings :
       \/ \E n \in mappings' : SameFlow(m, n)
       \/ ~m.pooled \/ m.quiet > Timeout
       \/ m.inside = "fin" /\ m.outside = "fin"]_vars
===============================================================================
