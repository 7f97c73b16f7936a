---------------------------------- MODULE Stp ----------------------------------
(***************************************************************************)
(* The spanning tree protocol of 05-stp.  Each switch runs two threads,    *)
(* one that handles a packet at a time and one that sends configs when the *)
(* hello timer is due; both hold stp->lock all the time, so a handler or a *)
(* timeout is one step.                                                    *)
(*                                                                         *)
(* A switch is its switch_id.  As in the topologies of the lab there is at *)
(* most one link between two switches, so a port is named by the switch at *)
(* the other end, and port ids, which break ties between two ports of one  *)
(* switch, are left out.  Nothing ages, and switches do not fail: the code *)
(* has no timer but hello, and no action on a port that goes down.  The    *)
(* code cuts the difference of two 64-bit ids to an int (stp.c:217); the   *)
(* ids of the topologies differ in their low bytes, so the sign survives.  *)
(***************************************************************************)
EXTENDS Integers, FiniteSets, Sequences

CONSTANTS Switch,    \* the switch ids
          Link,      \* the links: sets of two switches
          MaxQueue   \* bound: configs under way in one direction of a link

ASSUME StpAssumption ==
  /\ Switch \subseteq Nat /\ IsFiniteSet(Switch) /\ MaxQueue \in Nat \ {0}
  /\ \A l \in Link : \E s, t \in Switch : s # t /\ l = {s, t}

VARIABLES
  designated_root,  \* the root each switch believes in
  root_path_cost,   \* its cost to that root
  root_port,        \* its root port, or Nothing
  ports,            \* the config that each port of it holds
  wire              \* the configs under way, from one switch to another

vars == <<designated_root, root_path_cost, root_port, ports, wire>>

Port(s) == {t \in Switch : {s, t} \in Link}
Direction == {d \in Switch \X Switch : {d[1], d[2]} \in Link}
Nothing == -1

Config(root, cost, switch) == [root |-> root, cost |-> cost, switch |-> switch]

Init ==
  /\ designated_root = [s \in Switch |-> s]
  /\ root_path_cost = [s \in Switch |-> 0]
  /\ root_port = [s \in Switch |-> Nothing]
  /\ ports = [s \in Switch |-> [t \in Port(s) |-> Config(s, 0, s)]]
  /\ wire = [d \in Direction |-> << >>]
-------------------------------------------------------------------------------
(* stp_port_cmp > 0: config c has a higher priority than d. *)
Higher(c, d) ==
  \/ c.root < d.root
  \/ c.root = d.root /\ c.cost < d.cost
  \/ c.root = d.root /\ c.cost = d.cost /\ c.switch < d.switch

IsRoot(s) == designated_root[s] = s
IsDesignated(s, t) == ports[s][t].switch = s

(* stp_port_send_config.  The code loses no config: that one is lost here  *)
(* when MaxQueue are under way is a bound of the model, and allows more.   *)
Offer(s) == Config(designated_root[s], root_path_cost[s], s)
MaySend(s) == IsRoot(s) \/ root_port[s] # Nothing
Queued(w, d, c) == IF Len(w[d]) < MaxQueue THEN [w EXCEPT ![d] = Append(@, c)] ELSE w

(* stp_handle_hello_timeout: a config on every designated port.  Two       *)
(* seconds pass between hellos, so the last one has left the queue.        *)
Hello(s) ==
  /\ MaySend(s)
  /\ \A t \in Port(s) : IsDesignated(s, t) => Len(wire[<<s, t>>]) < MaxQueue
  /\ wire' = [d \in Direction |->
       IF d[1] = s /\ IsDesignated(s, d[2]) THEN Append(wire[d], Offer(s)) ELSE wire[d]]
  /\ UNCHANGED <<designated_root, root_path_cost, root_port, ports>>
-------------------------------------------------------------------------------
(* stp_handle_config_packet of switch s, for the config c that port p got. *)

SameConfig(s, p, c) ==
  /\ c = ports[s][p]
  /\ wire' = [wire EXCEPT ![<<p, s>>] = Tail(@)]
  /\ UNCHANGED <<designated_root, root_path_cost, root_port, ports>>

LocalHigher(s, p, c) ==
  /\ Higher(ports[s][p], c)
  /\ LET taken == [wire EXCEPT ![<<p, s>>] = Tail(@)]
     IN  wire' = IF MaySend(s) THEN Queued(taken, <<s, p>>, Offer(s)) ELSE taken
  /\ UNCHANGED <<designated_root, root_path_cost, root_port, ports>>

(* The root port: of port p and the ports that are not designated, the one *)
(* with the highest config.                                                *)
Candidates_Only(s, p, held) == {p}
Candidates(s, p, held) == {p} \cup {t \in Port(s) : held[t].switch # s}
IsBest(r, among, held) ==
  r \in among /\ \A t \in among : t # r => ~Higher(held[t], held[r])

(* Designated ports get the new root and cost.  The loop meant for the     *)
(* other ports looks at port p every time: p becomes designated when the   *)
(* switch itself offers more than p got.                                   *)
Updated_Designated(s, p, held, offer) == [t \in Port(s) |-> held[t]]
Updated(s, p, held, offer) ==
  [t \in Port(s) |->
     IF held[t].switch = s \/ (t = p /\ Higher(offer, held[p])) THEN offer ELSE held[t]]

PathCost_Free(c) == c.cost
PathCost(c) == c.cost + 1

NeighborHigher(s, p, c) ==
  LET held == [ports[s] EXCEPT ![p] = c]
  IN  /\ Higher(c, ports[s][p])
      /\ \E r \in Candidates(s, p, held) :
           /\ IsBest(r, Candidates(s, p, held), held)
           /\ root_port' = [root_port EXCEPT ![s] = r]
           /\ designated_root' = [designated_root EXCEPT ![s] = held[r].root]
           /\ root_path_cost' = [root_path_cost EXCEPT ![s] = PathCost(held[r])]
           /\ ports' = [ports EXCEPT ![s] =
                Updated(s, p, held, Config(held[r].root, PathCost(held[r]), s))]
      /\ wire' = [wire EXCEPT ![<<p, s>>] = Tail(@)]

Handle(s, p) ==
  /\ wire[<<p, s>>] # << >>
  /\ LET c == Head(wire[<<p, s>>])
     IN  SameConfig(s, p, c) \/ LocalHigher(s, p, c) \/ NeighborHigher(s, p, c)

Next == \E s \in Switch : Hello(s) \/ \E p \in Port(s) : Handle(s, p)

Spec == Init /\ [][Next]_vars

(* Timers keep running, and packets that arrive are handled. *)
FairSpec ==
  /\ Spec
  /\ \A s \in Switch :
       SF_vars(Hello(s)) /\ \A p \in Port(s) : WF_vars(Handle(s, p))
-------------------------------------------------------------------------------
Configs == [root : Switch, cost : Nat, switch : Switch]

(* Type correctness of what the switches believe and of the links. *)
TypeOK ==
  /\ designated_root \in [Switch -> Switch]
  /\ root_path_cost \in [Switch -> Nat]
  /\ root_port \in [Switch -> Switch \cup {Nothing}]
  /\ DOMAIN ports = Switch
  /\ \A s \in Switch : ports[s] \in [Port(s) -> Configs]
  /\ wire \in [Direction -> Seq(Configs)]

(* The distance between two switches, over the links. *)
Wider(A) == A \cup {t \in Switch : \E s \in A : {s, t} \in Link}
Around(r) ==
  LET ball[n \in 0 .. Cardinality(Switch)] == IF n = 0 THEN {r} ELSE Wider(ball[n - 1])
  IN  ball
Distance(s, r) ==
  CHOOSE n \in 0 .. Cardinality(Switch) : s \in Around(r)[n] /\ (n = 0 \/ s \notin Around(r)[n - 1])

(* A distance is a path's length: a link makes a difference of one at most. *)
DistanceIsSteady ==
  \A r \in Switch :
    /\ Distance(r, r) = 0
    /\ \A s \in Switch : Distance(s, r) \in Nat
    /\ \A s, t \in Switch : {s, t} \in Link => Distance(s, r) <= Distance(t, r) + 1

(* The topology is in one piece: only all the switches together have no    *)
(* link to another one.                                                    *)
LinksConnect ==
  \A A \in SUBSET Switch :
    \/ A \in {{}, Switch}
    \/ \E s \in A, t \in Switch \ A : {s, t} \in Link

(* Nobody claims a path to a root that is shorter than the links allow,    *)
(* in whatever order configs arrive: not a switch, not a port, not a       *)
(* config under way (stp.c:161, 171-172).                                  *)
CostIsReal ==
  /\ \A s \in Switch : root_path_cost[s] >= Distance(s, designated_root[s])
  /\ \A s \in Switch : \A t \in Port(s) :
       ports[s][t].cost >= Distance(ports[s][t].switch, ports[s][t].root)
  /\ \A d \in Direction : \A i \in DOMAIN wire[d] :
       wire[d][i].cost >= Distance(wire[d][i].switch, wire[d][i].root)

(* What a switch believes and what a port holds only gets better: the root *)
(* is chosen again from all ports (stp.c:151-161) after one of them        *)
(* changed, and never moves to a worse root or a longer path.              *)
NeverWorse ==
  [][/\ \A s \in Switch :
          ~Higher(Config(designated_root[s], root_path_cost[s], s),
                  Config(designated_root'[s], root_path_cost'[s], s))
     /\ \A s \in Switch : \A t \in Port(s) : ~Higher(ports[s][t], ports'[s][t])]_vars

(* On every link at least one end is designated, so that configs (and in a *)
(* switch, frames) go on crossing it; both ends decide on their own, from  *)
(* configs that cross each other.                                          *)
LinkIsServed ==
  \A s \in Switch : \A t \in Port(s) : IsDesignated(s, t) \/ IsDesignated(t, s)

(* The switch with the lowest id is the root; every switch knows it and    *)
(* its distance to it, its root port leads to a switch one step closer     *)
(* that is designated on that link, and no link has two designated ends,   *)
(* so that no cycle of links is left open.                                 *)
Root == CHOOSE r \in Switch : \A s \in Switch : r <= s
Tree ==
  \A s \in Switch :
    /\ designated_root[s] = Root /\ root_path_cost[s] = Distance(s, Root)
    /\ s # Root => /\ root_port[s] \in Port(s)
                   /\ Distance(root_port[s], Root) = root_path_cost[s] - 1
                   /\ ~IsDesignated(s, root_port[s])
    /\ \A t \in Port(s) : IsDesignated(s, t) <=> ~IsDesignated(t, s)

(* The switches agree on a spanning tree and stay there, whatever the      *)
(* order in which they start to talk: stp.c:142-186 on all of them.        *)
Converges == <>[]Tree
===============================================================================
