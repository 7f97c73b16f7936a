---------------------------- MODULE NatHttpProofs ----------------------------
(***************************************************************************)
(* What holds of the translation table (Nat) for every pool of ports and   *)
(* every number of endpoints and packets, and of the web server            *)
(* (HttpServer) for any clients, requests and files.                       *)
(*                                                                         *)
(* PortsUnique and PoolIsRight need each other: a new flow gets a port     *)
(* that no flow has because every port of a flow is marked, and a removal  *)
(* unmarks no port in use because no other flow has it.  Both assume that  *)
(* the ports of the DNAT rules lie outside the pool (RulesApart), which    *)
(* nothing in the code ensures; what is said of idle flows does not.       *)
(*                                                                         *)
(* AnswerIsRight rests on who is answered: what a thread reads from was    *)
(* queued for its own port and is queued once, so that no client is given  *)
(* the answer of another or of the other port.                             *)
(***************************************************************************)
EXTENDS Nat, HttpServer, TLAPS

(* A mapping's port comes from the pool, or from a rule. *)
PortsFromPool ==
  \A m \in mappings : IF m.pooled THEN m.ext \in Pool ELSE m.ext \in DOMAIN Rule

IInv == TypeOK /\ PortsUnique /\ PoolIsRight /\ PortsFromPool

LEMMA InitIInv == ASSUME NatAssumption, Init PROVE IInv
  <1>1. mappings = {} /\ assigned_ports = {} /\ locked = FALSE /\ packets = 0
    BY DEF Init
  <1>2. TypeOK
    <2>1. mappings \subseteq Mapping /\ assigned_ports \subseteq Pool
      BY <1>1
    <2>2. locked \in BOOLEAN
      BY <1>1
    <2>3. packets \in 0 .. NumPackets
      BY <1>1 DEF NatAssumption
    <2> QED
      BY <2>1, <2>2, <2>3 DEF TypeOK
  <1>3. PortsUnique /\ PortsFromPool
    BY <1>1 DEF PortsUnique, PortsFromPool
  <1>4. PoolIsRight
    BY <1>1 DEF PoolIsRight
  <1> QED
    BY <1>2, <1>3, <1>4 DEF IInv

(* What a packet makes of a mapping: the flow stays the same, both clocks   *)
(* start again, and the side that it came from has said what it says.      *)
Renewed(m, n) ==
  /\ n \in Mapping
  /\ n.int = m.int /\ n.rem = m.rem /\ n.ext = m.ext /\ n.pooled = m.pooled
  /\ n.idle = 0 /\ n.quiet = 0
  /\ \/ /\ n.inside # "nothing" /\ (n.internal_fin => n.inside = "fin")
        /\ n.outside = m.outside /\ n.external_fin = m.external_fin
     \/ /\ n.outside # "nothing" /\ (n.external_fin => n.outside = "fin")
        /\ n.inside = m.inside /\ n.internal_fin = m.internal_fin

LEMMA PacketRenews ==
  ASSUME NatAssumption, NEW m \in Mapping, NEW flags
  PROVE  Renewed(m, FromInside(m, flags)) /\ Renewed(m, FromOutside(m, flags))
  <1> DEFINE fin == "FIN" \in flags
             said == Said(flags)
  <1>1. fin \in BOOLEAN /\ said \in {"open", "fin"} /\ (fin => said = "fin")
    BY DEF Said
  <1>2. 0 \in Never .. Timeout + 1 /\ 0 \in 0 .. Timeout + 1
    BY DEF Never, NatAssumption
  <1>3. /\ FromInside(m, flags) =
             [[m EXCEPT !.idle = 0, !.quiet = 0] EXCEPT !.internal_fin = fin, !.inside = said]
        /\ FromOutside(m, flags) =
             [[m EXCEPT !.idle = 0, !.quiet = 0] EXCEPT !.external_fin = fin, !.outside = said]
    BY DEF FromInside, FromOutside, Touch
  <1> HIDE DEF fin, said
  <1>4. Renewed(m, FromInside(m, flags))
    BY <1>1, <1>2, <1>3 DEF Renewed, Mapping, Heard
  <1>5. Renewed(m, FromOutside(m, flags))
    BY <1>1, <1>2, <1>3 DEF Renewed, Mapping, Heard
  <1> QED
    BY <1>4, <1>5

(* What the entry of a new flow says, from either side. *)
IsOutFlow(n, port) ==
  /\ n \in Mapping /\ n.ext = port /\ n.pooled /\ n.idle = n.quiet
  /\ n.inside # "nothing" /\ n.outside = "nothing"
  /\ n.internal_fin => n.inside = "fin"

IsInFlow(n, rem, ext) ==
  /\ n \in Mapping /\ n.ext = ext /\ n.rem = rem /\ ~n.pooled
  /\ n.inside = "nothing" /\ n.outside # "nothing"
  /\ n.external_fin => n.outside = "fin"

LEMMA NewFlowsAreMappings ==
  ASSUME NatAssumption, NEW int \in Internal, NEW rem \in Remote, NEW flags,
         NEW garbage \in BOOLEAN
  PROVE  /\ \A port \in Pool : IsOutFlow(OutFlow(int, rem, port, flags, garbage), port)
         /\ \A ext \in Nat, idle \in Never .. Timeout + 1 :
              IsInFlow(InFlow(int, rem, ext, flags, garbage, idle), rem, ext)
  <1> DEFINE fin == "FIN" \in flags
             said == Said(flags)
  <1>1. fin \in BOOLEAN /\ said \in {"open", "fin"} /\ (fin => said = "fin")
    BY DEF Said
  <1>2. 0 \in Never .. Timeout + 1 /\ 0 \in 0 .. Timeout + 1 /\ Pool \subseteq Nat
    BY DEF Never, Pool, NatAssumption
  <1>3. ASSUME NEW port \in Pool
        PROVE  IsOutFlow(OutFlow(int, rem, port, flags, garbage), port)
    <2>1. OutFlow(int, rem, port, flags, garbage) =
            [int |-> int, rem |-> rem, ext |-> port,
             internal_fin |-> fin, external_fin |-> garbage, idle |-> 0,
             inside |-> said, outside |-> "nothing", quiet |-> 0, pooled |-> TRUE]
      BY DEF OutFlow
    <2> HIDE DEF fin, said
    <2> QED
      BY <1>1, <1>2, <2>1 DEF Mapping, Heard, IsOutFlow
  <1>4. ASSUME NEW ext \in Nat, NEW idle \in Never .. Timeout + 1
        PROVE  IsInFlow(InFlow(int, rem, ext, flags, garbage, idle), rem, ext)
    <2>1. InFlow(int, rem, ext, flags, garbage, idle) =
            [int |-> int, rem |-> rem, ext |-> ext,
             internal_fin |-> garbage, external_fin |-> fin, idle |-> idle,
             inside |-> "nothing", outside |-> said, quiet |-> 0, pooled |-> FALSE]
      BY DEF InFlow
    <2> HIDE DEF fin, said
    <2> QED
      BY <1>1, <1>2, <2>1 DEF Mapping, Heard, IsInFlow
  <1> QED
    BY <1>3, <1>4

(* Replacing a mapping by one of the same flow keeps the invariant. *)
LEMMA UpdateKeeps ==
  ASSUME IInv, NEW m \in mappings, NEW n \in Mapping, Update(m, n),
         n.ext = m.ext, n.rem = m.rem, n.pooled = m.pooled,
         UNCHANGED <<assigned_ports, locked>>, packets' \in 0 .. NumPackets
  PROVE  IInv'
  <1>1. mappings' = (mappings \ {m}) \cup {n}
    BY DEF Update
  <1>2. TypeOK'
    BY <1>1 DEF IInv, TypeOK
  <1>3. PortsUnique'
    BY <1>1 DEF IInv, PortsUnique
  <1>4. PortsFromPool'
    BY <1>1 DEF IInv, PortsFromPool
  <1>5. PoolIsRight'
    <2>1. \A port : (\E a \in mappings' : a.pooled /\ a.ext = port)
                      <=> (\E a \in mappings : a.pooled /\ a.ext = port)
      BY <1>1
    <2>2. \A port : port \in assigned_ports' <=> \E a \in mappings' : a.pooled /\ a.ext = port
      BY <2>1 DEF IInv, PoolIsRight
    <2> QED
      BY <2>2 DEF PoolIsRight
  <1> QED
    BY <1>2, <1>3, <1>4, <1>5 DEF IInv

(* So does a new mapping with a free port of the pool, now marked. *)
LEMMA NewFlowOutKeeps ==
  ASSUME NatAssumption, RulesApart, IInv, packets' \in 0 .. NumPackets,
         NEW int \in Internal, NEW rem \in Remote, NEW flags, NewFlowOut(int, rem, flags)
  PROVE  IInv'
  <1>1. PICK port \in FreePorts, garbage \in BOOLEAN :
          /\ assigned_ports' = assigned_ports \cup {port}
          /\ mappings' = mappings \cup {OutFlow(int, rem, port, flags, garbage)}
    BY DEF NewFlowOut
  <1> DEFINE n == OutFlow(int, rem, port, flags, garbage)
  <1>2. assigned_ports' = assigned_ports \cup {port} /\ UNCHANGED locked
    BY <1>1 DEF NewFlowOut
  <1>3. port \in Pool /\ port \notin assigned_ports
    BY DEF FreePorts
  <1>4. n \in Mapping /\ n.ext = port /\ n.pooled
    BY <1>3, NewFlowsAreMappings DEF IsOutFlow
  <1>5. mappings' = mappings \cup {n}
    BY <1>1
  <1> HIDE DEF n
  <1>6. \A m \in mappings : m.ext # port
    <2> SUFFICES ASSUME NEW m \in mappings PROVE m.ext # port
      OBVIOUS
    <2>1. CASE m.pooled
      BY <2>1, <1>3 DEF IInv, PoolIsRight
    <2>2. CASE ~m.pooled
      BY <2>2, <1>3 DEF IInv, PortsFromPool, RulesApart
    <2> QED
      BY <2>1, <2>2
  <1>7. TypeOK'
    BY <1>2, <1>3, <1>4, <1>5 DEF IInv, TypeOK
  <1>8. PortsUnique'
    BY <1>4, <1>5, <1>6 DEF IInv, PortsUnique
  <1>9. PortsFromPool'
    BY <1>3, <1>4, <1>5 DEF IInv, PortsFromPool
  <1>10. PoolIsRight'
    BY <1>2, <1>4, <1>5 DEF IInv, PoolIsRight
  <1> QED
    BY <1>7, <1>8, <1>9, <1>10 DEF IInv

(* And a new mapping with the port of a rule, for a new remote endpoint. *)
LEMMA NewFlowInKeeps ==
  ASSUME NatAssumption, RulesApart, IInv, packets' \in 0 .. NumPackets,
         NEW rem \in Remote, NEW ext, NEW flags, NewFlowIn(rem, ext, flags)
  PROVE  IInv'
  <1>1. PICK garbage \in BOOLEAN, idle \in Never .. Timeout + 1 :
          mappings' = mappings \cup {InFlow(Rule[ext], rem, ext, flags, garbage, idle)}
    BY DEF NewFlowIn
  <1> DEFINE n == InFlow(Rule[ext], rem, ext, flags, garbage, idle)
  <1>2. ext \in DOMAIN Rule /\ ext \notin Pool /\ UNCHANGED <<assigned_ports, locked>>
    BY DEF NewFlowIn, RulesApart
  <1>3. n \in Mapping /\ n.ext = ext /\ n.rem = rem /\ ~n.pooled
    <2>1. ext \in Nat /\ Rule[ext] \in Internal
      BY <1>2 DEF NatAssumption
    <2>2. IsInFlow(n, rem, ext)
      BY <2>1, NewFlowsAreMappings
    <2> QED
      BY <2>2 DEF IsInFlow
  <1>4. mappings' = mappings \cup {n}
    BY <1>1
  <1> HIDE DEF n
  <1>5. \A m \in mappings : m.ext = ext => ~m.pooled /\ m.rem # rem
    <2> SUFFICES ASSUME NEW m \in mappings, m.ext = ext PROVE ~m.pooled /\ m.rem # rem
      OBVIOUS
    <2>1. ~m.pooled
      BY <1>2 DEF IInv, PortsFromPool
    <2>2. m.rem # rem
      BY DEF NewFlowIn, Incoming
    <2> QED
      BY <2>1, <2>2
  <1>6. TypeOK'
    BY <1>2, <1>3, <1>4 DEF IInv, TypeOK
  <1>7. PortsUnique'
    BY <1>3, <1>4, <1>5 DEF IInv, PortsUnique
  <1>8. PortsFromPool'
    BY <1>2, <1>3, <1>4 DEF IInv, PortsFromPool
  <1>9. PoolIsRight'
    BY <1>2, <1>3, <1>4 DEF IInv, PoolIsRight
  <1> QED
    BY <1>6, <1>7, <1>8, <1>9 DEF IInv

(* Removing flows unmarks their ports and no other flow's. *)
LEMMA RemoveKeeps ==
  ASSUME NatAssumption, RulesApart, IInv, NEW gone \in SUBSET mappings, Remove(gone),
         UNCHANGED <<locked, packets>>
  PROVE  IInv'
  <1>1. mappings' = mappings \ gone /\ assigned_ports' = assigned_ports \ {m.ext : m \in gone}
    BY DEF Remove
  <1>2. TypeOK'
    BY <1>1 DEF IInv, TypeOK
  <1>3. PortsUnique' /\ PortsFromPool'
    BY <1>1 DEF IInv, PortsUnique, PortsFromPool
  <1>4. PoolIsRight'
    <2>1. \A m \in mappings, g \in gone : m.pooled /\ m.ext = g.ext => m = g
      BY DEF IInv, PortsUnique
    <2>2. \A port : port \in assigned_ports' <=> \E m \in mappings' : m.pooled /\ m.ext = port
      BY <1>1, <2>1 DEF IInv, PoolIsRight
    <2> QED
      BY <2>2 DEF PoolIsRight
  <1> QED
    BY <1>2, <1>3, <1>4 DEF IInv

(* The clock moves no port. *)
LEMMA SecondKeeps == ASSUME NatAssumption, IInv, Second PROVE IInv'
  <1> DEFINE Aged(m) == [m EXCEPT !.idle = IF @ = Never THEN @ ELSE Older(@),
                                  !.quiet = Older(@)]
  <1>1. mappings' = {Aged(m) : m \in mappings}
        /\ UNCHANGED <<assigned_ports, locked, packets>>
    BY DEF Second
  <1>2. \A m \in mappings : /\ Aged(m) \in Mapping /\ Aged(m).ext = m.ext
                            /\ Aged(m).rem = m.rem /\ Aged(m).pooled = m.pooled
    <2> SUFFICES ASSUME NEW m \in mappings
                 PROVE  /\ Aged(m) \in Mapping /\ Aged(m).ext = m.ext
                        /\ Aged(m).rem = m.rem /\ Aged(m).pooled = m.pooled
      OBVIOUS
    <2> DEFINE i == IF m.idle = Never THEN m.idle ELSE Older(m.idle)
               q == Older(m.quiet)
    <2>1. m \in Mapping
      BY DEF IInv, TypeOK
    <2>2. i \in Never .. Timeout + 1
      BY <2>1 DEF Mapping, Older, Never, NatAssumption
    <2>3. q \in 0 .. Timeout + 1
      BY <2>1 DEF Mapping, Older, NatAssumption
    <2>4. Aged(m) = [m EXCEPT !.idle = i, !.quiet = q]
      BY Zenon
    <2> HIDE DEF i, q, Aged
    <2> QED
      BY <2>1, <2>2, <2>3, <2>4 DEF Mapping
  <1> HIDE DEF Aged
  <1>3. TypeOK'
    BY <1>1, <1>2 DEF IInv, TypeOK
  <1>4. PortsUnique'
    <2> SUFFICES ASSUME NEW m \in mappings', NEW n \in mappings', m.ext = n.ext,
                        m.pooled \/ n.pooled \/ m.rem = n.rem
                 PROVE  m = n
      BY DEF PortsUnique
    <2>1. PICK a \in mappings : m = Aged(a)
      BY <1>1
    <2>2. PICK b \in mappings : n = Aged(b)
      BY <1>1
    <2>3. a = b
      BY <2>1, <2>2, <1>2 DEF IInv, PortsUnique
    <2> QED
      BY <2>1, <2>2, <2>3
  <1>5. PortsFromPool'
    BY <1>1, <1>2 DEF IInv, PortsFromPool
  <1>6. PoolIsRight'
    <2>1. \A port : port \in assigned_ports' <=> \E m \in mappings' : m.pooled /\ m.ext = port
      BY <1>1, <1>2 DEF IInv, PoolIsRight
    <2> QED
      BY <2>1 DEF PoolIsRight
  <1> QED
    BY <1>3, <1>4, <1>5, <1>6 DEF IInv

LEMMA TranslateKeeps == ASSUME NatAssumption, RulesApart, IInv, Translate PROVE IInv'
  <1>1. packets' \in 0 .. NumPackets
    BY DEF Translate, IInv, TypeOK, NatAssumption
  <1>2. PICK rem \in Remote, flags \in Flags :
          \/ \E int \in Internal :
               \/ TranslateOut(int, rem, flags)
               \/ NewFlowOut(int, rem, flags)
               \/ RefuseOut(int, rem, flags)
          \/ \E ext \in InPorts :
               \/ TranslateIn(rem, ext, flags)
               \/ NewFlowIn(rem, ext, flags)
               \/ NoRule(rem, ext, flags)
               \/ RefuseIn(rem, ext, flags)
    BY DEF Translate, DirOut, DirIn
  <1>t. mappings \subseteq Mapping
    BY DEF IInv, TypeOK
  <1>3. ASSUME NEW int \in Internal, TranslateOut(int, rem, flags) PROVE IInv'
    <2>1. PICK m \in mappings : /\ Update(m, FromInside(m, flags))
                                /\ UNCHANGED <<assigned_ports, locked>>
      BY <1>3 DEF TranslateOut, Outgoing
    <2>2. Renewed(m, FromInside(m, flags))
      BY <1>t, PacketRenews
    <2> QED
      BY <1>1, <2>1, <2>2, UpdateKeeps DEF Renewed
  <1>4. ASSUME NEW ext \in InPorts, TranslateIn(rem, ext, flags) PROVE IInv'
    <2>1. PICK m \in mappings : /\ Update(m, FromOutside(m, flags))
                                /\ UNCHANGED <<assigned_ports, locked>>
      BY <1>4 DEF TranslateIn, Incoming
    <2>2. Renewed(m, FromOutside(m, flags))
      BY <1>t, PacketRenews
    <2> QED
      BY <1>1, <2>1, <2>2, UpdateKeeps DEF Renewed
  <1>5. ASSUME NEW ext \in InPorts, NoRule(rem, ext, flags) PROVE IInv'
    BY <1>1, <1>5 DEF NoRule, IInv, TypeOK, PortsUnique, PoolIsRight, PortsFromPool
  <1>6. CASE (\E int \in Internal : RefuseOut(int, rem, flags))
             \/ (\E ext \in InPorts : RefuseIn(rem, ext, flags))
    BY <1>1, <1>6 DEF RefuseOut, RefuseIn, IInv, TypeOK, PortsUnique, PoolIsRight, PortsFromPool
  <1> QED
    BY <1>1, <1>2, <1>3, <1>4, <1>5, <1>6, NewFlowOutKeeps, NewFlowInKeeps

(* The inductive invariant holds when the rules leave the pool alone.      *)
THEOREM NatInvariant == ASSUME RulesApart PROVE Spec => []IInv
  <1>1. IInv /\ [Next]_vars => IInv'
    <2> SUFFICES ASSUME IInv, [Next]_vars PROVE IInv'
      OBVIOUS
    <2>1. CASE Translate
      BY <2>1, TranslateKeeps, NatAssumption
    <2>2. CASE Sweep
      <3>1. PICK finished \in SUBSET BothFin : Remove(Overdue \cup finished)
        BY <2>2 DEF Sweep
      <3>2. Overdue \cup finished \subseteq mappings
        BY DEF Overdue, BothFin
      <3> QED
        BY <2>2, <3>1, <3>2, RemoveKeeps, NatAssumption DEF Sweep
    <2>3. CASE Second
      BY <2>3, SecondKeeps, NatAssumption
    <2>4. CASE UNCHANGED vars
      BY <2>4 DEF vars, IInv, TypeOK, PortsUnique, PoolIsRight, PortsFromPool
    <2> QED
      BY <2>1, <2>2, <2>3, <2>4 DEF Next
  <1>2. Init => IInv
    BY InitIInv, NatAssumption
  <1> QED
    BY <1>1, <1>2, PTL DEF Spec

(* No two flows share an external port from the pool, and no two flows of  *)
(* one remote endpoint share any external port: for every rule table that  *)
(* leaves the pool alone.  The hypothesis is needed, and parse_config      *)
(* (nat.c:239-282) does not see to it: with a rule for a port of the pool, *)
(* the sweep frees the port of another flow (nat.c:227).                   *)
THEOREM ExternalPortsUnique == ASSUME RulesApart PROVE Spec => []PortsUnique
  <1>1. IInv => PortsUnique
    BY DEF IInv
  <1> QED
    BY <1>1, NatInvariant, PTL

(* The marked ports are the ports in use, under the same hypothesis.       *)
THEOREM PoolNeverLeaks == ASSUME RulesApart PROVE Spec => []PoolIsRight
  <1>1. IInv => PoolIsRight
    BY DEF IInv
  <1> QED
    BY <1>1, NatInvariant, PTL
-------------------------------------------------------------------------------
(* Both clocks of a mapping with a port of the pool start together and are *)
(* reset together: update_time is never left unset for it.  A flag of a    *)
(* side from which a packet has come is up only if its last packet was a   *)
(* FIN, and the inside of such a mapping has sent the first packet.        *)
ClockAndFlags(m) ==
  /\ m.pooled => m.idle = m.quiet /\ m.inside # "nothing"
  /\ m.inside # "nothing" /\ m.internal_fin => m.inside = "fin"
  /\ m.outside # "nothing" /\ m.external_fin => m.outside = "fin"

HistoryInv == TypeOK /\ \A m \in mappings : ClockAndFlags(m)

OnlyIdleGone ==
  \A m \in mappings :
    \/ \E n \in mappings' : SameFlow(m, n)
    \/ ~m.pooled \/ m.quiet > Timeout
    \/ m.inside = "fin" /\ m.outside \in {"fin", "nothing"}

(* Mappings join, and none goes. *)
LEMMA JoinTimes ==
  ASSUME HistoryInv, NEW n \in Mapping, ClockAndFlags(n),
         mappings' = mappings \cup {n}, assigned_ports' \subseteq Pool,
         UNCHANGED locked, packets' \in 0 .. NumPackets
  PROVE  HistoryInv' /\ OnlyIdleGone
  <1>1. HistoryInv'
    <2>1. TypeOK'
      BY DEF HistoryInv, TypeOK
    <2>2. \A m \in mappings' : ClockAndFlags(m)
      BY DEF HistoryInv
    <2> QED
      BY <2>1, <2>2 DEF HistoryInv, ClockAndFlags
  <1>2. \A m \in mappings : m \in mappings' /\ SameFlow(m, m)
    BY DEF SameFlow
  <1> QED
    BY <1>1, <1>2 DEF OnlyIdleGone

LEMMA TouchTimes ==
  ASSUME HistoryInv, NEW m \in mappings, NEW n, Renewed(m, n), Update(m, n),
         UNCHANGED <<assigned_ports, locked>>, packets' \in 0 .. NumPackets
  PROVE  HistoryInv' /\ OnlyIdleGone
  <1>1. m \in Mapping /\ ClockAndFlags(m) /\ n \in Mapping
    BY DEF HistoryInv, TypeOK, Renewed
  <1>2. ClockAndFlags(n)
    BY <1>1 DEF ClockAndFlags, Renewed
  <1>3. SameFlow(m, n)
    BY DEF SameFlow, Renewed
  <1>4. mappings' = (mappings \ {m}) \cup {n}
    BY DEF Update
  <1>5. HistoryInv'
    <2>1. TypeOK'
      BY <1>1, <1>4 DEF HistoryInv, TypeOK
    <2>2. \A a \in mappings' : ClockAndFlags(a)
      BY <1>2, <1>4 DEF HistoryInv
    <2> QED
      BY <2>1, <2>2 DEF HistoryInv, ClockAndFlags
  <1>6. ASSUME NEW a \in mappings PROVE \E b \in mappings' : SameFlow(a, b)
    <2>1. SameFlow(a, a)
      BY DEF SameFlow
    <2> QED
      BY <1>3, <1>4, <2>1
  <1> QED
    BY <1>5, <1>6 DEF OnlyIdleGone

LEMMA TranslateTimes ==
  ASSUME NatAssumption, HistoryInv, Translate PROVE HistoryInv' /\ OnlyIdleGone
  <1>1. packets' \in 0 .. NumPackets /\ mappings \subseteq Mapping
        /\ assigned_ports \subseteq Pool
    BY DEF Translate, HistoryInv, TypeOK, NatAssumption
  <1>2. PICK rem \in Remote, flags \in Flags :
          \/ \E int \in Internal :
               \/ TranslateOut(int, rem, flags)
               \/ NewFlowOut(int, rem, flags)
               \/ RefuseOut(int, rem, flags)
          \/ \E ext \in InPorts :
               \/ TranslateIn(rem, ext, flags)
               \/ NewFlowIn(rem, ext, flags)
               \/ NoRule(rem, ext, flags)
               \/ RefuseIn(rem, ext, flags)
    BY DEF Translate, DirOut, DirIn
  <1>3. ASSUME NEW int \in Internal, TranslateOut(int, rem, flags)
        PROVE  HistoryInv' /\ OnlyIdleGone
    <2>1. PICK m \in mappings : Update(m, FromInside(m, flags))
      BY <1>3 DEF TranslateOut, Outgoing
    <2>2. Renewed(m, FromInside(m, flags))
      BY <1>1, PacketRenews
    <2> QED
      BY <1>1, <1>3, <2>1, <2>2, TouchTimes DEF TranslateOut
  <1>4. ASSUME NEW ext \in InPorts, TranslateIn(rem, ext, flags)
        PROVE  HistoryInv' /\ OnlyIdleGone
    <2>1. PICK m \in mappings : Update(m, FromOutside(m, flags))
      BY <1>4 DEF TranslateIn, Incoming
    <2>2. Renewed(m, FromOutside(m, flags))
      BY <1>1, PacketRenews
    <2> QED
      BY <1>1, <1>4, <2>1, <2>2, TouchTimes DEF TranslateIn
  <1>5. ASSUME NEW int \in Internal, NewFlowOut(int, rem, flags)
        PROVE  HistoryInv' /\ OnlyIdleGone
    <2>1. PICK port \in FreePorts, garbage \in BOOLEAN :
            /\ assigned_ports' = assigned_ports \cup {port}
            /\ mappings' = mappings \cup {OutFlow(int, rem, port, flags, garbage)}
      BY <1>5 DEF NewFlowOut
    <2> DEFINE n == OutFlow(int, rem, port, flags, garbage)
    <2>2. port \in Pool
      BY DEF FreePorts
    <2>n. IsOutFlow(n, port)
      BY <2>2, NewFlowsAreMappings
    <2>3. n \in Mapping /\ ClockAndFlags(n)
      BY <2>n DEF ClockAndFlags, IsOutFlow
    <2>4. mappings' = mappings \cup {n} /\ assigned_ports' \subseteq Pool
      BY <1>1, <2>1, <2>2
    <2> HIDE DEF n
    <2> QED
      BY <1>1, <1>5, <2>3, <2>4, JoinTimes DEF NewFlowOut
  <1>6. ASSUME NEW ext \in InPorts, NewFlowIn(rem, ext, flags)
        PROVE  HistoryInv' /\ OnlyIdleGone
    <2>1. PICK garbage \in BOOLEAN, idle \in Never .. Timeout + 1 :
            mappings' = mappings \cup {InFlow(Rule[ext], rem, ext, flags, garbage, idle)}
      BY <1>6 DEF NewFlowIn
    <2> DEFINE n == InFlow(Rule[ext], rem, ext, flags, garbage, idle)
    <2>2. ext \in Nat /\ Rule[ext] \in Internal
      BY <1>6 DEF NewFlowIn, NatAssumption
    <2>n. IsInFlow(n, rem, ext)
      BY <2>2, NewFlowsAreMappings
    <2>3. n \in Mapping /\ ClockAndFlags(n)
      BY <2>n DEF ClockAndFlags, IsInFlow
    <2>4. mappings' = mappings \cup {n} /\ UNCHANGED <<assigned_ports, locked>>
      BY <1>6, <2>1 DEF NewFlowIn
    <2> HIDE DEF n
    <2> QED
      BY <1>1, <2>3, <2>4, JoinTimes
  <1>7. ASSUME mappings' = mappings, assigned_ports' = assigned_ports, locked' \in BOOLEAN
        PROVE  HistoryInv' /\ OnlyIdleGone
    BY <1>1, <1>7 DEF HistoryInv, TypeOK, ClockAndFlags, OnlyIdleGone, SameFlow
  <1>8. ASSUME \/ \E int \in Internal : RefuseOut(int, rem, flags)
               \/ \E ext \in InPorts : RefuseIn(rem, ext, flags) \/ NoRule(rem, ext, flags)
        PROVE  mappings' = mappings /\ assigned_ports' = assigned_ports /\ locked' \in BOOLEAN
    BY <1>8 DEF RefuseOut, RefuseIn, NoRule, HistoryInv, TypeOK
  <1> QED
    BY <1>2, <1>3, <1>4, <1>5, <1>6, <1>7, <1>8

LEMMA SweepTimes ==
  ASSUME NatAssumption, HistoryInv, Sweep PROVE HistoryInv' /\ OnlyIdleGone
  <1>1. PICK finished \in SUBSET BothFin :
          /\ mappings' = mappings \ (Overdue \cup finished)
          /\ assigned_ports' \subseteq assigned_ports
    BY DEF Sweep, Remove
  <1>2. HistoryInv'
    <2>1. TypeOK'
      BY <1>1 DEF HistoryInv, TypeOK, Sweep
    <2>2. \A m \in mappings' : ClockAndFlags(m)
      BY <1>1 DEF HistoryInv
    <2> QED
      BY <2>1, <2>2 DEF HistoryInv, ClockAndFlags
  <1>3. ASSUME NEW m \in mappings, m \notin mappings', m.pooled
        PROVE  m.quiet > Timeout \/ (m.inside = "fin" /\ m.outside \in {"fin", "nothing"})
    <2>1. m.idle > Timeout \/ (m.internal_fin /\ m.external_fin)
      BY <1>1, <1>3 DEF Overdue, BothFin
    <2> QED
      BY <1>3, <2>1 DEF HistoryInv, ClockAndFlags
  <1> QED
    BY <1>2, <1>3 DEF OnlyIdleGone, SameFlow

LEMMA SecondTimes ==
  ASSUME NatAssumption, HistoryInv, Second PROVE HistoryInv' /\ OnlyIdleGone
  <1> DEFINE Aged(m) == [m EXCEPT !.idle = IF @ = Never THEN @ ELSE Older(@),
                                  !.quiet = Older(@)]
  <1>1. mappings' = {Aged(m) : m \in mappings}
        /\ UNCHANGED <<assigned_ports, locked, packets>>
    BY DEF Second
  <1>2. ASSUME NEW m \in mappings
        PROVE  Aged(m) \in Mapping /\ SameFlow(m, Aged(m)) /\ ClockAndFlags(Aged(m))
    <2> DEFINE i == IF m.idle = Never THEN m.idle ELSE Older(m.idle)
               q == Older(m.quiet)
    <2>1. m \in Mapping /\ ClockAndFlags(m)
      BY DEF HistoryInv, TypeOK
    <2>2. i \in Never .. Timeout + 1
      BY <2>1 DEF Mapping, Older, Never, NatAssumption
    <2>3. q \in 0 .. Timeout + 1
      BY <2>1 DEF Mapping, Older, NatAssumption
    <2>4. m.pooled => i = q
      BY <2>1 DEF Mapping, Never, NatAssumption, ClockAndFlags
    <2>5. Aged(m) = [m EXCEPT !.idle = i, !.quiet = q]
      BY Zenon
    <2> HIDE DEF i, q, Aged
    <2>6. /\ Aged(m) \in Mapping /\ SameFlow(m, Aged(m))
          /\ Aged(m).pooled = m.pooled /\ Aged(m).idle = i /\ Aged(m).quiet = q
          /\ Aged(m).inside = m.inside /\ Aged(m).internal_fin = m.internal_fin
          /\ Aged(m).outside = m.outside /\ Aged(m).external_fin = m.external_fin
      BY <2>1, <2>2, <2>3, <2>5 DEF Mapping, SameFlow
    <2> QED
      BY <2>1, <2>4, <2>6 DEF ClockAndFlags
  <1> HIDE DEF Aged
  <1>3. HistoryInv'
    <2>1. TypeOK'
      BY <1>1, <1>2 DEF HistoryInv, TypeOK
    <2>2. \A m \in mappings' : ClockAndFlags(m)
      BY <1>1, <1>2
    <2> QED
      BY <2>1, <2>2 DEF HistoryInv, ClockAndFlags
  <1>4. \A m \in mappings : Aged(m) \in mappings' /\ SameFlow(m, Aged(m))
    BY <1>1, <1>2
  <1> QED
    BY <1>3, <1>4 DEF OnlyIdleGone

LEMMA HistoryStep ==
  ASSUME NatAssumption, HistoryInv, [Next]_vars PROVE HistoryInv' /\ OnlyIdleGone
  <1>1. CASE UNCHANGED vars
    BY <1>1 DEF vars, HistoryInv, TypeOK, ClockAndFlags, OnlyIdleGone, SameFlow
  <1> QED
    BY <1>1, TranslateTimes, SweepTimes, SecondTimes DEF Next

THEOREM HistoryInvariant == Spec => []HistoryInv
  <1>1. Init => HistoryInv
    BY InitIInv, NatAssumption DEF Init, IInv, HistoryInv
  <1>2. HistoryInv /\ [Next]_vars => HistoryInv'
    BY HistoryStep, NatAssumption
  <1> QED
    BY <1>1, <1>2, PTL DEF Spec

(* The table and the pool are well typed, whatever the rules are.          *)
THEOREM NatTypeCorrect == Spec => []TypeOK
  <1>1. HistoryInv => TypeOK
    BY DEF HistoryInv
  <1> QED
    BY <1>1, HistoryInvariant, PTL

(* A flow with a port of the pool outlives every silence that is not too   *)
(* long, until FINs have come from both sides, whatever the rules and the  *)
(* pool are (nat.c:80, 89, 93, 211, 226).  The exception is visible in     *)
(* RemovedOnlyIdle: while nothing has come from outside, external_fin is   *)
(* what malloc left there, and a FIN of the inside may be enough.          *)
THEOREM OnlyIdleFlowsGo == Spec => RemovedOnlyIdle
  <1>1. HistoryInv /\ [Next]_vars => [OnlyIdleGone]_vars
    BY HistoryStep, NatAssumption
  <1> QED
    BY <1>1, HistoryInvariant, PTL DEF Spec, RemovedOnlyIdle, OnlyIdleGone

-----------------------------------------------------------------------------
(* The web server: what a thread serves was waiting for it                  *)

\* The client has a connection that the server has not closed.
Waiting == {"connected", "sent", "gone"}
Waits(c) == client[c].pc \in Waiting

\* What accept() will return is a connection to that port which nobody has
\* answered, and it returns each one once.
Queued == \A p \in Ports : \A i \in DOMAIN backlog[p] :
            Waits(backlog[p][i]) /\ client[backlog[p][i]].port = p

QueuedOnce == \A p \in Ports : \A i, k \in DOMAIN backlog[p] :
                i # k => backlog[p][i] # backlog[p][k]

\* The same of the connection that a thread is reading from.
InService == \A p \in Ports : server[p].pc = "receive" =>
               /\ Waits(server[p].of) /\ client[server[p].of].port = p
               /\ \A i \in DOMAIN backlog[p] : backlog[p][i] # server[p].of

\* What a client has got is the answer to its own request, at its own port.
Replied == \A c \in Clients : client[c].pc = "answered" =>
             client[c].resp = get_response(client[c].req, client[c].port)

\* A client that waits for an answer is being served or in the queue.
Expected == \A c \in Clients : client[c].pc \in {"connected", "sent"} =>
              \/ server[client[c].port].pc = "receive" /\ server[client[c].port].of = c
              \/ \E i \in DOMAIN backlog[client[c].port] : backlog[client[c].port][i] = c

HttpInv == HttpTypeOK /\ Queued /\ QueuedOnce /\ InService /\ Replied /\ Expected

\* No step of the server or of another client changes a client's connection:
\* the parts of the invariant that only look at the clients' stages and ports
\* survive a step after which every client that waits has the port it had.
LEMMA ClientMoves ==
    ASSUME HttpInv, UNCHANGED <<backlog, server, dead>>,
           NEW c \in Clients, client[c].pc = "connected", client' \in [Clients -> ClientStates],
           \A e \in Clients \ {c} : client'[e] = client[e],
           client'[c].port = client[c].port, client'[c].pc \in {"sent", "gone"}
    PROVE  HttpInv'
<1>1. \A e \in Clients : Waits(e) => Waits(e)' /\ client'[e].port = client[e].port
  BY DEF Waits, Waiting
<1>2. HttpTypeOK'
  BY DEF HttpInv, HttpTypeOK
<1>3. Queued'
  <2> SUFFICES ASSUME NEW p \in Ports, NEW i \in DOMAIN backlog[p]
               PROVE  Waits(backlog[p][i])' /\ client'[backlog[p][i]].port = p
    BY DEF Queued
  <2>1. backlog[p][i] \in Clients
    BY DEF HttpInv, HttpTypeOK
  <2> QED
    BY <1>1, <2>1 DEF HttpInv, Queued, Waits, Waiting
<1>4. QueuedOnce'
  BY DEF HttpInv, QueuedOnce
<1>5. InService'
  <2> SUFFICES ASSUME NEW p \in Ports, server[p].pc = "receive"
               PROVE  /\ client'[server[p].of].pc \in Waiting /\ client'[server[p].of].port = p
                      /\ \A i \in DOMAIN backlog[p] : backlog[p][i] # server[p].of
    BY DEF InService, Waits
  <2>1. server[p].of \in Clients
    BY DEF HttpInv, HttpTypeOK, ServerStates
  <2> QED
    BY <1>1, <2>1 DEF HttpInv, InService, Waits, Waiting
<1>6. Replied'
  <2> SUFFICES ASSUME NEW e \in Clients, client'[e].pc = "answered"
               PROVE  client'[e].resp = get_response(client'[e].req, client'[e].port)
    BY DEF Replied
  <2>1. e # c
    OBVIOUS
  <2> QED
    BY <2>1 DEF HttpInv, Replied
<1>7. Expected'
  <2> SUFFICES ASSUME NEW e \in Clients, client'[e].pc \in {"connected", "sent"}
               PROVE  \/ server[client'[e].port].pc = "receive" /\ server[client'[e].port].of = e
                      \/ \E i \in DOMAIN backlog[client'[e].port] : backlog[client'[e].port][i] = e
    BY DEF Expected
  <2>1. client[e].pc \in {"connected", "sent"} /\ client'[e].port = client[e].port
    BY DEF Waits, Waiting
  <2> QED
    BY <2>1 DEF HttpInv, Expected
<1> QED
  BY <1>2, <1>3, <1>4, <1>5, <1>6, <1>7 DEF HttpInv

LEMMA AppendKeeps ==
    ASSUME NEW S, NEW s \in Seq(S), NEW x \in S
    PROVE  /\ \A i \in DOMAIN s : i \in DOMAIN Append(s, x) /\ Append(s, x)[i] = s[i]
           /\ \A i \in DOMAIN Append(s, x) :
                \/ i \in DOMAIN s /\ Append(s, x)[i] = s[i]
                \/ i = Len(s) + 1 /\ Append(s, x)[i] = x
OBVIOUS

LEMMA OnlyPort80Redirects == \A q, p : get_response(q, p).code = 301 => p = 80
<1> SUFFICES ASSUME NEW q, NEW p, p # 80 PROVE get_response(q, p).code # 301
  OBVIOUS
<1> DEFINE file == Files[q.url]
           headers == parsed_headers(q)
           ranges == {i \in DOMAIN headers : headers[i].name = "Range"}
           first == CHOOSE i \in ranges : \A k \in ranges : i <= k
           r == Parsed(headers[first].value, Len(file))
<1>1. get_response(q, p) =
        IF q.url \notin DOMAIN Files
        THEN [code |-> 404]
        ELSE IF ranges # {} /\ r.end < r.start
        THEN Unreadable
        ELSE IF ranges # {}
        THEN [code |-> 206, length |-> r.end - r.start,
              body |-> Read(file, Seek(r.start), r.end - r.start)]
        ELSE [code |-> 200, length |-> Len(file), body |-> Read(file, 0, Len(file))]
  BY DEF get_response
<1> HIDE DEF file, headers, ranges, first, r
<1> QED
  BY <1>1 DEF Unreadable

\* A client that connects was neither waiting nor being served.
LEMMA ConnectStep == ASSUME HttpInv, NEW c \in Clients, Connect(c) PROVE HttpInv'
<1> DEFINE p == client'[c].port
<1>1. ~ Waits(c)
  BY DEF Connect, Waits, Waiting
<1>2. /\ client' \in [Clients -> ClientStates] /\ client'[c].pc = "connected"
      /\ \A e \in Clients \ {c} : client'[e] = client[e]
  <2>1. CASE client[c].pc = "start" /\ client' = [client EXCEPT ![c].pc = "connected"]
    BY <2>1 DEF HttpInv, HttpTypeOK, ClientStates, Stages
  <2>2. CASE /\ client[c].pc = "answered" /\ client[c].resp.code = 301
             /\ client' = [client EXCEPT ![c].pc = "connected", ![c].port = 443,
                                         ![c].req.url = client[c].resp.location,
                                         ![c].resp = NoResponse]
    <3> DEFINE q == client[c].req
    <3>1. q \in Requests /\ client[c].port \in Ports /\ client[c] \in ClientStates
      BY DEF HttpInv, HttpTypeOK, ClientStates
    <3>2. client[c].resp = get_response(q, client[c].port)
      BY <2>2 DEF HttpInv, Replied
    <3>3. client[c].port = 80
      BY <3>2, <2>2, OnlyPort80Redirects
    <3>4. client[c].resp.location = q.url
      BY <3>2, <3>3 DEF get_response
    <3>5. [q EXCEPT !.url = q.url] = q
      <4>1. q = [url |-> q.url, headers |-> q.headers]
        BY <3>1, HttpAssumption
      <4> QED
        BY <4>1
    <3>6. client'[c] = [client[c] EXCEPT !.pc = "connected", !.port = 443, !.req.url = q.url,
                                         !.resp = NoResponse]
      BY <2>2, <3>4 DEF HttpInv, HttpTypeOK
    <3>7. client'[c] = [manner |-> client[c].manner, req |-> q, port |-> 443,
                        pc |-> "connected", resp |-> NoResponse]
      <4>1. PICK d1 : d1 = [client[c] EXCEPT !.pc = "connected"]
        OBVIOUS
      <4>2. d1 = [manner |-> client[c].manner, req |-> q, port |-> client[c].port,
                  pc |-> "connected", resp |-> client[c].resp]
        BY <3>1, <4>1 DEF ClientStates
      <4>3. PICK d2 : d2 = [d1 EXCEPT !.port = 443]
        OBVIOUS
      <4>4. d2 = [manner |-> client[c].manner, req |-> q, port |-> 443,
                  pc |-> "connected", resp |-> client[c].resp]
        BY <4>2, <4>3
      <4>5. client'[c] = [[d2 EXCEPT !.req.url = q.url] EXCEPT !.resp = NoResponse]
        BY <3>6, <4>1, <4>3
      <4>6. [d2 EXCEPT !.req.url = q.url] = [d2 EXCEPT !.req = [d2.req EXCEPT !.url = q.url]]
        OBVIOUS
      <4>7. [d2 EXCEPT !.req = [d2.req EXCEPT !.url = q.url]] = [d2 EXCEPT !.req = q]
        BY <3>5, <4>4
      <4>8. [d2 EXCEPT !.req = q] = d2
        BY <4>4
      <4>9. client'[c] = [d2 EXCEPT !.resp = NoResponse]
        BY <4>5, <4>6, <4>7, <4>8
      <4> QED
        BY <4>4, <4>9
    <3>8. client'[c] \in ClientStates
      BY <3>1, <3>7 DEF ClientStates, Stages, Ports, Responses
    <3> QED
      BY <2>2, <3>7, <3>8 DEF HttpInv, HttpTypeOK, ClientStates
  <2> QED
    BY <2>1, <2>2 DEF Connect
<1>3. p \in Ports
  BY <1>2 DEF ClientStates
<1>4. /\ backlog' \in [Ports -> Seq(Clients)] /\ backlog'[p] = Append(backlog[p], c)
      /\ \A o \in Ports \ {p} : backlog'[o] = backlog[o]
  BY <1>3 DEF Connect, HttpInv, HttpTypeOK
<1>5. \A o \in Ports : \A i \in DOMAIN backlog[o] :
        /\ i \in DOMAIN backlog'[o] /\ backlog'[o][i] = backlog[o][i]
  <2> TAKE o \in Ports
  <2> TAKE i \in DOMAIN backlog[o]
  <2>1. backlog[o] \in Seq(Clients)
    BY DEF HttpInv, HttpTypeOK
  <2> QED
    BY <1>4, <2>1, AppendKeeps
<1>6. \A o \in Ports : \A i \in DOMAIN backlog'[o] :
        \/ i \in DOMAIN backlog[o] /\ backlog'[o][i] = backlog[o][i]
        \/ o = p /\ i = Len(backlog[p]) + 1 /\ backlog'[o][i] = c
  <2> TAKE o \in Ports
  <2> TAKE i \in DOMAIN backlog'[o]
  <2>1. backlog[o] \in Seq(Clients)
    BY DEF HttpInv, HttpTypeOK
  <2> QED
    BY <1>4, <2>1, AppendKeeps
<1>7. \A o \in Ports : \A i \in DOMAIN backlog[o] : backlog[o][i] \in Clients \ {c}
  <2> TAKE o \in Ports
  <2> TAKE i \in DOMAIN backlog[o]
  <2>1. backlog[o] \in Seq(Clients) /\ Waits(backlog[o][i])
    BY DEF HttpInv, HttpTypeOK, Queued
  <2> QED
    BY <1>1, <2>1
<1>8. \A o \in Ports : server[o].pc = "receive" => server[o].of \in Clients \ {c}
  BY <1>1 DEF HttpInv, HttpTypeOK, InService, ServerStates
<1>9. HttpTypeOK'
  BY <1>2, <1>4 DEF Connect, HttpInv, HttpTypeOK
<1>10. Queued'
  <2> SUFFICES ASSUME NEW o \in Ports, NEW i \in DOMAIN backlog'[o]
               PROVE  client'[backlog'[o][i]].pc \in Waiting /\ client'[backlog'[o][i]].port = o
    BY DEF Queued, Waits
  <2>1. CASE i \in DOMAIN backlog[o] /\ backlog'[o][i] = backlog[o][i]
    BY <2>1, <1>2, <1>7 DEF HttpInv, Queued, Waits, Waiting
  <2>2. CASE o = p /\ backlog'[o][i] = c
    BY <2>2, <1>2 DEF Waits, Waiting
  <2> QED
    BY <1>6, <2>1, <2>2
<1>11. QueuedOnce'
  <2> SUFFICES ASSUME NEW o \in Ports, NEW i \in DOMAIN backlog'[o],
                      NEW k \in DOMAIN backlog'[o], i # k
               PROVE  backlog'[o][i] # backlog'[o][k]
    BY DEF QueuedOnce
  <2> QED
    BY <1>6, <1>7 DEF HttpInv, QueuedOnce
<1>12. InService'
  <2> SUFFICES ASSUME NEW o \in Ports, server[o].pc = "receive"
               PROVE  /\ client'[server[o].of].pc \in Waiting /\ client'[server[o].of].port = o
                      /\ \A i \in DOMAIN backlog'[o] : backlog'[o][i] # server[o].of
    BY DEF InService, Connect, Waits
  <2>1. client'[server[o].of].pc \in Waiting /\ client'[server[o].of].port = o
    BY <1>2, <1>8 DEF HttpInv, InService, Waits, Waiting
  <2> QED
    BY <2>1, <1>6, <1>8 DEF HttpInv, InService
<1>13. Replied'
  BY <1>2 DEF HttpInv, Replied
<1>14. Expected'
  <2> SUFFICES ASSUME NEW e \in Clients, client'[e].pc \in {"connected", "sent"}
               PROVE  \/ server[client'[e].port].pc = "receive" /\ server[client'[e].port].of = e
                      \/ \E i \in DOMAIN backlog'[client'[e].port] : backlog'[client'[e].port][i] = e
    BY DEF Expected, Connect
  <2>1. CASE e = c
    <3>1. backlog[p] \in Seq(Clients)
      BY <1>3 DEF HttpInv, HttpTypeOK
    <3>2. Len(backlog[p]) + 1 \in DOMAIN backlog'[p] /\ backlog'[p][Len(backlog[p]) + 1] = c
      BY <3>1, <1>4
    <3> QED
      BY <2>1, <3>2
  <2>2. CASE e # c
    <3>1. client'[e] = client[e] /\ client[e].port \in Ports
      BY <2>2, <1>2 DEF HttpInv, HttpTypeOK, ClientStates
    <3> QED
      BY <3>1, <1>5 DEF HttpInv, Expected
  <2> QED
    BY <2>1, <2>2
<1> QED
  BY <1>9, <1>10, <1>11, <1>12, <1>13, <1>14 DEF HttpInv

LEMMA SendStep == ASSUME HttpInv, NEW c \in Clients, Send(c) \/ Quit(c) PROVE HttpInv'
<1>1. client[c] \in ClientStates /\ client[c].pc = "connected"
  BY DEF Send, Quit, HttpInv, HttpTypeOK
<1>2. PICK pc \in {"sent", "gone"} : client' = [client EXCEPT ![c].pc = pc]
  BY DEF Send, Quit
<1>3. /\ client' \in [Clients -> ClientStates] /\ client'[c].port = client[c].port
      /\ client'[c].pc = pc /\ \A e \in Clients \ {c} : client'[e] = client[e]
  BY <1>1, <1>2 DEF HttpInv, HttpTypeOK, ClientStates, Stages
<1> QED
  BY <1>1, <1>3, ClientMoves DEF Send, Quit

LEMMA AcceptStep == ASSUME HttpInv, NEW p \in Ports, Accept(p) PROVE HttpInv'
<1> DEFINE c == backlog[p][1]
<1>1. backlog[p] \in Seq(Clients) /\ backlog[p] # <<>> /\ backlog'[p] = Tail(backlog[p])
  BY DEF Accept, HttpInv, HttpTypeOK
<1>2. c \in Clients /\ 1 \in DOMAIN backlog[p] /\ c = Head(backlog[p])
  BY <1>1
<1>3. /\ server' \in [Ports -> ServerStates] /\ server'[p] = [pc |-> "receive", of |-> c]
      /\ \A o \in Ports \ {p} : server'[o] = server[o] /\ backlog'[o] = backlog[o]
      /\ backlog' \in [Ports -> Seq(Clients)]
  BY <1>1, <1>2 DEF Accept, HttpInv, HttpTypeOK, ServerStates
<1>4. \A i \in DOMAIN backlog'[p] :
        i + 1 \in DOMAIN backlog[p] /\ backlog'[p][i] = backlog[p][i + 1] /\ i + 1 # 1
  BY <1>1
<1>5. \A i \in DOMAIN backlog[p] : i # 1 =>
        i - 1 \in DOMAIN backlog'[p] /\ backlog'[p][i - 1] = backlog[p][i]
  BY <1>1
<1>6. HttpTypeOK'
  BY <1>3 DEF Accept, HttpInv, HttpTypeOK
<1>7. Queued'
  <2> SUFFICES ASSUME NEW o \in Ports, NEW i \in DOMAIN backlog'[o]
               PROVE  Waits(backlog'[o][i]) /\ client[backlog'[o][i]].port = o
    BY DEF Queued, Waits, Accept
  <2> QED
    BY <1>3, <1>4 DEF HttpInv, Queued
<1>8. QueuedOnce'
  <2> SUFFICES ASSUME NEW o \in Ports, NEW i \in DOMAIN backlog'[o],
                      NEW k \in DOMAIN backlog'[o], i # k
               PROVE  backlog'[o][i] # backlog'[o][k]
    BY DEF QueuedOnce
  <2>1. CASE o = p
    <3>1. DOMAIN backlog'[p] \subseteq Nat
      BY <1>3
    <3>2. i + 1 # k + 1
      BY <2>1, <3>1
    <3> QED
      BY <2>1, <3>2, <1>4 DEF HttpInv, QueuedOnce
  <2>2. CASE o # p
    BY <2>2, <1>3 DEF HttpInv, QueuedOnce
  <2> QED
    BY <2>1, <2>2
<1>9. InService'
  <2> SUFFICES ASSUME NEW o \in Ports, server'[o].pc = "receive"
               PROVE  /\ Waits(server'[o].of) /\ client[server'[o].of].port = o
                      /\ \A i \in DOMAIN backlog'[o] : backlog'[o][i] # server'[o].of
    BY DEF InService, Waits, Accept
  <2>1. CASE o = p
    BY <2>1, <1>2, <1>3, <1>4 DEF HttpInv, Queued, QueuedOnce
  <2>2. CASE o # p
    BY <2>2, <1>3 DEF HttpInv, InService
  <2> QED
    BY <2>1, <2>2
<1>10. Replied'
  BY DEF Accept, HttpInv, Replied
<1>11. Expected'
  <2> SUFFICES ASSUME NEW e \in Clients, client[e].pc \in {"connected", "sent"}
               PROVE  \/ server'[client[e].port].pc = "receive" /\ server'[client[e].port].of = e
                      \/ \E i \in DOMAIN backlog'[client[e].port] : backlog'[client[e].port][i] = e
    BY DEF Expected, Accept
  <2>1. client[e].port \in Ports
    BY DEF HttpInv, HttpTypeOK, ClientStates
  <2>2. CASE client[e].port # p
    BY <2>1, <2>2, <1>3 DEF HttpInv, Expected
  <2>3. CASE client[e].port = p
    <3>1. server[p].pc = "accept"
      BY DEF Accept
    <3>2. PICK i \in DOMAIN backlog[p] : backlog[p][i] = e
      BY <2>3, <3>1 DEF HttpInv, Expected
    <3>3. CASE i = 1
      BY <2>3, <3>2, <3>3, <1>3
    <3>4. CASE i # 1
      BY <2>3, <3>2, <3>4, <1>5
    <3> QED
      BY <3>3, <3>4
  <2> QED
    BY <2>2, <2>3
<1> QED
  BY <1>6, <1>7, <1>8, <1>9, <1>10, <1>11 DEF HttpInv

\* After a connection is closed its port's thread has nobody, and the one that
\* was served is nowhere in the queues.
LEMMA AnswerStep == ASSUME HttpInv, NEW p \in Ports, Answer(p) PROVE HttpInv'
<1> DEFINE c == server[p].of
           r == get_response(client[c].req, p)
<1>1. /\ c \in Clients /\ client[c] \in ClientStates /\ client[c].pc = "sent"
      /\ client[c].port = p /\ server[p].pc = "receive"
  BY DEF Answer, HttpInv, HttpTypeOK, InService, ServerStates
<1>2. r \in Responses
  BY <1>1 DEF Responses, ClientStates
<1>3. client' = [client EXCEPT ![c].pc = "answered", ![c].resp = r]
  BY DEF Answer
<1>4. client'[c] = [client[c] EXCEPT !.pc = "answered", !.resp = r]
  BY <1>1, <1>3 DEF HttpInv, HttpTypeOK
<1>5. client'[c] \in ClientStates
  BY <1>1, <1>2, <1>4 DEF ClientStates, Stages
<1>6. client' \in [Clients -> ClientStates] /\ \A e \in Clients \ {c} : client'[e] = client[e]
  BY <1>1, <1>3, <1>4, <1>5 DEF HttpInv, HttpTypeOK
<1>7. /\ server' \in [Ports -> ServerStates] /\ server'[p].pc = "accept"
      /\ \A o \in Ports \ {p} : server'[o] = server[o]
      /\ backlog' = backlog
  BY DEF Answer, HttpInv, HttpTypeOK, ServerStates
<1>8. \A o \in Ports : \A i \in DOMAIN backlog[o] : backlog[o][i] \in Clients \ {c}
  <2> TAKE o \in Ports
  <2> TAKE i \in DOMAIN backlog[o]
  <2>1. backlog[o] \in Seq(Clients) /\ client[backlog[o][i]].port = o
    BY DEF HttpInv, HttpTypeOK, Queued
  <2>2. backlog[o][i] # c
    BY <1>1, <2>1 DEF HttpInv, InService
  <2> QED
    BY <2>1, <2>2
<1>9. HttpTypeOK'
  BY <1>6, <1>7 DEF Answer, HttpInv, HttpTypeOK
<1>10. Queued'
  <2> SUFFICES ASSUME NEW o \in Ports, NEW i \in DOMAIN backlog[o]
               PROVE  Waits(backlog[o][i])' /\ client'[backlog[o][i]].port = o
    BY <1>7 DEF Queued, Waits, Waiting
  <2> QED
    BY <1>6, <1>7, <1>8 DEF HttpInv, Queued, Waits, Waiting
<1>11. QueuedOnce'
  BY <1>7 DEF HttpInv, QueuedOnce
<1>12. InService'
  <2> SUFFICES ASSUME NEW o \in Ports, server'[o].pc = "receive"
               PROVE  /\ client'[server'[o].of].pc \in Waiting /\ client'[server'[o].of].port = o
                      /\ \A i \in DOMAIN backlog[o] : backlog[o][i] # server'[o].of
    BY <1>7 DEF InService, Waits, Waiting
  <2>1. o # p /\ server'[o] = server[o]
    BY <1>7
  <2>2. server[o].of \in Clients \ {c}
    BY <1>1, <2>1 DEF HttpInv, HttpTypeOK, InService, ServerStates
  <2> QED
    BY <1>6, <2>1, <2>2 DEF HttpInv, InService, Waits, Waiting
<1>13. Replied'
  <2>1. client'[c].resp = get_response(client'[c].req, client'[c].port)
    BY <1>1, <1>4 DEF ClientStates
  <2> QED
    BY <2>1, <1>6 DEF HttpInv, Replied
<1>14. Expected'
  <2> SUFFICES ASSUME NEW e \in Clients, client'[e].pc \in {"connected", "sent"}
               PROVE  \/ server'[client'[e].port].pc = "receive" /\ server'[client'[e].port].of = e
                      \/ \E i \in DOMAIN backlog[client'[e].port] : backlog[client'[e].port][i] = e
    BY <1>7 DEF Expected
  <2>1. e # c
    BY <1>1, <1>4 DEF ClientStates
  <2>2. client'[e] = client[e] /\ client[e].port \in Ports
    BY <1>6, <2>1 DEF HttpInv, HttpTypeOK, ClientStates
  <2> QED
    BY <2>1, <2>2, <1>7 DEF HttpInv, Expected
<1> QED
  BY <1>9, <1>10, <1>11, <1>12, <1>13, <1>14 DEF HttpInv

LEMMA DesertedStep == ASSUME HttpInv, NEW p \in Ports, Deserted(p) PROVE HttpInv'
<1>1. CASE dead' = TRUE /\ UNCHANGED server
  BY <1>1 DEF Deserted, HttpInv, HttpTypeOK, Queued, QueuedOnce, InService, Replied, Expected, Waits, Waiting
<1>2. CASE /\ server' = [server EXCEPT ![p] = [pc |-> "accept", of |-> Nobody]]
           /\ UNCHANGED dead
  <2>1. /\ server' \in [Ports -> ServerStates] /\ server'[p].pc = "accept"
        /\ \A o \in Ports \ {p} : server'[o] = server[o]
        /\ UNCHANGED <<client, backlog, dead>>
    BY <1>2 DEF Deserted, HttpInv, HttpTypeOK, ServerStates
  <2>2. HttpTypeOK' /\ Queued' /\ QueuedOnce' /\ Replied'
    BY <2>1 DEF HttpInv, HttpTypeOK, Queued, QueuedOnce, Replied, Waits, Waiting
  <2>3. InService'
    BY <2>1 DEF HttpInv, InService, Waits, Waiting
  <2>4. Expected'
    <3> SUFFICES ASSUME NEW e \in Clients, client[e].pc \in {"connected", "sent"}
                 PROVE  \/ server'[client[e].port].pc = "receive" /\ server'[client[e].port].of = e
                        \/ \E i \in DOMAIN backlog[client[e].port] : backlog[client[e].port][i] = e
      BY <2>1 DEF Expected
    <3>1. server[p].of # e
      BY DEF Deserted
    <3>2. client[e].port \in Ports
      BY DEF HttpInv, HttpTypeOK, ClientStates
    <3> QED
      BY <2>1, <3>1, <3>2 DEF HttpInv, Expected
  <2> QED
    BY <2>2, <2>3, <2>4 DEF HttpInv
<1> QED
  BY <1>1, <1>2 DEF Deserted

LEMMA HttpInvariant == HttpSpec => []HttpInv
<1>1. HttpInit => HttpInv
  <2> SUFFICES ASSUME HttpInit PROVE HttpInv
    OBVIOUS
  <2>1. HttpTypeOK
    <3>1. client \in [Clients -> ClientStates]
      BY DEF HttpInit, ClientStates, Stages, Responses
    <3>2. backlog \in [Ports -> Seq(Clients)]
      BY DEF HttpInit
    <3>3. server \in [Ports -> ServerStates]
      BY DEF HttpInit, ServerStates
    <3> QED
      BY <3>1, <3>2, <3>3 DEF HttpInit, HttpTypeOK
  <2>2. \A c \in Clients : client[c].pc = "start"
    BY DEF HttpInit
  <2>3. Replied /\ Expected
    BY <2>2 DEF Replied, Expected
  <2>4. \A p \in Ports : DOMAIN backlog[p] = {} /\ server[p].pc = "accept"
    BY DEF HttpInit
  <2> QED
    BY <2>1, <2>3, <2>4 DEF HttpInv, Queued, QueuedOnce, InService
<1>2. HttpInv /\ [HttpNext]_httpVars => HttpInv'
  <2> SUFFICES ASSUME HttpInv, [HttpNext]_httpVars PROVE HttpInv'
    OBVIOUS
  <2>1. ASSUME NEW c \in Clients, Connect(c) \/ Send(c) \/ Quit(c) PROVE HttpInv'
    BY <2>1, ConnectStep, SendStep
  <2>2. ASSUME NEW p \in Ports, Listen(p) PROVE HttpInv'
    BY <2>2, AcceptStep, AnswerStep, DesertedStep DEF Listen
  <2>3. CASE UNCHANGED httpVars
    BY <2>3 DEF httpVars, HttpInv, HttpTypeOK, Queued, QueuedOnce, InService, Replied, Expected, Waits, Waiting
  <2> QED
    BY <2>1, <2>2, <2>3 DEF HttpNext
<1> QED
  BY <1>1, <1>2, PTL DEF HttpSpec

\* The headers are searched from the last one to the first.
LEMMA ParsedIsReversed ==
    ASSUME NEW q \in Requests
    PROVE  /\ Len(q.headers) \in Nat
           /\ DOMAIN q.headers = 1 .. Len(q.headers)
           /\ DOMAIN parsed_headers(q) = 1 .. Len(q.headers)
           /\ \A i \in DOMAIN q.headers :
                /\ parsed_headers(q)[Len(q.headers) - i + 1] = q.headers[i]
                /\ q.headers[i] \in Headers
           /\ \A i \in DOMAIN q.headers : parsed_headers(q)[i] = q.headers[Len(q.headers) - i + 1]
<1>1. q.headers \in Seq(Headers)
  BY HttpAssumption
<1> QED
  BY <1>1 DEF parsed_headers

LEMMA WholeFile == ASSUME NEW u \in DOMAIN Files PROVE Read(Files[u], 0, Len(Files[u])) = Files[u]
<1>1. Files[u] \in Seq(Bytes)
  BY HttpAssumption
<1> QED
  BY <1>1 DEF Read

LEMMA PartOfFile ==
    ASSUME NEW u \in DOMAIN Files, NEW first \in Nat, NEW last \in Int, last < Len(Files[u])
    PROVE  Read(Files[u], first, last + 1 - first) = SubSeq(Files[u], first + 1, last + 1)
<1> DEFINE file == Files[u]
<1>1. file \in Seq(Bytes) /\ Len(file) \in Nat
  BY HttpAssumption
<1>2. \A i \in 1 .. last + 1 - first : first + i <= Len(file)
  BY <1>1
<1>3. Read(file, first, last + 1 - first) = [i \in 1 .. last + 1 - first |-> file[first + i]]
  BY <1>2 DEF Read
<1>4. SubSeq(file, first + 1, last + 1) = [i \in 1 .. (last + 1) - (first + 1) + 1 |-> file[i + (first + 1) - 1]]
  BY <1>1
<1> QED
  BY <1>1, <1>3, <1>4

LEMMA RightAnswer == ASSUME NEW q \in Requests, NEW p, p # 80 PROVE IsRight(q, get_response(q, p))
<1> DEFINE file == Files[q.url]
           headers == parsed_headers(q)
           ranges == {i \in DOMAIN headers : headers[i].name = "Range"}
           first == CHOOSE i \in ranges : \A k \in ranges : i <= k
           r == Parsed(headers[first].value, Len(file))
           part == IF r.end < r.start
                   THEN Unreadable
                   ELSE [code |-> 206, length |-> r.end - r.start,
                         body |-> Read(file, Seek(r.start), r.end - r.start)]
           asked == {i \in DOMAIN q.headers : q.headers[i].name = "Range"}
           resp == get_response(q, p)
           n == Len(q.headers)
<1>1. resp =
        IF q.url \notin DOMAIN Files
        THEN [code |-> 404]
        ELSE IF ranges # {}
        THEN part
        ELSE [code |-> 200, length |-> Len(file), body |-> Read(file, 0, Len(file))]
  BY DEF get_response
<1> HIDE DEF resp, part
<1>2. n \in Nat /\ DOMAIN q.headers = 1 .. n /\ DOMAIN headers = 1 .. n
  BY ParsedIsReversed
<1>3. \A i \in 1 .. n : headers[n - i + 1] = q.headers[i] /\ headers[i] = q.headers[n - i + 1]
  BY <1>2, ParsedIsReversed
<1>4. \A i \in 1 .. n : n - i + 1 \in 1 .. n /\ n - (n - i + 1) + 1 = i
  BY <1>2
<1>5. \A i \in 1 .. n : i \in asked <=> n - i + 1 \in ranges
  BY <1>2, <1>3, <1>4
<1> HIDE DEF headers
<1>6. CASE q.url \notin DOMAIN Files
  <2>1. resp.code = 404
    BY <1>1, <1>6
  <2> QED
    BY <2>1, <1>6 DEF IsRight, resp
<1>7. CASE q.url \in DOMAIN Files /\ asked = {}
  <2>1. ranges = {}
    <3> SUFFICES ASSUME NEW i \in ranges PROVE FALSE
      OBVIOUS
    <3>1. i \in 1 .. n
      BY <1>2
    <3>2. n - i + 1 \in asked
      BY <1>4, <1>5, <3>1
    <3> QED
      BY <1>7, <3>2
  <2>2. resp = [code |-> 200, length |-> Len(file), body |-> Read(file, 0, Len(file))]
    BY <1>1, <1>7, <2>1
  <2>3. resp.code = 200 /\ resp.body = file
    BY <2>2, <1>7, WholeFile
  <2> QED
    BY <2>3, <1>7 DEF IsRight, resp
<1>8. CASE q.url \in DOMAIN Files /\ asked # {}
  <2> SUFFICES ASSUME NEW i \in asked, \A k \in asked : k <= i
               PROVE  LET v == q.headers[i].value
                          last == IF v.last = Open THEN Len(file) - 1 ELSE v.last
                      IN 0 <= v.first /\ v.first <= last /\ last < Len(file) =>
                           resp.code = 206 /\ resp.body = SubSeq(file, v.first + 1, last + 1)
    BY <1>8 DEF IsRight, resp
  <2> DEFINE v == q.headers[i].value
             last == IF v.last = Open THEN Len(file) - 1 ELSE v.last
  <2> SUFFICES ASSUME 0 <= v.first, v.first <= last, last < Len(file)
               PROVE  resp.code = 206 /\ resp.body = SubSeq(file, v.first + 1, last + 1)
    OBVIOUS
  <2>1. i \in 1 .. n /\ q.headers[i] \in Headers
    BY <1>2, ParsedIsReversed
  <2>2. n - i + 1 \in ranges /\ n - i + 1 \in 1 .. n
    BY <1>4, <1>5, <2>1
  <2>3. \A k \in ranges : n - i + 1 <= k
    <3> TAKE k \in ranges
    <3>1. k \in 1 .. n
      BY <1>2
    <3>2. n - k + 1 \in asked
      BY <1>4, <1>5, <3>1
    <3>3. n - k + 1 <= i
      BY <3>2
    <3> QED
      BY <1>2, <2>1, <3>1, <3>3
  <2>4. first \in ranges /\ \A k \in ranges : first <= k
    BY <2>2, <2>3
  <2> HIDE DEF first
  <2>5. first = n - i + 1
    <3>1. first \in 1 .. n /\ first <= n - i + 1 /\ n - i + 1 <= first
      BY <1>2, <2>2, <2>3, <2>4
    <3> QED
      BY <3>1, <2>2
  <2>6. headers[first] = q.headers[i]
    BY <1>3, <2>1, <2>5
  <2>7. Len(file) \in Nat
    <3>1. file \in Seq(Bytes)
      BY <1>8, HttpAssumption
    <3> QED
      BY <3>1
  <2>8. v.first \in Nat /\ last \in Int
    <3>1. v.first \in Int
      BY <2>1 DEF Headers
    <3> QED
      BY <2>1, <2>7, <3>1 DEF Headers
  <2>9. r.start = v.first /\ r.end = last + 1
    BY <2>6 DEF Parsed
  <2>10. resp = [code |-> 206, length |-> r.end - r.start,
                 body |-> Read(file, r.start, r.end - r.start)]
    <3>1. resp = part
      BY <1>1, <1>8, <2>2
    <3>2. ~(r.end < r.start) /\ Seek(r.start) = r.start
      <4> HIDE DEF r, last
      <4> QED
        BY <2>8, <2>9 DEF Seek
    <3> QED
      BY <3>1, <3>2 DEF part
  <2> HIDE DEF ranges, r, last
  <2>11. Read(file, r.start, r.end - r.start) = SubSeq(file, v.first + 1, last + 1)
    <3>1. Read(file, v.first, last + 1 - v.first) = SubSeq(file, v.first + 1, last + 1)
      BY <1>8, <2>8, PartOfFile
    <3>2. r.end - r.start = last + 1 - v.first
      BY <2>8, <2>9
    <3> QED
      BY <2>9, <3>1, <3>2
  <2> QED
    BY <2>10, <2>11
<1> QED
  BY <1>6, <1>7, <1>8 DEF resp

\* The stages of a connection, the queues of listen() and what the two threads
\* hold keep their types, for any clients, requests and files.
THEOREM HttpTypeCorrect == HttpSpec => []HttpTypeOK
<1>1. HttpInv => HttpTypeOK
  BY DEF HttpInv
<1> QED
  BY HttpInvariant, <1>1, PTL

\* A client that is served, whoever else connects, leaves or stays silent, has
\* got the answer to its own request: 404, the whole file, or, of the last range
\* it asked for, exactly those bytes if 0 <= first <= last < the length of the
\* file.  Of other ranges nothing is claimed: an inverted one is answered with
\* what no client can read (https-server.c:200-202).
THEOREM AnswersAreRight == HttpSpec => []AnswerIsRight
<1>1. HttpInv => AnswerIsRight
  <2> SUFFICES ASSUME HttpInv, NEW c \in Clients, Served(c)
               PROVE  IsRight(client[c].req, client[c].resp)
    BY DEF AnswerIsRight
  <2>1. client[c].req \in Requests /\ client[c].port \in Ports
    BY DEF HttpInv, HttpTypeOK, ClientStates
  <2>2. client[c].resp = get_response(client[c].req, client[c].port) /\ client[c].resp.code # 301
    BY DEF Served, HttpInv, Replied
  <2>3. client[c].port # 80
    <3>1. get_response(client[c].req, 80).code = 301
      BY DEF get_response
    <3> QED
      BY <2>2, <3>1
  <2> QED
    BY <2>1, <2>2, <2>3, RightAnswer
<1> QED
  BY HttpInvariant, <1>1, PTL

\* No connection is lost: a client that waits for an answer is in the queue of
\* the port it went to, once, or the thread of that port is reading from it.
THEOREM ConnectionsAreKept == HttpSpec => [](Expected /\ QueuedOnce)
<1>1. HttpInv => Expected /\ QueuedOnce
  BY DEF HttpInv
<1> QED
  BY HttpInvariant, <1>1, PTL
=============================================================================
