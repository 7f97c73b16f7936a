------------------------------ MODULE StpLanProofs ------------------------------
(***************************************************************************)
(* What holds of the two protocols of the switched LAN: the spanning tree  *)
(* (Stp) first, then the learning switch and the hub (Lan).                *)
(*                                                                         *)
(* The spanning tree, in every topology, whatever the order in which       *)
(* configs are sent, lost and handled.                                     *)
(*                                                                         *)
(* CostIsReal is inductive together with where a config comes from: one on *)
(* a link was offered by the switch that sent it, one that a port holds by *)
(* either end.  NeverWorse needs, besides, that designated ports hold what *)
(* the switch offers now and that the root port holds what this follows    *)
(* from.  LinkIsServed needs what a port knows of the one at the other end *)
(* of its link (LinksOK).                                                  *)
(* That a link changes a distance by one at most, on which all of it       *)
(* rests, is proved of every topology in one piece (DistancesAreSteady).   *)
(*                                                                         *)
(* The switches, whatever the order in which frames are sent, forwarded    *)
(* and aged, and hosts moved: the types in every network, the rest in      *)
(* networks without loops where no two switches are joined.  LanInv says   *)
(* of every copy of a frame which way it goes: no two copies will reach    *)
(* the same jack (ArrivesOnce), and one that a switch has not seen yet     *)
(* came from the side where its sender was, so that an entry is right, or  *)
(* as old as the move of its host (StaleIsBrief).                          *)
(***************************************************************************)
EXTENDS Stp, Lan, FiniteSetTheorems, WellFoundedInduction, TLAPS

(* A config that switch s may have offered. *)
Good(c, s) ==
  /\ c \in Configs /\ c.switch = s
  /\ c.cost >= Distance(s, c.root)
  /\ c.cost = 0 => c.root = s

GoodQueue(q, s) == q \in Seq(Configs) /\ \A i \in 1 .. Len(q) : Good(q[i], s)

WiresOK ==
  /\ DOMAIN wire = Direction /\ wire = [d \in Direction |-> wire[d]]
  /\ \A d \in Direction : GoodQueue(wire[d], d[1])

BeliefOK ==
  /\ designated_root \in [Switch -> Switch]
  /\ root_path_cost \in [Switch -> Nat]
  /\ root_port \in [Switch -> Switch \cup {Nothing}]
  /\ \A s \in Switch : Good(Offer(s), s)

PortsOK ==
  /\ DOMAIN ports = Switch
  /\ \A s \in Switch : ports[s] \in [Port(s) -> Configs]
  /\ \A s \in Switch : \A t \in Port(s) :
       \/ ports[s][t] = Offer(s)
       \/ Good(ports[s][t], t)

RootPortOK ==
  \A s \in Switch :
    \/ /\ root_port[s] = Nothing
       /\ designated_root[s] = s /\ root_path_cost[s] = 0
       /\ \A t \in Port(s) : ports[s][t].switch = s
    \/ /\ root_port[s] \in Port(s)
       /\ LET held == ports[s][root_port[s]]
          IN  /\ held.switch # s
              /\ designated_root[s] = held.root /\ root_path_cost[s] = held.cost + 1

IInv == WiresOK /\ BeliefOK /\ PortsOK /\ RootPortOK
-------------------------------------------------------------------------------
LEMMA PortFacts ==
  ASSUME StpAssumption, NEW s \in Switch, NEW t \in Port(s)
  PROVE  t \in Switch /\ t # s /\ {s, t} \in Link /\ <<t, s>> \in Direction
<1>1. t \in Switch /\ {s, t} \in Link
  BY DEF Port
<1>2. PICK a, b \in Switch : a # b /\ {s, t} = {a, b}
  BY <1>1 DEF StpAssumption
<1>3. t # s
  BY <1>2
<1>4. {t, s} = {s, t}
  OBVIOUS
<1>5. <<t, s>> \in Direction
  BY <1>1, <1>4 DEF Direction
<1> QED
  BY <1>1, <1>3, <1>5

(* A queue stays good when its head is taken and when an offer joins it.   *)
LEMMA TailGood ==
  ASSUME NEW s, NEW q, GoodQueue(q, s), q # << >>
  PROVE  GoodQueue(Tail(q), s) /\ Good(Head(q), s)
<1>1. q \in Seq(Configs)
  BY DEF GoodQueue
<1>2. Tail(q) \in Seq(Configs) /\ Len(Tail(q)) = Len(q) - 1 /\ Len(q) >= 1
  BY <1>1
<1>3. \A i \in 1 .. Len(Tail(q)) : Tail(q)[i] = q[i + 1] /\ i + 1 \in 1 .. Len(q)
  BY <1>1, <1>2
<1>4. \A i \in 1 .. Len(Tail(q)) : Good(Tail(q)[i], s)
  BY <1>3 DEF GoodQueue
<1>5. Head(q) = q[1] /\ 1 \in 1 .. Len(q)
  BY <1>1, <1>2
<1> QED
  BY <1>2, <1>4, <1>5 DEF GoodQueue

LEMMA AppendGood ==
  ASSUME NEW s, NEW q, NEW c, GoodQueue(q, s), Good(c, s)
  PROVE  GoodQueue(Append(q, c), s)
<1>1. q \in Seq(Configs) /\ c \in Configs
  BY DEF GoodQueue, Good
<1>2. Append(q, c) \in Seq(Configs) /\ Len(Append(q, c)) = Len(q) + 1 /\ Len(q) \in Nat
  BY <1>1
<1>3. \A i \in 1 .. Len(Append(q, c)) :
        (i \in 1 .. Len(q) /\ Append(q, c)[i] = q[i]) \/ Append(q, c)[i] = c
  BY <1>1, <1>2
<1>4. \A i \in 1 .. Len(Append(q, c)) : Good(Append(q, c)[i], s)
  BY <1>3 DEF GoodQueue
<1> QED
  BY <1>2, <1>4 DEF GoodQueue

(* WiresOK of a wire in which at most one queue changed. *)
LEMMA WiresStay ==
  ASSUME WiresOK, NEW d \in Direction, NEW q, GoodQueue(q, d[1]),
         wire' = [wire EXCEPT ![d] = q]
  PROVE  WiresOK'
<1>1. DOMAIN wire' = Direction
  BY DEF WiresOK
<1>2. wire' = [e \in Direction |-> wire'[e]]
  BY DEF WiresOK
<1>3. \A e \in Direction : wire'[e] = IF e = d THEN q ELSE wire[e]
  BY DEF WiresOK
<1>4. \A e \in Direction : GoodQueue(wire'[e], e[1])
  BY <1>3 DEF WiresOK
<1> QED
  BY <1>1, <1>2, <1>4 DEF WiresOK

(* The distances of a topology in one piece.  Around(r) is a recursive     *)
(* function: that there is one, and what it is, follow from the least      *)
(* radius for which they might fail.                                       *)
LEMMA LeastNat == ASSUME NEW S \in SUBSET Nat, S # {} PROVE \E m \in S : \A n \in S : m <= n
<1> DEFINE R == {ss \in Nat \X Nat : ss[1] < ss[2]}
<1>1. OpToRel(<, Nat) = R
  BY DEF OpToRel
<1>2. IsWellFoundedOn(R, Nat)
  BY <1>1, NatLessThanWellFounded
<1>3. PICK m \in S : \A n \in S : ~(<<n, m>> \in R)
  BY <1>2, WFMin
<1>4. ASSUME NEW n \in S PROVE m <= n
  <2>1. m \in Nat /\ n \in Nat /\ <<n, m>> \notin R
    BY <1>3
  <2>2. <<n, m>> \in Nat \X Nat /\ <<n, m>>[1] = n /\ <<n, m>>[2] = m
    BY <2>1
  <2> QED
    BY <2>1, <2>2
<1> QED
  BY <1>4

IsBall(f, r, N) == f = [n \in 0 .. N |-> IF n = 0 THEN {r} ELSE Wider(f[n - 1])]

LEMMA BallExists == ASSUME NEW r, NEW N \in Nat PROVE \E f : IsBall(f, r, N)
<1> DEFINE S == {n \in Nat : ~\E f : IsBall(f, r, n)}
<1> SUFFICES ASSUME S # {} PROVE FALSE
  OBVIOUS
<1>1. PICK n \in S : \A m \in S : n <= m
  <2>1. S \in SUBSET Nat
    OBVIOUS
  <2> HIDE DEF S
  <2> QED
    BY <2>1, LeastNat
<1>2. n # 0
  <2> DEFINE f == [i \in 0 .. 0 |-> {r}]
  <2>1. f = [i \in 0 .. 0 |-> IF i = 0 THEN {r} ELSE Wider(f[i - 1])]
    OBVIOUS
  <2>2. IsBall(f, r, 0)
    BY <2>1 DEF IsBall
  <2> QED
    BY <2>2
<1>3. n - 1 \in Nat /\ n - 1 \notin S
  BY <1>1, <1>2
<1>4. PICK g : IsBall(g, r, n - 1)
  BY <1>3
<1> DEFINE f == [i \in 0 .. n |-> IF i = n THEN Wider(g[n - 1]) ELSE g[i]]
<1>5. ASSUME NEW i \in 0 .. n PROVE f[i] = IF i = 0 THEN {r} ELSE Wider(f[i - 1])
  <2>0. \A j \in 0 .. n - 1 : g[j] = IF j = 0 THEN {r} ELSE Wider(g[j - 1])
    <3> HIDE DEF f
    <3> QED
      BY <1>4 DEF IsBall
  <2>1. \A j \in 0 .. n - 1 : f[j] = g[j] /\ g[j] = IF j = 0 THEN {r} ELSE Wider(g[j - 1])
    <3>1. \A j \in 0 .. n - 1 : j \in 0 .. n /\ j # n
      BY <1>3
    <3>2. \A j \in 0 .. n - 1 : f[j] = g[j]
      BY <3>1
    <3> HIDE DEF f
    <3> QED
      BY <2>0, <3>2
  <2>2. CASE i = n
    <3>1. f[i] = Wider(g[n - 1]) /\ f[n - 1] = g[n - 1]
      BY <1>3, <2>1, <2>2
    <3> QED
      BY <1>2, <2>2, <3>1
  <2>3. CASE i # n
    <3>1. i \in 0 .. n - 1 /\ (i # 0 => i - 1 \in 0 .. n - 1)
      BY <1>3, <2>3
    <3> HIDE DEF f
    <3> QED
      BY <2>1, <3>1
  <2> QED
    BY <2>2, <2>3
<1>6. IsBall(f, r, n)
  <2>1. f = [i \in 0 .. n |-> f[i]]
    OBVIOUS
  <2> HIDE DEF f
  <2> QED
    BY <1>5, <2>1 DEF IsBall
<1> QED
  BY <1>1, <1>6

LEMMA AroundIs ==
  ASSUME StpAssumption, NEW r
  PROVE  /\ Cardinality(Switch) \in Nat
         /\ Around(r)[0] = {r}
         /\ \A n \in 1 .. Cardinality(Switch) : Around(r)[n] = Wider(Around(r)[n - 1])
<1> DEFINE N == Cardinality(Switch)
           f == CHOOSE g : IsBall(g, r, N)
<1>1. N \in Nat
  BY FS_CardinalityType DEF StpAssumption
<1>2. IsBall(f, r, N)
  <2> HIDE DEF N
  <2> QED
    BY <1>1, BallExists
<1>3. f = CHOOSE ball : ball = [n \in 0 .. Cardinality(Switch) |->
                                IF n = 0 THEN {r} ELSE Wider(ball[n - 1])]
  BY DEF IsBall
<1>4. Around(r) = f
  BY <1>3 DEF Around
<1>5. \A n \in 0 .. N : Around(r)[n] = IF n = 0 THEN {r} ELSE Wider(Around(r)[n - 1])
  <2> HIDE DEF f, N
  <2>1. \A n \in 0 .. N : f[n] = IF n = 0 THEN {r} ELSE Wider(f[n - 1])
    BY <1>2 DEF IsBall
  <2> QED
    BY <1>4, <2>1
<1> HIDE DEF f, N
<1>6. Around(r)[0] = {r} /\ \A n \in 1 .. N : Around(r)[n] = Wider(Around(r)[n - 1])
  BY <1>1, <1>5
<1> QED
  BY <1>1, <1>6 DEF N

(* One more step reaches one more switch, until all are reached. *)
LEMMA BallGrows ==
  ASSUME StpAssumption, LinksConnect, NEW r \in Switch, NEW n \in 0 .. Cardinality(Switch)
  PROVE  /\ Around(r)[n] \subseteq Switch /\ r \in Around(r)[n]
         /\ Around(r)[n] = Switch \/ Cardinality(Around(r)[n]) >= n + 1
<1> DEFINE N == Cardinality(Switch)
           b == Around(r)
           Grown(k) == /\ b[k] \subseteq Switch /\ r \in b[k]
                       /\ b[k] = Switch \/ Cardinality(b[k]) >= k + 1
           S == {k \in Nat : k <= N /\ ~Grown(k)}
<1>1. N \in Nat /\ b[0] = {r} /\ \A k \in 1 .. N : b[k] = Wider(b[k - 1])
  BY AroundIs
<1> HIDE DEF N, b
<1> SUFFICES ASSUME S # {} PROVE FALSE
  BY <1>1 DEF b, N
<1>2. PICK k \in S : \A m \in S : k <= m
  <2>1. S \in SUBSET Nat
    OBVIOUS
  <2> HIDE DEF S
  <2> QED
    BY <2>1, LeastNat
<1>3. k # 0
  <2>1. Cardinality({r}) = 1
    BY FS_Singleton
  <2>2. Grown(0)
    BY <1>1, <2>1
  <2>3. ~Grown(k)
    BY <1>2
  <2> HIDE DEF Grown
  <2> QED
    BY <2>2, <2>3
<1>4. k - 1 \in Nat /\ k \in 1 .. N /\ k - 1 \notin S /\ ~Grown(k)
  BY <1>1, <1>2, <1>3
<1>5. Grown(k - 1)
  BY <1>1, <1>4
<1> DEFINE A == b[k - 1]
<1>6. b[k] = A \cup {t \in Switch : \E s \in A : {s, t} \in Link}
  BY <1>1, <1>4 DEF Wider
<1>7. A \subseteq Switch /\ r \in A /\ (A = Switch \/ Cardinality(A) >= k)
  BY <1>4, <1>5
<1> HIDE DEF A
<1>8. b[k] \subseteq Switch /\ r \in b[k]
  BY <1>6, <1>7
<1>9. CASE A = Switch
  BY <1>4, <1>6, <1>8, <1>9
<1>10. CASE A # Switch
  <2>1. PICK s \in A, t \in Switch \ A : {s, t} \in Link
    BY <1>7, <1>10 DEF LinksConnect
  <2>2. IsFiniteSet(A) /\ IsFiniteSet(b[k])
    BY <1>7, <1>8, FS_Subset DEF StpAssumption
  <2>3. /\ IsFiniteSet(A \cup {t}) /\ Cardinality(A) \in Nat
        /\ Cardinality(A \cup {t}) = Cardinality(A) + 1
    BY <2>1, <2>2, FS_AddElement, FS_CardinalityType
  <2>4. A \cup {t} \subseteq b[k]
    BY <1>6, <2>1
  <2>5. Cardinality(A \cup {t}) <= Cardinality(b[k]) /\ Cardinality(b[k]) \in Nat
    BY <2>2, <2>4, FS_Subset, FS_CardinalityType
  <2>6. Cardinality(b[k]) >= k + 1
    BY <1>4, <1>7, <1>10, <2>3, <2>5
  <2> QED
    BY <1>4, <1>8, <2>6
<1> QED
  BY <1>9, <1>10

LEMMA BallsNest ==
  ASSUME StpAssumption, NEW r, NEW m \in 0 .. Cardinality(Switch),
         NEW n \in 0 .. Cardinality(Switch), m <= n
  PROVE  Around(r)[m] \subseteq Around(r)[n]
<1> DEFINE N == Cardinality(Switch)
           b == Around(r)
           S == {k \in Nat : m <= k /\ k <= N /\ ~(b[m] \subseteq b[k])}
<1>1. N \in Nat /\ \A k \in 1 .. N : b[k] = Wider(b[k - 1])
  BY AroundIs
<1> HIDE DEF N, b
<1>m. m \in 0 .. N /\ n \in 0 .. N
  BY DEF N
<1> SUFFICES ASSUME S # {} PROVE FALSE
  BY <1>1, <1>m DEF b, N
<1>2. PICK k \in S : \A j \in S : k <= j
  <2>1. S \in SUBSET Nat
    OBVIOUS
  <2> HIDE DEF S
  <2> QED
    BY <2>1, LeastNat
<1>3. k # m
  BY <1>2
<1>4. k - 1 \in Nat /\ k \in 1 .. N /\ k - 1 \notin S /\ m <= k - 1
  BY <1>1, <1>2, <1>3, <1>m
<1>5. b[m] \subseteq b[k - 1]
  BY <1>1, <1>4
<1>6. b[k - 1] \subseteq b[k]
  BY <1>1, <1>4 DEF Wider
<1> QED
  BY <1>2, <1>5, <1>6

LEMMA DistanceIs ==
  ASSUME StpAssumption, LinksConnect, NEW r \in Switch, NEW s \in Switch
  PROVE  /\ Distance(s, r) \in 0 .. Cardinality(Switch) /\ s \in Around(r)[Distance(s, r)]
         /\ Distance(s, r) = 0 \/ s \notin Around(r)[Distance(s, r) - 1]
<1> DEFINE N == Cardinality(Switch)
           b == Around(r)
           S == {n \in 0 .. N : s \in b[n]}
<1>1. N \in Nat
  BY AroundIs
<1>2. b[N] = Switch
  <2>1. b[N] \subseteq Switch /\ (b[N] = Switch \/ Cardinality(b[N]) >= N + 1)
    BY <1>1, BallGrows
  <2>2. Cardinality(b[N]) <= N /\ Cardinality(b[N]) \in Nat
    BY <2>1, FS_Subset, FS_CardinalityType DEF StpAssumption
  <2> HIDE DEF N, b
  <2> QED
    BY <1>1, <2>1, <2>2
<1>3. PICK d \in S : \A n \in S : d <= n
  <2>1. S \in SUBSET Nat /\ N \in S
    <3> HIDE DEF N, b
    <3> QED
      BY <1>1, <1>2
  <2> HIDE DEF S
  <2> QED
    BY <2>1, LeastNat
<1>4. d \in 0 .. N /\ s \in b[d] /\ (d = 0 \/ s \notin b[d - 1])
  <2> HIDE DEF N, b
  <2> QED
    BY <1>1, <1>3
<1>5. \E n \in 0 .. Cardinality(Switch) :
        s \in Around(r)[n] /\ (n = 0 \/ s \notin Around(r)[n - 1])
  BY <1>4
<1> QED
  BY <1>5 DEF Distance

(* In a topology in one piece a link changes a distance by one at most. *)
LEMMA DistancesAreSteady == ASSUME StpAssumption, LinksConnect PROVE DistanceIsSteady
<1> SUFFICES ASSUME NEW r \in Switch
             PROVE  /\ Distance(r, r) = 0
                    /\ \A s \in Switch : Distance(s, r) \in Nat
                    /\ \A s, t \in Switch : {s, t} \in Link =>
                         Distance(s, r) <= Distance(t, r) + 1
  BY DEF DistanceIsSteady
<1> DEFINE N == Cardinality(Switch)
           b == Around(r)
<1>1. N \in Nat /\ b[0] = {r} /\ \A n \in 1 .. N : b[n] = Wider(b[n - 1])
  BY AroundIs
<1> DEFINE At(s, d) == d \in 0 .. N /\ s \in b[d] /\ (d = 0 \/ s \notin b[d - 1])
<1>2. ASSUME NEW s \in Switch PROVE At(s, Distance(s, r))
  BY DistanceIs
<1>3. \A m, n \in 0 .. N : m <= n => b[m] \subseteq b[n]
  BY BallsNest
<1> HIDE DEF N, b
<1>4. Distance(r, r) = 0
  <2> DEFINE d == Distance(r, r)
  <2>1. At(r, d)
    BY <1>2
  <2> HIDE DEF d
  <2>2. d # 0 => b[0] \subseteq b[d - 1]
    BY <1>1, <1>3, <2>1
  <2>3. d = 0
    BY <1>1, <2>1, <2>2
  <2> QED
    BY <2>3 DEF d
<1>5. ASSUME NEW s \in Switch PROVE Distance(s, r) \in Nat
  <2>1. At(s, Distance(s, r))
    BY <1>2
  <2> QED
    BY <1>1, <2>1
<1>6. ASSUME NEW s \in Switch, NEW t \in Switch, {s, t} \in Link
      PROVE  Distance(s, r) <= Distance(t, r) + 1
  <2> DEFINE d == Distance(s, r)
             e == Distance(t, r)
  <2>1. At(s, d) /\ At(t, e)
    <3> HIDE DEF At
    <3> QED
      BY <1>2
  <2> HIDE DEF d, e
  <2> SUFFICES ASSUME d > e + 1 PROVE FALSE
    <3>1. ~(d > e + 1) => d <= e + 1
      BY <1>1, <2>1
    <3> QED
      BY <3>1 DEF d, e
  <2>2. e + 1 \in 1 .. N /\ (e + 1) - 1 = e /\ d - 1 \in 0 .. N /\ e + 1 \in 0 .. N /\ e + 1 <= d - 1
    BY <1>1, <2>1
  <2>3. b[e + 1] = Wider(b[e])
    BY <1>1, <2>2
  <2>4. {t, s} = {s, t}
    OBVIOUS
  <2>5. s \in b[e + 1]
    BY <1>6, <2>1, <2>3, <2>4 DEF Wider
  <2>6. b[e + 1] \subseteq b[d - 1]
    BY <1>3, <2>2
  <2> QED
    BY <2>1, <2>2, <2>5, <2>6
<1> QED
  BY <1>4, <1>5, <1>6

LEMMA InitIInv == ASSUME StpAssumption, DistanceIsSteady, Init PROVE IInv
<1>1. \A s \in Switch : Offer(s) = Config(s, 0, s)
  BY DEF Init, Offer
<1>2. \A s \in Switch : Good(Config(s, 0, s), s)
  BY DEF Good, Config, Configs, DistanceIsSteady
<1>3. BeliefOK
  BY <1>1, <1>2, Zenon DEF Init, BeliefOK, StpAssumption
<1>4. PortsOK
  <2>1. DOMAIN ports = Switch
    BY DEF Init
  <2>2. \A s \in Switch : \A t \in Port(s) : ports[s][t] = Config(s, 0, s)
    BY DEF Init
  <2>3. \A s \in Switch : Config(s, 0, s) \in Configs
    BY <1>2 DEF Good
  <2>4. \A s \in Switch : ports[s] \in [Port(s) -> Configs]
    BY <2>3 DEF Init
  <2> QED
    BY <2>1, <2>2, <2>4, <1>1 DEF PortsOK
<1>5. RootPortOK
  BY DEF Init, RootPortOK, Config
<1>6. WiresOK
  <2>1. \A s : GoodQueue(<< >>, s)
    BY DEF GoodQueue
  <2> QED
    BY <2>1 DEF Init, WiresOK
<1> QED
  BY <1>3, <1>4, <1>5, <1>6 DEF IInv
-------------------------------------------------------------------------------
(* Configs in order. *)
LEMMA HigherOrder ==
  ASSUME StpAssumption, NEW a \in Configs, NEW b \in Configs, NEW c \in Configs
  PROVE  /\ Higher(a, b) => ~Higher(b, a)
         /\ ~Higher(a, a)
         /\ Higher(a, b) /\ Higher(b, c) => Higher(a, c)
         /\ ~Higher(a, b) /\ ~Higher(b, c) => ~Higher(a, c)
<1>1. /\ a.root \in Nat /\ a.cost \in Nat /\ a.switch \in Nat
      /\ b.root \in Nat /\ b.cost \in Nat /\ b.switch \in Nat
      /\ c.root \in Nat /\ c.cost \in Nat /\ c.switch \in Nat
  BY DEF Configs, StpAssumption
<1> QED
  BY <1>1 DEF Higher

(* An offer that follows from a config comes after it, and offers are in   *)
(* the order of the configs that they follow from.                         *)
LEMMA OfferOrder ==
  ASSUME StpAssumption, NEW s \in Switch, NEW a \in Configs, NEW b \in Configs
  PROVE  /\ ~Higher(Config(a.root, a.cost + 1, s), a)
         /\ Higher(Config(a.root, a.cost + 1, s), Config(b.root, b.cost + 1, s))
              => Higher(a, b)
<1>1. /\ a.root \in Nat /\ a.cost \in Nat /\ b.root \in Nat /\ b.cost \in Nat /\ s \in Nat
  BY DEF Configs, StpAssumption
<1> QED
  BY <1>1 DEF Higher, Config

LEMMA PortKinds ==
  ASSUME StpAssumption, IInv, NEW s \in Switch, NEW t \in Port(s)
  PROVE  /\ ports[s][t] \in Configs
         /\ ports[s][t].switch = s => ports[s][t] = Offer(s)
         /\ ports[s][t].switch # s => Good(ports[s][t], t)
<1>1. ports[s][t] = Offer(s) \/ Good(ports[s][t], t)
  BY DEF IInv, PortsOK
<1>2. t # s
  BY PortFacts
<1>3. Offer(s).switch = s /\ Offer(s) \in Configs
  BY DEF IInv, BeliefOK, Good
<1> QED
  BY <1>1, <1>2, <1>3 DEF Good
-------------------------------------------------------------------------------
LEMMA HelloKeeps ==
  ASSUME StpAssumption, IInv, NEW s \in Switch, Hello(s)
  PROVE  WiresOK'
<1>1. Good(Offer(s), s)
  BY DEF IInv, BeliefOK
<1>2. DOMAIN wire' = Direction /\ wire' = [d \in Direction |-> wire'[d]]
  BY DEF Hello
<1>3. ASSUME NEW d \in Direction PROVE GoodQueue(wire'[d], d[1])
  <2>1. GoodQueue(wire[d], d[1])
    BY DEF IInv, WiresOK
  <2>2. wire'[d] = wire[d] \/ (d[1] = s /\ wire'[d] = Append(wire[d], Offer(s)))
    BY DEF Hello
  <2>3. d[1] = s => GoodQueue(Append(wire[d], Offer(s)), s)
    BY <2>1, <1>1, AppendGood
  <2> QED
    BY <2>1, <2>2, <2>3
<1> QED
  BY <1>2, <1>3 DEF WiresOK

(* The head of a queue leaves it. *)
LEMMA TakenKeeps ==
  ASSUME StpAssumption, IInv, NEW s \in Switch, NEW p \in Port(s), wire[<<p, s>>] # << >>,
         wire' = [wire EXCEPT ![<<p, s>>] = Tail(@)]
  PROVE  WiresOK'
<1>1. <<p, s>> \in Direction /\ <<p, s>>[1] = p
  BY PortFacts
<1>2. GoodQueue(wire[<<p, s>>], p)
  BY <1>1 DEF IInv, WiresOK
<1>3. GoodQueue(Tail(wire[<<p, s>>]), p)
  BY <1>2, TailGood
<1>4. wire' = [wire EXCEPT ![<<p, s>>] = Tail(wire[<<p, s>>])]
  OBVIOUS
<1> QED
  BY <1>1, <1>3, <1>4, WiresStay DEF IInv

LEMMA LocalHigherKeeps ==
  ASSUME StpAssumption, IInv, NEW s \in Switch, NEW p \in Port(s), NEW c,
         wire[<<p, s>>] # << >>, LocalHigher(s, p, c)
  PROVE  WiresOK'
<1> DEFINE taken == [wire EXCEPT ![<<p, s>>] = Tail(@)]
<1>1. <<p, s>> \in Direction /\ <<p, s>>[1] = p
  BY PortFacts
<1>2. {s, p} = {p, s} /\ <<s, p>> \in Direction /\ <<s, p>>[1] = s /\ p \in Switch
  BY PortFacts DEF Direction
<1>3. DOMAIN wire = Direction /\ GoodQueue(wire[<<p, s>>], p)
  BY <1>1 DEF IInv, WiresOK
<1>4. DOMAIN taken = Direction /\ taken = [d \in Direction |-> taken[d]]
  BY <1>3
<1>5. ASSUME NEW d \in Direction PROVE GoodQueue(taken[d], d[1])
  <2>1. CASE d = <<p, s>>
    <3>1. taken[d] = Tail(wire[<<p, s>>])
      BY <2>1, <1>1, <1>3
    <3> QED
      BY <3>1, <2>1, <1>1, <1>3, TailGood
  <2>2. CASE d # <<p, s>>
    <3>1. taken[d] = wire[d]
      BY <2>2, <1>3
    <3> QED
      BY <3>1 DEF IInv, WiresOK
  <2> QED
    BY <2>1, <2>2
<1>6. wire' = taken \/ wire' = Queued(taken, <<s, p>>, Offer(s))
  BY DEF LocalHigher
<1> HIDE DEF taken
<1>7. Good(Offer(s), s)
  BY DEF IInv, BeliefOK
<1>8. wire' = taken \/ wire' = [taken EXCEPT ![<<s, p>>] = Append(taken[<<s, p>>], Offer(s))]
  BY <1>6 DEF Queued
<1>9. DOMAIN wire' = Direction /\ wire' = [d \in Direction |-> wire'[d]]
  BY <1>8, <1>4
<1>10. ASSUME NEW d \in Direction PROVE GoodQueue(wire'[d], d[1])
  <2>1. \/ wire'[d] = taken[d]
        \/ d = <<s, p>> /\ wire'[d] = Append(taken[d], Offer(s))
    BY <1>8, <1>4
  <2>2. d = <<s, p>> => GoodQueue(Append(taken[d], Offer(s)), s)
    BY <1>2, <1>5, <1>7, AppendGood
  <2> QED
    BY <2>1, <2>2, <1>2, <1>5
<1> QED
  BY <1>9, <1>10 DEF WiresOK
-------------------------------------------------------------------------------
(* A better config arrives: what the switch believes follows from the best *)
(* candidate, and everything that is known of it.                          *)
LEMMA NeighborHigherKeeps ==
  ASSUME StpAssumption, DistanceIsSteady, IInv, NEW s \in Switch, NEW p \in Port(s), NEW c,
         Good(c, p), NeighborHigher(s, p, c)
  PROVE  /\ BeliefOK' /\ PortsOK' /\ RootPortOK'
         /\ ~Higher(Offer(s), Offer(s)')
         /\ \A t \in Port(s) : ~Higher(ports[s][t], ports'[s][t])
         /\ \A u \in Switch : u # s => Offer(u)' = Offer(u) /\ ports'[u] = ports[u]
<1> DEFINE held == [ports[s] EXCEPT ![p] = c]
<1>held. /\ held \in [Port(s) -> Configs]
         /\ held[p] = c /\ \A t \in Port(s) : t # p => held[t] = ports[s][t]
  BY DEF IInv, PortsOK, Good
<1>step. PICK r \in Candidates(s, p, held) :
           /\ IsBest(r, Candidates(s, p, held), held)
           /\ root_port' = [root_port EXCEPT ![s] = r]
           /\ designated_root' = [designated_root EXCEPT ![s] = held[r].root]
           /\ root_path_cost' = [root_path_cost EXCEPT ![s] = PathCost(held[r])]
           /\ ports' = [ports EXCEPT ![s] =
                Updated(s, p, held, Config(held[r].root, PathCost(held[r]), s))]
  BY DEF NeighborHigher
<1>better. Higher(c, ports[s][p])
  BY DEF NeighborHigher
<1> HIDE DEF held
<1>p. p \in Switch /\ p # s
  BY PortFacts
<1>c. c \in Configs /\ c.switch = p
  BY DEF Good
<1>kinds. ASSUME NEW t \in Port(s) PROVE held[t] = Offer(s) \/ Good(held[t], t)
  BY <1>held DEF IInv, PortsOK
<1>r. /\ r \in Port(s) /\ r \in Switch /\ r # s /\ {s, r} \in Link
      /\ Good(held[r], r)
      /\ held[r] \in Configs /\ held[r].switch = r
  <2>1. r \in Port(s) /\ (r = p \/ held[r].switch # s)
    BY <1>step DEF Candidates
  <2>2. Offer(s).switch = s
    BY DEF Offer, Config
  <2>3. Good(held[r], r)
    BY <2>1, <2>2, <1>kinds, <1>held
  <2> QED
    BY <2>1, <2>3, PortFacts DEF Good
<1>nat. /\ held[r].root \in Switch /\ held[r].cost \in Nat
        /\ held[r].root \in Nat /\ s \in Nat
  BY <1>r DEF Configs, StpAssumption
<1> DEFINE offer == Config(held[r].root, held[r].cost + 1, s)
<1>offer. Good(offer, s)
  <2>1. /\ Distance(s, held[r].root) <= Distance(r, held[r].root) + 1
        /\ Distance(s, held[r].root) \in Nat /\ Distance(r, held[r].root) \in Nat
    BY <1>r, <1>nat DEF DistanceIsSteady
  <2>2. held[r].cost >= Distance(r, held[r].root)
    BY <1>r DEF Good
  <2>3. held[r].cost + 1 >= Distance(s, held[r].root) /\ held[r].cost + 1 # 0
        /\ held[r].cost + 1 \in Nat
    BY <2>1, <2>2, <1>nat
  <2>4. /\ offer.root = held[r].root /\ offer.cost = held[r].cost + 1 /\ offer.switch = s
        /\ offer \in Configs
    BY <2>3, <1>nat DEF Config, Configs
  <2> QED
    BY <2>3, <2>4 DEF Good
<1>new. /\ root_port'[s] = r /\ designated_root'[s] = held[r].root
        /\ root_path_cost'[s] = held[r].cost + 1
        /\ ports'[s] = Updated(s, p, held, offer)
        /\ Offer(s)' = offer
  <2>1. /\ s \in DOMAIN root_port /\ s \in DOMAIN designated_root
        /\ s \in DOMAIN root_path_cost /\ s \in DOMAIN ports
    BY DEF IInv, BeliefOK, PortsOK
  <2>2. root_port'[s] = r /\ designated_root'[s] = held[r].root
    BY <2>1, <1>step
  <2>3. root_path_cost'[s] = held[r].cost + 1
    BY <2>1, <1>step DEF PathCost
  <2>4. ports'[s] = Updated(s, p, held, offer)
    BY <2>1, <1>step DEF PathCost
  <2> QED
    BY <2>2, <2>3, <2>4 DEF Offer
<1>others. ASSUME NEW u \in Switch, u # s
           PROVE  /\ root_port'[u] = root_port[u] /\ designated_root'[u] = designated_root[u]
                  /\ root_path_cost'[u] = root_path_cost[u] /\ ports'[u] = ports[u]
                  /\ Offer(u)' = Offer(u)
  <2>1. /\ root_port'[u] = root_port[u] /\ designated_root'[u] = designated_root[u]
        /\ root_path_cost'[u] = root_path_cost[u] /\ ports'[u] = ports[u]
    BY <1>others, <1>step DEF IInv, BeliefOK, PortsOK
  <2> QED
    BY <2>1 DEF Offer
<1> HIDE DEF offer
<1>upd. ASSUME NEW t \in Port(s)
        PROVE  /\ ports'[s][t] = offer \/ ports'[s][t] = held[t]
               /\ held[t].switch # s /\ ~(t = p /\ Higher(offer, held[p]))
                    => ports'[s][t] = held[t]
               /\ ports'[s][t] # held[t] =>
                    held[t].switch = s \/ (t = p /\ Higher(offer, held[p]))
               /\ ports'[s][t] = IF held[t].switch = s \/ (t = p /\ Higher(offer, held[p]))
                                 THEN offer ELSE held[t]
  BY <1>new DEF Updated
<1>belief. BeliefOK'
  <2>1. designated_root' \in [Switch -> Switch]
    BY <1>step, <1>nat DEF IInv, BeliefOK
  <2>2. PathCost(held[r]) \in Nat
    BY <1>nat DEF PathCost
  <2>3. root_path_cost' \in [Switch -> Nat]
    BY <1>step, <2>2 DEF IInv, BeliefOK
  <2>4. root_port' \in [Switch -> Switch \cup {Nothing}]
    BY <1>step, <1>r DEF IInv, BeliefOK
  <2>5. \A u \in Switch : Good(Offer(u)', u)
    BY <1>others, <1>new, <1>offer DEF IInv, BeliefOK
  <2> QED
    BY <2>1, <2>3, <2>4, <2>5 DEF BeliefOK, Good, Offer
<1>ports. PortsOK'
  <2>1. DOMAIN ports' = Switch
    BY <1>step DEF IInv, PortsOK
  <2>2. offer \in Configs /\ offer.switch = s
    BY <1>offer DEF Good
  <2>3. ports'[s] \in [Port(s) -> Configs]
    <3>1. \A t \in Port(s) : held[t] \in Configs
      BY <1>held
    <3> QED
      BY <3>1, <2>2, <1>new DEF Updated
  <2>4. \A u \in Switch : ports'[u] \in [Port(u) -> Configs]
    BY <2>3, <1>others DEF IInv, PortsOK
  <2>5. ASSUME NEW t \in Port(s) PROVE ports'[s][t] = offer \/ Good(ports'[s][t], t)
    <3>1. held[t] = Offer(s) => held[t].switch = s
      BY DEF Offer, Config
    <3> QED
      BY <3>1, <1>upd, <1>kinds
  <2>6. \A u \in Switch : \A t \in Port(u) :
          ports'[u][t] = Offer(u)' \/ Good(ports'[u][t], t)
    BY <2>5, <1>new, <1>others DEF IInv, PortsOK
  <2> QED
    BY <2>1, <2>4, <2>6 DEF PortsOK, Good, Offer
<1>rp. RootPortOK'
  <2>1. ports'[s][r] = held[r]
    <3>1. ~Higher(offer, held[r])
      BY <1>r, OfferOrder DEF offer
    <3> QED
      BY <3>1, <1>upd, <1>r
  <2>2. ASSUME NEW u \in Switch, u # s
        PROVE  \/ /\ root_port'[u] = Nothing
                  /\ designated_root'[u] = u /\ root_path_cost'[u] = 0
                  /\ \A t \in Port(u) : ports'[u][t].switch = u
               \/ /\ root_port'[u] \in Port(u)
                  /\ ports'[u][root_port'[u]].switch # u
                  /\ designated_root'[u] = ports'[u][root_port'[u]].root
                  /\ root_path_cost'[u] = ports'[u][root_port'[u]].cost + 1
    BY <2>2, <1>others DEF IInv, RootPortOK
  <2>3. /\ root_port'[s] \in Port(s) /\ ports'[s][root_port'[s]].switch # s
        /\ designated_root'[s] = ports'[s][root_port'[s]].root
        /\ root_path_cost'[s] = ports'[s][root_port'[s]].cost + 1
    BY <2>1, <1>new, <1>r
  <2> QED
    BY <2>2, <2>3 DEF RootPortOK
<1>believes. ~Higher(Offer(s), offer)
  <2>1. CASE root_port[s] = Nothing /\ \A t \in Port(s) : ports[s][t].switch = s
    <3>1. designated_root[s] = s /\ root_path_cost[s] = 0
      <4>1. root_port[s] \notin Port(s)
        BY <2>1 DEF Nothing, Port, StpAssumption
      <4> QED
        BY <4>1 DEF IInv, RootPortOK
    <3>2. r = p
      BY <1>step, <1>held, <2>1 DEF Candidates
    <3>3. ports[s][p].root = s /\ ports[s][p].cost = 0
      <4>1. ports[s][p] = Offer(s)
        BY <2>1, PortKinds
      <4> QED
        BY <4>1, <3>1 DEF Offer, Config
    <3>4. c.root \in Nat /\ c.cost \in Nat /\ (c.root < s \/ (c.root = s /\ c.cost = 0))
      <4>1. c.root \in Nat /\ c.cost \in Nat
        BY <1>c DEF Configs, StpAssumption
      <4> QED
        BY <4>1, <1>better, <3>3, <1>nat DEF Higher
    <3>5. c.root # s \/ c.cost # 0
      BY <1>p DEF Good
    <3>6. c.root < s
      BY <3>4, <3>5
    <3> QED
      BY <3>1, <3>2, <3>6, <1>held, <1>nat DEF Higher, Offer, Config, offer
  <2>2. CASE root_port[s] \in Port(s) /\ ports[s][root_port[s]].switch # s
    <3> DEFINE r0 == root_port[s]
    <3>1. /\ designated_root[s] = ports[s][r0].root
          /\ root_path_cost[s] = ports[s][r0].cost + 1
      <4>1. r0 # Nothing
        BY <2>2 DEF Nothing, Port, StpAssumption
      <4> QED
        BY <4>1 DEF IInv, RootPortOK
    <3>2. ports[s][r0] \in Configs /\ held[r0] \in Configs
      BY <2>2, PortKinds, <1>held
    <3>3. ~Higher(ports[s][r0], held[r0])
      BY <3>2, <1>better, <1>c, <1>held, <2>2, HigherOrder
    <3>4. held[r0].switch # s
      BY <1>held, <1>c, <1>p, <2>2
    <3>5. ~Higher(held[r0], held[r])
      <4>1. r0 \in Candidates(s, p, held)
        BY <3>4, <2>2 DEF Candidates
      <4> QED
        BY <4>1, <1>step, <3>2, HigherOrder DEF IsBest
    <3>6. ~Higher(ports[s][r0], held[r])
      BY <3>2, <3>3, <3>5, <1>r, HigherOrder
    <3>7. Offer(s) = Config(ports[s][r0].root, ports[s][r0].cost + 1, s)
      BY <3>1 DEF Offer
    <3> QED
      BY <3>2, <3>6, <3>7, <1>r, OfferOrder DEF offer
  <2> QED
    BY <2>1, <2>2 DEF IInv, RootPortOK
<1>holds. ASSUME NEW t \in Port(s) PROVE ~Higher(ports[s][t], ports'[s][t])
  <2>0. /\ ports[s][t] \in Configs /\ held[t] \in Configs /\ offer \in Configs
        /\ ports[s][p] \in Configs
    BY PortKinds, <1>held, <1>offer DEF Good
  <2>1. ~Higher(ports[s][t], held[t])
    BY <2>0, <1>better, <1>held, HigherOrder
  <2>2. CASE held[t].switch = s
    <3>1. t # p /\ ports[s][t] = Offer(s)
      BY <2>2, <1>held, <1>c, <1>p, PortKinds
    <3> QED
      BY <3>1, <2>1, <1>believes, <1>upd
  <2>3. CASE t = p /\ Higher(offer, held[p])
    <3>1. Higher(offer, ports[s][p])
      BY <2>3, <2>0, <1>better, <1>held, HigherOrder
    <3> QED
      BY <3>1, <2>0, <2>1, <2>3, <1>upd, HigherOrder
  <2>4. CASE held[t].switch # s /\ ~(t = p /\ Higher(offer, held[p]))
    BY <2>4, <2>1, <1>upd
  <2> QED
    BY <2>2, <2>3, <2>4
<1> QED
  BY <1>belief, <1>ports, <1>rp, <1>believes, <1>holds, <1>others, <1>new
-------------------------------------------------------------------------------
(* What a step does to the beliefs: all of it, or nothing at all. *)
Steady == UNCHANGED <<designated_root, root_path_cost, root_port, ports>>

Improved ==
  /\ \A s \in Switch :
       ~Higher(Config(designated_root[s], root_path_cost[s], s),
               Config(designated_root'[s], root_path_cost'[s], s))
  /\ \A s \in Switch : \A t \in Port(s) : ~Higher(ports[s][t], ports'[s][t])

LEMMA SteadyKeeps ==
  ASSUME StpAssumption, IInv, Steady
  PROVE  BeliefOK' /\ PortsOK' /\ RootPortOK' /\ Improved
<1>1. \A s \in Switch : Offer(s)' = Offer(s)
  BY DEF Steady, Offer
<1>2. BeliefOK' /\ PortsOK' /\ RootPortOK'
  BY DEF IInv, Steady, BeliefOK, PortsOK, RootPortOK, Offer
<1>3. \A s \in Switch : Offer(s) \in Configs
  BY DEF IInv, BeliefOK, Good
<1>4. \A s \in Switch : ~Higher(Offer(s), Offer(s))
  BY <1>3, HigherOrder
<1>5. \A s \in Switch : \A t \in Port(s) : ~Higher(ports[s][t], ports[s][t])
  BY PortKinds, HigherOrder
<1> QED
  BY <1>2, <1>4, <1>5 DEF Improved, Steady, Offer

LEMMA StepKeeps ==
  ASSUME StpAssumption, DistanceIsSteady, IInv, [Next]_vars
  PROVE  IInv' /\ Improved
<1>1. ASSUME NEW s \in Switch, Hello(s) PROVE IInv' /\ Improved
  <2>1. Steady
    BY <1>1 DEF Hello, Steady
  <2> QED
    BY <1>1, <2>1, HelloKeeps, SteadyKeeps DEF IInv
<1>2. ASSUME NEW s \in Switch, NEW p \in Port(s), Handle(s, p) PROVE IInv' /\ Improved
  <2> DEFINE c == Head(wire[<<p, s>>])
  <2>1. wire[<<p, s>>] # << >>
    BY <1>2 DEF Handle
  <2>2. Good(c, p)
    <3>1. <<p, s>> \in Direction /\ <<p, s>>[1] = p
      BY PortFacts
    <3> QED
      BY <3>1, <2>1, TailGood DEF IInv, WiresOK
  <2>3. SameConfig(s, p, c) \/ LocalHigher(s, p, c) \/ NeighborHigher(s, p, c)
    BY <1>2 DEF Handle
  <2> HIDE DEF c
  <2>4. CASE SameConfig(s, p, c)
    <3>1. Steady /\ wire' = [wire EXCEPT ![<<p, s>>] = Tail(@)]
      BY <2>4 DEF SameConfig, Steady
    <3> QED
      BY <3>1, <2>1, TakenKeeps, SteadyKeeps DEF IInv
  <2>5. CASE LocalHigher(s, p, c)
    <3>1. Steady
      BY <2>5 DEF LocalHigher, Steady
    <3> QED
      BY <3>1, <2>1, <2>5, LocalHigherKeeps, SteadyKeeps DEF IInv
  <2>6. CASE NeighborHigher(s, p, c)
    <3>1. wire' = [wire EXCEPT ![<<p, s>>] = Tail(@)]
      BY <2>6 DEF NeighborHigher
    <3>2. WiresOK'
      BY <3>1, <2>1, TakenKeeps
    <3>3. /\ BeliefOK' /\ PortsOK' /\ RootPortOK'
          /\ ~Higher(Offer(s), Offer(s)')
          /\ \A t \in Port(s) : ~Higher(ports[s][t], ports'[s][t])
          /\ \A u \in Switch : u # s => Offer(u)' = Offer(u) /\ ports'[u] = ports[u]
      BY <2>2, <2>6, NeighborHigherKeeps
    <3>4. ASSUME NEW u \in Switch PROVE ~Higher(Offer(u), Offer(u)')
      <4>1. Offer(u) \in Configs
        BY DEF IInv, BeliefOK, Good
      <4> QED
        BY <4>1, <3>3, HigherOrder
    <3>5. ASSUME NEW u \in Switch, NEW t \in Port(u)
          PROVE  ~Higher(ports[u][t], ports'[u][t])
      <4>1. ports[u][t] \in Configs
        BY PortKinds
      <4> QED
        BY <4>1, <3>3, HigherOrder
    <3>6. Improved
      BY <3>4, <3>5 DEF Improved, Offer
    <3> QED
      BY <3>2, <3>3, <3>6 DEF IInv
  <2> QED
    BY <2>3, <2>4, <2>5, <2>6
<1>3. ASSUME UNCHANGED vars PROVE IInv' /\ Improved
  <2>1. Steady /\ wire' = wire
    BY <1>3 DEF vars, Steady
  <2>2. WiresOK'
    BY <2>1 DEF IInv, WiresOK
  <2> QED
    BY <2>1, <2>2, SteadyKeeps DEF IInv
<1> QED
  BY <1>1, <1>2, <1>3 DEF Next

LEMMA Inductive == ASSUME StpAssumption, LinksConnect PROVE Spec => []IInv
<1>1. Init => IInv
  BY InitIInv, DistancesAreSteady
<1>2. IInv /\ [Next]_vars => IInv'
  BY StepKeeps, DistancesAreSteady
<1> QED
  BY <1>1, <1>2, PTL DEF Spec
-------------------------------------------------------------------------------
(* The two ends of a link, and what is under way from t (which holds       *)
(* "theirs") to s (which holds "mine").  A switch sends what its own port  *)
(* holds, which only gets better: so configs on a link come in order, no   *)
(* better than what their sender holds by now, and an end that gave in to  *)
(* the other one has not heard anything worse since.                       *)
Crossed(q, mine, theirs, s) ==
  /\ \A i \in 1 .. Len(q) : ~Higher(q[i], theirs)
  /\ \A i, j \in 1 .. Len(q) : i < j => ~Higher(q[i], q[j])
  /\ mine.switch # s => /\ ~Higher(mine, theirs)
                        /\ \A i \in 1 .. Len(q) : ~Higher(mine, q[i])

LinksOK ==
  \A s \in Switch : \A t \in Port(s) :
    Crossed(wire[<<t, s>>], ports[s][t], ports[t][s], s)

LEMMA CrossedTail ==
  ASSUME NEW s, NEW q \in Seq(Configs), q # << >>, NEW mine, NEW theirs,
         Crossed(q, mine, theirs, s)
  PROVE  Crossed(Tail(q), mine, theirs, s) /\ Crossed(Tail(q), Head(q), theirs, s)
<1>1. Tail(q) \in Seq(Configs) /\ Len(Tail(q)) = Len(q) - 1 /\ Len(q) \in Nat \ {0}
  OBVIOUS
<1>2. \A i \in 1 .. Len(Tail(q)) : Tail(q)[i] = q[i + 1] /\ i + 1 \in 1 .. Len(q)
  BY <1>1
<1>3. Head(q) = q[1] /\ 1 \in 1 .. Len(q)
  BY <1>1
<1>4. \A i \in 1 .. Len(Tail(q)) : ~Higher(Tail(q)[i], theirs)
  BY <1>2 DEF Crossed
<1>5. \A i, j \in 1 .. Len(Tail(q)) : i < j => ~Higher(Tail(q)[i], Tail(q)[j])
  <2>1. TAKE i, j \in 1 .. Len(Tail(q))
  <2>2. i < j => i + 1 < j + 1
    BY <1>1
  <2> QED
    BY <2>2, <1>2 DEF Crossed
<1>6. \A i \in 1 .. Len(Tail(q)) : ~Higher(Head(q), Tail(q)[i])
  <2>1. TAKE i \in 1 .. Len(Tail(q))
  <2>2. 1 < i + 1
    BY <1>1
  <2> QED
    BY <2>2, <1>2, <1>3 DEF Crossed
<1>7. ~Higher(Head(q), theirs)
  BY <1>3 DEF Crossed
<1>8. mine.switch # s => \A i \in 1 .. Len(Tail(q)) : ~Higher(mine, Tail(q)[i])
  BY <1>2 DEF Crossed
<1> QED
  BY <1>4, <1>5, <1>6, <1>7, <1>8 DEF Crossed

LEMMA CrossedAppend ==
  ASSUME StpAssumption, NEW s, NEW q \in Seq(Configs), NEW mine, NEW theirs \in Configs,
         Crossed(q, mine, theirs, s)
  PROVE  Crossed(Append(q, theirs), mine, theirs, s)
<1> DEFINE r == Append(q, theirs)
<1>1. r \in Seq(Configs) /\ Len(r) = Len(q) + 1 /\ Len(q) \in Nat
  OBVIOUS
<1>2. \A i \in 1 .. Len(r) :
        (i \in 1 .. Len(q) /\ r[i] = q[i]) \/ (i = Len(r) /\ r[i] = theirs)
  BY <1>1
<1> HIDE DEF r
<1>3. ~Higher(theirs, theirs)
  BY HigherOrder
<1>4. \A i \in 1 .. Len(r) : ~Higher(r[i], theirs)
  BY <1>2, <1>3 DEF Crossed
<1>5. \A i, j \in 1 .. Len(r) : i < j => ~Higher(r[i], r[j])
  <2>1. TAKE i, j \in 1 .. Len(r)
  <2>2. HAVE i < j
  <2>3. i \in 1 .. Len(q) /\ r[i] = q[i]
    BY <2>2, <1>1, <1>2
  <2> QED
    BY <2>2, <2>3, <1>2, <1>4 DEF Crossed
<1>6. mine.switch # s => \A i \in 1 .. Len(r) : ~Higher(mine, r[i])
  BY <1>2 DEF Crossed
<1> QED
  BY <1>4, <1>5, <1>6 DEF Crossed, r

(* The far end gets better. *)
LEMMA CrossedBetter ==
  ASSUME StpAssumption, NEW s, NEW q \in Seq(Configs), NEW mine \in Configs,
         NEW theirs \in Configs, NEW better \in Configs,
         Crossed(q, mine, theirs, s), ~Higher(theirs, better)
  PROVE  Crossed(q, mine, better, s)
<1>1. \A i \in 1 .. Len(q) : q[i] \in Configs
  OBVIOUS
<1>2. \A i \in 1 .. Len(q) : ~Higher(q[i], better)
  BY <1>1, HigherOrder DEF Crossed
<1>3. mine.switch # s => ~Higher(mine, better)
  BY HigherOrder DEF Crossed
<1> QED
  BY <1>2, <1>3 DEF Crossed

LEMMA LinkFacts ==
  ASSUME StpAssumption, IInv, LinksOK, NEW s \in Switch, NEW t \in Port(s)
  PROVE  /\ Crossed(wire[<<t, s>>], ports[s][t], ports[t][s], s)
         /\ wire[<<t, s>>] \in Seq(Configs)
         /\ ports[s][t] \in Configs /\ ports[t][s] \in Configs
         /\ t \in Switch /\ t # s /\ s \in Port(t)
         /\ <<t, s>> \in Direction /\ <<s, t>> \in Direction
<1>1. t \in Switch /\ t # s /\ {s, t} \in Link /\ <<t, s>> \in Direction
  BY PortFacts
<1>2. {t, s} = {s, t}
  OBVIOUS
<1>3. s \in Port(t) /\ <<s, t>> \in Direction
  BY <1>1, <1>2 DEF Port, Direction
<1>4. ports[s][t] \in Configs /\ ports[t][s] \in Configs
  BY <1>1, <1>3, PortKinds
<1>5. wire[<<t, s>>] \in Seq(Configs)
  BY <1>1 DEF IInv, WiresOK, GoodQueue
<1> QED
  BY <1>1, <1>3, <1>4, <1>5 DEF LinksOK

(* What a designated port sends is what it holds. *)
LEMMA SentIsHeld ==
  ASSUME StpAssumption, IInv, LinksOK, NEW s \in Switch, NEW t \in Port(s),
         IsDesignated(s, t)
  PROVE  /\ ports[s][t] = Offer(s)
         /\ Crossed(Append(wire[<<s, t>>], Offer(s)), ports[t][s], ports[s][t], t)
<1>1. ports[s][t] = Offer(s)
  BY PortKinds DEF IsDesignated
<1>2. t \in Switch /\ s \in Port(t)
  BY LinkFacts
<1>3. /\ Crossed(wire[<<s, t>>], ports[t][s], ports[s][t], t)
      /\ wire[<<s, t>>] \in Seq(Configs) /\ ports[s][t] \in Configs
  BY <1>2, LinkFacts
<1> QED
  BY <1>1, <1>3, CrossedAppend

LEMMA HelloLinks ==
  ASSUME StpAssumption, IInv, LinksOK, NEW s \in Switch, Hello(s)
  PROVE  LinksOK'
<1> SUFFICES ASSUME NEW u \in Switch, NEW t \in Port(u)
             PROVE  Crossed(wire'[<<t, u>>], ports[u][t], ports[t][u], u)
  BY DEF LinksOK, Hello
<1>1. /\ Crossed(wire[<<t, u>>], ports[u][t], ports[t][u], u)
      /\ t \in Switch /\ u \in Port(t) /\ <<t, u>> \in Direction
  BY LinkFacts
<1>2. wire'[<<t, u>>] = IF t = s /\ IsDesignated(s, u)
                        THEN Append(wire[<<t, u>>], Offer(s)) ELSE wire[<<t, u>>]
  BY <1>1 DEF Hello
<1>3. CASE t = s /\ IsDesignated(s, u)
  <2>1. u \in Port(s) /\ Crossed(Append(wire[<<s, u>>], Offer(s)), ports[u][s], ports[s][u], u)
    BY <1>1, <1>3, SentIsHeld
  <2> QED
    BY <2>1, <1>2, <1>3
<1>4. CASE ~(t = s /\ IsDesignated(s, u))
  BY <1>4, <1>1, <1>2
<1> QED
  BY <1>3, <1>4

(* A config that is no better than what port p of s holds: the port is     *)
(* designated when it is worse, and the answer is what the port holds.     *)
LEMMA HandledLinks ==
  ASSUME StpAssumption, IInv, LinksOK, NEW s \in Switch, NEW p \in Port(s),
         wire[<<p, s>>] # << >>, ports' = ports,
         \/ SameConfig(s, p, Head(wire[<<p, s>>]))
         \/ LocalHigher(s, p, Head(wire[<<p, s>>]))
  PROVE  LinksOK'
<1> DEFINE taken == [wire EXCEPT ![<<p, s>>] = Tail(@)]
<1>0. DOMAIN wire = Direction /\ <<p, s>> \in Direction /\ <<s, p>> \in Direction /\ p # s
  BY LinkFacts DEF IInv, WiresOK
<1>1. \A d \in Direction : taken[d] = IF d = <<p, s>> THEN Tail(wire[d]) ELSE wire[d]
  BY <1>0
<1>2. DOMAIN taken = Direction
  BY <1>0
<1>3. \/ wire' = taken
      \/ Higher(ports[s][p], Head(wire[<<p, s>>])) /\ wire' = Queued(taken, <<s, p>>, Offer(s))
  BY DEF SameConfig, LocalHigher
<1> HIDE DEF taken
<1>4. \/ wire' = taken
      \/ /\ Higher(ports[s][p], Head(wire[<<p, s>>]))
         /\ wire' = [taken EXCEPT ![<<s, p>>] = Append(taken[<<s, p>>], Offer(s))]
  BY <1>3 DEF Queued
<1>5. ASSUME NEW u \in Switch, NEW t \in Port(u)
      PROVE  Crossed(taken[<<t, u>>], ports[u][t], ports[t][u], u)
  <2>1. /\ Crossed(wire[<<t, u>>], ports[u][t], ports[t][u], u)
        /\ wire[<<t, u>>] \in Seq(Configs) /\ <<t, u>> \in Direction
    BY LinkFacts
  <2>2. CASE <<t, u>> = <<p, s>>
    BY <2>1, <2>2, <1>1, CrossedTail
  <2>3. CASE <<t, u>> # <<p, s>>
    BY <2>1, <2>3, <1>1
  <2> QED
    BY <2>2, <2>3
<1>6. Higher(ports[s][p], Head(wire[<<p, s>>])) => IsDesignated(s, p)
  <2>1. Crossed(wire[<<p, s>>], ports[s][p], ports[p][s], s) /\ wire[<<p, s>>] \in Seq(Configs)
    BY LinkFacts
  <2>2. Head(wire[<<p, s>>]) = wire[<<p, s>>][1] /\ 1 \in 1 .. Len(wire[<<p, s>>])
    BY <2>1
  <2>3. ports[s][p].switch # s => ~Higher(ports[s][p], wire[<<p, s>>][1])
    BY <2>1, <2>2 DEF Crossed
  <2> QED
    BY <2>2, <2>3 DEF IsDesignated
<1>7. ASSUME NEW u \in Switch, NEW t \in Port(u)
      PROVE  Crossed(wire'[<<t, u>>], ports[u][t], ports[t][u], u)
  <2>0. <<t, u>> \in Direction
    BY LinkFacts
  <2>1. CASE wire' = taken
    BY <2>1, <1>5
  <2>2. CASE /\ Higher(ports[s][p], Head(wire[<<p, s>>]))
             /\ wire' = [taken EXCEPT ![<<s, p>>] = Append(taken[<<s, p>>], Offer(s))]
    <3>1. CASE <<t, u>> = <<s, p>>
      <4>1. wire'[<<t, u>>] = Append(wire[<<s, p>>], Offer(s))
        <5>1. taken[<<s, p>>] = wire[<<s, p>>]
          BY <1>0, <1>1
        <5> QED
          BY <5>1, <2>2, <3>1, <1>0, <1>2
      <4>2. Crossed(Append(wire[<<s, p>>], Offer(s)), ports[p][s], ports[s][p], p)
        BY <2>2, <1>6, SentIsHeld
      <4> QED
        BY <4>1, <4>2, <3>1
    <3>2. CASE <<t, u>> # <<s, p>>
      <4>1. wire'[<<t, u>>] = taken[<<t, u>>]
        BY <2>0, <2>2, <3>2, <1>2
      <4> QED
        BY <4>1, <1>5
    <3> QED
      BY <3>1, <3>2
  <2> QED
    BY <2>1, <2>2, <1>4
<1> QED
  BY <1>7 DEF LinksOK

(* A better config: port p holds it, or what s offers now. *)
LEMMA NeighborHigherLinks ==
  ASSUME StpAssumption, DistanceIsSteady, IInv, LinksOK, NEW s \in Switch, NEW p \in Port(s),
         wire[<<p, s>>] # << >>, NeighborHigher(s, p, Head(wire[<<p, s>>]))
  PROVE  LinksOK'
<1> DEFINE c == Head(wire[<<p, s>>])
           held == [ports[s] EXCEPT ![p] = c]
<1>0. /\ DOMAIN wire = Direction /\ <<p, s>> \in Direction /\ p # s /\ p \in Switch
      /\ wire[<<p, s>>] \in Seq(Configs) /\ ports[s] \in [Port(s) -> Configs]
      /\ s \in DOMAIN ports
  BY LinkFacts DEF IInv, WiresOK, PortsOK
<1>1. Good(c, p) /\ c \in Configs
  <2>1. GoodQueue(wire[<<p, s>>], p)
    BY <1>0 DEF IInv, WiresOK
  <2> QED
    BY <2>1, TailGood DEF Good
<1>2. PICK offer :
        /\ offer.switch = s
        /\ ports'[s] = Updated(s, p, held, offer)
  <2>1. PICK r :
          ports' = [ports EXCEPT ![s] =
            Updated(s, p, held, Config(held[r].root, PathCost(held[r]), s))]
    BY DEF NeighborHigher
  <2>2. Config(held[r].root, PathCost(held[r]), s).switch = s
    BY DEF Config
  <2> QED
    BY <2>1, <2>2, <1>0
<1>3. ASSUME NEW t \in Port(s)
      PROVE  \/ ports'[s][t].switch = s
             \/ t # p /\ ports'[s][t] = ports[s][t]
             \/ t = p /\ ports'[s][t] = c
  <2>1. held[t] = IF t = p THEN c ELSE ports[s][t]
    BY <1>0
  <2> HIDE DEF held
  <2>2. ports'[s][t] = offer \/ ports'[s][t] = held[t]
    BY <1>2 DEF Updated
  <2> QED
    BY <2>1, <2>2, <1>2
<1> HIDE DEF held
<1>4. \A d \in Direction : wire'[d] = IF d = <<p, s>> THEN Tail(wire[d]) ELSE wire[d]
  BY <1>0 DEF NeighborHigher
<1>5. /\ BeliefOK' /\ PortsOK'
      /\ \A t \in Port(s) : ~Higher(ports[s][t], ports'[s][t])
      /\ \A u \in Switch : u # s => ports'[u] = ports[u]
  BY <1>1, NeighborHigherKeeps DEF c
<1>6. ASSUME NEW u \in Switch, NEW t \in Port(u)
      PROVE  ports'[u][t] \in Configs /\ ~Higher(ports[u][t], ports'[u][t])
  <2>1. ports'[u][t] \in Configs
    BY <1>5 DEF PortsOK
  <2>2. ports[u][t] \in Configs
    BY LinkFacts
  <2> QED
    BY <2>1, <2>2, <1>5, HigherOrder
<1>7. ASSUME NEW u \in Switch, NEW t \in Port(u)
      PROVE  Crossed(wire'[<<t, u>>], ports'[u][t], ports'[t][u], u)
  <2>1. /\ Crossed(wire[<<t, u>>], ports[u][t], ports[t][u], u)
        /\ wire[<<t, u>>] \in Seq(Configs) /\ <<t, u>> \in Direction
        /\ ports[u][t] \in Configs /\ ports[t][u] \in Configs
        /\ t \in Switch /\ u \in Port(t) /\ t # u
    BY LinkFacts
  <2>2. CASE u = s
    <3>1. ports'[t][u] = ports[t][u]
      BY <2>1, <2>2, <1>5
    <3>2. CASE ports'[s][t].switch = s
      <4>1. \/ wire'[<<t, u>>] = wire[<<t, u>>]
            \/ wire[<<t, u>>] # << >> /\ wire'[<<t, u>>] = Tail(wire[<<t, u>>])
        BY <2>1, <1>4
      <4>2. Crossed(wire'[<<t, u>>], ports[u][t], ports[t][u], u)
        BY <2>1, <4>1, CrossedTail
      <4> QED
        BY <4>2, <3>1, <3>2, <2>2 DEF Crossed
    <3>3. CASE t # p /\ ports'[s][t] = ports[s][t]
      <4>1. wire'[<<t, u>>] = wire[<<t, u>>]
        BY <2>1, <3>3, <1>4
      <4> QED
        BY <4>1, <3>1, <3>3, <2>1, <2>2
    <3>4. CASE t = p /\ ports'[s][t] = c
      <4>1. wire'[<<t, u>>] = Tail(wire[<<t, u>>])
        BY <2>1, <2>2, <3>4, <1>4
      <4>2. Crossed(Tail(wire[<<t, u>>]), Head(wire[<<t, u>>]), ports[t][u], u)
        BY <2>1, <2>2, <3>4, CrossedTail
      <4> QED
        BY <4>1, <4>2, <3>1, <3>4, <2>2
    <3> QED
      BY <3>2, <3>3, <3>4, <2>2, <1>3
  <2>3. CASE u # s
    <3>1. ports'[u][t] = ports[u][t] /\ wire'[<<t, u>>] = wire[<<t, u>>]
      BY <2>1, <2>3, <1>4, <1>5
    <3>2. ports'[t][u] \in Configs /\ ~Higher(ports[t][u], ports'[t][u])
      BY <2>1, <1>6
    <3> QED
      BY <3>1, <3>2, <2>1, CrossedBetter
  <2> QED
    BY <2>2, <2>3
<1> QED
  BY <1>7 DEF LinksOK

LEMMA LinksStay ==
  ASSUME StpAssumption, DistanceIsSteady, IInv, LinksOK, [Next]_vars
  PROVE  LinksOK'
<1>1. ASSUME NEW s \in Switch, Hello(s) PROVE LinksOK'
  BY <1>1, HelloLinks
<1>2. ASSUME NEW s \in Switch, NEW p \in Port(s), Handle(s, p) PROVE LinksOK'
  <2> DEFINE c == Head(wire[<<p, s>>])
  <2>1. wire[<<p, s>>] # << >>
    BY <1>2 DEF Handle
  <2>2. SameConfig(s, p, c) \/ LocalHigher(s, p, c) \/ NeighborHigher(s, p, c)
    BY <1>2 DEF Handle
  <2>3. CASE SameConfig(s, p, c) \/ LocalHigher(s, p, c)
    <3>1. ports' = ports
      BY <2>3 DEF SameConfig, LocalHigher
    <3> QED
      BY <3>1, <2>1, <2>3, HandledLinks
  <2>4. CASE NeighborHigher(s, p, c)
    BY <2>1, <2>4, NeighborHigherLinks
  <2> QED
    BY <2>2, <2>3, <2>4
<1>3. ASSUME UNCHANGED vars PROVE LinksOK'
  BY <1>3 DEF vars, LinksOK
<1> QED
  BY <1>1, <1>2, <1>3 DEF Next
-------------------------------------------------------------------------------
(* What the switches believe, what their ports hold and what is under way  *)
(* has its type (stp.c:142-186).                                           *)
THEOREM StpTypeCorrect == ASSUME LinksConnect PROVE Spec => []TypeOK
<1>1. IInv => TypeOK
  <2>1. WiresOK => wire \in [Direction -> Seq(Configs)]
    BY DEF WiresOK, GoodQueue
  <2> QED
    BY <2>1 DEF IInv, BeliefOK, PortsOK, TypeOK
<1> QED
  BY <1>1, Inductive, StpAssumption, PTL

(* In every topology nobody ever claims a path to a root that is shorter   *)
(* than the links allow (stp.c:161, 171-172).                              *)
THEOREM CostsAreReal == ASSUME LinksConnect PROVE Spec => []CostIsReal
<1>1. IInv => CostIsReal
  <2> SUFFICES ASSUME IInv PROVE CostIsReal
    OBVIOUS
  <2>1. \A s \in Switch : root_path_cost[s] >= Distance(s, designated_root[s])
    BY DEF IInv, BeliefOK, Good, Offer, Config
  <2>2. ASSUME NEW s \in Switch, NEW t \in Port(s)
        PROVE  ports[s][t].cost >= Distance(ports[s][t].switch, ports[s][t].root)
    <3>1. Good(Offer(s), s)
      BY DEF IInv, BeliefOK
    <3> QED
      BY <3>1, StpAssumption, PortKinds DEF Good
  <2>3. ASSUME NEW d \in Direction, NEW i \in DOMAIN wire[d]
        PROVE  wire[d][i].cost >= Distance(wire[d][i].switch, wire[d][i].root)
    <3>1. GoodQueue(wire[d], d[1])
      BY DEF IInv, WiresOK
    <3>2. i \in 1 .. Len(wire[d])
      BY <3>1 DEF GoodQueue
    <3> QED
      BY <3>1, <3>2 DEF GoodQueue, Good
  <2> QED
    BY <2>1, <2>2, <2>3 DEF CostIsReal
<1> QED
  BY <1>1, Inductive, StpAssumption, PTL

(* In every topology the root and the path that a switch believes in, and  *)
(* the config that a port holds, are only ever replaced by better ones     *)
(* (stp.c:151-186).                                                        *)
THEOREM BeliefsImprove == ASSUME LinksConnect PROVE Spec => NeverWorse
<1>1. IInv /\ [Next]_vars => Improved
  BY StepKeeps, DistancesAreSteady, StpAssumption
<1>2. IInv /\ [Next]_vars => [Improved]_vars
  BY <1>1
<1> QED
  BY <1>2, Inductive, StpAssumption, PTL DEF Spec, NeverWorse, Improved

(* In every topology every link has a designated end at all times: two     *)
(* ends that both gave in would each hold a config no worse than the       *)
(* other's, that is, the same, and yet each one of the other switch        *)
(* (stp.c:165-186).                                                        *)
THEOREM LinksAreServed == ASSUME LinksConnect PROVE Spec => []LinkIsServed
<1>1. Init => LinksOK
  <2> SUFFICES ASSUME Init, NEW s \in Switch, NEW t \in Port(s)
               PROVE  Crossed(wire[<<t, s>>], ports[s][t], ports[t][s], s)
    BY DEF LinksOK
  <2>1. <<t, s>> \in Direction
    BY PortFacts, StpAssumption
  <2>2. wire[<<t, s>>] = << >> /\ ports[s][t].switch = s
    BY <2>1 DEF Init, Config
  <2> QED
    BY <2>2 DEF Crossed
<1>2. IInv /\ LinksOK /\ [Next]_vars => LinksOK'
  BY LinksStay, DistancesAreSteady, StpAssumption
<1>3. IInv /\ LinksOK => LinkIsServed
  <2> SUFFICES ASSUME IInv, LinksOK, NEW s \in Switch, NEW t \in Port(s),
                      ~IsDesignated(s, t), ~IsDesignated(t, s)
               PROVE  FALSE
    BY DEF LinkIsServed
  <2>1. /\ Crossed(wire[<<t, s>>], ports[s][t], ports[t][s], s)
        /\ ports[s][t] \in Configs /\ ports[t][s] \in Configs
        /\ t \in Switch /\ t # s /\ s \in Port(t)
    BY LinkFacts, StpAssumption
  <2>2. Crossed(wire[<<s, t>>], ports[t][s], ports[s][t], t)
    BY <2>1, LinkFacts, StpAssumption
  <2>3. ~Higher(ports[s][t], ports[t][s]) /\ ~Higher(ports[t][s], ports[s][t])
    BY <2>1, <2>2 DEF Crossed, IsDesignated
  <2>4. ports[s][t].switch = t /\ ports[t][s].switch = s
    BY <2>1, PortKinds, StpAssumption DEF IsDesignated, Good
  <2>5. /\ ports[s][t].root \in Nat /\ ports[s][t].cost \in Nat
        /\ ports[t][s].root \in Nat /\ ports[t][s].cost \in Nat
        /\ s \in Nat /\ t \in Nat
    BY <2>1, StpAssumption DEF Configs, StpAssumption
  <2> QED
    BY <2>1, <2>3, <2>4, <2>5 DEF Higher
<1> QED
  BY <1>1, <1>2, <1>3, Inductive, StpAssumption, PTL DEF Spec
-------------------------------------------------------------------------------
(* The learning switch and the hub (Lan)                                     *)

(* The ends of a wire. *)
LEMMA PeerIs ==
  ASSUME NEW q \in Ports \ Jack
  PROVE  /\ Peer(q) \in Ports \ Jack
         /\ Peer(q) # q
         /\ {q, Peer(q)} \in Wire
         /\ \A w \in Wire : q \in w => w = {q, Peer(q)}
<1>1. PICK w \in Wire : q \in w  BY DEF Jack
<1>2. PICK a \in Ports, b \in Ports : a # b /\ w = {a, b}  BY LanAssumption
<1>3. \E p \in Ports : p # q /\ {q, p} \in Wire  BY <1>1, <1>2
<1>4. Peer(q) \in Ports /\ Peer(q) # q /\ {q, Peer(q)} \in Wire
  BY <1>3 DEF Peer
<1>5. Peer(q) \notin Jack  BY <1>4 DEF Jack
<1>6. \A v \in Wire : q \in v => v = {q, Peer(q)}
  BY <1>4, LanAssumption
<1> QED  BY <1>4, <1>5, <1>6

(* A port belongs to one device. *)
LEMMA DeviceIs ==
  ASSUME NEW d \in Device, NEW p \in PortsOf[d]
  PROVE  p \in Ports /\ DeviceOf(p) = d
<1>1. p \in Ports  BY DEF Ports
<1>2. DeviceOf(p) \in Device /\ p \in PortsOf[DeviceOf(p)]  BY DEF DeviceOf
<1> QED  BY <1>1, <1>2, LanAssumption

LEMMA PortHasDevice ==
  ASSUME NEW p \in Ports
  PROVE  DeviceOf(p) \in Device /\ p \in PortsOf[DeviceOf(p)]
  BY DEF DeviceOf, Ports

LEMMA OnwardIs ==
  ASSUME NEW q \in Ports \ Jack
  PROVE  Onward(q) \subseteq Ports
<1>1. DeviceOf(Peer(q)) \in Device  BY PeerIs, PortHasDevice
<1> QED  BY <1>1 DEF Onward, Ports
--------------------------------------------------------------------------------
(* What lies behind a port: the port, and if it has a wire, what lies      *)
(* behind the ports by which the device at the other end passes on.        *)
LEMMA BehindIs ==
  ASSUME NEW p \in Ports
  PROVE  /\ Behind[p] \subseteq Ports
         /\ p \in Behind[p]
         /\ Closed(Behind[p])
         /\ \A S \in SUBSET Ports : p \in S /\ Closed(S) => Behind[p] \subseteq S
<1>1. Behind[p] = {q \in Ports : \A S \in SUBSET Ports : p \in S /\ Closed(S) => q \in S}
  BY DEF Behind
<1>2. ASSUME NEW q \in Behind[p] \ Jack, NEW r \in Onward(q)
      PROVE  r \in Behind[p]
  <2>1. r \in Ports  BY <1>1, <1>2, OnwardIs
  <2>2. ASSUME NEW S \in SUBSET Ports, p \in S, Closed(S)
        PROVE  r \in S
    BY <1>1, <1>2, <2>2 DEF Closed
  <2> QED  BY <1>1, <2>1, <2>2
<1>3. Closed(Behind[p])  BY <1>2 DEF Closed
<1> QED  BY <1>1, <1>3

LEMMA BehindJack ==
  ASSUME NEW p \in Jack
  PROVE  p \in Ports /\ Behind[p] = {p}
<1>1. p \in Ports  BY DEF Jack
<1>2. Closed({p})  BY DEF Closed
<1> QED  BY <1>1, <1>2, BehindIs

LEMMA BehindOnward ==
  ASSUME NEW q \in Ports \ Jack
  PROVE  /\ \A p \in Onward(q) : Behind[p] \subseteq Behind[q]
         /\ \A j \in Behind[q] : j # q => \E p \in Onward(q) : j \in Behind[p]
<1>1. ASSUME NEW p \in Onward(q)  PROVE Behind[p] \subseteq Behind[q]
  <2>1. p \in Behind[q] /\ p \in Ports
    BY <1>1, BehindIs, OnwardIs DEF Closed
  <2> QED  BY <2>1, BehindIs
<1>2. DEFINE S == {q} \cup UNION {Behind[p] : p \in Onward(q)}
<1>3. S \subseteq Ports  BY OnwardIs, BehindIs
<1>4. ASSUME NEW r \in S \ Jack  PROVE Onward(r) \subseteq S
  <2>1. CASE r = q
    BY <2>1, OnwardIs, BehindIs
  <2>2. CASE r # q
    <3>1. PICK p \in Onward(q) : r \in Behind[p]  BY <1>4, <2>2
    <3>2. p \in Ports /\ Closed(Behind[p])  BY <3>1, OnwardIs, BehindIs
    <3>3. Onward(r) \subseteq Behind[p]  BY <1>4, <3>1, <3>2 DEF Closed
    <3> QED  BY <3>1, <3>3
  <2> QED  BY <2>1, <2>2
<1>5. Closed(S)  BY <1>4 DEF Closed
<1>6. Behind[q] \subseteq S  BY <1>3, <1>5, BehindIs
<1> QED  BY <1>1, <1>6

(* A wire cuts a network without loops in two. *)
LEMMA WireCuts ==
  ASSUME LoopFree, NEW q \in Ports \ Jack, NEW j \in Jack
  PROVE  j \in Behind[q] <=> j \notin Behind[Peer(q)]
<1> DEFINE d == DeviceOf(Peer(q))
<1>1. Peer(q) \in Ports /\ d \in Device /\ Peer(q) \in PortsOf[d]
  BY PeerIs, PortHasDevice
<1>2. PICK p \in PortsOf[d] : \A r \in PortsOf[d] : j \in Behind[r] <=> r = p
  BY <1>1 DEF LoopFree
<1>3. Onward(q) = PortsOf[d] \ {Peer(q)}  BY DEF Onward
<1>4. j # q  OBVIOUS
<1>5. ASSUME j \in Behind[q]  PROVE j \notin Behind[Peer(q)]
  <2>1. PICK r \in Onward(q) : j \in Behind[r]  BY <1>4, <1>5, BehindOnward
  <2> QED  BY <1>1, <1>2, <1>3, <2>1
<1>6. ASSUME j \notin Behind[Peer(q)]  PROVE j \in Behind[q]
  <2>1. p \in Onward(q) /\ j \in Behind[p]  BY <1>1, <1>2, <1>3, <1>6
  <2> QED  BY <2>1, BehindOnward
<1> QED  BY <1>5, <1>6

(* Where a packet goes that leaves device d by ports out: to jack j at     *)
(* most by the one port that j is behind, and over the other wires away    *)
(* from j.                                                                 *)
LEMMA ExitNone ==
  ASSUME LoopFree, NEW d \in Device, NEW out \in SUBSET PortsOf[d], NEW j \in Jack,
         \A q \in out : j \notin Behind[q]
  PROVE  j \notin out /\ \A r \in out \ Jack : j \in Behind[Peer(r)]
<1>1. out \subseteq Ports  BY DeviceIs
<1>2. j \in Behind[j]  BY BehindJack
<1>3. \A r \in out \ Jack : j \in Behind[r] <=> j \notin Behind[Peer(r)]
  BY <1>1, WireCuts
<1> QED  BY <1>2, <1>3

LEMMA ExitOne ==
  ASSUME LoopFree, NEW d \in Device, NEW out \in SUBSET PortsOf[d], NEW j \in Jack,
         NEW q \in out, j \in Behind[q]
  PROVE  \/ q \in Jack /\ q = j /\ \A r \in out \ Jack : j \in Behind[Peer(r)]
         \/ q \notin Jack /\ j \notin out /\ \A r \in out \ Jack : j \notin Behind[Peer(r)] <=> r = q
<1>1. out \subseteq Ports  BY DeviceIs
<1>2. j \in Behind[j] /\ Behind[j] = {j}  BY BehindJack
<1>3. \A r \in out \ Jack : j \in Behind[r] <=> j \notin Behind[Peer(r)]
  BY <1>1, WireCuts
<1>4. PICK p \in PortsOf[d] : \A r \in PortsOf[d] : j \in Behind[r] <=> r = p
  BY DEF LoopFree
<1>5. q \in Jack => Behind[q] = {q}  BY BehindJack
<1> QED  BY <1>2, <1>3, <1>4, <1>5
--------------------------------------------------------------------------------
(* The inductive invariant. *)

Waiting(boxes, f, p) == \E i \in DOMAIN boxes[p] : boxes[p][i] = f
Single(boxes, f, p) ==
  \A i, k \in DOMAIN boxes[p] : boxes[p][i] = f /\ boxes[p][k] = f => i = k

(* A host stays where it is until it is moved, and has its jack alone. *)
HostsOK ==
  /\ \A h \in Host : moved[h] = -1 \/ moved[h] \in Nat
  /\ \A h \in Host : moved[h] = -1 => at[h] = Start[h]
  /\ \A g, h \in Host : g # h => at[g] # at[h]

(* Port p is one by which packets that leave a switch come to a hub. *)
Outbound(p) ==
  \E s \in MacSwitch : \E q \in PortsOf[s] : \E x \in Behind[q] \ Jack : p = Peer(x)

(* A packet under way was sent, and comes from where its sender is: if not *)
(* that, it came back from a switch, and meets no other.                   *)
CopiesOK ==
  \A p \in Ports, f \in Frames : Waiting(inbox, f, p) =>
    /\ f \in DOMAIN sent
    /\ at[sent[f].src] \in Behind[p] \/ Outbound(p)

(* A port is where a host is, or where it was before it was moved. *)
Leads(p, h) == at[h] \in Behind[p] \/ Start[h] \in Behind[p]

WorkOK ==
  \A s \in MacSwitch : work[s] # Idle =>
    /\ work[s].frame \in DOMAIN sent
    /\ work[s].in \in PortsOf[s]
    /\ at[sent[work[s].frame].src] \in Behind[work[s].in]
    /\ work[s].out # None =>
         work[s].out \in PortsOf[s] /\ Leads(work[s].out, sent[work[s].frame].dst)

(* An entry that is out of date has not been renewed since its host was    *)
(* moved, and no entry outlives the sweep of the second.                   *)
EntriesOK ==
  \A s \in MacSwitch, h \in Host :
    /\ table[s][h].port = None => table[s][h] = NoEntry
    /\ table[s][h].port # None =>
         /\ table[s][h].port \in PortsOf[s]
         /\ Leads(table[s][h].port, h)
         /\ at[h] \notin Behind[table[s][h].port] =>
              moved[h] # -1 /\ moved[h] <= table[s][h].age
         /\ table[s][h].age <= Timeout + 1
         /\ s \in swept => table[s][h].age <= Timeout

FramesOK ==
  /\ \A f \in DOMAIN sent : sent[f].src # sent[f].dst
  /\ \A h \in Host, f \in Frames : f \notin DOMAIN sent => got[h][f] = 0

(* No packet is on its way back to a sender that has stayed where it is. *)
SendersOK ==
  \A f \in DOMAIN sent : moved[sent[f].src] = -1 =>
    /\ got[sent[f].src][f] = 0
    /\ \A p \in Ports : Waiting(inbox, f, p) => at[sent[f].src] \in Behind[p]

(* A copy of frame f waits at port p and goes on towards its receiver. *)
Heading(f, p) == Waiting(inbox, f, p) /\ at[sent[f].dst] \notin Behind[p]
Handled(f, s) == work[s].pc = "send" /\ work[s].frame = f

(* A packet for a host that has stayed where it is has arrived, or waits   *)
(* at one port from which it goes on towards the host, or is being handled *)
(* by one switch.                                                          *)
Arrives(f) ==
  \/ /\ got[sent[f].dst][f] = 1
     /\ \A p \in Ports : ~Heading(f, p)
     /\ \A s \in MacSwitch : ~Handled(f, s)
  \/ /\ got[sent[f].dst][f] = 0
     /\ \E p \in Ports : Heading(f, p) /\ Single(inbox, f, p) /\ \A q \in Ports : Heading(f, q) => q = p
     /\ \A s \in MacSwitch : ~Handled(f, s)
  \/ /\ got[sent[f].dst][f] = 0
     /\ \A p \in Ports : ~Heading(f, p)
     /\ \E s \in MacSwitch : Handled(f, s) /\ \A t \in MacSwitch : Handled(f, t) => t = s

ReceiversOK == \A f \in DOMAIN sent : moved[sent[f].dst] = -1 => Arrives(f)

LanInv ==
  LanTypeOK /\ HostsOK /\ CopiesOK /\ WorkOK /\ EntriesOK /\ FramesOK /\ SendersOK /\ ReceiversOK
--------------------------------------------------------------------------------
(* The boxes. *)

Boxes == [Ports -> Seq(Frames)]

LEMMA HeadIs ==
  ASSUME NEW boxes \in Boxes, NEW p \in Ports, boxes[p] # << >>
  PROVE  /\ Head(boxes[p]) \in Frames
         /\ Waiting(boxes, Head(boxes[p]), p)
<1>1. boxes[p] \in Seq(Frames)  BY DEF Boxes
<1>2. 1 \in DOMAIN boxes[p] /\ Head(boxes[p]) = boxes[p][1]  BY <1>1
<1>3. Head(boxes[p]) \in Frames  BY <1>1
<1> QED  BY <1>2, <1>3 DEF Waiting

(* The first frame of a box is taken out. *)
LEMMA Taken ==
  ASSUME NEW boxes \in Boxes, NEW p \in Ports, boxes[p] # << >>
  PROVE  LET f == Head(boxes[p])
             new == [boxes EXCEPT ![p] = Tail(@)]
         IN  /\ new \in Boxes
             /\ \A q \in Ports : q # p => new[q] = boxes[q]
             /\ \A g, q : q \in Ports /\ Waiting(new, g, q) => Waiting(boxes, g, q)
             /\ \A g, q : q \in Ports /\ g # f /\ Waiting(boxes, g, q) => Waiting(new, g, q)
             /\ \A g, q : q \in Ports /\ Single(boxes, g, q) => Single(new, g, q)
             /\ Single(boxes, f, p) => ~Waiting(new, f, p)
<1> DEFINE f == Head(boxes[p])
           new == [boxes EXCEPT ![p] = Tail(@)]
<1>1. boxes[p] \in Seq(Frames)  BY DEF Boxes
<1>2. /\ Tail(boxes[p]) \in Seq(Frames)
      /\ DOMAIN boxes[p] = 1 .. Len(boxes[p])
      /\ Len(boxes[p]) \in Nat \ {0}
      /\ DOMAIN Tail(boxes[p]) = 1 .. (Len(boxes[p]) - 1)
      /\ \A i \in 1 .. (Len(boxes[p]) - 1) : Tail(boxes[p])[i] = boxes[p][i + 1]
      /\ f = boxes[p][1]
  BY <1>1
<1>3. new \in Boxes  BY <1>2 DEF Boxes
<1>4. new[p] = Tail(boxes[p]) /\ \A q \in Ports : q # p => new[q] = boxes[q]
  BY DEF Boxes
<1> HIDE DEF new, f
<1>5. \A g : Waiting(new, g, p) => Waiting(boxes, g, p)
  <2> SUFFICES ASSUME NEW g, NEW i \in DOMAIN new[p], new[p][i] = g
               PROVE  Waiting(boxes, g, p)
    BY DEF Waiting
  <2>1. i + 1 \in DOMAIN boxes[p] /\ boxes[p][i + 1] = g  BY <1>2, <1>4
  <2> QED  BY <2>1 DEF Waiting
<1>6. \A g : g # f /\ Waiting(boxes, g, p) => Waiting(new, g, p)
  <2> SUFFICES ASSUME NEW g, g # f, NEW i \in DOMAIN boxes[p], boxes[p][i] = g
               PROVE  Waiting(new, g, p)
    BY DEF Waiting
  <2>1. i - 1 \in DOMAIN new[p] /\ new[p][i - 1] = boxes[p][(i - 1) + 1]
    BY <1>2, <1>4
  <2>2. (i - 1) + 1 = i  BY <1>2
  <2> QED  BY <2>1, <2>2 DEF Waiting
<1>7. \A g : Single(boxes, g, p) => Single(new, g, p)
  <2> SUFFICES ASSUME NEW g, Single(boxes, g, p), NEW i \in DOMAIN new[p],
                      NEW k \in DOMAIN new[p], new[p][i] = g, new[p][k] = g
               PROVE  i = k
    BY DEF Single
  <2>1. i + 1 \in DOMAIN boxes[p] /\ boxes[p][i + 1] = g  BY <1>2, <1>4
  <2>2. k + 1 \in DOMAIN boxes[p] /\ boxes[p][k + 1] = g  BY <1>2, <1>4
  <2>3. i + 1 = k + 1  BY <2>1, <2>2 DEF Single
  <2> QED  BY <1>2, <1>4, <2>3
<1>8. ASSUME Single(boxes, f, p), Waiting(new, f, p)  PROVE FALSE
  <2>1. PICK i \in DOMAIN new[p] : new[p][i] = f  BY <1>8 DEF Waiting
  <2>2. i + 1 \in DOMAIN boxes[p] /\ boxes[p][i + 1] = f  BY <1>2, <1>4, <2>1
  <2>3. 1 \in DOMAIN boxes[p] /\ boxes[p][1] = f  BY <1>2
  <2>4. i + 1 = 1  BY <1>8, <2>2, <2>3 DEF Single
  <2> QED  BY <1>2, <1>4, <2>1, <2>4
<1>9. \A g, q : q \in Ports /\ q # p =>
        (Waiting(new, g, q) <=> Waiting(boxes, g, q)) /\ (Single(new, g, q) <=> Single(boxes, g, q))
  BY <1>4 DEF Waiting, Single
<1> QED  BY <1>3, <1>4, <1>5, <1>6, <1>7, <1>8, <1>9 DEF new, f

(* A frame is put behind the others. *)
LEMMA Added ==
  ASSUME NEW s \in Seq(Frames), NEW f \in Frames
  PROVE  LET t == Append(s, f)
         IN  /\ t \in Seq(Frames)
             /\ \A g : (\E i \in DOMAIN t : t[i] = g) <=> g = f \/ \E i \in DOMAIN s : s[i] = g
             /\ (\A i \in DOMAIN s : s[i] # f) =>
                  \A i, k \in DOMAIN t : t[i] = f /\ t[k] = f => i = k
             /\ \A g : g # f /\ (\A i, k \in DOMAIN s : s[i] = g /\ s[k] = g => i = k)
                         => \A i, k \in DOMAIN t : t[i] = g /\ t[k] = g => i = k
<1> DEFINE t == Append(s, f)
           n == Len(s)
<1>1. /\ t \in Seq(Frames)
      /\ n \in Nat
      /\ DOMAIN s = 1 .. n
      /\ DOMAIN t = 1 .. (n + 1)
      /\ t[n + 1] = f
      /\ \A i \in 1 .. n : t[i] = s[i]
  OBVIOUS
<1>2. \A i \in DOMAIN t : i = n + 1 \/ i \in DOMAIN s  BY <1>1
<1>3. \A i \in DOMAIN s : i \in DOMAIN t /\ t[i] = s[i] /\ i # n + 1  BY <1>1
<1>4. n + 1 \in DOMAIN t  BY <1>1
<1> HIDE DEF t, n
<1>5. \A g : (\E i \in DOMAIN t : t[i] = g) <=> g = f \/ \E i \in DOMAIN s : s[i] = g
  BY <1>1, <1>2, <1>3, <1>4
<1>6. (\A i \in DOMAIN s : s[i] # f) => \A i, k \in DOMAIN t : t[i] = f /\ t[k] = f => i = k
  BY <1>2, <1>3
<1>7. ASSUME NEW g, g # f, \A i, k \in DOMAIN s : s[i] = g /\ s[k] = g => i = k
      PROVE  \A i, k \in DOMAIN t : t[i] = g /\ t[k] = g => i = k
  BY <1>1, <1>2, <1>3, <1>7
<1> QED  BY <1>1, <1>5, <1>6, <1>7 DEF t

(* What iface_send_packet does to the boxes. *)
LEMMA Sent ==
  ASSUME NEW boxes \in Boxes, NEW out \in SUBSET Ports, NEW f \in Frames
  PROVE  LET new == Arrived(boxes, out, f)
         IN  /\ new \in Boxes
             /\ \A q \in Ports : (\A r \in out \ Jack : q # Peer(r)) => new[q] = boxes[q]
             /\ \A g, q : q \in Ports =>
                  (Waiting(new, g, q) <=> Waiting(boxes, g, q) \/ (g = f /\ \E r \in out \ Jack : q = Peer(r)))
             /\ \A q \in Ports : ~Waiting(boxes, f, q) => Single(new, f, q)
             /\ \A g, q : q \in Ports /\ g # f /\ Single(boxes, g, q) => Single(new, g, q)
<1> DEFINE new == Arrived(boxes, out, f)
           To(q) == \E r \in out \ Jack : q = Peer(r)
<1>1. \A q \in Ports : boxes[q] \in Seq(Frames)  BY DEF Boxes
<1>2. \A q \in Ports : new[q] = IF To(q) THEN Append(boxes[q], f) ELSE boxes[q]
  BY DEF Arrived
<1>3. new \in Boxes
  <2>1. \A q \in Ports : Append(boxes[q], f) \in Seq(Frames)  BY <1>1
  <2> QED  BY <1>1, <2>1 DEF Boxes, Arrived
<1>4. \A q \in Ports : ~To(q) => new[q] = boxes[q]  BY <1>2
<1>5. \A g, q : q \in Ports /\ ~To(q) =>
        (Waiting(new, g, q) <=> Waiting(boxes, g, q)) /\ (Single(new, g, q) <=> Single(boxes, g, q))
  BY <1>4 DEF Waiting, Single
<1>6. ASSUME NEW q \in Ports, To(q)
      PROVE  /\ \A g : Waiting(new, g, q) <=> g = f \/ Waiting(boxes, g, q)
             /\ ~Waiting(boxes, f, q) => Single(new, f, q)
             /\ \A g : g # f /\ Single(boxes, g, q) => Single(new, g, q)
  <2>1. new[q] = Append(boxes[q], f) /\ boxes[q] \in Seq(Frames)  BY <1>1, <1>2, <1>6
  <2> DEFINE t == Append(boxes[q], f)
             s == boxes[q]
  <2>2. /\ \A g : (\E i \in DOMAIN t : t[i] = g) <=> g = f \/ \E i \in DOMAIN s : s[i] = g
        /\ (\A i \in DOMAIN s : s[i] # f) => \A i, k \in DOMAIN t : t[i] = f /\ t[k] = f => i = k
        /\ \A g : g # f /\ (\A i, k \in DOMAIN s : s[i] = g /\ s[k] = g => i = k)
                    => \A i, k \in DOMAIN t : t[i] = g /\ t[k] = g => i = k
    BY <2>1, Added
  <2> HIDE DEF t
  <2>3. new[q] = t  BY <2>1 DEF t
  <2> HIDE DEF new
  <2> QED  BY <2>2, <2>3 DEF Waiting, Single
<1>7. \A q \in Ports : ~Waiting(boxes, f, q) /\ ~To(q) => Single(new, f, q)
  BY <1>4 DEF Waiting, Single
<1> HIDE DEF new
<1>8. \A q \in Ports : (\A r \in out \ Jack : q # Peer(r)) => new[q] = boxes[q]
  BY <1>4
<1>9. \A g, q : q \in Ports =>
        (Waiting(new, g, q) <=> Waiting(boxes, g, q) \/ (g = f /\ \E r \in out \ Jack : q = Peer(r)))
  BY <1>5, <1>6
<1>10. \A q \in Ports : ~Waiting(boxes, f, q) => Single(new, f, q)
  BY <1>6, <1>7
<1>11. \A g, q : q \in Ports /\ g # f /\ Single(boxes, g, q) => Single(new, g, q)
  BY <1>5, <1>6
<1> QED  BY <1>3, <1>8, <1>9, <1>10, <1>11 DEF new

(* A frame that nothing brings to jack j leaves a device by one port that  *)
(* j is behind: the host at j gets it, or it waits at one port and goes on.*)
LEMMA Passed ==
  ASSUME LoopFree, NEW boxes \in Boxes, NEW d \in Device, NEW out \in SUBSET PortsOf[d],
         NEW f \in Frames, NEW j \in Jack,
         NEW q0 \in out, j \in Behind[q0],
         \A q \in Ports : Waiting(boxes, f, q) => j \in Behind[q]
  PROVE  LET new == Arrived(boxes, out, f)
         IN  \/ /\ j \in out
                /\ \A q \in Ports : Waiting(new, f, q) => j \in Behind[q]
             \/ /\ j \notin out
                /\ \E p \in Ports :
                     /\ Waiting(new, f, p) /\ j \notin Behind[p] /\ Single(new, f, p)
                     /\ \A q \in Ports : Waiting(new, f, q) /\ j \notin Behind[q] => q = p
<1> DEFINE new == Arrived(boxes, out, f)
<1>1. out \subseteq Ports  BY DeviceIs
<1>0. /\ \A g, q : q \in Ports =>
           (Waiting(new, g, q) <=> Waiting(boxes, g, q) \/ (g = f /\ \E r \in out \ Jack : q = Peer(r)))
      /\ \A q \in Ports : ~Waiting(boxes, f, q) => Single(new, f, q)
  BY <1>1, Sent
<1> HIDE DEF new
<1>2. \A q \in Ports :
        Waiting(new, f, q) <=> Waiting(boxes, f, q) \/ \E r \in out \ Jack : q = Peer(r)
  BY <1>0
<1>3. \A q \in Ports : ~Waiting(boxes, f, q) => Single(new, f, q)
  BY <1>0
<1>4. CASE q0 \in Jack
  <2>1. j = q0 /\ \A r \in out \ Jack : j \in Behind[Peer(r)]  BY <1>4, ExitOne
  <2> QED  BY <1>2, <2>1 DEF new
<1>5. CASE q0 \notin Jack
  <2>1. j \notin out /\ \A r \in out \ Jack : j \notin Behind[Peer(r)] <=> r = q0
    BY <1>5, ExitOne
  <2>2. Peer(q0) \in Ports  BY <1>1, <1>5, PeerIs
  <2>3. Waiting(new, f, Peer(q0)) /\ j \notin Behind[Peer(q0)]
    BY <1>2, <1>5, <2>1, <2>2
  <2>4. Single(new, f, Peer(q0))  BY <1>3, <2>2, <2>3
  <2>5. \A q \in Ports : Waiting(new, f, q) /\ j \notin Behind[q] => q = Peer(q0)
    BY <1>2, <2>1
  <2> QED  BY <2>1, <2>2, <2>3, <2>4, <2>5 DEF new
<1> QED  BY <1>4, <1>5

(* A frame that leaves a device by ports that jack j is not behind is not  *)
(* got at j and does not wait where it would go on to j.                   *)
LEMMA PassedBy ==
  ASSUME LoopFree, NEW boxes \in Boxes, NEW d \in Device, NEW out \in SUBSET PortsOf[d],
         NEW f \in Frames, NEW j \in Jack, \A q \in out : j \notin Behind[q]
  PROVE  LET new == Arrived(boxes, out, f)
         IN  /\ j \notin out
             /\ \A q \in Ports : j \notin Behind[q] =>
                  new[q] = boxes[q] /\ (Waiting(new, f, q) <=> Waiting(boxes, f, q))
<1>1. out \subseteq Ports  BY DeviceIs
<1>2. j \notin out /\ \A r \in out \ Jack : j \in Behind[Peer(r)]  BY ExitNone
<1>3. \A q \in Ports : j \notin Behind[q] => \A r \in out \ Jack : q # Peer(r)  BY <1>2
<1> DEFINE new == Arrived(boxes, out, f)
<1>4. \A q \in Ports : (\A r \in out \ Jack : q # Peer(r)) => new[q] = boxes[q]
  BY <1>1, Sent
<1> HIDE DEF new
<1>5. \A q \in Ports : j \notin Behind[q] => new[q] = boxes[q]  BY <1>3, <1>4
<1> QED  BY <1>2, <1>5 DEF Waiting, new
--------------------------------------------------------------------------------
(* What a frame that leaves a device changes. *)

LEMMA Numbers ==
  ASSUME LanTypeOK
  PROVE  /\ DOMAIN sent \subseteq Frames
         /\ DOMAIN sent = 1 .. Len(sent)
         /\ \A f \in DOMAIN sent : sent[f].src \in Host /\ sent[f].dst \in Host
         /\ 0 \notin DOMAIN sent
<1>1. sent \in Seq([src : Host, dst : Host]) /\ Len(sent) <= MaxFrames  BY DEF LanTypeOK
<1>2. Len(sent) \in Nat /\ DOMAIN sent = 1 .. Len(sent)  BY <1>1
<1>3. \A f \in DOMAIN sent : sent[f] \in [src : Host, dst : Host]
  <2> DEFINE R == [src : Host, dst : Host]
  <2>1. sent \in Seq(R)  BY <1>1
  <2> HIDE DEF R
  <2>2. \A f \in DOMAIN sent : sent[f] \in R  BY <2>1
  <2> QED  BY <2>2 DEF R
<1> QED  BY <1>1, <1>2, <1>3, LanAssumption DEF Frames

LEMMA Gets ==
  ASSUME LanTypeOK, NEW out, NEW f \in Frames
  PROVE  /\ Received(out, f) \in [Host -> [Frames -> Nat]]
         /\ \A h \in Host, g \in Frames :
              Received(out, f)[h][g] = IF g = f /\ at[h] \in out THEN got[h][g] + 1 ELSE got[h][g]
<1>1. got \in [Host -> [Frames -> Nat]]  BY DEF LanTypeOK
<1>2. \A h \in Host : [got[h] EXCEPT ![f] = @ + 1] \in [Frames -> Nat]  BY <1>1
<1>3. \A h \in Host, g \in Frames :
        [got[h] EXCEPT ![f] = @ + 1][g] = IF g = f THEN got[h][g] + 1 ELSE got[h][g]
  BY <1>1
<1> QED  BY <1>1, <1>2, <1>3 DEF Received

(* Frame f leaves device d by ports out; the other frames stay. *)
Leaves(d, out, f, mid) ==
  /\ mid \in Boxes
  /\ \A g \in Frames, q \in Ports : Waiting(mid, g, q) => Waiting(inbox, g, q)
  /\ \A g \in Frames \ {f}, q \in Ports : Waiting(inbox, g, q) => Waiting(mid, g, q)
  /\ \A g \in Frames, q \in Ports : Single(inbox, g, q) => Single(mid, g, q)
  /\ d \in Device /\ out \in SUBSET PortsOf[d] /\ f \in DOMAIN sent
  /\ inbox' = Arrived(mid, out, f)
  /\ got' = Received(out, f)
  /\ \A g \in Frames \ {f}, s \in MacSwitch : Handled(g, s)' <=> Handled(g, s)
  /\ UNCHANGED <<at, sent, moved>>

LEMMA LeavesFacts ==
  ASSUME LanInv, NEW d, NEW out, NEW f, NEW mid, Leaves(d, out, f, mid)
  PROVE  /\ inbox' \in Boxes
         /\ got' \in [Host -> [Frames -> Nat]]
         /\ FramesOK'
         /\ \A g \in Frames \ {f}, q \in Ports : Waiting(inbox', g, q) <=> Waiting(inbox, g, q)
         /\ \A g \in Frames \ {f}, q \in Ports : Single(inbox, g, q) => Single(inbox', g, q)
         /\ \A q \in Ports : Waiting(inbox', f, q) =>
              Waiting(mid, f, q) \/ \E r \in out \ Jack : q = Peer(r)
         /\ \A h \in Host, g \in Frames :
              got'[h][g] = IF g = f /\ at[h] \in out THEN got[h][g] + 1 ELSE got[h][g]
         /\ f \in Frames
<1>1. LanTypeOK /\ FramesOK  BY DEF LanInv
<1>2. f \in Frames /\ out \in SUBSET Ports /\ mid \in Boxes
  BY <1>1, Numbers, DeviceIs DEF Leaves
<1>3. /\ Arrived(mid, out, f) \in Boxes
      /\ \A g, q : q \in Ports =>
           (Waiting(Arrived(mid, out, f), g, q) <=>
              Waiting(mid, g, q) \/ (g = f /\ \E r \in out \ Jack : q = Peer(r)))
      /\ \A g, q : q \in Ports /\ g # f /\ Single(mid, g, q) => Single(Arrived(mid, out, f), g, q)
  BY <1>2, Sent
<1>4. inbox' = Arrived(mid, out, f) /\ got' = Received(out, f)  BY DEF Leaves
<1>5. /\ Received(out, f) \in [Host -> [Frames -> Nat]]
      /\ \A h \in Host, g \in Frames :
           Received(out, f)[h][g] = IF g = f /\ at[h] \in out THEN got[h][g] + 1 ELSE got[h][g]
  BY <1>1, <1>2, Gets
<1>6. FramesOK'
  <2>1. f \in DOMAIN sent /\ sent' = sent  BY DEF Leaves
  <2> QED  BY <1>1, <1>4, <1>5, <2>1 DEF FramesOK
<1>7. \A g \in Frames \ {f}, q \in Ports : Waiting(inbox', g, q) <=> Waiting(inbox, g, q)
  BY <1>3, <1>4 DEF Leaves
<1>8. \A g \in Frames \ {f}, q \in Ports : Single(inbox, g, q) => Single(inbox', g, q)
  BY <1>3, <1>4 DEF Leaves
<1> QED  BY <1>2, <1>3, <1>4, <1>5, <1>6, <1>7, <1>8

(* A frame whose copies stay where they are is as near to its receiver as  *)
(* it was.                                                                 *)
LEMMA StillArrives ==
  ASSUME NEW f \in DOMAIN sent, Arrives(f),
         sent'[f] = sent[f], at'[sent[f].dst] = at[sent[f].dst],
         got'[sent[f].dst][f] = got[sent[f].dst][f],
         \A p \in Ports : Heading(f, p)' <=> Heading(f, p),
         \A p \in Ports : Heading(f, p) /\ Single(inbox, f, p) => Single(inbox', f, p),
         \A s \in MacSwitch : Handled(f, s)' <=> Handled(f, s)
  PROVE  Arrives(f)'
<1>1. CASE /\ got[sent[f].dst][f] = 1
           /\ \A p \in Ports : ~Heading(f, p)
           /\ \A s \in MacSwitch : ~Handled(f, s)
  BY <1>1 DEF Arrives
<1>2. CASE /\ got[sent[f].dst][f] = 0
           /\ \E p \in Ports : Heading(f, p) /\ Single(inbox, f, p) /\ \A q \in Ports : Heading(f, q) => q = p
           /\ \A s \in MacSwitch : ~Handled(f, s)
  BY <1>2 DEF Arrives
<1>3. CASE /\ got[sent[f].dst][f] = 0
           /\ \A p \in Ports : ~Heading(f, p)
           /\ \E s \in MacSwitch : Handled(f, s) /\ \A t \in MacSwitch : Handled(f, t) => t = s
  BY <1>3 DEF Arrives
<1> QED  BY <1>1, <1>2, <1>3 DEF Arrives

LEMMA OthersStay ==
  ASSUME LanInv, NEW d, NEW out, NEW f, NEW mid, Leaves(d, out, f, mid), NEW g \in DOMAIN sent, g # f
  PROVE  /\ moved[sent[g].dst] = -1 => Arrives(g)'
         /\ moved[sent[g].src] = -1 =>
              /\ got'[sent[g].src][g] = 0
              /\ \A p \in Ports : Waiting(inbox', g, p) => at[sent[g].src] \in Behind[p]
<1>1. g \in Frames \ {f} /\ sent[g].src \in Host /\ sent[g].dst \in Host
  BY Numbers DEF LanInv
<1>2. /\ \A q \in Ports : Waiting(inbox', g, q) <=> Waiting(inbox, g, q)
      /\ \A q \in Ports : Single(inbox, g, q) => Single(inbox', g, q)
      /\ \A h \in Host : got'[h][g] = got[h][g]
  BY <1>1, LeavesFacts
<1>3. /\ \A s \in MacSwitch : Handled(g, s)' <=> Handled(g, s)
      /\ UNCHANGED <<at, sent, moved>>
  BY <1>1 DEF Leaves
<1>4. \A p \in Ports : Heading(g, p)' <=> Heading(g, p)
  BY <1>2, <1>3 DEF Heading
<1>5. moved[sent[g].dst] = -1 => Arrives(g)
  BY DEF LanInv, ReceiversOK
<1>6. ASSUME Arrives(g)  PROVE Arrives(g)'
  <2>1. sent'[g] = sent[g] /\ at'[sent[g].dst] = at[sent[g].dst]  BY <1>3
  <2>2. got'[sent[g].dst][g] = got[sent[g].dst][g]  BY <1>1, <1>2
  <2> QED  BY <1>2, <1>3, <1>4, <1>6, <2>1, <2>2, StillArrives
<1>7. moved[sent[g].src] = -1 =>
        /\ got[sent[g].src][g] = 0
        /\ \A p \in Ports : Waiting(inbox, g, p) => at[sent[g].src] \in Behind[p]
  BY DEF LanInv, SendersOK
<1> QED  BY <1>1, <1>2, <1>5, <1>6, <1>7

(* A frame that was at one place only and leaves it by a port that its     *)
(* receiver is behind is on its way again, or has arrived.                 *)
LEMMA GoesOn ==
  ASSUME LoopFree, LanInv, NEW d, NEW out, NEW f, NEW mid, Leaves(d, out, f, mid),
         got[sent[f].dst][f] = 0,
         NEW q0 \in out, at[sent[f].dst] \in Behind[q0],
         \A q \in Ports : Waiting(mid, f, q) => at[sent[f].dst] \in Behind[q],
         \A s \in MacSwitch : ~Handled(f, s)'
  PROVE  Arrives(f)'
<1> DEFINE h == sent[f].dst
           j == at[h]
<1>1. h \in Host /\ j \in Jack /\ f \in Frames
  BY Numbers DEF LanInv, LanTypeOK, Leaves
<1>2. d \in Device /\ out \in SUBSET PortsOf[d] /\ mid \in Boxes /\ inbox' = Arrived(mid, out, f)
      /\ UNCHANGED <<at, sent>>
  BY DEF Leaves
<1>3. got'[h][f] = IF j \in out THEN 1 ELSE 0
  <2>1. got'[h][f] = IF j \in out THEN got[h][f] + 1 ELSE got[h][f]
    BY <1>1, LeavesFacts
  <2> QED  BY <2>1
<1>4. \/ /\ j \in out
         /\ \A q \in Ports : Waiting(inbox', f, q) => j \in Behind[q]
      \/ /\ j \notin out
         /\ \E p \in Ports :
              /\ Waiting(inbox', f, p) /\ j \notin Behind[p] /\ Single(inbox', f, p)
              /\ \A q \in Ports : Waiting(inbox', f, q) /\ j \notin Behind[q] => q = p
  BY <1>1, <1>2, Passed
<1>5. \A q \in Ports : Heading(f, q)' <=> Waiting(inbox', f, q) /\ j \notin Behind[q]
  BY <1>2 DEF Heading
<1>6. h = sent'[f].dst  BY <1>2
<1>7. CASE j \in out
  <2>1. got'[h][f] = 1 /\ \A q \in Ports : ~Heading(f, q)'  BY <1>3, <1>4, <1>5, <1>7
  <2> QED  BY <1>6, <2>1 DEF Arrives
<1>8. CASE j \notin out
  <2>1. got'[h][f] = 0  BY <1>3, <1>8
  <2>2. PICK p \in Ports : /\ Waiting(inbox', f, p) /\ j \notin Behind[p] /\ Single(inbox', f, p)
                           /\ \A q \in Ports : Waiting(inbox', f, q) /\ j \notin Behind[q] => q = p
    BY <1>4, <1>8
  <2>3. Heading(f, p)' /\ Single(inbox', f, p) /\ \A q \in Ports : Heading(f, q)' => q = p
    BY <1>5, <2>2
  <2> QED  BY <1>6, <2>1, <2>3 DEF Arrives
<1> QED  BY <1>7, <1>8
--------------------------------------------------------------------------------
(* The steps. *)

LEMMA FromOneSide ==
  ASSUME LoopFree, NEW d \in Device, NEW p \in PortsOf[d], NEW j \in Jack, j \in Behind[p],
         NEW q \in PortsOf[d], q # p
  PROVE  j \notin Behind[q]
  BY DEF LoopFree

(* What has left a switch stays behind the port by which it left, and      *)
(* comes to no switch.                                                     *)
LEMMA OutboundStays ==
  ASSUME NEW d \in Device, NEW p \in PortsOf[d], Outbound(p)
  PROVE  /\ \A r \in PortsOf[d] : r # p /\ r \notin Jack => Outbound(Peer(r))
         /\ NoEcho => d \notin MacSwitch
<1>0. PICK s \in MacSwitch : \E q \in PortsOf[s] : \E x \in Behind[q] \ Jack : p = Peer(x)
  BY DEF Outbound
<1>1. PICK q \in PortsOf[s] : \E x \in Behind[q] \ Jack : p = Peer(x)  BY <1>0
<1>9. PICK x \in Behind[q] \ Jack : p = Peer(x)  BY <1>1
<1>2. s \in Device /\ q \in Ports  BY DeviceIs DEF Device
<1>3. Closed(Behind[q])  BY <1>2, BehindIs
<1>4. DeviceOf(p) = d  BY DeviceIs
<1>5. Onward(x) = PortsOf[d] \ {p}  BY <1>9, <1>4 DEF Onward
<1>6. \A r \in PortsOf[d] : r # p => r \in Behind[q]
  BY <1>9, <1>3, <1>5 DEF Closed
<1>7. NoEcho => d \in Hub  BY <1>9, <1>4 DEF NoEcho
<1>8. d \in Hub => d \notin MacSwitch  BY LanAssumption
<1> QED  BY <1>6, <1>7, <1>8 DEF Outbound

LEMMA RepeatStep ==
  ASSUME LoopFree, LanInv, NEW b \in Hub, NEW p \in PortsOf[b], Repeat(b, p)
  PROVE  LanInv'
<1>0. PICK f : f = Head(inbox[p])  OBVIOUS
<1> DEFINE out == AllBut(b, p)
           mid == [inbox EXCEPT ![p] = Tail(@)]
<1>1. b \in Device /\ p \in Ports /\ out \in SUBSET PortsOf[b] /\ out = PortsOf[b] \ {p}
  BY DeviceIs DEF Device, AllBut
<1>2. LanTypeOK /\ HostsOK /\ CopiesOK /\ WorkOK /\ EntriesOK /\ FramesOK /\ SendersOK /\ ReceiversOK
  BY DEF LanInv
<1>3. inbox \in Boxes /\ inbox[p] # << >>  BY <1>2 DEF LanTypeOK, Boxes, Repeat
<1>4. f \in Frames /\ Waiting(inbox, f, p)  BY <1>0, <1>1, <1>3, HeadIs
<1>5. f \in DOMAIN sent /\ (at[sent[f].src] \in Behind[p] \/ Outbound(p))
  BY <1>1, <1>2, <1>4 DEF CopiesOK
<1>6. /\ mid \in Boxes
      /\ \A g, q : q \in Ports /\ Waiting(mid, g, q) => Waiting(inbox, g, q)
      /\ \A g, q : q \in Ports /\ g # f /\ Waiting(inbox, g, q) => Waiting(mid, g, q)
      /\ \A g, q : q \in Ports /\ Single(inbox, g, q) => Single(mid, g, q)
      /\ Single(inbox, f, p) => ~Waiting(mid, f, p)
      /\ \A q \in Ports : q # p => mid[q] = inbox[q]
  BY <1>0, <1>1, <1>3, Taken
<1>7. UNCHANGED <<at, table, swept, work, sent, moved>> /\ inbox' = Arrived(mid, out, f) /\ got' = Received(out, f)
  BY <1>0 DEF Repeat
<1> HIDE DEF out, mid
<1>8. Leaves(b, out, f, mid)
  BY <1>1, <1>5, <1>6, <1>7 DEF Leaves, Handled
<1>9. /\ inbox' \in Boxes
      /\ got' \in [Host -> [Frames -> Nat]]
      /\ FramesOK'
      /\ \A g \in Frames \ {f}, q \in Ports : Waiting(inbox', g, q) <=> Waiting(inbox, g, q)
      /\ \A q \in Ports : Waiting(inbox', f, q) =>
           Waiting(mid, f, q) \/ \E r \in out \ Jack : q = Peer(r)
      /\ \A h \in Host : got'[h][f] = IF at[h] \in out THEN got[h][f] + 1 ELSE got[h][f]
  BY <1>4, <1>8, LeavesFacts
<1>10. sent[f].src \in Host /\ sent[f].dst \in Host /\ at[sent[f].src] \in Jack /\ at[sent[f].dst] \in Jack
  BY <1>2, <1>5, Numbers DEF LanTypeOK
<1>11. LanTypeOK'  BY <1>2, <1>7, <1>9 DEF LanTypeOK, Boxes
<1>12. HostsOK' /\ WorkOK' /\ EntriesOK'
  BY <1>2, <1>7 DEF HostsOK, WorkOK, EntriesOK, Leads
\* The copies that go out come from the sender, or from the switch.
<1>13. ASSUME NEW r \in out \ Jack
       PROVE  \/ at[sent[f].src] \in Behind[Peer(r)]
              \/ Outbound(p) /\ Outbound(Peer(r))
  <2>1. r \in PortsOf[b] /\ r # p /\ r \in Ports \ Jack  BY <1>1, <1>13, DeviceIs
  <2>2. CASE at[sent[f].src] \in Behind[p]
    <3>1. at[sent[f].src] \notin Behind[r]  BY <1>1, <1>10, <2>1, <2>2, FromOneSide
    <3> QED  BY <1>10, <2>1, <3>1, WireCuts
  <2>3. CASE Outbound(p)
    <3>1. Outbound(Peer(r))  BY <1>1, <2>1, <2>3, OutboundStays
    <3> QED  BY <2>3, <3>1
  <2> QED  BY <1>5, <2>2, <2>3
<1>14. CopiesOK'
  <2> SUFFICES ASSUME NEW q \in Ports, NEW g \in Frames, Waiting(inbox', g, q)
               PROVE  g \in DOMAIN sent /\ (at[sent[g].src] \in Behind[q] \/ Outbound(q))
    BY <1>7 DEF CopiesOK
  <2>1. CASE Waiting(inbox, g, q)  BY <1>2, <2>1 DEF CopiesOK
  <2>2. CASE ~Waiting(inbox, g, q)
    <3>1. g = f /\ \E r \in out \ Jack : q = Peer(r)  BY <1>6, <1>9, <2>2
    <3> QED  BY <1>5, <1>13, <3>1
  <2> QED  BY <2>1, <2>2
<1>15. SendersOK'
  <2> SUFFICES ASSUME NEW g \in DOMAIN sent, moved[sent[g].src] = -1
               PROVE  /\ got'[sent[g].src][g] = 0
                      /\ \A q \in Ports : Waiting(inbox', g, q) => at[sent[g].src] \in Behind[q]
    BY <1>7 DEF SendersOK
  <2>1. CASE g # f  BY <1>8, <2>1, OthersStay
  <2>2. CASE g = f
    <3> DEFINE j == at[sent[f].src]
    <3>1. got[sent[f].src][f] = 0 /\ \A q \in Ports : Waiting(inbox, f, q) => j \in Behind[q]
      BY <1>2, <2>2 DEF SendersOK
    <3>2. j \in Behind[p]  BY <1>1, <1>4, <3>1
    <3>3. \A r \in out : j \notin Behind[r]  BY <1>1, <1>10, <3>2, FromOneSide
    <3>4. j \notin out /\ \A r \in out \ Jack : j \in Behind[Peer(r)]
      BY <1>1, <1>10, <3>3, ExitNone
    <3> QED  BY <1>6, <1>9, <1>10, <2>2, <3>1, <3>4
  <2> QED  BY <2>1, <2>2
<1>16. ReceiversOK'
  <2> SUFFICES ASSUME NEW g \in DOMAIN sent, moved[sent[g].dst] = -1
               PROVE  Arrives(g)'
    BY <1>7 DEF ReceiversOK
  <2>1. CASE g # f  BY <1>8, <2>1, OthersStay
  <2>2. CASE g = f
    <3> DEFINE j == at[sent[f].dst]
    <3>1. Arrives(f)  BY <1>2, <2>2 DEF ReceiversOK
    <3>2. CASE j \in Behind[p]
      <4>1. \A r \in out : j \notin Behind[r]  BY <1>1, <1>10, <3>2, FromOneSide
      <4>2. /\ j \notin out
            /\ \A q \in Ports : j \notin Behind[q] => inbox'[q] = mid[q]
        <5>1. j \in Jack  BY <1>10
        <5> HIDE DEF j
        <5>2. /\ j \notin out
              /\ \A q \in Ports : j \notin Behind[q] => Arrived(mid, out, f)[q] = mid[q]
          BY <1>1, <1>4, <1>6, <4>1, <5>1, PassedBy
        <5> QED  BY <1>7, <5>2
      <4>3. \A q \in Ports : j \notin Behind[q] => inbox'[q] = inbox[q]
        BY <1>6, <3>2, <4>2
      <4>4. \A q \in Ports : Heading(f, q)' <=> Heading(f, q)
        BY <1>7, <4>3 DEF Heading, Waiting
      <4>5. \A q \in Ports : Heading(f, q) /\ Single(inbox, f, q) => Single(inbox', f, q)
        BY <4>3 DEF Heading, Single
      <4>6. got'[sent[f].dst][f] = got[sent[f].dst][f]  BY <1>9, <1>10, <4>2
      <4>7. \A s \in MacSwitch : Handled(f, s)' <=> Handled(f, s)  BY <1>7 DEF Handled
      <4> QED  BY <1>5, <1>7, <2>2, <3>1, <4>4, <4>5, <4>6, <4>7, StillArrives
    <3>3. CASE j \notin Behind[p]
      <4>1. Heading(f, p)  BY <1>4, <3>3 DEF Heading
      <4>2. /\ got[sent[f].dst][f] = 0
            /\ Single(inbox, f, p) /\ \A q \in Ports : Heading(f, q) => q = p
            /\ \A s \in MacSwitch : ~Handled(f, s)
        BY <1>1, <3>1, <4>1 DEF Arrives
      <4>3. \A q \in Ports : Waiting(mid, f, q) => j \in Behind[q]
        BY <1>6, <4>2 DEF Heading
      <4>4. PICK q0 \in PortsOf[b] : j \in Behind[q0]  BY <1>1, <1>10 DEF LoopFree
      <4>5. q0 \in out  BY <1>1, <3>3, <4>4
      <4>6. \A s \in MacSwitch : ~Handled(f, s)'  BY <1>7, <4>2 DEF Handled
      <4> QED  BY <1>8, <2>2, <4>2, <4>3, <4>4, <4>5, <4>6, GoesOn
    <3> QED  BY <3>2, <3>3
  <2> QED  BY <2>1, <2>2
<1> QED  BY <1>9, <1>11, <1>12, <1>14, <1>15, <1>16 DEF LanInv

(* A switch that handles a packet sends it out by one port on the way to a *)
(* receiver that has stayed where it is, and by none back to such a sender.*)
LEMMA SwitchSends ==
  ASSUME LoopFree, NoEcho, LanInv, NEW s \in MacSwitch, work[s] # Idle
  PROVE  LET f == work[s].frame
             out == OutPorts(s, work[s])
         IN  /\ out \in SUBSET PortsOf[s]
             /\ moved[sent[f].src] = -1 => \A q \in out : at[sent[f].src] \notin Behind[q]
             /\ moved[sent[f].dst] = -1 => \E q \in out : at[sent[f].dst] \in Behind[q]
<1> DEFINE f == work[s].frame
           p == work[s].in
           x == work[s].out
           out == OutPorts(s, work[s])
           src == sent[f].src
           dst == sent[f].dst
<1>1. LanTypeOK /\ HostsOK /\ WorkOK /\ FramesOK  BY DEF LanInv
<1>2. f \in DOMAIN sent /\ p \in PortsOf[s] /\ at[src] \in Behind[p]
      /\ (x # None => x \in PortsOf[s] /\ Leads(x, dst))
  BY <1>1 DEF WorkOK
<1>3. src \in Host /\ dst \in Host /\ src # dst /\ at[src] \in Jack /\ at[dst] \in Jack
      /\ Start[src] \in Jack /\ Start[dst] \in Jack /\ Start[src] # Start[dst] /\ at[src] # at[dst]
  <2>1. src \in Host /\ dst \in Host /\ src # dst
    BY <1>1, <1>2, Numbers DEF LanTypeOK, FramesOK
  <2>2. at[src] \in Jack /\ at[dst] \in Jack /\ at[src] # at[dst]
    BY <1>1, <2>1 DEF LanTypeOK, HostsOK
  <2>3. Start[src] \in Jack /\ Start[dst] \in Jack /\ Start[src] # Start[dst]
    BY <2>1, LanAssumption
  <2> QED  BY <2>1, <2>2, <2>3
<1>4. s \in Device /\ PortsOf[s] \subseteq Ports  BY DeviceIs DEF Device
<1>5. out = IF x # None THEN {x} ELSE PortsOf[s] \ {p}
  BY DEF OutPorts, AllBut
<1>6. out \in SUBSET PortsOf[s]  BY <1>2, <1>5
<1>7. \A i, j \in Behind[p] : i \in Jack /\ j \in Jack => i = j
  BY <1>2 DEF NoEcho
<1> HIDE DEF f, p, x, out, src, dst
<1>8. ASSUME moved[src] = -1, NEW q \in out  PROVE at[src] \notin Behind[q]
  <2>1. at[src] = Start[src]  BY <1>1, <1>3, <1>8 DEF HostsOK
  <2>2. CASE q # p
    BY <1>2, <1>3, <1>4, <1>6, <2>2, FromOneSide
  <2>3. CASE q = p
    <3>1. Leads(p, dst)  BY <1>2, <1>5, <1>8, <2>3
    <3>2. at[dst] = at[src] \/ Start[dst] = at[src]
      BY <1>2, <1>3, <1>7, <3>1 DEF Leads
    <3> QED  BY <1>3, <2>1, <3>2
  <2> QED  BY <2>2, <2>3
<1>9. ASSUME moved[dst] = -1  PROVE \E q \in out : at[dst] \in Behind[q]
  <2>1. at[dst] = Start[dst]  BY <1>1, <1>3, <1>9 DEF HostsOK
  <2>2. CASE x # None
    BY <1>2, <1>5, <2>1, <2>2 DEF Leads
  <2>3. CASE x = None
    <3>1. PICK q \in PortsOf[s] : at[dst] \in Behind[q]  BY <1>3, <1>4 DEF LoopFree
    <3>2. q # p  BY <1>2, <1>3, <1>7, <3>1
    <3> QED  BY <1>5, <2>3, <3>1, <3>2
  <2> QED  BY <2>2, <2>3
<1> QED  BY <1>6, <1>8, <1>9 DEF f, out, src, dst

LEMMA LookupStep ==
  ASSUME LoopFree, NoEcho, LanInv, NEW s \in MacSwitch, NEW p \in PortsOf[s], Lookup(s, p)
  PROVE  LanInv'
<1>0. PICK f : f = Head(inbox[p])  OBVIOUS
<1> DEFINE mid == [inbox EXCEPT ![p] = Tail(@)]
           w == [pc |-> "send", frame |-> f, in |-> p, out |-> table[s][sent[f].dst].port]
<1>1. s \in Device /\ p \in Ports  BY DeviceIs DEF Device
<1>2. LanTypeOK /\ HostsOK /\ CopiesOK /\ WorkOK /\ EntriesOK /\ FramesOK /\ SendersOK /\ ReceiversOK
  BY DEF LanInv
<1>3. inbox \in Boxes /\ inbox[p] # << >>  BY <1>2 DEF LanTypeOK, Boxes, Lookup
<1>4. f \in Frames /\ Waiting(inbox, f, p)  BY <1>0, <1>1, <1>3, HeadIs
<1>5. f \in DOMAIN sent /\ at[sent[f].src] \in Behind[p]
  <2>1. ~Outbound(p)  BY <1>1, OutboundStays
  <2> QED  BY <1>1, <1>2, <1>4, <2>1 DEF CopiesOK
<1>6. /\ mid \in Boxes
      /\ \A g, q : q \in Ports /\ Waiting(mid, g, q) => Waiting(inbox, g, q)
      /\ \A g, q : q \in Ports /\ g # f /\ Waiting(inbox, g, q) => Waiting(mid, g, q)
      /\ \A g, q : q \in Ports /\ Single(inbox, g, q) => Single(mid, g, q)
      /\ Single(inbox, f, p) => ~Waiting(mid, f, p)
  BY <1>0, <1>1, <1>3, Taken
<1>7. UNCHANGED <<at, table, swept, sent, got, moved>> /\ inbox' = mid
      /\ work[s] = Idle /\ work' = [work EXCEPT ![s] = w]
  BY <1>0 DEF Lookup
<1>8. sent[f].src \in Host /\ sent[f].dst \in Host /\ sent[f].src # sent[f].dst
      /\ at[sent[f].src] \in Jack /\ at[sent[f].dst] \in Jack
  BY <1>2, <1>5, Numbers DEF LanTypeOK, FramesOK
<1>9. table[s][sent[f].dst] \in Entries  BY <1>2, <1>8 DEF LanTypeOK
<1>10. w \in Works
       /\ w.pc = "send" /\ w.frame = f /\ w.in = p /\ w.out = table[s][sent[f].dst].port
  BY <1>1, <1>4, <1>9 DEF Entries, Works
<1>11. work \in [MacSwitch -> Works]
  BY <1>2 DEF LanTypeOK
<1> HIDE DEF mid, w
<1>12. work'[s] = w /\ \A t \in MacSwitch : t # s => work'[t] = work[t]
  BY <1>7, <1>11
<1>13. LanTypeOK'
  <2>1. work' \in [MacSwitch -> Works]  BY <1>7, <1>10, <1>11
  <2> QED  BY <1>2, <1>6, <1>7, <2>1 DEF LanTypeOK, Boxes
<1>14. HostsOK' /\ EntriesOK' /\ FramesOK'
  BY <1>2, <1>7 DEF HostsOK, EntriesOK, Leads, FramesOK
<1>15. CopiesOK'  BY <1>2, <1>6, <1>7 DEF CopiesOK
<1>16. WorkOK'
  <2> SUFFICES ASSUME NEW t \in MacSwitch, work'[t] # Idle
               PROVE  /\ work'[t].frame \in DOMAIN sent
                      /\ work'[t].in \in PortsOf[t]
                      /\ at[sent[work'[t].frame].src] \in Behind[work'[t].in]
                      /\ work'[t].out # None =>
                           work'[t].out \in PortsOf[t] /\ Leads(work'[t].out, sent[work'[t].frame].dst)
    BY <1>7 DEF WorkOK, Leads
  <2>1. CASE t # s  BY <1>2, <1>12, <2>1 DEF WorkOK
  <2>2. CASE t = s
    <3>1. w.out # None => w.out \in PortsOf[s] /\ Leads(w.out, sent[f].dst)
      BY <1>2, <1>8, <1>10 DEF EntriesOK
    <3> QED  BY <1>5, <1>10, <1>12, <2>2, <3>1
  <2> QED  BY <2>1, <2>2
<1>17. SendersOK'  BY <1>2, <1>6, <1>7, Numbers DEF SendersOK
<1>18. \A t \in MacSwitch, g \in DOMAIN sent : g # f => (Handled(g, t)' <=> Handled(g, t))
  <2>1. \A g \in DOMAIN sent : g # 0  BY <1>2, Numbers
  <2> QED  BY <1>7, <1>10, <1>12, <2>1 DEF Handled, Idle
<1>19. ReceiversOK'
  <2> SUFFICES ASSUME NEW g \in DOMAIN sent, moved[sent[g].dst] = -1
               PROVE  Arrives(g)'
    BY <1>7 DEF ReceiversOK
  <2>1. Arrives(g)  BY <1>2 DEF ReceiversOK
  <2>2. CASE g # f
    <3>1. \A q \in Ports : Heading(g, q)' <=> Heading(g, q)
      BY <1>6, <1>7, <2>2 DEF Heading
    <3>2. \A q \in Ports : Heading(g, q) /\ Single(inbox, g, q) => Single(inbox', g, q)
      BY <1>6, <1>7
    <3>3. \A t \in MacSwitch : Handled(g, t)' <=> Handled(g, t)  BY <1>18, <2>2
    <3> QED  BY <1>7, <2>1, <3>1, <3>2, <3>3, StillArrives
  <2>3. CASE g = f
    <3>1. Heading(f, p)
      <4>1. at[sent[f].dst] # at[sent[f].src]  BY <1>2, <1>8 DEF HostsOK
      <4>2. at[sent[f].dst] \notin Behind[p]  BY <1>5, <1>8, <4>1 DEF NoEcho
      <4> QED  BY <1>4, <4>2 DEF Heading
    <3>2. /\ got[sent[f].dst][f] = 0
          /\ Single(inbox, f, p) /\ \A q \in Ports : Heading(f, q) => q = p
          /\ \A t \in MacSwitch : ~Handled(f, t)
      BY <1>1, <2>1, <2>3, <3>1 DEF Arrives
    <3>3. \A q \in Ports : ~Heading(f, q)'
      BY <1>6, <1>7, <3>2 DEF Heading
    <3>4. Handled(f, s)' /\ \A t \in MacSwitch : Handled(f, t)' => t = s
      BY <1>10, <1>12, <3>2 DEF Handled
    <3> QED  BY <1>7, <2>3, <3>2, <3>3, <3>4 DEF Arrives
  <2> QED  BY <2>2, <2>3
<1> QED  BY <1>13, <1>14, <1>15, <1>16, <1>17, <1>19 DEF LanInv

LEMMA SendStep ==
  ASSUME LoopFree, NoEcho, LanInv, NEW s \in MacSwitch, Send(s)
  PROVE  LanInv'
<1>0. PICK f : f = work[s].frame  OBVIOUS
<1> DEFINE p == work[s].in
           out == OutPorts(s, work[s])
           src == sent[f].src
           w == [work[s] EXCEPT !.pc = "insert"]
<1>1. LanTypeOK /\ HostsOK /\ CopiesOK /\ WorkOK /\ EntriesOK /\ FramesOK /\ SendersOK /\ ReceiversOK
  BY DEF LanInv
<1>2. work[s] # Idle /\ work[s].pc = "send"  BY DEF Send, Idle
<1>3. f \in DOMAIN sent /\ p \in PortsOf[s] /\ at[src] \in Behind[p]
  BY <1>0, <1>1, <1>2 DEF WorkOK
<1>4. s \in Device /\ PortsOf[s] \subseteq Ports  BY DeviceIs DEF Device
<1>5. /\ out \in SUBSET PortsOf[s]
      /\ moved[src] = -1 => \A q \in out : at[src] \notin Behind[q]
      /\ moved[sent[f].dst] = -1 => \E q \in out : at[sent[f].dst] \in Behind[q]
  BY <1>0, <1>2, SwitchSends
<1>6. inbox \in Boxes  BY <1>1 DEF LanTypeOK, Boxes
<1>7. /\ UNCHANGED <<at, table, swept, sent, moved>>
      /\ inbox' = Arrived(inbox, out, f) /\ got' = Received(out, f)
      /\ work' = [work EXCEPT ![s] = w]
  BY <1>0 DEF Send
<1>8. src \in Host /\ sent[f].dst \in Host /\ at[src] \in Jack /\ at[sent[f].dst] \in Jack
      /\ f \in Frames /\ f # 0
  BY <1>1, <1>3, Numbers DEF LanTypeOK
<1>9. work \in [MacSwitch -> Works]  BY <1>1 DEF LanTypeOK
<1>10. w \in Works /\ w.pc = "insert" /\ w.frame = f /\ w.in = p /\ w.out = work[s].out
  BY <1>0, <1>9 DEF Works
<1> HIDE DEF p, out, w
<1>15. /\ work'[s] = w
       /\ \A t \in MacSwitch : t # s => work'[t] = work[t]
       /\ work' \in [MacSwitch -> Works]
  BY <1>7, <1>9, <1>10
<1>16. Leaves(s, out, f, inbox)
  <2>2. \A g \in Frames \ {f}, t \in MacSwitch : Handled(g, t)' <=> Handled(g, t)
    BY <1>0, <1>10, <1>15 DEF Handled
  <2> QED  BY <1>3, <1>4, <1>5, <1>6, <1>7, <2>2 DEF Leaves
<1>17. /\ inbox' \in Boxes
       /\ got' \in [Host -> [Frames -> Nat]]
       /\ FramesOK'
       /\ \A g \in Frames \ {f}, q \in Ports : Waiting(inbox', g, q) <=> Waiting(inbox, g, q)
       /\ \A q \in Ports : Waiting(inbox', f, q) =>
            Waiting(inbox, f, q) \/ \E r \in out \ Jack : q = Peer(r)
       /\ \A h \in Host : got'[h][f] = IF at[h] \in out THEN got[h][f] + 1 ELSE got[h][f]
  BY <1>8, <1>16, LeavesFacts
<1>18. LanTypeOK'  BY <1>1, <1>7, <1>15, <1>17 DEF LanTypeOK, Boxes
<1>19. HostsOK'  BY <1>1, <1>7 DEF HostsOK
<1>20. WorkOK'
  <2> SUFFICES ASSUME NEW t \in MacSwitch, work'[t] # Idle
               PROVE  /\ work'[t].frame \in DOMAIN sent
                      /\ work'[t].in \in PortsOf[t]
                      /\ at[sent[work'[t].frame].src] \in Behind[work'[t].in]
                      /\ work'[t].out # None =>
                           work'[t].out \in PortsOf[t] /\ Leads(work'[t].out, sent[work'[t].frame].dst)
    BY <1>7 DEF WorkOK, Leads
  <2>1. CASE t # s  BY <1>1, <1>15, <2>1 DEF WorkOK
  <2>2. CASE t = s
    <3>1. work'[t].frame = work[s].frame /\ work'[t].in = work[s].in /\ work'[t].out = work[s].out
      BY <1>0, <1>10, <1>15, <2>2 DEF p
    <3> QED  BY <1>1, <1>2, <2>2, <3>1 DEF WorkOK
  <2> QED  BY <2>1, <2>2
<1>21. EntriesOK'  BY <1>1, <1>7 DEF EntriesOK, Leads
<1>22. CopiesOK'
  <2> SUFFICES ASSUME NEW q \in Ports, NEW g \in Frames, Waiting(inbox', g, q)
               PROVE  g \in DOMAIN sent /\ (at[sent[g].src] \in Behind[q] \/ Outbound(q))
    BY <1>7 DEF CopiesOK
  <2>1. CASE Waiting(inbox, g, q)  BY <1>1, <2>1 DEF CopiesOK
  <2>2. CASE ~Waiting(inbox, g, q)
    <3>1. g = f  BY <1>17, <2>2
    <3>2. PICK r \in out \ Jack : q = Peer(r)  BY <1>17, <2>2, <3>1
    <3>3. r \in PortsOf[s] /\ r \in Behind[r] \ Jack  BY <1>4, <1>5, <3>2, BehindIs
    <3>4. Outbound(q)  BY <3>2, <3>3 DEF Outbound
    <3> QED  BY <1>3, <3>1, <3>4
  <2> QED  BY <2>1, <2>2
<1>23. SendersOK'
  <2> SUFFICES ASSUME NEW g \in DOMAIN sent, moved[sent[g].src] = -1
               PROVE  /\ got'[sent[g].src][g] = 0
                      /\ \A q \in Ports : Waiting(inbox', g, q) => at[sent[g].src] \in Behind[q]
    BY <1>7 DEF SendersOK
  <2>1. CASE g # f  BY <1>16, <2>1, OthersStay
  <2>2. CASE g = f
    <3>1. got[src][f] = 0 /\ \A q \in Ports : Waiting(inbox, f, q) => at[src] \in Behind[q]
      BY <1>1, <2>2 DEF SendersOK
    <3>2. \A r \in out : at[src] \notin Behind[r]  BY <1>5, <2>2
    <3>3. at[src] \notin out /\ \A r \in out \ Jack : at[src] \in Behind[Peer(r)]
      <4> DEFINE j == at[src]
      <4>1. j \in Jack /\ \A r \in out : j \notin Behind[r]  BY <1>8, <3>2
      <4> HIDE DEF j
      <4>2. j \notin out /\ \A r \in out \ Jack : j \in Behind[Peer(r)]
        BY <1>4, <1>5, <4>1, ExitNone
      <4> QED  BY <4>2 DEF j
    <3> QED  BY <1>8, <1>17, <2>2, <3>1, <3>3
  <2> QED  BY <2>1, <2>2
<1>24. ReceiversOK'
  <2> SUFFICES ASSUME NEW g \in DOMAIN sent, moved[sent[g].dst] = -1
               PROVE  Arrives(g)'
    BY <1>7 DEF ReceiversOK
  <2>1. CASE g # f  BY <1>16, <2>1, OthersStay
  <2>2. CASE g = f
    <3>1. Arrives(f)  BY <1>1, <2>2 DEF ReceiversOK
    <3>2. Handled(f, s)  BY <1>0, <1>2 DEF Handled
    <3>3. /\ got[sent[f].dst][f] = 0
          /\ \A q \in Ports : ~Heading(f, q)
          /\ \A t \in MacSwitch : Handled(f, t) => t = s
      BY <3>1, <3>2 DEF Arrives
    <3>4. \A q \in Ports : Waiting(inbox, f, q) => at[sent[f].dst] \in Behind[q]
      BY <3>3 DEF Heading
    <3>5. \A t \in MacSwitch : ~Handled(f, t)'
      BY <1>10, <1>15, <3>3 DEF Handled
    <3>6. PICK q0 \in out : at[sent[f].dst] \in Behind[q0]  BY <1>5, <2>2
    <3> QED  BY <1>16, <2>2, <3>3, <3>4, <3>5, <3>6, GoesOn
  <2> QED  BY <2>1, <2>2
<1> QED  BY <1>17, <1>18, <1>19, <1>20, <1>21, <1>22, <1>23, <1>24 DEF LanInv

LEMMA InsertStep ==
  ASSUME LanInv, NEW s \in MacSwitch, Insert(s)
  PROVE  LanInv'
<1>0. PICK f : f = work[s].frame  OBVIOUS
<1> DEFINE p == work[s].in
           src == sent[f].src
           e == [port |-> p, age |-> 0]
<1>1. LanTypeOK /\ HostsOK /\ CopiesOK /\ WorkOK /\ EntriesOK /\ FramesOK /\ SendersOK /\ ReceiversOK
  BY DEF LanInv
<1>2. work[s] # Idle /\ work[s].pc = "insert"  BY DEF Insert, Idle
<1>3. f \in DOMAIN sent /\ p \in PortsOf[s] /\ at[src] \in Behind[p]
  BY <1>0, <1>1, <1>2 DEF WorkOK
<1>4. s \in Device /\ PortsOf[s] \subseteq Ports  BY DeviceIs DEF Device
<1>7. /\ UNCHANGED <<at, swept, inbox, sent, got, moved>>
      /\ table' = [table EXCEPT ![s] = Learned(s, src, p)]
      /\ work' = [work EXCEPT ![s] = Idle]
  BY <1>0 DEF Insert
<1>8. src \in Host /\ sent[f].dst \in Host /\ at[src] \in Jack /\ at[sent[f].dst] \in Jack
      /\ f \in Frames /\ f # 0
  BY <1>1, <1>3, Numbers DEF LanTypeOK
<1>9. work \in [MacSwitch -> Works]
      /\ table \in [MacSwitch -> [Host -> Entries]]
  BY <1>1 DEF LanTypeOK
<1>10. p \in Ports /\ p # None  BY <1>3, <1>4, LanAssumption
<1>11. e \in Entries /\ e.port = p /\ e.age = 0  BY <1>10 DEF Entries
<1>12. Learned(s, src, p) = [table[s] EXCEPT ![src] = e]  BY DEF Learned
<1>13. Idle \in Works
  BY DEF Idle, Works
<1> HIDE DEF p, e
<1>14. /\ table' \in [MacSwitch -> [Host -> Entries]]
       /\ \A t \in MacSwitch, h \in Host :
            table'[t][h] = IF t = s /\ h = src THEN e ELSE table[t][h]
  BY <1>7, <1>8, <1>9, <1>11, <1>12
<1>15. /\ work'[s] = Idle
       /\ \A t \in MacSwitch : t # s => work'[t] = work[t]
       /\ work' \in [MacSwitch -> Works]
  BY <1>7, <1>9, <1>13
<1>18. LanTypeOK'  BY <1>1, <1>7, <1>14, <1>15 DEF LanTypeOK
<1>19. HostsOK' /\ CopiesOK' /\ FramesOK' /\ SendersOK'
  BY <1>1, <1>7 DEF HostsOK, CopiesOK, FramesOK, SendersOK
<1>20. WorkOK'
  BY <1>1, <1>7, <1>15 DEF WorkOK, Leads
<1>21. EntriesOK'
  <2> SUFFICES ASSUME NEW t \in MacSwitch, NEW h \in Host
               PROVE  /\ table'[t][h].port = None => table'[t][h] = NoEntry
                      /\ table'[t][h].port # None =>
                           /\ table'[t][h].port \in PortsOf[t]
                           /\ Leads(table'[t][h].port, h)
                           /\ at[h] \notin Behind[table'[t][h].port] =>
                                moved[h] # -1 /\ moved[h] <= table'[t][h].age
                           /\ table'[t][h].age <= Timeout + 1
                           /\ t \in swept => table'[t][h].age <= Timeout
    BY <1>7 DEF EntriesOK, Leads
  <2>1. CASE t = s /\ h = src
    <3>1. table'[t][h] = e  BY <1>14, <2>1
    <3>2. 0 <= Timeout + 1 /\ 0 <= Timeout  BY LanAssumption
    <3> QED  BY <1>3, <1>10, <1>11, <2>1, <3>1, <3>2 DEF Leads
  <2>2. CASE ~(t = s /\ h = src)
    <3>1. table'[t][h] = table[t][h]  BY <1>14, <2>2
    <3> QED  BY <1>1, <3>1 DEF EntriesOK
  <2> QED  BY <2>1, <2>2
<1>22. \A g, t : t \in MacSwitch => (Handled(g, t)' <=> Handled(g, t))
  BY <1>2, <1>15 DEF Handled, Idle
<1>23. ReceiversOK'
  BY <1>1, <1>7, <1>22 DEF ReceiversOK, Arrives, Heading
<1> QED  BY <1>18, <1>19, <1>20, <1>21, <1>23 DEF LanInv

LEMMA SweepStep ==
  ASSUME LanInv, NEW s \in MacSwitch, Sweep(s)
  PROVE  LanInv'
<1>1. LanTypeOK /\ HostsOK /\ CopiesOK /\ WorkOK /\ EntriesOK /\ FramesOK /\ SendersOK /\ ReceiversOK
  BY DEF LanInv
<1>2. UNCHANGED <<at, work, inbox, sent, got, moved>> /\ swept' = swept \cup {s}
  BY DEF Sweep
<1>3. NoEntry \in Entries /\ NoEntry.port = None  BY DEF NoEntry, Entries
<1>4. table \in [MacSwitch -> [Host -> Entries]]  BY <1>1 DEF LanTypeOK
<1>5. /\ table' \in [MacSwitch -> [Host -> Entries]]
      /\ \A t \in MacSwitch, h \in Host :
           table'[t][h] = IF t = s /\ Aged(table[s][h]) THEN NoEntry ELSE table[t][h]
  <2> DEFINE new == [h \in Host |-> IF Aged(table[s][h]) THEN NoEntry ELSE table[s][h]]
  <2>1. new \in [Host -> Entries]  BY <1>3, <1>4
  <2>2. \A h \in Host : new[h] = IF Aged(table[s][h]) THEN NoEntry ELSE table[s][h]
    OBVIOUS
  <2>3. table' = [table EXCEPT ![s] = new]  BY DEF Sweep
  <2> HIDE DEF new
  <2> QED  BY <1>4, <2>1, <2>2, <2>3
<1>6. LanTypeOK'  BY <1>1, <1>2, <1>5 DEF LanTypeOK
<1>7. EntriesOK'
  <2> SUFFICES ASSUME NEW t \in MacSwitch, NEW h \in Host
               PROVE  /\ table'[t][h].port = None => table'[t][h] = NoEntry
                      /\ table'[t][h].port # None =>
                           /\ table'[t][h].port \in PortsOf[t]
                           /\ Leads(table'[t][h].port, h)
                           /\ at[h] \notin Behind[table'[t][h].port] =>
                                moved[h] # -1 /\ moved[h] <= table'[t][h].age
                           /\ table'[t][h].age <= Timeout + 1
                           /\ t \in swept' => table'[t][h].age <= Timeout
    BY <1>2 DEF EntriesOK, Leads
  <2>1. CASE t = s /\ Aged(table[s][h])
    BY <1>3, <1>5, <2>1
  <2>2. CASE ~(t = s /\ Aged(table[s][h]))
    <3>1. table'[t][h] = table[t][h]  BY <1>5, <2>2
    <3>2. t \in swept' => t \in swept \/ ~Aged(table[t][h])  BY <1>2, <2>2
    <3>3. table[t][h].age \in Nat /\ Timeout \in Nat  BY <1>4, LanAssumption DEF Entries
    <3>4. ~Aged(table[t][h]) => table[t][h].age <= Timeout  BY <3>3 DEF Aged
    <3> QED  BY <1>1, <3>1, <3>2, <3>4 DEF EntriesOK
  <2> QED  BY <2>1, <2>2
<1>8. HostsOK' /\ CopiesOK' /\ WorkOK' /\ FramesOK' /\ SendersOK' /\ ReceiversOK'
  BY <1>1, <1>2 DEF HostsOK, CopiesOK, WorkOK, Leads, FramesOK, SendersOK, ReceiversOK, Arrives, Heading, Handled
<1> QED  BY <1>6, <1>7, <1>8 DEF LanInv

LEMMA TickStep ==
  ASSUME LanInv, Tick
  PROVE  LanInv'
<1>1. LanTypeOK /\ HostsOK /\ CopiesOK /\ WorkOK /\ EntriesOK /\ FramesOK /\ SendersOK /\ ReceiversOK
  BY DEF LanInv
<1>2. UNCHANGED <<at, work, inbox, sent, got>> /\ swept = MacSwitch /\ swept' = {}
  BY DEF Tick
<1>3. NoEntry \in Entries /\ NoEntry.port = None  BY DEF NoEntry, Entries
<1>4. table \in [MacSwitch -> [Host -> Entries]] /\ moved \in [Host -> Int]  BY <1>1 DEF LanTypeOK
<1>5. Timeout \in Nat  BY LanAssumption
<1>6. \A n \in Nat : Later(n) \in Nat /\ Later(n) <= n + 1 /\ (n <= Timeout => Later(n) = n + 1)
  BY <1>5 DEF Later
<1> DEFINE Old(e) == IF e = NoEntry THEN NoEntry ELSE [e EXCEPT !.age = Later(@)]
<1>7. \A e \in Entries : /\ Old(e) \in Entries
                         /\ Old(e).port = e.port
                         /\ e = NoEntry => Old(e) = NoEntry
                         /\ e # NoEntry => Old(e).age = Later(e.age)
  BY <1>3, <1>6 DEF Entries
<1>8. table' = [s \in MacSwitch |-> [h \in Host |-> Old(table[s][h])]]
  BY DEF Tick
<1> HIDE DEF Old
<1>9. \A s \in MacSwitch, h \in Host : table[s][h] \in Entries  BY <1>4
<1>10. /\ table' \in [MacSwitch -> [Host -> Entries]]
       /\ \A s \in MacSwitch, h \in Host : table'[s][h] = Old(table[s][h])
  BY <1>7, <1>8, <1>9
<1>11. /\ moved' \in [Host -> Int]
       /\ \A h \in Host : moved'[h] = IF moved[h] = -1 THEN -1 ELSE Later(moved[h])
       /\ \A h \in Host : moved'[h] = -1 <=> moved[h] = -1
       /\ \A h \in Host : moved'[h] = -1 \/ moved'[h] \in Nat
  <2>1. \A h \in Host : moved'[h] = IF moved[h] = -1 THEN -1 ELSE Later(moved[h])
    BY DEF Tick
  <2>2. \A h \in Host : moved[h] = -1 \/ moved[h] \in Nat  BY <1>1 DEF HostsOK
  <2>3. \A h \in Host : moved'[h] = -1 \/ (moved[h] \in Nat /\ moved'[h] \in Nat)
    BY <1>6, <2>1, <2>2
  <2>4. \A h \in Host : moved'[h] \in Int  BY <2>3
  <2>5. DOMAIN moved' = Host /\ moved' = [h \in Host |-> moved'[h]]  BY DEF Tick
  <2>6. \A h \in Host : moved'[h] = -1 <=> moved[h] = -1
    <3>1. -1 \notin Nat  OBVIOUS
    <3>2. \A h \in Host : moved[h] # -1 => moved'[h] \in Nat  BY <1>6, <2>1, <2>2
    <3> QED  BY <2>1, <3>1, <3>2
  <2> QED  BY <2>1, <2>3, <2>4, <2>5, <2>6
<1>12. LanTypeOK'  BY <1>1, <1>2, <1>10, <1>11 DEF LanTypeOK
<1>13. HostsOK'  BY <1>1, <1>2, <1>11 DEF HostsOK
<1>14. EntriesOK'
  <2> SUFFICES ASSUME NEW s \in MacSwitch, NEW h \in Host
               PROVE  /\ table'[s][h].port = None => table'[s][h] = NoEntry
                      /\ table'[s][h].port # None =>
                           /\ table'[s][h].port \in PortsOf[s]
                           /\ Leads(table'[s][h].port, h)
                           /\ at[h] \notin Behind[table'[s][h].port] =>
                                moved'[h] # -1 /\ moved'[h] <= table'[s][h].age
                           /\ table'[s][h].age <= Timeout + 1
    BY <1>2 DEF EntriesOK, Leads
  <2> DEFINE e == table[s][h]
  <2>1. table'[s][h] = Old(e) /\ e \in Entries  BY <1>9, <1>10
  <2>2. e.port = None => e = NoEntry  BY <1>1 DEF EntriesOK
  <2>3. CASE e.port = None
    BY <1>3, <1>7, <2>1, <2>2, <2>3
  <2>4. CASE e.port # None
    <3>1. /\ e.port \in PortsOf[s]
          /\ Leads(e.port, h)
          /\ at[h] \notin Behind[e.port] => moved[h] # -1 /\ moved[h] <= e.age
          /\ e.age <= Timeout
      BY <1>1, <1>2, <2>4 DEF EntriesOK
    <3>2. e # NoEntry  BY <1>3, <2>4
    <3>3. Old(e).port = e.port /\ Old(e).age = Later(e.age)  BY <1>7, <2>1, <3>2
    <3>4. e.age \in Nat  BY <2>1 DEF Entries
    <3>5. Later(e.age) = e.age + 1  BY <1>6, <3>1, <3>4
    <3>6. ASSUME moved[h] # -1, moved[h] <= e.age  PROVE moved'[h] # -1 /\ moved'[h] <= e.age + 1
      <4>1. moved[h] \in Nat  BY <1>1, <3>6 DEF HostsOK
      <4>2. moved'[h] = Later(moved[h]) /\ Later(moved[h]) <= moved[h] + 1 /\ Later(moved[h]) \in Nat
        BY <1>6, <1>11, <3>6, <4>1
      <4> QED  BY <3>4, <3>6, <4>1, <4>2
    <3>7. e.age + 1 <= Timeout + 1  BY <1>5, <3>1, <3>4
    <3> QED  BY <2>1, <2>4, <3>1, <3>3, <3>5, <3>6, <3>7
  <2> QED  BY <2>3, <2>4
<1>15. CopiesOK' /\ WorkOK' /\ FramesOK'
  BY <1>1, <1>2 DEF CopiesOK, WorkOK, Leads, FramesOK
<1>16. SendersOK'
  BY <1>1, <1>2, <1>11, Numbers DEF SendersOK
<1>17. ReceiversOK'
  BY <1>1, <1>2, <1>11, Numbers DEF ReceiversOK, Arrives, Heading, Handled
<1> QED  BY <1>12, <1>13, <1>14, <1>15, <1>16, <1>17 DEF LanInv

LEMMA HostSendsStep ==
  ASSUME LanInv, NEW h \in Host, NEW dst \in Host, HostSends(h, dst)
  PROVE  LanInv'
<1>0. PICK f : f = Len(sent) + 1  OBVIOUS
<1>1. LanTypeOK /\ HostsOK /\ CopiesOK /\ WorkOK /\ EntriesOK /\ FramesOK /\ SendersOK /\ ReceiversOK
  BY DEF LanInv
<1>2. UNCHANGED <<at, table, swept, work, got, moved>> /\ dst # h /\ Len(sent) < MaxFrames
  BY DEF HostSends
<1> DEFINE R == [src : Host, dst : Host]
           r == [src |-> h, dst |-> dst]
           p == at[h]
<1>3. sent \in Seq(R) /\ r \in R /\ r.src = h /\ r.dst = dst  BY <1>1 DEF LanTypeOK
<1>4. sent' = Append(sent, r) /\ inbox' = [inbox EXCEPT ![p] = Append(@, Len(sent'))]
  BY DEF HostSends
<1> HIDE DEF R, r
<1>5. /\ sent' \in Seq(R)
      /\ Len(sent') = f /\ Len(sent) \in Nat
      /\ DOMAIN sent = 1 .. Len(sent)
      /\ DOMAIN sent' = 1 .. f
      /\ \A g \in DOMAIN sent : sent'[g] = sent[g]
      /\ sent'[f] = r
  BY <1>0, <1>3, <1>4
<1>6. DOMAIN sent' = DOMAIN sent \cup {f} /\ f \notin DOMAIN sent /\ f \in Frames
  BY <1>0, <1>2, <1>5, LanAssumption DEF Frames
<1>7. p \in Jack /\ p \in Ports /\ Behind[p] = {p} /\ at[dst] \in Jack /\ at[dst] # p
  BY <1>1, <1>2, BehindJack DEF LanTypeOK, HostsOK
<1>8. inbox \in Boxes /\ inbox' = [inbox EXCEPT ![p] = Append(@, f)]
  BY <1>1, <1>4, <1>5 DEF LanTypeOK, Boxes
<1>9. inbox[p] \in Seq(Frames)  BY <1>7, <1>8 DEF Boxes
<1> HIDE DEF p
<1>10. /\ Append(inbox[p], f) \in Seq(Frames)
       /\ \A g : (\E i \in DOMAIN Append(inbox[p], f) : Append(inbox[p], f)[i] = g) <=> g = f \/ Waiting(inbox, g, p)
       /\ ~Waiting(inbox, f, p) =>
            \A i, k \in DOMAIN Append(inbox[p], f) : Append(inbox[p], f)[i] = f /\ Append(inbox[p], f)[k] = f => i = k
       /\ \A g : g # f /\ Single(inbox, g, p) =>
            \A i, k \in DOMAIN Append(inbox[p], f) : Append(inbox[p], f)[i] = g /\ Append(inbox[p], f)[k] = g => i = k
  <2> DEFINE s == inbox[p]
             t == Append(s, f)
  <2>1. s \in Seq(Frames)  BY <1>9
  <2> HIDE DEF s
  <2>2. /\ t \in Seq(Frames)
        /\ \A g : (\E i \in DOMAIN t : t[i] = g) <=> g = f \/ \E i \in DOMAIN s : s[i] = g
        /\ (\A i \in DOMAIN s : s[i] # f) => \A i, k \in DOMAIN t : t[i] = f /\ t[k] = f => i = k
        /\ \A g : g # f /\ (\A i, k \in DOMAIN s : s[i] = g /\ s[k] = g => i = k)
                    => \A i, k \in DOMAIN t : t[i] = g /\ t[k] = g => i = k
    BY <1>6, <2>1, Added
  <2> HIDE DEF t
  <2>3. /\ t \in Seq(Frames)
        /\ \A g : (\E i \in DOMAIN t : t[i] = g) <=> g = f \/ Waiting(inbox, g, p)
        /\ ~Waiting(inbox, f, p) => \A i, k \in DOMAIN t : t[i] = f /\ t[k] = f => i = k
        /\ \A g : g # f /\ Single(inbox, g, p) => \A i, k \in DOMAIN t : t[i] = g /\ t[k] = g => i = k
    BY <2>2 DEF Waiting, Single, s
  <2> QED  BY <2>3 DEF s, t
<1> DEFINE t == Append(inbox[p], f)
<1> HIDE DEF t
<1>11. inbox' \in Boxes /\ inbox'[p] = t /\ \A q \in Ports : q # p => inbox'[q] = inbox[q]
  BY <1>7, <1>8, <1>10 DEF Boxes, t
<1>12. /\ \A g, q : q \in Ports => (Waiting(inbox', g, q) <=> Waiting(inbox, g, q) \/ (g = f /\ q = p))
       /\ ~Waiting(inbox, f, p) => Single(inbox', f, p)
       /\ \A g, q : q \in Ports /\ g # f /\ Single(inbox, g, q) => Single(inbox', g, q)
  <2>1. /\ \A g : (\E i \in DOMAIN t : t[i] = g) <=> g = f \/ Waiting(inbox, g, p)
        /\ ~Waiting(inbox, f, p) => \A i, k \in DOMAIN t : t[i] = f /\ t[k] = f => i = k
        /\ \A g : g # f /\ Single(inbox, g, p) => \A i, k \in DOMAIN t : t[i] = g /\ t[k] = g => i = k
    BY <1>10 DEF t
  <2>2. \A g : Waiting(inbox', g, p) <=> g = f \/ Waiting(inbox, g, p)
    BY <1>11, <2>1 DEF Waiting
  <2>3. ~Waiting(inbox, f, p) => Single(inbox', f, p)  BY <1>11, <2>1 DEF Single
  <2>4. \A g : g # f /\ Single(inbox, g, p) => Single(inbox', g, p)  BY <1>11, <2>1 DEF Single
  <2>5. \A g, q : q \in Ports /\ q # p =>
          (Waiting(inbox', g, q) <=> Waiting(inbox, g, q)) /\ (Single(inbox', g, q) <=> Single(inbox, g, q))
    BY <1>11 DEF Waiting, Single
  <2> QED  BY <2>2, <2>3, <2>4, <2>5
<1>13. \A q \in Ports : ~Waiting(inbox, f, q)
  BY <1>1, <1>6 DEF CopiesOK
<1>14. \A s \in MacSwitch : ~Handled(f, s)
  <2>1. f # 0  BY <1>6 DEF Frames
  <2> QED  BY <1>1, <1>6, <2>1 DEF WorkOK, Handled, Idle
<1>15. LanTypeOK'
  <2>1. sent' \in Seq([src : Host, dst : Host])  BY <1>5 DEF R
  <2>2. Len(sent') <= MaxFrames  BY <1>0, <1>2, <1>5, LanAssumption
  <2> QED  BY <1>1, <1>2, <1>11, <2>1, <2>2 DEF LanTypeOK, Boxes
<1>16. HostsOK' /\ EntriesOK'
  BY <1>1, <1>2 DEF HostsOK, EntriesOK, Leads
<1>17. CopiesOK'
  BY <1>1, <1>2, <1>3, <1>5, <1>6, <1>7, <1>12 DEF CopiesOK, p
<1>18. WorkOK'
  BY <1>1, <1>2, <1>5, <1>6 DEF WorkOK, Leads
<1>19. FramesOK'
  BY <1>1, <1>2, <1>3, <1>5, <1>6 DEF FramesOK
<1>20. SendersOK'
  <2> SUFFICES ASSUME NEW g \in DOMAIN sent', moved[sent'[g].src] = -1
               PROVE  /\ got[sent'[g].src][g] = 0
                      /\ \A q \in Ports : Waiting(inbox', g, q) => at[sent'[g].src] \in Behind[q]
    BY <1>2 DEF SendersOK
  <2>1. CASE g # f  BY <1>1, <1>5, <1>6, <1>12, <2>1 DEF SendersOK
  <2>2. CASE g = f
    BY <1>1, <1>3, <1>5, <1>6, <1>7, <1>12, <1>13, <2>2 DEF FramesOK, p
  <2> QED  BY <2>1, <2>2
<1>21. ReceiversOK'
  <2> SUFFICES ASSUME NEW g \in DOMAIN sent', moved[sent'[g].dst] = -1
               PROVE  Arrives(g)'
    BY <1>2 DEF ReceiversOK
  <2>1. CASE g # f
    <3>1. g \in DOMAIN sent /\ sent'[g] = sent[g]  BY <1>5, <1>6, <2>1
    <3>2. Arrives(g)  BY <1>1, <3>1 DEF ReceiversOK
    <3>3. \A q \in Ports : Heading(g, q)' <=> Heading(g, q)
      BY <1>2, <1>12, <2>1, <3>1 DEF Heading
    <3>4. \A q \in Ports : Heading(g, q) /\ Single(inbox, g, q) => Single(inbox', g, q)
      BY <1>12, <2>1
    <3>5. \A s \in MacSwitch : Handled(g, s)' <=> Handled(g, s)  BY <1>2 DEF Handled
    <3> QED  BY <1>2, <3>1, <3>2, <3>3, <3>4, <3>5, StillArrives
  <2>2. CASE g = f
    <3>1. sent'[f].dst = dst  BY <1>3, <1>5
    <3>2. got'[dst][f] = 0  BY <1>1, <1>2, <1>6 DEF FramesOK
    <3>3. \A q \in Ports : Heading(f, q)' <=> q = p
      BY <1>2, <1>7, <1>12, <1>13, <3>1 DEF Heading
    <3>4. Single(inbox', f, p)  BY <1>7, <1>12, <1>13
    <3>5. \A s \in MacSwitch : ~Handled(f, s)'  BY <1>2, <1>14 DEF Handled
    <3> QED  BY <1>7, <2>2, <3>1, <3>2, <3>3, <3>4, <3>5 DEF Arrives
  <2> QED  BY <2>1, <2>2
<1> QED  BY <1>15, <1>16, <1>17, <1>18, <1>19, <1>20, <1>21 DEF LanInv

LEMMA IsUnderWay ==
  /\ \A p \in Ports : \A f : Waiting(inbox, f, p) => f \in UnderWay
  /\ \A s \in MacSwitch : work[s] # Idle => work[s].frame \in UnderWay
<1> DEFINE in(p) == {inbox[p][i] : i \in DOMAIN inbox[p]}
           busy == {t \in MacSwitch : work[t] # Idle}
<1>1. UnderWay = (UNION {in(p) : p \in Ports}) \cup {work[s].frame : s \in busy}
  BY DEF UnderWay
<1>2. \A p, f : Waiting(inbox, f, p) => f \in in(p)
  <2> SUFFICES ASSUME NEW p, NEW f, Waiting(inbox, f, p)  PROVE f \in in(p)
    OBVIOUS
  <2>1. PICK i \in DOMAIN inbox[p] : inbox[p][i] = f  BY DEF Waiting
  <2> QED  BY <2>1
<1>3. \A s \in MacSwitch : work[s] # Idle => s \in busy  OBVIOUS
<1> HIDE DEF in, busy
<1>4. \A p \in Ports : \A f : f \in in(p) => f \in UnderWay  BY <1>1
<1>5. \A s \in busy : work[s].frame \in UnderWay  BY <1>1
<1> QED  BY <1>2, <1>3, <1>4, <1>5

LEMMA MoveStep ==
  ASSUME LanInv, NEW h \in Host, NEW p \in Jack, Move(h, p)
  PROVE  LanInv'
<1>1. LanTypeOK /\ HostsOK /\ CopiesOK /\ WorkOK /\ EntriesOK /\ FramesOK /\ SendersOK /\ ReceiversOK
  BY DEF LanInv
<1>2. UNCHANGED <<table, swept, work, inbox, sent, got>> /\ moved[h] = -1
  BY DEF Move
<1>3. /\ at \in [Host -> Jack] /\ moved \in [Host -> Int]  BY <1>1 DEF LanTypeOK
<1>4. /\ at' \in [Host -> Jack] /\ moved' \in [Host -> Int]
      /\ at'[h] = p /\ \A g \in Host : g # h => at'[g] = at[g]
      /\ moved'[h] = 0 /\ \A g \in Host : g # h => moved'[g] = moved[g]
  BY <1>3 DEF Move
<1>5. \A g \in Host : at[g] # p  BY DEF Move
<1>6. \A q \in Ports, f \in Frames : Waiting(inbox, f, q) => f \in DOMAIN sent /\ sent[f].src # h
  <2> SUFFICES ASSUME NEW q \in Ports, NEW f \in Frames, Waiting(inbox, f, q)
               PROVE  f \in DOMAIN sent /\ sent[f].src # h
    OBVIOUS
  <2>1. f \in UnderWay  BY IsUnderWay
  <2> QED  BY <1>1, <2>1 DEF CopiesOK, Move
<1>7. \A s \in MacSwitch : work[s] # Idle => sent[work[s].frame].src # h
  <2> SUFFICES ASSUME NEW s \in MacSwitch, work[s] # Idle  PROVE sent[work[s].frame].src # h
    OBVIOUS
  <2>1. work[s].frame \in UnderWay  BY IsUnderWay
  <2> QED  BY <2>1 DEF Move
<1>8. at[h] = Start[h]  BY <1>1, <1>2 DEF HostsOK
<1>9. \A q, g : g \in Host /\ Leads(q, g) => Leads(q, g)'
  BY <1>4, <1>8 DEF Leads
<1>10. \A f \in DOMAIN sent : sent[f].src \in Host /\ sent[f].dst \in Host
  BY <1>1, Numbers
<1>11. LanTypeOK'  BY <1>1, <1>2, <1>4 DEF LanTypeOK
<1>12. HostsOK'
  <2>1. \A g \in Host : moved'[g] = -1 \/ moved'[g] \in Nat  BY <1>1, <1>4 DEF HostsOK
  <2>2. \A g \in Host : moved'[g] = -1 => at'[g] = Start[g]
    BY <1>1, <1>4 DEF HostsOK
  <2>3. \A g, k \in Host : g # k => at'[g] # at'[k]
    BY <1>1, <1>4, <1>5 DEF HostsOK
  <2> QED  BY <2>1, <2>2, <2>3 DEF HostsOK
<1>13. CopiesOK'  BY <1>1, <1>2, <1>4, <1>6, <1>10 DEF CopiesOK
<1>14. WorkOK'
  <2> SUFFICES ASSUME NEW s \in MacSwitch, work[s] # Idle
               PROVE  /\ work[s].frame \in DOMAIN sent
                      /\ work[s].in \in PortsOf[s]
                      /\ at'[sent[work[s].frame].src] \in Behind[work[s].in]
                      /\ work[s].out # None =>
                           work[s].out \in PortsOf[s] /\ Leads(work[s].out, sent[work[s].frame].dst)'
    BY <1>2 DEF WorkOK, Leads
  <2>1. /\ work[s].frame \in DOMAIN sent
        /\ work[s].in \in PortsOf[s]
        /\ at[sent[work[s].frame].src] \in Behind[work[s].in]
        /\ work[s].out # None =>
             work[s].out \in PortsOf[s] /\ Leads(work[s].out, sent[work[s].frame].dst)
    BY <1>1 DEF WorkOK
  <2>2. sent[work[s].frame].dst \in Host /\ at'[sent[work[s].frame].src] = at[sent[work[s].frame].src]
    BY <1>4, <1>7, <1>10, <2>1
  <2>3. at'[sent[work[s].frame].dst] = at[sent[work[s].frame].dst] \/ at[sent[work[s].frame].dst] = Start[sent[work[s].frame].dst]
    BY <1>4, <1>8, <2>2
  <2>4. Leads(work[s].out, sent[work[s].frame].dst) => Leads(work[s].out, sent[work[s].frame].dst)'
    BY <1>2, <2>3 DEF Leads
  <2> QED  BY <2>1, <2>2, <2>4
<1>15. EntriesOK'
  <2> SUFFICES ASSUME NEW s \in MacSwitch, NEW g \in Host
               PROVE  /\ table[s][g].port = None => table[s][g] = NoEntry
                      /\ table[s][g].port # None =>
                           /\ table[s][g].port \in PortsOf[s]
                           /\ at'[g] \in Behind[table[s][g].port] \/ Start[g] \in Behind[table[s][g].port]
                           /\ at'[g] \notin Behind[table[s][g].port] =>
                                moved'[g] # -1 /\ moved'[g] <= table[s][g].age
                           /\ table[s][g].age <= Timeout + 1
                           /\ s \in swept => table[s][g].age <= Timeout
    BY <1>2 DEF EntriesOK, Leads
  <2>1. table[s][g].age \in Nat  BY <1>1 DEF LanTypeOK, Entries
  <2>2. CASE g = h
    BY <1>1, <1>4, <1>8, <2>1, <2>2 DEF EntriesOK, Leads
  <2>3. CASE g # h
    BY <1>1, <1>4, <2>3 DEF EntriesOK, Leads
  <2> QED  BY <2>2, <2>3
<1>16. FramesOK'  BY <1>1, <1>2 DEF FramesOK
<1>17. SendersOK'
  <2> SUFFICES ASSUME NEW f \in DOMAIN sent, moved'[sent[f].src] = -1
               PROVE  /\ got[sent[f].src][f] = 0
                      /\ \A q \in Ports : Waiting(inbox, f, q) => at'[sent[f].src] \in Behind[q]
    BY <1>2 DEF SendersOK
  <2>1. sent[f].src # h  BY <1>4
  <2>2. moved[sent[f].src] = -1 /\ at'[sent[f].src] = at[sent[f].src]  BY <1>4, <1>10, <2>1
  <2> QED  BY <1>1, <2>2 DEF SendersOK
<1>18. ReceiversOK'
  <2> SUFFICES ASSUME NEW f \in DOMAIN sent, moved'[sent[f].dst] = -1
               PROVE  Arrives(f)'
    BY <1>2 DEF ReceiversOK
  <2>1. sent[f].dst # h  BY <1>4
  <2>2. moved[sent[f].dst] = -1 /\ at'[sent[f].dst] = at[sent[f].dst]  BY <1>4, <1>10, <2>1
  <2>3. Arrives(f)  BY <1>1, <2>2 DEF ReceiversOK
  <2>4. \A q \in Ports : Heading(f, q)' <=> Heading(f, q)  BY <1>2, <2>2 DEF Heading
  <2>5. \A s \in MacSwitch : Handled(f, s)' <=> Handled(f, s)  BY <1>2 DEF Handled
  <2> QED  BY <1>2, <2>2, <2>3, <2>4, <2>5, StillArrives
<1> QED  BY <1>11, <1>12, <1>13, <1>14, <1>15, <1>16, <1>17, <1>18 DEF LanInv

LEMMA InitLan == LanInit => LanInv
<1> SUFFICES ASSUME LanInit  PROVE LanInv
  OBVIOUS
<1> USE DEF LanInit
<1>1. LanTypeOK
  <2>1. NoEntry \in Entries  BY DEF NoEntry, Entries
  <2>2. Idle \in Works
    BY DEF Idle, Works
  <2>3. << >> \in Seq(Frames) /\ sent = << >> /\ Len(sent) = 0
        /\ sent \in Seq([src : Host, dst : Host])
    OBVIOUS
  <2>4. table \in [MacSwitch -> [Host -> Entries]]  BY <2>1
  <2>5. work \in [MacSwitch -> Works]
    BY <2>2
  <2>6. got \in [Host -> [Frames -> Nat]]  BY DEF Frames
  <2>7. inbox \in [Ports -> Seq(Frames)]  BY <2>3
  <2> QED  BY <2>3, <2>4, <2>5, <2>6, <2>7, LanAssumption DEF LanTypeOK
<1>2. HostsOK  BY LanAssumption DEF HostsOK
<1>3. \A p \in Ports : inbox[p] = << >>  OBVIOUS
<1>4. \A f : \A p \in Ports : ~Waiting(inbox, f, p)  BY <1>3 DEF Waiting
<1>5. DOMAIN sent = {}  OBVIOUS
<1>6. CopiesOK  BY <1>4 DEF CopiesOK
<1>7. WorkOK  BY DEF WorkOK
<1>8. EntriesOK  BY DEF EntriesOK, NoEntry
<1>9. FramesOK /\ SendersOK /\ ReceiversOK
  BY <1>5 DEF FramesOK, SendersOK, ReceiversOK, Frames
<1> QED  BY <1>1, <1>2, <1>6, <1>7, <1>8, <1>9 DEF LanInv

LEMMA LanStep ==
  ASSUME LoopFree, NoEcho, LanInv, [LanNext]_lanVars
  PROVE  LanInv'
<1>1. ASSUME NEW b \in Hub, NEW p \in PortsOf[b], Repeat(b, p)  PROVE LanInv'
  BY <1>1, RepeatStep
<1>2. ASSUME NEW s \in MacSwitch, NEW p \in PortsOf[s], Lookup(s, p)  PROVE LanInv'
  BY <1>2, LookupStep
<1>3. ASSUME NEW s \in MacSwitch, Send(s) \/ Insert(s)  PROVE LanInv'
  BY <1>3, SendStep, InsertStep
<1>4. ASSUME NEW s \in MacSwitch, Sweep(s)  PROVE LanInv'
  BY <1>4, SweepStep
<1>5. CASE Tick  BY <1>5, TickStep
<1>6. ASSUME NEW h \in Host, NEW dst \in Host, HostSends(h, dst)  PROVE LanInv'
  BY <1>6, HostSendsStep
<1>7. ASSUME NEW h \in Host, NEW p \in Jack, Move(h, p)  PROVE LanInv'
  BY <1>7, MoveStep
<1>8. CASE UNCHANGED lanVars
  BY <1>8 DEF lanVars, LanInv, LanTypeOK, HostsOK, CopiesOK, WorkOK, Leads, EntriesOK, FramesOK,
              SendersOK, ReceiversOK, Arrives, Heading, Handled
<1> QED  BY <1>1, <1>2, <1>3, <1>4, <1>5, <1>6, <1>7, <1>8 DEF LanNext

LEMMA LanInvariant ==
  ASSUME LoopFree, NoEcho  PROVE LanSpec => []LanInv
<1>1. LanInv /\ [LanNext]_lanVars => LanInv'  BY LanStep
<1> QED  BY <1>1, InitLan, PTL DEF LanSpec

(* In every network without loops in which no two switches are joined,     *)
(* neither directly nor through hubs, a switch looks for a host that was   *)
(* moved in the wrong place for a bounded time only, whatever the packets  *)
(* that are on their way to the host.                                      *)
THEOREM StaleEntriesAreBrief == LoopFree /\ NoEcho => (LanSpec => []StaleIsBrief)
<1> SUFFICES ASSUME LoopFree, NoEcho  PROVE LanSpec => []StaleIsBrief
  OBVIOUS
<1>1. LanInv => StaleIsBrief
  <2> SUFFICES ASSUME LanInv, NEW s \in MacSwitch, NEW h \in Host,
                      moved[h] > Timeout + 1, table[s][h] # NoEntry
               PROVE  at[h] \in Behind[table[s][h].port]
    BY DEF StaleIsBrief
  <2>1. LanTypeOK /\ EntriesOK  BY DEF LanInv
  <2>2. table[s][h].port # None  BY <2>1 DEF EntriesOK
  <2>3. /\ table[s][h].age <= Timeout + 1
        /\ at[h] \notin Behind[table[s][h].port] => moved[h] <= table[s][h].age
    BY <2>1, <2>2 DEF EntriesOK
  <2>4. moved[h] \in Int /\ table[s][h].age \in Nat /\ Timeout \in Nat
    BY <2>1, LanAssumption DEF LanTypeOK, Entries
  <2> QED  BY <2>3, <2>4
<1> QED  BY <1>1, LanInvariant, PTL

(* In the same networks a packet for a host that has stayed where it is    *)
(* arrives once, whatever a switch knows, forgets or looks up, and does    *)
(* not come back to its sender.  Of two joined switches this is false.     *)
THEOREM PacketsArriveOnce == LoopFree /\ NoEcho => (LanSpec => []ArrivesOnce)
<1> SUFFICES ASSUME LoopFree, NoEcho  PROVE LanSpec => []ArrivesOnce
  OBVIOUS
<1>1. LanInv => ArrivesOnce
  <2> SUFFICES ASSUME LanInv, UnderWay = {}, NEW f \in DOMAIN sent
               PROVE  /\ moved[sent[f].dst] = -1 => got[sent[f].dst][f] = 1
                      /\ moved[sent[f].src] = -1 => got[sent[f].src][f] = 0
    BY DEF ArrivesOnce
  <2>1. LanTypeOK /\ SendersOK /\ ReceiversOK  BY DEF LanInv
  <2>2. \A p \in Ports : ~Heading(f, p)  BY IsUnderWay DEF Heading
  <2>3. \A s \in MacSwitch : ~Handled(f, s)
    <3>1. f # 0  BY <2>1, Numbers
    <3> QED  BY <3>1, IsUnderWay DEF Handled, Idle
  <2>4. moved[sent[f].dst] = -1 => got[sent[f].dst][f] = 1
    BY <2>1, <2>2, <2>3 DEF ReceiversOK, Arrives
  <2> QED  BY <2>1, <2>4 DEF SendersOK
<1> QED  BY <1>1, LanInvariant, PTL
--------------------------------------------------------------------------------
(* Types, in any network: what is under way was sent, and came in by a     *)
(* port.                                                                   *)
UnderWayOK ==
  /\ \A p \in Ports, f \in Frames : Waiting(inbox, f, p) => f \in DOMAIN sent
  /\ \A s \in MacSwitch : work[s] # Idle =>
       work[s].frame \in DOMAIN sent /\ work[s].in \in PortsOf[s]

TypesInv == LanTypeOK /\ UnderWayOK

LEMMA BoxTypes ==
  ASSUME TypesInv, NEW p \in Ports, inbox[p] # << >>
  PROVE  LET f == Head(inbox[p])
             mid == [inbox EXCEPT ![p] = Tail(@)]
         IN  /\ f \in DOMAIN sent /\ f \in Frames
             /\ mid \in Boxes
             /\ \A g \in Frames, q \in Ports : Waiting(mid, g, q) => g \in DOMAIN sent
<1>1. LanTypeOK /\ UnderWayOK /\ inbox \in Boxes  BY DEF TypesInv, LanTypeOK, Boxes
<1>2. Head(inbox[p]) \in Frames /\ Waiting(inbox, Head(inbox[p]), p)  BY <1>1, HeadIs
<1>3. LET mid == [inbox EXCEPT ![p] = Tail(@)]
      IN  mid \in Boxes /\ \A g, q : q \in Ports /\ Waiting(mid, g, q) => Waiting(inbox, g, q)
  BY <1>1, Taken
<1> QED  BY <1>1, <1>2, <1>3 DEF UnderWayOK

(* A frame that was sent leaves a device by some ports. *)
LEMMA OutTypes ==
  ASSUME TypesInv, NEW mid \in Boxes, NEW out \in SUBSET Ports, NEW f \in Frames,
         f \in DOMAIN sent, \A g \in Frames, q \in Ports : Waiting(mid, g, q) => g \in DOMAIN sent
  PROVE  /\ Arrived(mid, out, f) \in Boxes
         /\ Received(out, f) \in [Host -> [Frames -> Nat]]
         /\ \A g \in Frames, q \in Ports : Waiting(Arrived(mid, out, f), g, q) => g \in DOMAIN sent
<1> DEFINE new == Arrived(mid, out, f)
<1>1. LanTypeOK  BY DEF TypesInv
<1>2. /\ new \in Boxes
      /\ \A q \in Ports : (\A r \in out \ Jack : q # Peer(r)) => new[q] = mid[q]
      /\ \A g, q : q \in Ports =>
           (Waiting(new, g, q) <=> Waiting(mid, g, q) \/ (g = f /\ \E r \in out \ Jack : q = Peer(r)))
      /\ \A q \in Ports : ~Waiting(mid, f, q) => Single(new, f, q)
      /\ \A g, q : q \in Ports /\ g # f /\ Single(mid, g, q) => Single(new, g, q)
  BY Sent
<1> HIDE DEF new
<1>3. \A g \in Frames, q \in Ports : Waiting(new, g, q) => g \in DOMAIN sent  BY <1>2
<1>4. Received(out, f) \in [Host -> [Frames -> Nat]]  BY <1>1, Gets
<1> QED  BY <1>2, <1>3, <1>4 DEF new

LEMMA RepeatTypes ==
  ASSUME TypesInv, NEW b \in Hub, NEW p \in PortsOf[b], Repeat(b, p)
  PROVE  TypesInv'
<1> DEFINE f == Head(inbox[p])
           out == AllBut(b, p)
           mid == [inbox EXCEPT ![p] = Tail(@)]
<1>1. p \in Ports /\ out \in SUBSET Ports  BY DeviceIs DEF Device, AllBut
<1>2. inbox[p] # << >>  BY DEF Repeat
<1>3. /\ f \in DOMAIN sent /\ f \in Frames
      /\ mid \in Boxes
      /\ \A g \in Frames, q \in Ports : Waiting(mid, g, q) => g \in DOMAIN sent
  BY <1>1, <1>2, BoxTypes
<1>4. UNCHANGED <<at, table, swept, work, sent, moved>> /\ inbox' = Arrived(mid, out, f) /\ got' = Received(out, f)
  BY DEF Repeat
<1> HIDE DEF f, out, mid
<1>5. /\ inbox' \in Boxes
      /\ got' \in [Host -> [Frames -> Nat]]
      /\ \A g \in Frames, q \in Ports : Waiting(inbox', g, q) => g \in DOMAIN sent
  BY <1>1, <1>3, <1>4, OutTypes
<1> QED  BY <1>4, <1>5 DEF TypesInv, LanTypeOK, UnderWayOK, Boxes

LEMMA LookupTypes ==
  ASSUME TypesInv, NEW s \in MacSwitch, NEW p \in PortsOf[s], Lookup(s, p)
  PROVE  TypesInv'
<1> DEFINE f == Head(inbox[p])
           mid == [inbox EXCEPT ![p] = Tail(@)]
           w == [pc |-> "send", frame |-> f, in |-> p, out |-> table[s][sent[f].dst].port]
<1>1. p \in Ports  BY DeviceIs DEF Device
<1>2. inbox[p] # << >>  BY DEF Lookup
<1>3. /\ f \in DOMAIN sent /\ f \in Frames
      /\ mid \in Boxes
      /\ \A g \in Frames, q \in Ports : Waiting(mid, g, q) => g \in DOMAIN sent
  BY <1>1, <1>2, BoxTypes
<1>4. UNCHANGED <<at, table, swept, sent, got, moved>> /\ inbox' = mid
      /\ work' = [work EXCEPT ![s] = w]
  BY DEF Lookup
<1>5. sent[f].dst \in Host  BY <1>3, Numbers DEF TypesInv
<1>6. table[s][sent[f].dst] \in Entries  BY <1>5 DEF TypesInv, LanTypeOK
<1>7. w \in Works /\ w.frame = f /\ w.in = p  BY <1>1, <1>3, <1>6 DEF Entries, Works
<1>8. work \in [MacSwitch -> Works]  BY DEF TypesInv, LanTypeOK
<1> HIDE DEF f, mid, w
<1>9. work' \in [MacSwitch -> Works] /\ work'[s] = w /\ \A t \in MacSwitch : t # s => work'[t] = work[t]
  BY <1>4, <1>7, <1>8
<1>10. LanTypeOK'  BY <1>3, <1>4, <1>9 DEF TypesInv, LanTypeOK, Boxes
<1>11. UnderWayOK'  BY <1>3, <1>4, <1>7, <1>9 DEF TypesInv, UnderWayOK
<1> QED  BY <1>10, <1>11 DEF TypesInv

LEMMA SendTypes ==
  ASSUME TypesInv, NEW s \in MacSwitch, Send(s)
  PROVE  TypesInv'
<1> DEFINE f == work[s].frame
           out == OutPorts(s, work[s])
           w == [work[s] EXCEPT !.pc = "insert"]
<1>1. work \in [MacSwitch -> Works] /\ inbox \in Boxes  BY DEF TypesInv, LanTypeOK, Boxes
<1>2. work[s] # Idle  BY DEF Send, Idle
<1>3. f \in DOMAIN sent /\ work[s].in \in PortsOf[s] /\ f \in Frames
  BY <1>2, Numbers DEF TypesInv, UnderWayOK
<1>4. out \in SUBSET Ports
  <2>1. work[s].out \in Ports \cup {None}  BY <1>1 DEF Works
  <2>2. PortsOf[s] \subseteq Ports  BY DEF Ports, Device
  <2> QED  BY <2>1, <2>2 DEF OutPorts, AllBut
<1>5. UNCHANGED <<at, table, swept, sent, moved>> /\ inbox' = Arrived(inbox, out, f) /\ got' = Received(out, f)
      /\ work' = [work EXCEPT ![s] = w]
  BY DEF Send
<1>6. w \in Works /\ w.frame = f /\ w.in = work[s].in  BY <1>1 DEF Works
<1> HIDE DEF f, out, w
<1>7. work' \in [MacSwitch -> Works] /\ work'[s] = w /\ \A t \in MacSwitch : t # s => work'[t] = work[t]
  BY <1>1, <1>5, <1>6
<1>8. /\ inbox' \in Boxes
      /\ got' \in [Host -> [Frames -> Nat]]
      /\ \A g \in Frames, q \in Ports : Waiting(inbox', g, q) => g \in DOMAIN sent
  <2>1. \A g \in Frames, q \in Ports : Waiting(inbox, g, q) => g \in DOMAIN sent
    BY DEF TypesInv, UnderWayOK
  <2> QED  BY <1>1, <1>3, <1>4, <1>5, <2>1, OutTypes
<1>9. LanTypeOK'  BY <1>5, <1>7, <1>8 DEF TypesInv, LanTypeOK, Boxes
<1>10. UnderWayOK'  BY <1>3, <1>5, <1>6, <1>7, <1>8 DEF TypesInv, UnderWayOK
<1> QED  BY <1>9, <1>10 DEF TypesInv

LEMMA InsertTypes ==
  ASSUME TypesInv, NEW s \in MacSwitch, Insert(s)
  PROVE  TypesInv'
<1> DEFINE src == sent[work[s].frame].src
           e == [port |-> work[s].in, age |-> 0]
<1>1. work \in [MacSwitch -> Works] /\ table \in [MacSwitch -> [Host -> Entries]]
  BY DEF TypesInv, LanTypeOK
<1>2. work[s] # Idle  BY DEF Insert, Idle
<1>3. work[s].frame \in DOMAIN sent /\ work[s].in \in PortsOf[s]  BY <1>2 DEF TypesInv, UnderWayOK
<1>4. work[s].in \in Ports  BY <1>3 DEF Ports, Device
<1>5. src \in Host  BY <1>3, Numbers DEF TypesInv
<1>6. e \in Entries  BY <1>4 DEF Entries
<1>7. /\ UNCHANGED <<at, swept, inbox, sent, got, moved>>
      /\ table' = [table EXCEPT ![s] = [table[s] EXCEPT ![src] = e]]
      /\ work' = [work EXCEPT ![s] = Idle]
  BY DEF Insert, Learned
<1>8. Idle \in Works  BY DEF Idle, Works
<1> HIDE DEF src, e
<1>9. table' \in [MacSwitch -> [Host -> Entries]]  BY <1>1, <1>5, <1>6, <1>7
<1>10. work' \in [MacSwitch -> Works] /\ work'[s] = Idle /\ \A t \in MacSwitch : t # s => work'[t] = work[t]
  BY <1>1, <1>7, <1>8
<1>11. LanTypeOK'  BY <1>7, <1>9, <1>10 DEF TypesInv, LanTypeOK
<1>12. UnderWayOK'  BY <1>7, <1>10 DEF TypesInv, UnderWayOK
<1> QED  BY <1>11, <1>12 DEF TypesInv

LEMMA SweepTypes ==
  ASSUME TypesInv, NEW s \in MacSwitch, Sweep(s)
  PROVE  TypesInv'
<1> DEFINE new == [h \in Host |-> IF Aged(table[s][h]) THEN NoEntry ELSE table[s][h]]
<1>1. table \in [MacSwitch -> [Host -> Entries]]  BY DEF TypesInv, LanTypeOK
<1>2. new \in [Host -> Entries]  BY <1>1 DEF NoEntry, Entries
<1>3. table' = [table EXCEPT ![s] = new]  BY DEF Sweep
<1> HIDE DEF new
<1>4. table' \in [MacSwitch -> [Host -> Entries]]  BY <1>1, <1>2, <1>3
<1>5. UNCHANGED <<at, work, inbox, sent, got, moved>> /\ swept' = swept \cup {s}  BY DEF Sweep
<1> QED  BY <1>4, <1>5 DEF TypesInv, LanTypeOK, UnderWayOK

LEMMA TickTypes ==
  ASSUME TypesInv, Tick
  PROVE  TypesInv'
<1>1. table \in [MacSwitch -> [Host -> Entries]] /\ moved \in [Host -> Int]
  BY DEF TypesInv, LanTypeOK
<1>2. (\A n \in Nat : Later(n) \in Nat) /\ \A n \in Int : Later(n) \in Int
  BY LanAssumption DEF Later
<1> DEFINE Old(e) == IF e = NoEntry THEN NoEntry ELSE [e EXCEPT !.age = Later(@)]
<1>3. \A e \in Entries : Old(e) \in Entries  BY <1>2 DEF Entries
<1>4. table' = [s \in MacSwitch |-> [h \in Host |-> Old(table[s][h])]]  BY DEF Tick
<1> HIDE DEF Old
<1>5. \A s \in MacSwitch, h \in Host : table[s][h] \in Entries  BY <1>1
<1>6. table' \in [MacSwitch -> [Host -> Entries]]  BY <1>3, <1>4, <1>5
<1>7. moved' = [h \in Host |-> IF moved[h] = -1 THEN -1 ELSE Later(moved[h])]  BY DEF Tick
<1>8. moved' \in [Host -> Int]  BY <1>1, <1>2, <1>7
<1>9. UNCHANGED <<at, work, inbox, sent, got>> /\ swept' = {}  BY DEF Tick
<1> QED  BY <1>6, <1>8, <1>9 DEF TypesInv, LanTypeOK, UnderWayOK

LEMMA HostSendsTypes ==
  ASSUME TypesInv, NEW h \in Host, NEW dst \in Host, HostSends(h, dst)
  PROVE  TypesInv'
<1> DEFINE R == [src : Host, dst : Host]
           r == [src |-> h, dst |-> dst]
           p == at[h]
           f == Len(sent) + 1
<1>1. sent \in Seq(R) /\ r \in R /\ at \in [Host -> Jack] /\ inbox \in Boxes
  BY DEF TypesInv, LanTypeOK, Boxes
<1>2. UNCHANGED <<at, table, swept, work, got, moved>> /\ Len(sent) < MaxFrames
      /\ sent' = Append(sent, r) /\ inbox' = [inbox EXCEPT ![p] = Append(@, Len(sent'))]
  BY DEF HostSends
<1> HIDE DEF R, r
<1>3. /\ sent' \in Seq(R)
      /\ Len(sent') = f /\ Len(sent) \in Nat
      /\ DOMAIN sent = 1 .. Len(sent)
      /\ DOMAIN sent' = 1 .. f
  BY <1>1, <1>2
<1>4. f \in Frames /\ DOMAIN sent \subseteq DOMAIN sent' /\ f \in DOMAIN sent' /\ Len(sent') <= MaxFrames
  BY <1>2, <1>3, LanAssumption DEF Frames
<1>4a. \A s \in MacSwitch : work'[s] = work[s]  BY <1>2
<1>5. p \in Ports /\ inbox[p] \in Seq(Frames)  BY <1>1 DEF Jack, Boxes
<1>6. inbox' = [inbox EXCEPT ![p] = Append(inbox[p], f)]  BY <1>1, <1>2, <1>3, <1>5 DEF Boxes
<1> HIDE DEF p, f
<1>7. /\ Append(inbox[p], f) \in Seq(Frames)
      /\ \A g : (\E i \in DOMAIN Append(inbox[p], f) : Append(inbox[p], f)[i] = g) =>
                  g = f \/ \E i \in DOMAIN inbox[p] : inbox[p][i] = g
  <2> DEFINE s == inbox[p]
             t == Append(s, f)
  <2>1. s \in Seq(Frames)  BY <1>5
  <2> HIDE DEF s
  <2>2. /\ t \in Seq(Frames)
        /\ \A g : (\E i \in DOMAIN t : t[i] = g) <=> g = f \/ \E i \in DOMAIN s : s[i] = g
    BY <1>4, <2>1, Added
  <2> QED  BY <2>2 DEF s
<1> DEFINE t == Append(inbox[p], f)
<1> HIDE DEF t
<1>8. inbox' \in Boxes /\ inbox'[p] = t /\ \A q \in Ports : q # p => inbox'[q] = inbox[q]
  BY <1>1, <1>5, <1>6, <1>7 DEF Boxes, t
<1>9. \A g \in Frames, q \in Ports : Waiting(inbox', g, q) => g \in DOMAIN sent'
  <2>1. \A g \in Frames, q \in Ports : Waiting(inbox, g, q) => g \in DOMAIN sent
    BY DEF TypesInv, UnderWayOK
  <2>2. \A g : Waiting(inbox', g, p) => g = f \/ Waiting(inbox, g, p)
    BY <1>7, <1>8 DEF Waiting, t
  <2>3. \A g, q : q \in Ports /\ q # p => (Waiting(inbox', g, q) <=> Waiting(inbox, g, q))
    BY <1>8 DEF Waiting
  <2> QED  BY <1>4, <1>5, <2>1, <2>2, <2>3
<1>10. LanTypeOK'  BY <1>2, <1>3, <1>4, <1>8 DEF TypesInv, LanTypeOK, Boxes, R
<1>11. UnderWayOK'  BY <1>2, <1>4, <1>4a, <1>9 DEF TypesInv, UnderWayOK
<1> QED  BY <1>10, <1>11 DEF TypesInv

LEMMA MoveTypes ==
  ASSUME TypesInv, NEW h \in Host, NEW p \in Jack, Move(h, p)
  PROVE  TypesInv'
<1>1. UNCHANGED <<table, swept, work, inbox, sent, got>>  BY DEF Move
<1>2. at' \in [Host -> Jack] /\ moved' \in [Host -> Int]  BY DEF TypesInv, LanTypeOK, Move
<1> QED  BY <1>1, <1>2 DEF TypesInv, LanTypeOK, UnderWayOK

LEMMA TypesStep ==
  ASSUME TypesInv, [LanNext]_lanVars
  PROVE  TypesInv'
<1>1. ASSUME NEW b \in Hub, NEW p \in PortsOf[b], Repeat(b, p)  PROVE TypesInv'
  BY <1>1, RepeatTypes
<1>2. ASSUME NEW s \in MacSwitch, NEW p \in PortsOf[s], Lookup(s, p)  PROVE TypesInv'
  BY <1>2, LookupTypes
<1>3. ASSUME NEW s \in MacSwitch, Send(s) \/ Insert(s) \/ Sweep(s)  PROVE TypesInv'
  BY <1>3, SendTypes, InsertTypes, SweepTypes
<1>4. CASE Tick  BY <1>4, TickTypes
<1>5. ASSUME NEW h \in Host, NEW dst \in Host, HostSends(h, dst)  PROVE TypesInv'
  BY <1>5, HostSendsTypes
<1>6. ASSUME NEW h \in Host, NEW p \in Jack, Move(h, p)  PROVE TypesInv'
  BY <1>6, MoveTypes
<1>7. CASE UNCHANGED lanVars
  BY <1>7 DEF lanVars, TypesInv, LanTypeOK, UnderWayOK
<1> QED  BY <1>1, <1>2, <1>3, <1>4, <1>5, <1>6, <1>7 DEF LanNext

(* Type correctness of the switches, the hosts and what is under way, in   *)
(* every network: whatever loops it has, and however switches are joined.  *)
THEOREM LanTypeCorrect == LanSpec => []LanTypeOK
<1>1. LanInit => TypesInv
  <2> SUFFICES ASSUME LanInit  PROVE TypesInv
    OBVIOUS
  <2>1. LanInv  BY InitLan
  <2> QED  BY <2>1 DEF LanInv, TypesInv, CopiesOK, WorkOK, UnderWayOK
<1>2. TypesInv /\ [LanNext]_lanVars => TypesInv'  BY TypesStep
<1>3. TypesInv => LanTypeOK  BY DEF TypesInv
<1> QED  BY <1>1, <1>2, <1>3, PTL DEF LanSpec
================================================================================
