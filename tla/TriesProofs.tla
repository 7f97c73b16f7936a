------------------------------- MODULE TriesProofs -----------------------------
(***************************************************************************)
(* The tries of 06-lookup and the routing table of 07-router find the      *)
(* longest prefix of an address, for every forwarding table and for        *)
(* addresses and levels of every width.                                    *)
(*                                                                         *)
(* For each trie an invariant says which nodes there are after the lines   *)
(* of a table have been read in some order, and which line has set the     *)
(* port of each.  A lookup returns the port of the last node on its way    *)
(* that has one, and FoundIsLongest says when that is the right one.  The  *)
(* routing table is searched by a loop, a recursive function: SearchExists *)
(* says that there is one, SearchFinds what it returns, both by looking at *)
(* the least number of lines for which they might fail.                    *)
(***************************************************************************)
EXTENDS Rtable, FiniteSetTheorems, WellFoundedInduction, TLAPS

Bits == Seq({0, 1})
Tables == Seq(Prefix)

LEMMA Widths ==
  /\ Width \in Nat \ {0} /\ AdHead \in Nat \ {0}
  /\ SuperHead \in Nat \ {0} /\ SuperChunk \in Nat \ {0} /\ MaxEntries \in Nat
  /\ AdHead % 2 = 0 /\ (Width - AdHead) % 2 = 0
  /\ SuperHead % SuperChunk = 0 /\ Width % SuperChunk = 0
  BY TriesAssumption

--------------------------------------------------------------------------------
(* Sequences of bits and the ones they begin with.                         *)
LEMMA FirstBits ==
  ASSUME NEW p \in Bits, NEW n \in 0 .. Len(p)
  PROVE  /\ First(p, n) \in Bits /\ Len(First(p, n)) = n
         /\ \A i \in 1 .. n : First(p, n)[i] = p[i]
  BY DEF Bits, First

LEMMA FirstWhole ==
  ASSUME NEW p \in Bits
  PROVE  First(p, Len(p)) = p
  BY DEF Bits, First

LEMMA FirstFirst ==
  ASSUME NEW p \in Bits, NEW m \in 0 .. Len(p), NEW n \in 0 .. m
  PROVE  First(First(p, m), n) = First(p, n)
<1>1. First(p, m) \in Bits /\ Len(First(p, m)) = m /\ \A i \in 1 .. m : First(p, m)[i] = p[i]
  BY FirstBits
<1>2. n \in 0 .. Len(p)
  BY DEF Bits
<1>3. First(p, n) \in Bits /\ Len(First(p, n)) = n /\ \A i \in 1 .. n : First(p, n)[i] = p[i]
  BY <1>2, FirstBits
<1>4. /\ First(First(p, m), n) \in Bits /\ Len(First(First(p, m), n)) = n
      /\ \A i \in 1 .. n : First(First(p, m), n)[i] = First(p, m)[i]
  BY <1>1, FirstBits
<1> QED
  BY <1>1, <1>3, <1>4 DEF Bits

LEMMA AddressBits ==
  ASSUME NEW a \in Address
  PROVE  a \in Bits /\ Len(a) = Width
<1>1. a \in [1 .. Width -> {0, 1}] /\ Width \in Nat
  BY TriesAssumption
<1> QED
  BY <1>1 DEF Bits

LEMMA PrefixBits ==
  ASSUME NEW p \in Prefix
  PROVE  p \in Bits /\ Len(p) \in SuperHead .. Width /\ Len(p) \in 1 .. Width
  BY TriesAssumption DEF Bits

(* The lines of a table before and after one more has been read.           *)
LEMMA Lines ==
  ASSUME NEW t \in Tables
  PROVE  /\ Len(t) \in Nat /\ DOMAIN t = 1 .. Len(t)
         /\ \A i \in 1 .. Len(t) : t[i] \in Prefix
  BY DEF Tables

LEMMA MoreLines ==
  ASSUME NEW t \in Tables, NEW p \in Prefix
  PROVE  LET new == Append(t, p) IN
         /\ new \in Tables /\ Len(new) = Len(t) + 1 /\ new[Len(t) + 1] = p
         /\ \A i \in 1 .. Len(t) : new[i] = t[i]
         /\ \A i \in 1 .. Len(new) : i = Len(t) + 1 \/ i \in 1 .. Len(t)
  BY DEF Tables

(* A set of natural numbers that is not empty has a least member, and a    *)
(* largest one when it is bounded.                                         *)
LEMMA LeastNat == ASSUME NEW S \in SUBSET Nat, S # {} PROVE \E m \in S : \A n \in S : m <= n
  <1> DEFINE R == {ss \in Nat \X Nat : ss[1] < ss[2]}
  <1>1. OpToRel(<, Nat) = R
    BY DEF OpToRel
  <1>2. IsWellFoundedOn(R, Nat)
    BY <1>1, NatLessThanWellFounded
  <1>3. PICK m \in S : \A n \in S : ~(<<n, m>> \in R)
    BY <1>2, WFMin
  <1>4. ASSUME NEW n \in S PROVE m <= n
    <2>1. m \in Nat /\ n \in Nat /\ <<n, m>> \notin R
      BY <1>3
    <2>2. <<n, m>> \in Nat \X Nat /\ <<n, m>>[1] = n /\ <<n, m>>[2] = m
      BY <2>1
    <2>3. ~(n < m)
      BY <2>1, <2>2
    <2> QED
      BY <2>1, <2>3
  <1> QED
    BY <1>4

LEMMA MinFacts ==
  ASSUME NEW S \in SUBSET Nat, S # {}
  PROVE  Min(S) \in S /\ \A n \in S : Min(S) <= n
<1>1. \E m \in S : \A n \in S : m <= n
  BY LeastNat
<1> QED
  BY <1>1 DEF Min

LEMMA MaxFacts ==
  ASSUME NEW N \in Nat, NEW S \in SUBSET (0 .. N), S # {}
  PROVE  Max(S) \in S /\ \A n \in S : n <= Max(S)
<1> DEFINE T == {N - n : n \in S}
<1>1. T \in SUBSET Nat /\ T # {}
  <2>1. \A n \in S : N - n \in Nat
    OBVIOUS
  <2> QED
    BY <2>1
<1>2. PICK m \in T : \A n \in T : m <= n
  <2> HIDE DEF T
  <2> QED
    BY <1>1, LeastNat
<1>3. PICK x \in S : m = N - x
  BY <1>2
<1>4. \A n \in S : x >= n
  <2> SUFFICES ASSUME NEW n \in S PROVE x >= n
    OBVIOUS
  <2>1. N - n \in T
    OBVIOUS
  <2>2. m <= N - n
    BY <1>2, <2>1
  <2> QED
    BY <1>3, <2>2
<1>5. \E y \in S : \A n \in S : y >= n
  BY <1>4
<1>6. Max(S) \in S /\ \A n \in S : Max(S) >= n
  BY <1>5 DEF Max
<1> QED
  BY <1>6
--------------------------------------------------------------------------------
(* Which line of a table is the answer for an address.                     *)
Beats(i, j) ==
  \/ Len(table[i]) > Len(table[j])
  \/ Len(table[i]) = Len(table[j]) /\ i <= j

LEMMA BeatsTransitive ==
  ASSUME NEW i \in Nat, NEW j \in Nat, NEW k \in Nat,
         Len(table[i]) \in Nat, Len(table[j]) \in Nat, Len(table[k]) \in Nat,
         Beats(i, j), Beats(j, k)
  PROVE  Beats(i, k)
<1> DEFINE x == Len(table[i])
           y == Len(table[j])
           z == Len(table[k])
<1>1. /\ x \in Nat /\ y \in Nat /\ z \in Nat
      /\ x > y \/ (x = y /\ i <= j)
      /\ y > z \/ (y = z /\ j <= k)
  BY DEF Beats
<1>2. x > z \/ (x = z /\ i <= k)
  <2> HIDE DEF x, y, z
  <2> QED
    BY <1>1
<1> QED
  BY <1>2 DEF Beats

LEMMA LongestIsBest ==
  ASSUME table \in Tables, NEW a \in Address, NEW longer \in Nat, NEW v,
         \/ v = NoPort /\ Matches(a, longer) = {}
         \/ v \in Matches(a, longer) /\ \A j \in Matches(a, longer) : Beats(v, j)
  PROVE  v = LongestMatch(a, longer)
<1> DEFINE M == Matches(a, longer)
           best == {i \in M : \A j \in M : Len(table[j]) <= Len(table[i])}
<1>1. M \in SUBSET Nat /\ \A i \in M : Len(table[i]) \in Nat
  BY Lines, PrefixBits DEF Matches, Bits
<1>2. LongestMatch(a, longer) = IF best = {} THEN NoPort ELSE Min(best)
  BY DEF LongestMatch
<1>3. CASE M = {}
  BY <1>2, <1>3
<1>4. CASE v \in M /\ \A j \in M : Beats(v, j)
  <2> HIDE DEF M
  <2>1. v \in best
    BY <1>1, <1>4 DEF Beats
  <2>2. Min(best) \in best /\ Min(best) <= v
    <3>1. best \in SUBSET Nat /\ best # {}
      BY <1>1, <2>1
    <3> HIDE DEF best
    <3> QED
      BY <2>1, <3>1, MinFacts
  <2>3. Min(best) \in M /\ Len(table[v]) <= Len(table[Min(best)])
    BY <1>4, <2>2
  <2>4. v \in Nat /\ Min(best) \in Nat
        /\ Len(table[v]) \in Nat /\ Len(table[Min(best)]) \in Nat
    BY <1>1, <1>4, <2>3
  <2>5. Beats(v, Min(best))
    BY <1>4, <2>3
  <2> DEFINE m == Min(best)
             k == Len(table[v])
             l == Len(table[m])
  <2>6. k > l \/ (k = l /\ v <= m)
    BY <2>5 DEF Beats
  <2>7. m <= v /\ k <= l /\ m \in Nat /\ v \in Nat /\ k \in Nat /\ l \in Nat
    BY <2>2, <2>3, <2>4
  <2>8. m = v
    <3> HIDE DEF m, k, l
    <3> QED
      BY <2>6, <2>7
  <2> QED
    BY <1>2, <2>1, <2>8
<1> QED
  BY <1>3, <1>4

(* The ports on the way of an address down a trie.                         *)
Ports(nodes, a, passed) ==
  {n \in passed : First(a, n) \in DOMAIN nodes /\ nodes[First(a, n)] # NoPort}

LEMMA FoundIsLongest ==
  ASSUME table \in Tables, NEW a \in Address, NEW longer \in Nat,
         NEW nodes, NEW N \in Nat, NEW passed \in SUBSET (0 .. N),
         NEW P, P = Ports(nodes, a, passed),
         \A n \in P : nodes[First(a, n)] \in Matches(a, longer),
         \A j \in Matches(a, longer) : \E n \in P : Beats(nodes[First(a, n)], j),
         \A m, n \in P : m < n => Beats(nodes[First(a, n)], nodes[First(a, m)])
  PROVE  LastPort(nodes, a, passed) = LongestMatch(a, longer)
<1> DEFINE M == Matches(a, longer)
<1>1. M \in SUBSET Nat /\ \A i \in M : Len(table[i]) \in Nat
  BY Lines, PrefixBits DEF Matches, Bits
<1>2. LastPort(nodes, a, passed) = IF P = {} THEN NoPort ELSE nodes[First(a, Max(P))]
  BY DEF LastPort, Ports
<1>3. CASE P = {}
  <2>1. M = {}
    BY <1>3
  <2> QED
    BY <1>2, <1>3, <2>1, LongestIsBest
<1>4. CASE P # {}
  <2> DEFINE x == Max(P)
             v == nodes[First(a, x)]
  <2>1. P \in SUBSET (0 .. N)
    BY DEF Ports
  <2>2. x \in P /\ \A n \in P : n <= x
    BY <1>4, <2>1, MaxFacts
  <2>3. v \in M
    BY <2>2
  <2>4. ASSUME NEW j \in M PROVE Beats(v, j)
    <3>1. PICK n \in P : Beats(nodes[First(a, n)], j)
      OBVIOUS
    <3>2. CASE n = x
      BY <3>1, <3>2
    <3>3. CASE n # x
      <4>1. n < x
        BY <2>1, <2>2, <3>3
      <4> DEFINE w == nodes[First(a, n)]
      <4>2. Beats(v, w) /\ w \in M
        BY <2>2, <4>1
      <4> HIDE DEF v, w, M
      <4> QED
        BY <1>1, <2>3, <3>1, <4>2, BeatsTransitive DEF w
    <3> QED
      BY <3>2, <3>3
  <2>5. v = LongestMatch(a, longer)
    <3> HIDE DEF v, x
    <3> QED
      BY <2>3, <2>4, LongestIsBest
  <2> QED
    BY <1>2, <1>4, <2>5
<1> QED
  BY <1>3, <1>4
--------------------------------------------------------------------------------
(* What an insertion does to the nodes.                                    *)
LEMMA GrownFacts ==
  ASSUME NEW nodes, NEW new
  PROVE  /\ DOMAIN Grown(nodes, new) = DOMAIN nodes \cup new
         /\ \A k \in DOMAIN nodes : Grown(nodes, new)[k] = nodes[k]
         /\ \A k \in new : k \notin DOMAIN nodes => Grown(nodes, new)[k] = NoPort
  BY DEF Grown

LEMMA KeptFacts ==
  ASSUME NEW nodes, NEW p \in DOMAIN nodes, NEW v
  PROVE  /\ DOMAIN Kept(nodes, p, v) = DOMAIN nodes
         /\ \A k \in DOMAIN nodes : k # p => Kept(nodes, p, v)[k] = nodes[k]
         /\ Kept(nodes, p, v)[p] = IF nodes[p] = NoPort THEN v ELSE nodes[p]
<1>1. CASE nodes[p] = NoPort
  <2> DEFINE new == [nodes EXCEPT ![p] = v]
  <2>1. DOMAIN new = DOMAIN nodes /\ new[p] = v
        /\ \A k \in DOMAIN nodes : k # p => new[k] = nodes[k]
    OBVIOUS
  <2>2. Kept(nodes, p, v) = new
    BY <1>1 DEF Kept
  <2> HIDE DEF new
  <2> QED
    BY <1>1, <2>1, <2>2
<1>2. CASE nodes[p] # NoPort
  <2>1. Kept(nodes, p, v) = nodes
    BY <1>2 DEF Kept
  <2> QED
    BY <1>2, <2>1
<1> QED
  BY <1>1, <1>2

(* Which line has set port v at node k, when none that is set is changed:  *)
(* the first one whose prefix is k.                                        *)
FirstLine(v, k, t) ==
  \/ v = NoPort /\ \A i \in 1 .. Len(t) : t[i] # k
  \/ v \in 1 .. Len(t) /\ t[v] = k /\ \A i \in 1 .. Len(t) : t[i] = k => v <= i

LEMMA FirstLineOfNew ==
  ASSUME NEW t \in Tables, NEW k, \A i \in 1 .. Len(t) : t[i] # k
  PROVE  FirstLine(NoPort, k, t)
  BY DEF FirstLine

LEMMA FirstLineStays ==
  ASSUME NEW t \in Tables, NEW p \in Prefix, NEW k, k # p, NEW v, FirstLine(v, k, t)
  PROVE  FirstLine(v, k, Append(t, p))
<1> DEFINE new == Append(t, p)
<1>1. /\ Len(t) \in Nat /\ Len(new) = Len(t) + 1 /\ new[Len(t) + 1] = p
      /\ \A i \in 1 .. Len(t) : new[i] = t[i]
      /\ \A i \in 1 .. Len(new) : i = Len(t) + 1 \/ i \in 1 .. Len(t)
  BY Lines, MoreLines
<1> HIDE DEF new
<1>2. FirstLine(v, k, new)
  <2>1. CASE v = NoPort /\ \A i \in 1 .. Len(t) : t[i] # k
    <3>1. \A i \in 1 .. Len(new) : new[i] # k
      BY <1>1, <2>1
    <3> QED
      BY <2>1, <3>1 DEF FirstLine
  <2>2. CASE v \in 1 .. Len(t) /\ t[v] = k /\ \A i \in 1 .. Len(t) : t[i] = k => v <= i
    <3>1. v \in 1 .. Len(new) /\ new[v] = k
      BY <1>1, <2>2
    <3>2. \A i \in 1 .. Len(new) : new[i] = k => v <= i
      BY <1>1, <2>2
    <3> QED
      BY <3>1, <3>2 DEF FirstLine
  <2> QED
    BY <2>1, <2>2 DEF FirstLine
<1> QED
  BY <1>2 DEF new

LEMMA FirstLineSet ==
  ASSUME NEW t \in Tables, NEW p \in Prefix, NEW v, FirstLine(v, p, t)
  PROVE  FirstLine(IF v = NoPort THEN Len(t) + 1 ELSE v, p, Append(t, p))
<1> DEFINE new == Append(t, p)
<1>1. /\ Len(t) \in Nat /\ Len(new) = Len(t) + 1 /\ new[Len(t) + 1] = p
      /\ \A i \in 1 .. Len(t) : new[i] = t[i]
      /\ \A i \in 1 .. Len(new) : i = Len(t) + 1 \/ i \in 1 .. Len(t)
  BY Lines, MoreLines
<1> HIDE DEF new
<1>2. FirstLine(IF v = NoPort THEN Len(t) + 1 ELSE v, p, new)
  <2>1. CASE v = NoPort /\ \A i \in 1 .. Len(t) : t[i] # p
    <3> DEFINE n == Len(t) + 1
    <3>1. n \in 1 .. Len(new) /\ new[n] = p /\ \A i \in 1 .. Len(new) : new[i] = p => n <= i
      BY <1>1, <2>1
    <3>2. FirstLine(n, p, new)
      <4> HIDE DEF n
      <4> QED
        BY <3>1 DEF FirstLine
    <3> QED
      BY <2>1, <3>2
  <2>2. CASE v \in 1 .. Len(t) /\ t[v] = p /\ \A i \in 1 .. Len(t) : t[i] = p => v <= i
    <3>1. v \in 1 .. Len(new) /\ new[v] = p
      BY <1>1, <2>2
    <3>2. \A i \in 1 .. Len(new) : new[i] = p => v <= i
      BY <1>1, <2>2
    <3>3. v # NoPort
      BY <1>1, <2>2 DEF NoPort
    <3> QED
      BY <3>1, <3>2, <3>3 DEF FirstLine
  <2> QED
    BY <2>1, <2>2 DEF FirstLine
<1> QED
  BY <1>2 DEF new
--------------------------------------------------------------------------------
(* The nodes of a trie, when `each` says which ones an entry brings.       *)
NodesOf(each, t) == UNION {each[t[i]] : i \in 1 .. Len(t)}

LEMMA NodeOf ==
  ASSUME NEW t \in Tables, NEW each
  PROVE  \A k : k \in NodesOf(each, t) <=> \E i \in 1 .. Len(t) : k \in each[t[i]]
  BY DEF NodesOf

LEMMA MoreNodes ==
  ASSUME NEW t \in Tables, NEW p \in Prefix, NEW each
  PROVE  NodesOf(each, Append(t, p)) = NodesOf(each, t) \cup each[p]
<1> DEFINE new == Append(t, p)
<1>1. /\ Len(t) \in Nat /\ new \in Tables /\ Len(new) = Len(t) + 1 /\ new[Len(t) + 1] = p
      /\ \A i \in 1 .. Len(t) : new[i] = t[i]
      /\ \A i \in 1 .. Len(new) : i = Len(t) + 1 \/ i \in 1 .. Len(t)
  BY Lines, MoreLines
<1> HIDE DEF new
<1>2. ASSUME NEW k \in NodesOf(each, new) PROVE k \in NodesOf(each, t) \cup each[p]
  <2>1. PICK i \in 1 .. Len(new) : k \in each[new[i]]
    BY <1>1, NodeOf
  <2>2. CASE i = Len(t) + 1
    BY <1>1, <2>1, <2>2
  <2>3. CASE i \in 1 .. Len(t)
    BY <1>1, <2>1, <2>3, NodeOf
  <2> QED
    BY <1>1, <2>2, <2>3
<1>3. ASSUME NEW k \in NodesOf(each, t) PROVE k \in NodesOf(each, new)
  <2>1. PICK i \in 1 .. Len(t) : k \in each[t[i]]
    BY NodeOf
  <2>2. i \in 1 .. Len(new) /\ new[i] = t[i]
    BY <1>1
  <2> QED
    BY <1>1, <2>1, <2>2, NodeOf
<1>4. ASSUME NEW k \in each[p] PROVE k \in NodesOf(each, new)
  <2>1. Len(t) + 1 \in 1 .. Len(new)
    BY <1>1
  <2> QED
    BY <1>1, <1>4, <2>1, NodeOf
<1>5. NodesOf(each, new) = NodesOf(each, t) \cup each[p]
  BY <1>2, <1>3, <1>4
<1> QED
  BY <1>5 DEF new

(* The ports of a trie that keeps the ports it has, but for nodes of one   *)
(* length, which have none (0 for trie, AdHead for ad_trie).               *)
KeptPorts(nodes, t, none) ==
  \A k \in DOMAIN nodes : Len(k) # none => FirstLine(nodes[k], k, t)

LEMMA GrownKeeps ==
  ASSUME NEW t \in Tables, NEW nodes, NEW new, NEW none, KeptPorts(nodes, t, none),
         \A i \in 1 .. Len(t) : t[i] \in DOMAIN nodes
  PROVE  KeptPorts(Grown(nodes, new), t, none)
<1> DEFINE grown == Grown(nodes, new)
<1>1. /\ DOMAIN grown = DOMAIN nodes \cup new
      /\ \A k \in DOMAIN nodes : grown[k] = nodes[k]
      /\ \A k \in new : k \notin DOMAIN nodes => grown[k] = NoPort
  BY GrownFacts
<1> HIDE DEF grown
<1>2. ASSUME NEW k \in DOMAIN grown, Len(k) # none PROVE FirstLine(grown[k], k, t)
  <2>1. CASE k \in DOMAIN nodes
    <3>1. grown[k] = nodes[k] /\ FirstLine(nodes[k], k, t)
      BY <1>1, <1>2, <2>1 DEF KeptPorts
    <3> QED
      BY <3>1
  <2>2. CASE k \notin DOMAIN nodes
    <3>1. grown[k] = NoPort /\ \A i \in 1 .. Len(t) : t[i] # k
      BY <1>1, <2>2
    <3> QED
      BY <3>1, FirstLineOfNew
  <2> QED
    BY <2>1, <2>2
<1>3. KeptPorts(grown, t, none)
  BY <1>2 DEF KeptPorts
<1> QED
  BY <1>3 DEF grown

LEMMA SetKeeps ==
  ASSUME NEW t \in Tables, NEW p \in Prefix, NEW nodes, p \in DOMAIN nodes,
         NEW none, Len(p) # none, KeptPorts(nodes, t, none)
  PROVE  KeptPorts(Kept(nodes, p, Len(t) + 1), Append(t, p), none)
<1> DEFINE n == Len(t) + 1
           after == Kept(nodes, p, n)
<1>1. /\ DOMAIN after = DOMAIN nodes
      /\ \A k \in DOMAIN nodes : k # p => after[k] = nodes[k]
      /\ after[p] = IF nodes[p] = NoPort THEN n ELSE nodes[p]
  <2> HIDE DEF n
  <2> QED
    BY KeptFacts
<1> HIDE DEF after
<1>2. ASSUME NEW k \in DOMAIN nodes, Len(k) # none PROVE FirstLine(after[k], k, Append(t, p))
  <2>1. FirstLine(nodes[k], k, t)
    BY <1>2 DEF KeptPorts
  <2>2. CASE k # p
    <3>1. after[k] = nodes[k]
      BY <1>1, <2>2
    <3> QED
      BY <2>1, <2>2, <3>1, FirstLineStays
  <2>3. CASE k = p
    <3>1. after[p] = IF nodes[p] = NoPort THEN Len(t) + 1 ELSE nodes[p]
      BY <1>1
    <3> QED
      BY <2>1, <2>3, <3>1, FirstLineSet
  <2> QED
    BY <2>2, <2>3
<1>3. KeptPorts(after, Append(t, p), none)
  BY <1>1, <1>2 DEF KeptPorts
<1> QED
  BY <1>3 DEF after

(* A lookup that passes every prefix of the address finds the longest.     *)
LEMMA KeptFinds ==
  ASSUME table \in Tables, NEW a \in Address, NEW none \in Nat, NEW nodes,
         KeptPorts(nodes, table, none),
         NEW passed \in SUBSET (none + 1 .. Width),
         \A j \in Matches(a, none) : Len(table[j]) \in passed /\ table[j] \in DOMAIN nodes
  PROVE  LastPort(nodes, a, passed) = LongestMatch(a, none)
<1> DEFINE P == Ports(nodes, a, passed)
<1>0. a \in Bits /\ Len(a) = Width /\ Width \in Nat
  BY AddressBits, Widths
<1>1. passed \in SUBSET (0 .. Width) /\ \A n \in passed : n > none /\ n \in 0 .. Width
  BY <1>0
<1>2. ASSUME NEW n \in P
      PROVE  LET v == nodes[First(a, n)] IN
             /\ n \in 0 .. Width /\ n > none
             /\ v \in 1 .. Len(table) /\ table[v] = First(a, n) /\ Len(table[v]) = n
  <2> DEFINE v == nodes[First(a, n)]
  <2>1. n \in 0 .. Width /\ n > none /\ First(a, n) \in DOMAIN nodes /\ v # NoPort
    BY <1>1 DEF Ports
  <2>2. Len(First(a, n)) = n
    BY <1>0, <2>1, FirstBits
  <2>3. FirstLine(v, First(a, n), table)
    BY <2>1, <2>2 DEF KeptPorts
  <2> HIDE DEF v
  <2>4. v \in 1 .. Len(table) /\ table[v] = First(a, n)
    BY <2>1, <2>3 DEF FirstLine
  <2> QED
    BY <2>1, <2>2, <2>4 DEF v
<1>3. ASSUME NEW n \in P PROVE nodes[First(a, n)] \in Matches(a, none)
  BY <1>2, Lines DEF Matches
<1>4. ASSUME NEW j \in Matches(a, none) PROVE \E n \in P : Beats(nodes[First(a, n)], j)
  <2> DEFINE n == Len(table[j])
             v == nodes[First(a, n)]
  <2>1. j \in 1 .. Len(table) /\ First(a, n) = table[j]
    BY Lines DEF Matches
  <2>2. n \in passed /\ First(a, n) \in DOMAIN nodes
    BY <2>1
  <2>3. FirstLine(v, First(a, n), table)
    <3>1. Len(First(a, n)) # none
      BY <1>1, <2>1, <2>2
    <3> QED
      BY <2>2, <3>1 DEF KeptPorts
  <2>4. v # NoPort /\ v <= j
    <3> HIDE DEF v
    <3> QED
      BY <2>1, <2>3, Lines DEF FirstLine, NoPort
  <2>5. n \in P
    BY <2>2, <2>4 DEF Ports
  <2>6. table[v] = First(a, n)
    BY <1>2, <2>5
  <2>7. Beats(v, j)
    <3> HIDE DEF v
    <3> QED
      BY <2>1, <2>4, <2>6 DEF Beats
  <2> QED
    BY <2>5, <2>7
<1>5. ASSUME NEW m \in P, NEW n \in P, m < n
      PROVE  Beats(nodes[First(a, n)], nodes[First(a, m)])
  <2>1. /\ Len(table[nodes[First(a, n)]]) = n /\ Len(table[nodes[First(a, m)]]) = m
        /\ m \in Nat /\ n \in Nat
    BY <1>2
  <2> QED
    BY <1>5, <2>1 DEF Beats
<1> QED
  BY <1>0, <1>1, <1>3, <1>4, <1>5, FoundIsLongest
--------------------------------------------------------------------------------
(* trie: a node for every beginning of a prefix.                           *)
TrieEach == [p \in Prefix |-> Heads(p, 1 .. Len(p))]

TrieOK ==
  /\ DOMAIN trie = NodesOf(TrieEach, table)
  /\ KeptPorts(trie, table, 0)

LEMMA TrieNode ==
  ASSUME NEW p \in Prefix
  PROVE  /\ TrieEach[p] = Heads(p, 1 .. Len(p)) /\ p \in TrieEach[p] /\ Len(p) # 0
         /\ \A n \in 1 .. Len(p) : First(p, n) \in TrieEach[p]
<1>1. p \in Bits /\ Len(p) \in 1 .. Len(p) /\ Len(p) # 0
  BY PrefixBits DEF Bits
<1>2. TrieEach[p] = Heads(p, 1 .. Len(p))
  BY DEF TrieEach
<1>3. \A n \in 1 .. Len(p) : First(p, n) \in Heads(p, 1 .. Len(p))
  BY DEF Heads
<1>4. First(p, Len(p)) = p
  BY <1>1, FirstWhole
<1> QED
  BY <1>1, <1>2, <1>3, <1>4

LEMMA TrieStep ==
  ASSUME table \in Tables, TrieOK, NEW p \in Prefix,
         table' = Append(table, p), trie' = TrieInsert(trie, p, Len(table'))
  PROVE  TrieOK'
<1> DEFINE grown == Grown(trie, TrieEach[p])
           n == Len(table) + 1
<1>1. trie' = Kept(grown, p, n)
  BY MoreLines, TrieNode DEF TrieInsert
<1>2. DOMAIN grown = DOMAIN trie \cup TrieEach[p] /\ p \in DOMAIN grown
  <2>1. DOMAIN grown = DOMAIN trie \cup TrieEach[p]
    BY GrownFacts
  <2>2. p \in TrieEach[p]
    BY TrieNode
  <2> QED
    BY <2>1, <2>2
<1>3. DOMAIN trie' = NodesOf(TrieEach, table')
  <2> HIDE DEF grown, n
  <2>1. DOMAIN Kept(grown, p, n) = DOMAIN grown
    <3>1. p \in DOMAIN grown
      BY <1>2
    <3> QED
      BY <3>1, KeptFacts
  <2>2. DOMAIN trie' = DOMAIN grown
    BY <1>1, <2>1
  <2> QED
    BY <1>2, <2>2, MoreNodes DEF TrieOK
<1>4. KeptPorts(grown, table, 0)
  <2>1. \A i \in 1 .. Len(table) : table[i] \in DOMAIN trie
    BY Lines, NodeOf, TrieNode DEF TrieOK
  <2> QED
    BY <2>1, GrownKeeps DEF TrieOK
<1>5. KeptPorts(trie', table', 0)
  <2> HIDE DEF grown
  <2> QED
    BY <1>1, <1>2, <1>4, SetKeeps, TrieNode
<1> QED
  BY <1>3, <1>5 DEF TrieOK

LEMMA TrieFinds ==
  ASSUME table \in Tables, TrieOK, NEW a \in Address
  PROVE  trie_lookup(a) = LongestMatch(a, 0)
<1> DEFINE passed == Reached(trie, a, 1 .. Width)
<1>0. a \in Bits /\ Len(a) = Width /\ Width \in Nat
  BY AddressBits, Widths
<1>1. passed \in SUBSET (0 + 1 .. Width)
  BY DEF Reached
<1>2. ASSUME NEW j \in Matches(a, 0)
      PROVE  Len(table[j]) \in passed /\ table[j] \in DOMAIN trie
  <2> DEFINE p == table[j]
             n == Len(p)
  <2>1. j \in 1 .. Len(table) /\ First(a, n) = p
    BY Lines DEF Matches
  <2>2. p \in Prefix /\ p \in Bits /\ n \in 1 .. Width
    BY <2>1, Lines, PrefixBits
  <2>3. ASSUME NEW k \in TrieEach[p] PROVE k \in DOMAIN trie
    BY <2>1, <2>3, NodeOf DEF TrieOK
  <2>4. ASSUME NEW m \in 1 .. Width, m <= n PROVE First(a, m) \in DOMAIN trie
    <3>1. n \in 0 .. Len(a) /\ m \in 0 .. n /\ m \in 1 .. n
      BY <1>0, <2>2, <2>4
    <3>2. First(First(a, n), m) = First(a, m)
      <4> HIDE DEF n
      <4> QED
        BY <1>0, <3>1, FirstFirst
    <3>3. First(a, m) = First(p, m)
      BY <2>1, <3>2
    <3>4. First(p, m) \in TrieEach[p]
      BY <2>2, <3>1, TrieNode
    <3> QED
      BY <2>3, <3>3, <3>4
  <2>5. n \in passed
    BY <2>2, <2>4 DEF Reached
  <2>6. p \in DOMAIN trie
    BY <2>2, <2>3, TrieNode
  <2> QED
    BY <2>5, <2>6
<1>3. LastPort(trie, a, passed) = LongestMatch(a, 0)
  <2> HIDE DEF passed
  <2> QED
    BY <1>1, <1>2, KeptFinds DEF TrieOK
<1> QED
  BY <1>3 DEF trie_lookup
--------------------------------------------------------------------------------
(* ad_trie: a node for every level within a prefix, and one for its end.   *)
AdEach == [p \in Prefix |-> Heads(p, AdLevels(Len(p)) \cup {Len(p)})]

AdOK ==
  /\ DOMAIN ad_trie = NodesOf(AdEach, table)
  /\ KeptPorts(ad_trie, table, AdHead)

LEMMA AdNode ==
  ASSUME NEW p \in Prefix
  PROVE  /\ AdEach[p] = Heads(p, AdLevels(Len(p)) \cup {Len(p)}) /\ p \in AdEach[p]
         /\ \A n \in AdLevels(Len(p)) : First(p, n) \in AdEach[p]
<1>1. AdEach[p] = Heads(p, AdLevels(Len(p)) \cup {Len(p)})
  BY DEF AdEach
<1>2. \A n \in AdLevels(Len(p)) \cup {Len(p)} : First(p, n) \in AdEach[p]
  BY <1>1 DEF Heads
<1>3. First(p, Len(p)) = p
  BY PrefixBits, FirstWhole
<1> QED
  BY <1>1, <1>2, <1>3

LEMMA AdStep ==
  ASSUME table \in Tables, AdOK, NEW p \in Prefix,
         table' = Append(table, p), ad_trie' = AdTrieInsert(ad_trie, p, Len(table'))
  PROVE  AdOK'
<1> DEFINE grown == Grown(ad_trie, AdEach[p])
           n == Len(table) + 1
<1>1. ad_trie' = IF Len(p) = AdHead THEN grown ELSE Kept(grown, p, n)
  BY MoreLines, AdNode DEF AdTrieInsert
<1>2. DOMAIN grown = DOMAIN ad_trie \cup AdEach[p] /\ p \in DOMAIN grown
  <2>1. DOMAIN grown = DOMAIN ad_trie \cup AdEach[p]
    BY GrownFacts
  <2>2. p \in AdEach[p]
    BY AdNode
  <2> QED
    BY <2>1, <2>2
<1>3. DOMAIN ad_trie' = NodesOf(AdEach, table')
  <2> HIDE DEF grown, n
  <2>1. DOMAIN Kept(grown, p, n) = DOMAIN grown
    <3>1. p \in DOMAIN grown
      BY <1>2
    <3> QED
      BY <3>1, KeptFacts
  <2>2. DOMAIN ad_trie' = DOMAIN grown
    BY <1>1, <2>1
  <2> QED
    BY <1>2, <2>2, MoreNodes DEF AdOK
<1>4. KeptPorts(grown, table, AdHead)
  <2>1. \A i \in 1 .. Len(table) : table[i] \in DOMAIN ad_trie
    BY Lines, NodeOf, AdNode DEF AdOK
  <2> QED
    BY <2>1, GrownKeeps DEF AdOK
<1>5. KeptPorts(ad_trie', table', AdHead)
  <2> HIDE DEF grown
  <2>1. CASE Len(p) = AdHead
    <3>1. ASSUME NEW k \in DOMAIN grown, Len(k) # AdHead
          PROVE  FirstLine(grown[k], k, Append(table, p))
      <4>1. FirstLine(grown[k], k, table) /\ k # p
        BY <1>4, <2>1, <3>1 DEF KeptPorts
      <4> QED
        BY <4>1, FirstLineStays
    <3>2. KeptPorts(grown, Append(table, p), AdHead)
      BY <3>1 DEF KeptPorts
    <3> QED
      BY <1>1, <2>1, <3>2
  <2>2. CASE Len(p) # AdHead
    <3>1. KeptPorts(Kept(grown, p, Len(table) + 1), Append(table, p), AdHead)
      BY <1>2, <1>4, <2>2, SetKeeps
    <3> QED
      BY <1>1, <2>2, <3>1
  <2> QED
    BY <2>1, <2>2
<1> QED
  BY <1>3, <1>5 DEF AdOK

LEMMA OddOrEven ==
  ASSUME NEW d \in Nat, d % 2 # 0
  PROVE  d # 0 /\ (d - 1) % 2 = 0
  BY SMT

(* Down to the last level within a prefix of the address, and one further  *)
(* to its odd child, the lookup passes the prefix.                         *)
LEMMA AdFinds ==
  ASSUME table \in Tables, AdOK, NEW a \in Address
  PROVE  ad_trie_lookup(a) = LongestMatch(a, AdHead)
<1> DEFINE N == Reached(ad_trie, a, AdLevels(Width))
           passed == (N \cup {n + 1 : n \in N \ {Width}}) \ {AdHead}
<1>0. /\ a \in Bits /\ Len(a) = Width /\ Width \in Nat /\ AdHead \in Nat
      /\ (Width - AdHead) % 2 = 0
  BY AddressBits, Widths
<1>1. passed \in SUBSET (AdHead + 1 .. Width)
  <2>1. \A n \in N : n \in AdHead .. Width
    BY DEF Reached, AdLevels
  <2>2. \A n \in passed : n \in AdHead + 1 .. Width
    <3> HIDE DEF N
    <3> QED
      BY <1>0, <2>1
  <2> QED
    BY <2>2
<1>2. ASSUME NEW j \in Matches(a, AdHead)
      PROVE  Len(table[j]) \in passed /\ table[j] \in DOMAIN ad_trie
  <2> DEFINE p == table[j]
             l == Len(p)
  <2>1. j \in 1 .. Len(table) /\ First(a, l) = p /\ l > AdHead
    BY Lines DEF Matches
  <2>2. p \in Prefix /\ p \in Bits /\ l \in 1 .. Width
    BY <2>1, Lines, PrefixBits
  <2>3. ASSUME NEW k \in AdEach[p] PROVE k \in DOMAIN ad_trie
    BY <2>1, <2>3, NodeOf DEF AdOK
  <2>4. ASSUME NEW m \in AdLevels(Width), m <= l PROVE First(a, m) \in DOMAIN ad_trie
    <3>1. l \in 0 .. Len(a) /\ m \in 0 .. l /\ m \in AdLevels(l)
      BY <1>0, <2>2, <2>4 DEF AdLevels
    <3>2. First(First(a, l), m) = First(a, m)
      <4> HIDE DEF l
      <4> QED
        BY <1>0, <3>1, FirstFirst
    <3>3. First(a, m) = First(p, m)
      BY <2>1, <3>2
    <3>4. First(p, m) \in AdEach[p]
      BY <2>2, <3>1, AdNode
    <3> QED
      BY <2>3, <3>3, <3>4
  <2>5. ASSUME NEW n \in AdLevels(Width), n <= l PROVE n \in N
    <3>1. \A m \in AdLevels(Width) : m <= n => m <= l
      BY <1>0, <2>2, <2>5 DEF AdLevels
    <3>2. \A m \in AdLevels(Width) : m <= n => First(a, m) \in DOMAIN ad_trie
      BY <2>4, <3>1
    <3> QED
      BY <3>2 DEF Reached
  <2>6. l \in passed
    <3>1. CASE (l - AdHead) % 2 = 0
      <4>1. l \in AdLevels(Width) /\ l <= l /\ l # AdHead
        <5> HIDE DEF l
        <5> QED
          BY <1>0, <2>1, <2>2, <3>1 DEF AdLevels
      <4> QED
        BY <2>5, <4>1
    <3>2. CASE (l - AdHead) % 2 # 0
      <4> DEFINE m == l - 1
      <4>1. m \in AdLevels(Width) /\ m <= l /\ m # Width /\ l # AdHead /\ m + 1 = l
        <5> HIDE DEF l
        <5>1. l - AdHead \in Nat /\ (l - AdHead) - 1 = m - AdHead
          BY <1>0, <2>1, <2>2
        <5>2. (m - AdHead) % 2 = 0
          BY <3>2, <5>1, OddOrEven
        <5>3. m \in AdHead .. Width /\ m <= l /\ m # Width /\ l # AdHead /\ m + 1 = l
          BY <1>0, <2>1, <2>2
        <5> QED
          BY <5>2, <5>3 DEF AdLevels
      <4>2. m \in N \ {Width}
        BY <2>5, <4>1
      <4> HIDE DEF N
      <4> QED
        BY <4>1, <4>2
    <3> QED
      BY <3>1, <3>2
  <2>7. p \in DOMAIN ad_trie
    BY <2>2, <2>3, AdNode
  <2> QED
    BY <2>6, <2>7
<1>3. LastPort(ad_trie, a, passed) = LongestMatch(a, AdHead)
  <2> HIDE DEF passed
  <2> QED
    BY <1>0, <1>1, <1>2, KeptFinds DEF AdOK
<1> QED
  BY <1>3 DEF ad_trie_lookup
--------------------------------------------------------------------------------
(* Levels are multiples of a chunk.                                        *)
LEMMA Multiple ==
  ASSUME NEW c \in Nat \ {0}, NEW n \in Nat
  PROVE  n % c = 0 <=> \E q \in Nat : n = q * c
<1>1. n % c = 0 => \E q \in Nat : n = q * c
  BY SMT
<1>2. ASSUME NEW q \in Nat, n = q * c PROVE n % c = 0
  BY <1>2, SMT
<1> QED
  BY <1>1, <1>2

(* Two levels are at least a chunk apart. *)
LEMMA LevelsApart ==
  ASSUME NEW c \in Nat \ {0}, NEW m \in Nat, NEW n \in Nat,
         m % c = 0, n % c = 0, m < n
  PROVE  m + c <= n
<1>1. PICK p \in Nat : m = p * c
  BY Multiple
<1>2. PICK q \in Nat : n = q * c
  BY Multiple
<1>3. p < q
  <2> SUFFICES ASSUME q <= p PROVE FALSE
    OBVIOUS
  <2>1. q * c <= p * c
    BY SMT
  <2> QED
    BY <1>1, <1>2, <2>1
<1>4. p * c + c <= q * c
  BY <1>3, SMT
<1> QED
  BY <1>1, <1>2, <1>4

LEMMA NextLevel ==
  ASSUME NEW c \in Nat \ {0}, NEW n \in Nat, n % c = 0
  PROVE  (n + c) % c = 0
<1>1. PICK q \in Nat : n = q * c
  BY Multiple
<1>2. q + 1 \in Nat /\ n + c \in Nat /\ n + c = (q + 1) * c
  BY <1>1, SMT
<1> QED
  BY <1>2, Multiple

LEMMA LevelBelow ==
  ASSUME NEW c \in Nat \ {0}, NEW n \in Nat
  PROVE  \E m \in Nat : m % c = 0 /\ m <= n /\ n < m + c
<1>1. n % c \in 0 .. c - 1
  BY SMT
<1>2. n % c = n - c * (n \div c)
  BY SMT
<1>3. n \div c \in Nat
  BY SMT
<1> DEFINE q == n \div c
           m == q * c
<1>4. m \in Nat /\ m % c = 0
  <2>1. q * c \in Nat
    BY <1>3, SMT
  <2> HIDE DEF q
  <2>2. m \in Nat
    BY <2>1
  <2>3. \E r \in Nat : m = r * c
    BY <1>3 DEF q
  <2> HIDE DEF m
  <2> QED
    BY <2>2, <2>3, Multiple
<1>5. m <= n /\ n < m + c
  BY <1>1, <1>2, <1>3
<1> QED
  BY <1>4, <1>5

LEMMA LastLevel ==
  ASSUME NEW n \in Nat, n >= SuperHead
  PROVE  LET last == Max(SuperLevels(n)) IN
         /\ last \in Nat /\ last % SuperChunk = 0 /\ SuperHead <= last /\ last <= n
         /\ n < last + SuperChunk
         /\ \A m \in SuperLevels(n) : m <= last
<1> DEFINE last == Max(SuperLevels(n))
<1>0. /\ SuperHead \in Nat \ {0} /\ SuperChunk \in Nat \ {0}
      /\ SuperHead % SuperChunk = 0
  BY Widths
<1>1. SuperLevels(n) \in SUBSET (0 .. n) /\ SuperHead \in SuperLevels(n)
  BY <1>0 DEF SuperLevels
<1>2. last \in SuperLevels(n) /\ \A m \in SuperLevels(n) : m <= last
  BY <1>1, MaxFacts
<1> HIDE DEF last
<1>3. last \in Nat /\ last % SuperChunk = 0 /\ SuperHead <= last /\ last <= n
  BY <1>0, <1>2 DEF SuperLevels
<1>4. PICK m \in Nat : m % SuperChunk = 0 /\ m <= n /\ n < m + SuperChunk
  BY <1>0, LevelBelow
<1>5. SuperHead <= m
  <2> SUFFICES ASSUME m < SuperHead PROVE FALSE
    BY <1>0
  <2>1. m + SuperChunk <= SuperHead
    BY <1>0, <1>4, LevelsApart
  <2> QED
    BY <1>0, <1>4, <2>1
<1>6. m \in SuperLevels(n)
  BY <1>0, <1>4, <1>5 DEF SuperLevels
<1>7. n < last + SuperChunk
  BY <1>0, <1>2, <1>3, <1>4, <1>6
<1> QED
  BY <1>2, <1>3, <1>7 DEF last

(* The level at which a prefix of n bits sets ports, and the other one of  *)
(* a prefix that has the length of the head.                               *)
Top(n) ==
  IF n % SuperChunk = 0 /\ n > SuperHead THEN n ELSE Max(SuperLevels(n)) + SuperChunk
Tops(n) == {Top(n)} \cup (IF n = SuperHead THEN {SuperHead} ELSE {})

LEMMA TopFacts ==
  ASSUME NEW n \in Nat, n >= SuperHead
  PROVE  /\ Top(n) \in Nat /\ Top(n) % SuperChunk = 0 /\ Top(n) > SuperHead /\ n <= Top(n)
         /\ \A m \in Nat : m % SuperChunk = 0 /\ SuperHead <= m /\ m < Top(n) => m <= n
         /\ n \in SuperHead + 1 .. Width => Top(n) <= Width
<1> DEFINE last == Max(SuperLevels(n))
<1>0. /\ SuperHead \in Nat \ {0} /\ SuperChunk \in Nat \ {0} /\ Width \in Nat
      /\ SuperHead % SuperChunk = 0 /\ Width % SuperChunk = 0
  BY Widths
<1>1. CASE n % SuperChunk = 0 /\ n > SuperHead
  BY <1>0, <1>1 DEF Top
<1>2. CASE ~(n % SuperChunk = 0 /\ n > SuperHead)
  <2>1. /\ last \in Nat /\ last % SuperChunk = 0 /\ SuperHead <= last /\ last <= n
        /\ n < last + SuperChunk
    BY LastLevel
  <2>2. Top(n) = last + SuperChunk
    BY <1>2 DEF Top
  <2> HIDE DEF last
  <2>3. /\ Top(n) \in Nat /\ Top(n) > SuperHead /\ n <= Top(n)
    BY <1>0, <2>1, <2>2
  <2>4. Top(n) % SuperChunk = 0
    BY <1>0, <2>1, <2>2, NextLevel
  <2>5. ASSUME NEW m \in Nat, m % SuperChunk = 0, SuperHead <= m, m < Top(n)
        PROVE  m <= n
    <3>1. CASE m <= last
      BY <2>1, <3>1
    <3>2. CASE last < m
      <4>1. last + SuperChunk <= m
        BY <1>0, <2>1, <2>5, <3>2, LevelsApart
      <4> QED
        BY <1>0, <2>1, <2>2, <2>5, <4>1
    <3> QED
      BY <2>1, <3>1, <3>2
  <2>6. n \in SuperHead + 1 .. Width => Top(n) <= Width
    <3> SUFFICES ASSUME n \in SuperHead + 1 .. Width PROVE Top(n) <= Width
      OBVIOUS
    <3>1. last # n
      BY <1>0, <1>2, <2>1
    <3>2. last < Width
      BY <1>0, <2>1, <3>1
    <3>3. last + SuperChunk <= Width
      BY <1>0, <2>1, <3>2, LevelsApart
    <3> QED
      BY <2>2, <3>3
  <2> QED
    BY <2>3, <2>4, <2>5, <2>6
<1> QED
  BY <1>1, <1>2

(* Longer prefixes set ports at the same levels or deeper.                 *)
LEMMA TopsOrder ==
  ASSUME NEW m \in Nat, NEW n \in Nat, m >= SuperHead, n >= SuperHead,
         NEW x \in Tops(m), NEW y \in Tops(n), x < y
  PROVE  m <= n
<1>0. SuperHead \in Nat \ {0}
  BY Widths
<1>1. /\ x = Top(m) \/ (x = SuperHead /\ m = SuperHead)
      /\ y = Top(n) \/ (y = SuperHead /\ n = SuperHead)
  BY DEF Tops
<1>2. CASE m = SuperHead
  BY <1>0, <1>2
<1>3. CASE x = Top(m)
  <2>1. x \in Nat /\ x % SuperChunk = 0 /\ x > SuperHead /\ m <= x
    BY <1>3, TopFacts
  <2>2. y = Top(n)
    BY <1>0, <1>1, <2>1
  <2>3. x <= n
    BY <1>0, <2>1, <2>2, TopFacts
  <2> QED
    BY <2>1, <2>3
<1> QED
  BY <1>1, <1>2, <1>3
--------------------------------------------------------------------------------
(* super_trie: a node for every level within a prefix, and those whose     *)
(* ports it sets.  As covering prefixes come first, the head that has the  *)
(* length of a prefix is new when the prefix is read, and so gets its port.*)
SetBy(p) ==
  IF Len(p) % SuperChunk = 0 /\ Len(p) > SuperHead THEN {p}
  ELSE Covered(p, Max(SuperLevels(Len(p))) + SuperChunk)
Written(p) == SetBy(p) \cup (IF Len(p) = SuperHead THEN {p} ELSE {})

SuperEach == [p \in Prefix |-> Heads(p, SuperLevels(Len(p))) \cup SetBy(p)]

(* The line that has set port v at node k, when every one is overwritten:  *)
(* the last one that covers it.                                            *)
LastLine(v, k, t) ==
  \/ v = NoPort /\ \A i \in 1 .. Len(t) : k \notin Written(t[i])
  \/ /\ v \in 1 .. Len(t) /\ k \in Written(t[v])
     /\ \A i \in 1 .. Len(t) : k \in Written(t[i]) => i <= v

SuperOK ==
  /\ DOMAIN super_trie = NodesOf(SuperEach, table)
  /\ CoveringFirst => \A k \in DOMAIN super_trie : LastLine(super_trie[k], k, table)

LEMMA SetByFacts ==
  ASSUME NEW p \in Prefix
  PROVE  \A k : k \in SetBy(p) <=>
           k \in Bits /\ Len(k) = Top(Len(p)) /\ First(k, Len(p)) = p
<1> DEFINE l == Len(p)
           n == Top(l)
<1>0. p \in Bits /\ l \in Nat /\ l >= SuperHead /\ SuperHead \in Nat
  BY PrefixBits, Widths DEF Bits
<1>1. n \in Nat /\ l <= n
  <2> HIDE DEF l
  <2> QED
    BY <1>0, TopFacts
<1>2. CASE l % SuperChunk = 0 /\ l > SuperHead
  <2>1. SetBy(p) = {p} /\ n = l
    BY <1>2 DEF SetBy, Top
  <2>2. First(p, l) = p
    BY <1>0, FirstWhole
  <2>3. ASSUME NEW k \in Bits, Len(k) = l, First(k, l) = p PROVE k = p
    BY <2>3, FirstWhole
  <2> QED
    BY <1>0, <2>1, <2>2, <2>3
<1>3. CASE ~(l % SuperChunk = 0 /\ l > SuperHead)
  <2>1. SetBy(p) = Covered(p, n)
    BY <1>3 DEF SetBy, Top
  <2>2. SetBy(p) = {p \o tail : tail \in [1 .. n - l -> {0, 1}]}
    BY <2>1 DEF Covered
  <2> HIDE DEF n
  <2>3. ASSUME NEW tail \in [1 .. n - l -> {0, 1}]
        PROVE  p \o tail \in Bits /\ Len(p \o tail) = n /\ First(p \o tail, l) = p
    <3>1. tail \in Bits /\ Len(tail) = n - l
      BY <1>0, <1>1 DEF Bits
    <3> DEFINE k == p \o tail
    <3>2. k \in Bits /\ Len(k) = n /\ \A i \in 1 .. l : k[i] = p[i]
      BY <1>0, <1>1, <3>1 DEF Bits
    <3> HIDE DEF k
    <3>3. First(k, l) \in Bits /\ Len(First(k, l)) = l /\ \A i \in 1 .. l : First(k, l)[i] = k[i]
      BY <1>0, <1>1, <3>2, FirstBits
    <3>4. First(k, l) = p
      <4> DEFINE f == First(k, l)
      <4>1. f \in Bits /\ Len(f) = Len(p) /\ \A i \in 1 .. Len(p) : f[i] = p[i]
        BY <3>2, <3>3
      <4> HIDE DEF f
      <4>2. f = p
        BY <1>0, <4>1 DEF Bits
      <4> QED
        BY <4>2 DEF f
    <3> QED
      BY <3>2, <3>4 DEF k
  <2>4. ASSUME NEW k \in Bits, Len(k) = n, First(k, l) = p PROVE k \in SetBy(p)
    <3> DEFINE tail == [i \in 1 .. n - l |-> k[l + i]]
    <3>1. tail \in [1 .. n - l -> {0, 1}]
      BY <1>0, <1>1, <2>4 DEF Bits
    <3>2. \A i \in 1 .. l : k[i] = p[i]
      BY <1>0, <1>1, <2>4, FirstBits
    <3>3. p \o tail \in Bits /\ Len(p \o tail) = n
      BY <2>3, <3>1
    <3>4. \A i \in 1 .. n : (p \o tail)[i] = k[i]
      BY <1>0, <1>1, <2>4, <3>2 DEF Bits
    <3>5. p \o tail = k
      <4> DEFINE q == p \o tail
      <4>1. q \in Bits /\ Len(q) = n /\ \A i \in 1 .. n : q[i] = k[i]
        BY <3>3, <3>4
      <4> HIDE DEF q
      <4>2. q = k
        BY <2>4, <4>1 DEF Bits
      <4> QED
        BY <4>2 DEF q
    <3> QED
      BY <2>2, <3>1, <3>5
  <2> QED
    BY <2>2, <2>3, <2>4 DEF n
<1> QED
  BY <1>2, <1>3

LEMMA WrittenFacts ==
  ASSUME NEW p \in Prefix
  PROVE  \A k : k \in Written(p) <=>
           k \in Bits /\ Len(k) \in Tops(Len(p)) /\ First(k, Len(p)) = p
<1> DEFINE l == Len(p)
<1>0. p \in Bits /\ First(p, l) = p
  BY PrefixBits, FirstWhole
<1>1. CASE l # SuperHead
  <2>1. Written(p) = SetBy(p) /\ Tops(l) = {Top(l)}
    BY <1>1 DEF Written, Tops
  <2> QED
    BY <2>1, SetByFacts
<1>2. CASE l = SuperHead
  <2>1. Written(p) = SetBy(p) \cup {p} /\ Tops(l) = {Top(l), l}
    BY <1>2 DEF Written, Tops
  <2>2. ASSUME NEW k \in Bits, Len(k) = l, First(k, l) = p PROVE k = p
    BY <2>2, FirstWhole
  <2> QED
    BY <1>0, <2>1, <2>2, SetByFacts
<1> QED
  BY <1>1, <1>2

LEMMA SuperNode ==
  ASSUME NEW p \in Prefix
  PROVE  /\ SuperEach[p] = Heads(p, SuperLevels(Len(p))) \cup SetBy(p)
         /\ \A n \in SuperLevels(Len(p)) : First(p, n) \in SuperEach[p]
         /\ Written(p) \subseteq SuperEach[p]
<1>0. p \in Bits /\ Len(p) >= SuperHead /\ Len(p) \in Nat /\ SuperHead \in Nat
      /\ SuperHead % SuperChunk = 0
  BY PrefixBits, Widths DEF Bits
<1>1. SuperEach[p] = Heads(p, SuperLevels(Len(p))) \cup SetBy(p)
  BY DEF SuperEach
<1>2. \A n \in SuperLevels(Len(p)) : First(p, n) \in SuperEach[p]
  BY <1>1 DEF Heads
<1>3. CASE Len(p) = SuperHead
  <2>1. Len(p) \in SuperLevels(Len(p))
    BY <1>0, <1>3 DEF SuperLevels
  <2>2. p \in SuperEach[p]
    BY <1>0, <1>2, <2>1, FirstWhole
  <2> QED
    BY <1>1, <1>2, <2>2 DEF Written
<1>4. CASE Len(p) # SuperHead
  BY <1>1, <1>2, <1>4 DEF Written
<1> QED
  BY <1>3, <1>4

LEMMA OverwrittenFacts ==
  ASSUME NEW nodes, NEW ks, NEW v
  PROVE  /\ DOMAIN Overwritten(nodes, ks, v) = DOMAIN nodes
         /\ \A k \in DOMAIN nodes :
              Overwritten(nodes, ks, v)[k] = IF k \in ks THEN v ELSE nodes[k]
  BY DEF Overwritten

(* No line before one that has the length of the head covers its node.     *)
LEMMA HeadIsNew ==
  ASSUME table \in Tables, SuperOK, NEW p \in Prefix, Len(p) = SuperHead,
         table' = Append(table, p), CoveringFirst'
  PROVE  p \notin DOMAIN super_trie
<1> SUFFICES ASSUME p \in DOMAIN super_trie PROVE FALSE
  OBVIOUS
<1>0. SuperHead \in Nat
  BY Widths
<1>1. PICK i \in 1 .. Len(table) : p \in SuperEach[table[i]]
  BY NodeOf DEF SuperOK
<1> DEFINE q == table[i]
<1>2. q \in Prefix /\ q \in Bits /\ Len(q) \in Nat /\ Len(q) >= SuperHead
  BY <1>0, Lines, PrefixBits DEF Bits
<1>3. p \in Heads(q, SuperLevels(Len(q))) \/ p \in SetBy(q)
  BY <1>1, <1>2, SuperNode
<1>4. CASE p \in SetBy(q)
  <2> HIDE DEF q
  <2>1. Len(p) = Top(Len(q))
    BY <1>2, <1>4, SetByFacts
  <2> QED
    BY <1>0, <1>2, <2>1, TopFacts
<1>5. CASE p \in Heads(q, SuperLevels(Len(q)))
  <2> HIDE DEF q
  <2>1. PICK m \in SuperLevels(Len(q)) : p = First(q, m)
    BY <1>5 DEF Heads
  <2>2. m \in 0 .. Len(q)
    BY <1>0, <1>2 DEF SuperLevels
  <2>3. Len(p) = m
    BY <1>2, <2>1, <2>2, FirstBits
  <2>4. Len(p) <= Len(q) /\ First(q, Len(p)) = p
    BY <1>2, <2>1, <2>2, <2>3
  <2> DEFINE n == Len(table) + 1
  <2>5. /\ i \in DOMAIN table' /\ n \in DOMAIN table' /\ i < n
        /\ table'[i] = q /\ table'[n] = p
    <3>1. /\ Len(table) \in Nat /\ table' \in Tables /\ Len(table') = n /\ table'[n] = p
          /\ table'[i] = q
      BY Lines, MoreLines DEF q
    <3>2. DOMAIN table' = 1 .. Len(table')
      BY <3>1, Lines
    <3> QED
      BY <3>1, <3>2
  <2> QED
    BY <2>4, <2>5 DEF CoveringFirst
<1> QED
  BY <1>3, <1>4, <1>5

LEMMA CoveringBefore ==
  ASSUME table \in Tables, NEW p \in Prefix, table' = Append(table, p), CoveringFirst'
  PROVE  CoveringFirst
<1>1. /\ Len(table) \in Nat /\ table' \in Tables /\ Len(table') = Len(table) + 1
      /\ \A i \in 1 .. Len(table) : table'[i] = table[i]
  BY Lines, MoreLines
<1>2. DOMAIN table' = 1 .. Len(table') /\ DOMAIN table = 1 .. Len(table)
  BY <1>1, Lines
<1>3. ASSUME NEW i \in 1 .. Len(table), NEW j \in 1 .. Len(table), i < j
      PROVE  ~(Len(table[j]) <= Len(table[i]) /\ First(table[i], Len(table[j])) = table[j])
  <2>1. i \in DOMAIN table' /\ j \in DOMAIN table'
    BY <1>1, <1>2
  <2>2. ~(Len(table'[j]) <= Len(table'[i]) /\ First(table'[i], Len(table'[j])) = table'[j])
    BY <1>3, <2>1 DEF CoveringFirst
  <2> QED
    BY <1>1, <2>2
<1> QED
  BY <1>2, <1>3 DEF CoveringFirst

LEMMA SuperStep ==
  ASSUME table \in Tables, SuperOK, NEW p \in Prefix,
         table' = Append(table, p), super_trie' = SuperTrieInsert(super_trie, p, Len(table'))
  PROVE  SuperOK'
<1> DEFINE n == Len(table) + 1
           grown == Grown(super_trie, SuperEach[p])
           head == IF Len(p) = SuperHead /\ p \notin DOMAIN super_trie THEN {p} ELSE {}
           ks == SetBy(p) \cup head
<1>1. super_trie' = Overwritten(grown, ks, n)
  BY MoreLines, SuperNode DEF SuperTrieInsert, SetBy
<1>2. /\ DOMAIN grown = DOMAIN super_trie \cup SuperEach[p]
      /\ \A k \in DOMAIN super_trie : grown[k] = super_trie[k]
      /\ \A k \in SuperEach[p] : k \notin DOMAIN super_trie => grown[k] = NoPort
  BY GrownFacts
<1>3. /\ DOMAIN super_trie' = DOMAIN grown
      /\ \A k \in DOMAIN grown : super_trie'[k] = IF k \in ks THEN n ELSE grown[k]
  <2> HIDE DEF grown, ks, n
  <2> QED
    BY <1>1, OverwrittenFacts
<1> HIDE DEF grown, ks
<1>4. DOMAIN super_trie' = NodesOf(SuperEach, table')
  BY <1>2, <1>3, MoreNodes DEF SuperOK
<1>5. ASSUME CoveringFirst', NEW k \in DOMAIN super_trie'
      PROVE  LastLine(super_trie'[k], k, table')
  <2>0. /\ Len(table) \in Nat /\ table' \in Tables /\ Len(table') = n /\ table'[n] = p
        /\ \A i \in 1 .. Len(table) : table'[i] = table[i]
        /\ \A i \in 1 .. Len(table') : i = n \/ i \in 1 .. Len(table)
    BY Lines, MoreLines
  <2>1. ks = Written(p)
    BY <1>5, HeadIsNew DEF ks, Written
  <2>2. CASE k \in Written(p)
    <3>1. super_trie'[k] = n
      BY <1>3, <2>1, <2>2
    <3>2. n \in 1 .. Len(table') /\ \A i \in 1 .. Len(table') : i <= n
      BY <2>0
    <3>3. k \in Written(table'[n])
      BY <2>0, <2>2
    <3>4. LastLine(n, k, table')
      <4> HIDE DEF n
      <4> QED
        BY <3>2, <3>3 DEF LastLine
    <3> QED
      BY <3>1, <3>4
  <2>3. CASE k \notin Written(p)
    <3>1. super_trie'[k] = grown[k] /\ k \in DOMAIN grown
      BY <1>3, <2>1, <2>3
    <3> DEFINE v == grown[k]
    <3>2. LastLine(v, k, table)
      <4>1. CASE k \in DOMAIN super_trie
        <5>1. v = super_trie[k] /\ CoveringFirst
          BY <1>2, <1>5, <4>1, CoveringBefore
        <5> QED
          BY <4>1, <5>1 DEF SuperOK
      <4>2. CASE k \notin DOMAIN super_trie
        <5>1. v = NoPort
          BY <1>2, <3>1, <4>2
        <5>2. ASSUME NEW i \in 1 .. Len(table), k \in Written(table[i]) PROVE FALSE
          <6>1. k \in SuperEach[table[i]]
            BY <5>2, Lines, SuperNode
          <6> QED
            BY <4>2, <6>1, NodeOf DEF SuperOK
        <5> QED
          BY <5>1, <5>2 DEF LastLine
      <4> QED
        BY <4>1, <4>2
    <3> HIDE DEF v
    <3>3. CASE v = NoPort /\ \A i \in 1 .. Len(table) : k \notin Written(table[i])
      <4>1. \A i \in 1 .. Len(table') : k \notin Written(table'[i])
        BY <2>0, <2>3, <3>3
      <4>2. LastLine(v, k, table')
        BY <3>3, <4>1 DEF LastLine
      <4> QED
        BY <3>1, <4>2 DEF v
    <3>4. CASE /\ v \in 1 .. Len(table) /\ k \in Written(table[v])
               /\ \A i \in 1 .. Len(table) : k \in Written(table[i]) => i <= v
      <4>1. v \in 1 .. Len(table') /\ k \in Written(table'[v])
        BY <2>0, <3>4
      <4>2. \A i \in 1 .. Len(table') : k \in Written(table'[i]) => i <= v
        BY <2>0, <2>3, <3>4
      <4>3. LastLine(v, k, table')
        BY <4>1, <4>2 DEF LastLine
      <4> QED
        BY <3>1, <4>3 DEF v
    <3> QED
      BY <3>2, <3>3, <3>4 DEF LastLine
  <2> QED
    BY <2>2, <2>3
<1> QED
  BY <1>4, <1>5 DEF SuperOK

(* Of the prefixes of an address, longer ones come later in the table.     *)
LEMMA LaterIsLonger ==
  ASSUME table \in Tables, CoveringFirst, NEW a \in Address,
         NEW i \in 1 .. Len(table), NEW j \in 1 .. Len(table), i < j,
         First(a, Len(table[i])) = table[i], First(a, Len(table[j])) = table[j]
  PROVE  Len(table[i]) < Len(table[j])
<1> DEFINE x == Len(table[i])
           y == Len(table[j])
<1>1. /\ a \in Bits /\ Len(a) = Width /\ Width \in Nat
      /\ x \in 1 .. Width /\ y \in 1 .. Width
  BY AddressBits, Widths, Lines, PrefixBits
<1>2. ~(y <= x /\ First(table[i], y) = table[j])
  BY Lines DEF CoveringFirst
<1>3. y <= x => First(table[i], y) = table[j]
  <2> SUFFICES ASSUME y <= x PROVE First(table[i], y) = table[j]
    OBVIOUS
  <2>1. x \in 0 .. Len(a) /\ y \in 0 .. x
    BY <1>1
  <2>2. First(First(a, x), y) = First(a, y)
    <3> HIDE DEF x, y
    <3> QED
      BY <1>1, <2>1, FirstFirst
  <2> QED
    BY <2>2
<1> HIDE DEF x, y
<1>4. x < y
  BY <1>1, <1>2, <1>3
<1> QED
  BY <1>4 DEF x, y

(* A prefix sets the port of a node on the way of an address if it is one  *)
(* of the address and the node is on one of its levels.                    *)
LEMMA WrittenOnWay ==
  ASSUME NEW p \in Prefix, NEW a \in Address, NEW n \in 0 .. Width
  PROVE  First(a, n) \in Written(p) <=> n \in Tops(Len(p)) /\ First(a, Len(p)) = p
<1> DEFINE l == Len(p)
           k == First(a, n)
<1>1. /\ a \in Bits /\ Len(a) = Width /\ Width \in Nat /\ SuperHead \in Nat
      /\ l \in Nat /\ l >= SuperHead
  BY AddressBits, Widths, PrefixBits
<1>2. k \in Bits /\ Len(k) = n
  BY <1>1, FirstBits
<1>3. n \in Tops(l) => First(k, l) = First(a, l)
  <2> SUFFICES ASSUME n \in Tops(l) PROVE First(k, l) = First(a, l)
    OBVIOUS
  <2> HIDE DEF l
  <2>1. l <= n
    BY <1>1, TopFacts DEF Tops
  <2>2. n \in 0 .. Len(a) /\ l \in 0 .. n
    BY <1>1, <2>1
  <2> QED
    BY <1>1, <2>2, FirstFirst
<1>4. k \in Written(p) <=> n \in Tops(l) /\ First(k, l) = p
  <2> HIDE DEF k
  <2> QED
    BY <1>2, WrittenFacts
<1> QED
  BY <1>3, <1>4

(* The lookup goes on as long as there are nodes; the last port it sees is *)
(* that of the longest prefix.                                             *)
LEMMA SuperFinds ==
  ASSUME table \in Tables, SuperOK, CoveringFirst, NEW a \in Address
  PROVE  super_trie_lookup(a) = LongestMatch(a, 0)
<1> DEFINE passed == Reached(super_trie, a, SuperLevels(Width))
           P == Ports(super_trie, a, passed)
<1>0. /\ a \in Bits /\ Len(a) = Width /\ Width \in Nat /\ SuperHead \in Nat \ {0}
      /\ SuperHead % SuperChunk = 0
  BY AddressBits, Widths
<1>1. passed \in SUBSET (0 .. Width)
  BY <1>0 DEF Reached, SuperLevels
<1>2. ASSUME NEW n \in P
      PROVE  LET v == super_trie[First(a, n)] IN
             /\ n \in 0 .. Width /\ v \in 1 .. Len(table)
             /\ n \in Tops(Len(table[v])) /\ First(a, Len(table[v])) = table[v]
             /\ \A i \in 1 .. Len(table) : First(a, n) \in Written(table[i]) => i <= v
  <2> DEFINE v == super_trie[First(a, n)]
  <2>1. n \in 0 .. Width /\ First(a, n) \in DOMAIN super_trie /\ v # NoPort
    BY <1>1 DEF Ports
  <2>2. LastLine(v, First(a, n), table)
    BY <2>1 DEF SuperOK
  <2> HIDE DEF v
  <2>3. /\ v \in 1 .. Len(table) /\ First(a, n) \in Written(table[v])
        /\ \A i \in 1 .. Len(table) : First(a, n) \in Written(table[i]) => i <= v
    BY <2>1, <2>2 DEF LastLine
  <2>4. n \in Tops(Len(table[v])) /\ First(a, Len(table[v])) = table[v]
    BY <2>1, <2>3, Lines, WrittenOnWay
  <2> QED
    BY <2>1, <2>3, <2>4 DEF v
<1>3. ASSUME NEW n \in P PROVE super_trie[First(a, n)] \in Matches(a, 0)
  <2> DEFINE v == super_trie[First(a, n)]
  <2>1. v \in 1 .. Len(table) /\ First(a, Len(table[v])) = table[v]
    BY <1>2
  <2> HIDE DEF v
  <2>2. v \in DOMAIN table /\ Len(table[v]) > 0
    BY <2>1, Lines, PrefixBits
  <2>3. v \in Matches(a, 0)
    BY <2>1, <2>2 DEF Matches
  <2> QED
    BY <2>3 DEF v
<1>4. ASSUME NEW j \in Matches(a, 0) PROVE \E n \in P : Beats(super_trie[First(a, n)], j)
  <2> DEFINE p == table[j]
             l == Len(p)
             n == IF l = SuperHead THEN l ELSE Top(l)
             w == super_trie[First(a, n)]
  <2>1. j \in 1 .. Len(table) /\ First(a, l) = p
    BY Lines DEF Matches
  <2>2. p \in Prefix /\ p \in Bits /\ l \in SuperHead .. Width /\ l \in 1 .. Width
    BY <2>1, Lines, PrefixBits
  <2>3. ASSUME NEW k \in SuperEach[p] PROVE k \in DOMAIN super_trie
    BY <2>1, <2>3, NodeOf DEF SuperOK
  <2>4. /\ n \in Tops(l) /\ n \in SuperLevels(Width)
        /\ \A m \in SuperLevels(Width) : m < n => m <= l
    <3> HIDE DEF l
    <3>1. CASE l = SuperHead
      BY <1>0, <2>2, <3>1 DEF Tops, SuperLevels
    <3>2. CASE l # SuperHead
      <4>1. l \in SuperHead + 1 .. Width /\ l \in Nat /\ l >= SuperHead
        BY <1>0, <2>2, <3>2
      <4>2. /\ Top(l) \in Nat /\ Top(l) % SuperChunk = 0 /\ Top(l) > SuperHead
            /\ Top(l) <= Width
            /\ \A m \in Nat : m % SuperChunk = 0 /\ SuperHead <= m /\ m < Top(l) => m <= l
        BY <4>1, TopFacts
      <4> QED
        BY <1>0, <3>2, <4>2 DEF Tops, SuperLevels
    <3> QED
      BY <3>1, <3>2
  <2>5. n \in 0 .. Width
    <3> HIDE DEF n
    <3> QED
      BY <1>0, <2>4 DEF SuperLevels
  <2>6. First(a, n) \in Written(p) /\ First(a, n) \in DOMAIN super_trie
    <3> HIDE DEF n
    <3>1. First(a, n) \in Written(p)
      BY <2>1, <2>2, <2>4, <2>5, WrittenOnWay
    <3> QED
      BY <2>2, <2>3, <3>1, SuperNode
  <2>7. ASSUME NEW m \in SuperLevels(Width), m <= n PROVE First(a, m) \in DOMAIN super_trie
    <3> HIDE DEF n
    <3>0. m \in Nat /\ SuperHead <= m /\ m % SuperChunk = 0
      BY <1>0 DEF SuperLevels
    <3>1. CASE m = n
      BY <2>6, <3>1
    <3>2. CASE m < n
      <4>1. l \in 0 .. Len(a) /\ m \in 0 .. l /\ m \in SuperLevels(l)
        <5> HIDE DEF l
        <5> QED
          BY <1>0, <2>2, <2>4, <3>0, <3>2 DEF SuperLevels
      <4>2. First(First(a, l), m) = First(a, m)
        <5> HIDE DEF l
        <5> QED
          BY <1>0, <4>1, FirstFirst
      <4>3. First(a, m) = First(p, m)
        BY <2>1, <4>2
      <4>4. First(p, m) \in SuperEach[p]
        BY <2>2, <4>1, SuperNode
      <4> QED
        BY <2>3, <4>3, <4>4
    <3> QED
      BY <2>5, <2>7, <3>0, <3>1, <3>2
  <2>8. n \in passed
    <3> HIDE DEF n
    <3> QED
      BY <2>4, <2>7 DEF Reached
  <2>9. LastLine(w, First(a, n), table)
    BY <2>6 DEF SuperOK
  <2>10. w # NoPort
    <3> HIDE DEF w, n
    <3> QED
      BY <2>1, <2>6, <2>9, Lines DEF LastLine, NoPort
  <2>11. n \in P
    BY <2>6, <2>8, <2>10 DEF Ports
  <2>12. w \in 1 .. Len(table) /\ First(a, Len(table[w])) = table[w] /\ j <= w
    <3> HIDE DEF n
    <3> QED
      BY <1>2, <2>1, <2>6, <2>11
  <2>13. Beats(w, j)
    <3> HIDE DEF w
    <3>1. CASE w = j
      BY <2>1, <3>1 DEF Beats
    <3>2. CASE w # j
      <4>1. j < w
        BY <2>1, <2>12, <3>2
      <4>2. l < Len(table[w])
        BY <2>1, <2>12, <4>1, LaterIsLonger
      <4>3. Len(table[w]) \in Nat /\ l \in Nat
        BY <2>2, <2>12, Lines, PrefixBits DEF Bits
      <4> QED
        BY <4>2, <4>3 DEF Beats
    <3> QED
      BY <3>1, <3>2
  <2> QED
    BY <2>11, <2>13
<1>5. ASSUME NEW m \in P, NEW n \in P, m < n
      PROVE  Beats(super_trie[First(a, n)], super_trie[First(a, m)])
  <2> DEFINE u == super_trie[First(a, m)]
             w == super_trie[First(a, n)]
             x == Len(table[u])
             y == Len(table[w])
  <2>1. u \in 1 .. Len(table) /\ m \in Tops(x) /\ First(a, x) = table[u]
    BY <1>2
  <2>2. w \in 1 .. Len(table) /\ n \in Tops(y) /\ First(a, y) = table[w]
    BY <1>2
  <2> HIDE DEF u, w
  <2>3. x \in Nat /\ y \in Nat /\ x >= SuperHead /\ y >= SuperHead
    BY <2>1, <2>2, Lines, PrefixBits, Widths DEF Bits
  <2>4. x <= y
    <3> HIDE DEF x, y
    <3> QED
      BY <1>5, <2>1, <2>2, <2>3, TopsOrder
  <2>5. x = y => ~(u < w) /\ ~(w < u)
    BY <2>1, <2>2, <2>3, LaterIsLonger
  <2>6. x < y \/ (x = y /\ u = w)
    <3> HIDE DEF x, y
    <3> QED
      BY <2>1, <2>2, <2>3, <2>4, <2>5
  <2>7. Beats(w, u)
    BY <2>1, <2>2, <2>3, <2>6 DEF Beats
  <2> QED
    BY <2>7 DEF u, w
<1>6. LastPort(super_trie, a, passed) = LongestMatch(a, 0)
  <2> DEFINE longer == 0
  <2>1. P = Ports(super_trie, a, passed) /\ longer \in Nat
    OBVIOUS
  <2>2. \A n \in P : super_trie[First(a, n)] \in Matches(a, longer)
    BY <1>3
  <2>3. \A j \in Matches(a, longer) : \E n \in P : Beats(super_trie[First(a, n)], j)
    BY <1>4
  <2>4. LastPort(super_trie, a, passed) = LongestMatch(a, longer)
    <3> HIDE DEF passed, P, longer
    <3> QED
      BY <1>0, <1>1, <1>5, <2>1, <2>2, <2>3, FoundIsLongest, ZenonT(60)
  <2> QED
    BY <2>4
<1> QED
  BY <1>6 DEF super_trie_lookup
--------------------------------------------------------------------------------
(* The loop of longest_prefix_match, for as many entries as there are.     *)
None == [mask |-> 0, iface |-> NoPort]
IsSearch(f, a, n) ==
  f = [i \in 0 .. n |-> IF i = 0 THEN None ELSE Better(f[i - 1], rtable[i], a)]

LEMMA SearchExists ==
  ASSUME NEW a, NEW N \in Nat
  PROVE  \E f : IsSearch(f, a, N)
<1> DEFINE S == {n \in Nat : ~\E f : IsSearch(f, a, n)}
<1> SUFFICES ASSUME S # {} PROVE FALSE
  OBVIOUS
<1>1. PICK n \in S : \A m \in S : n <= m
  <2>1. S \in SUBSET Nat
    OBVIOUS
  <2> HIDE DEF S
  <2> QED
    BY <2>1, LeastNat
<1>2. n # 0
  <2> DEFINE f == [i \in 0 .. 0 |-> None]
  <2>1. f = [i \in 0 .. 0 |-> IF i = 0 THEN None ELSE Better(f[i - 1], rtable[i], a)]
    OBVIOUS
  <2>2. IsSearch(f, a, 0)
    BY <2>1 DEF IsSearch
  <2> QED
    BY <2>2
<1>3. n - 1 \in Nat /\ n - 1 \notin S
  BY <1>1, <1>2
<1>4. PICK g : IsSearch(g, a, n - 1)
  BY <1>3
<1> DEFINE f == [i \in 0 .. n |-> IF i = n THEN Better(g[n - 1], rtable[n], a) ELSE g[i]]
<1>5. ASSUME NEW i \in 0 .. n
      PROVE  f[i] = IF i = 0 THEN None ELSE Better(f[i - 1], rtable[i], a)
  <2>1. \A j \in 0 .. n - 1 :
          f[j] = g[j] /\ g[j] = IF j = 0 THEN None ELSE Better(g[j - 1], rtable[j], a)
    BY <1>3, <1>4 DEF IsSearch
  <2>2. CASE i = n
    <3>1. f[i] = Better(g[n - 1], rtable[n], a) /\ f[n - 1] = g[n - 1]
      BY <1>3, <2>1, <2>2
    <3> QED
      BY <1>2, <2>2, <3>1
  <2>3. CASE i # n
    <3>1. i \in 0 .. n - 1 /\ (i # 0 => i - 1 \in 0 .. n - 1)
      BY <1>3, <2>3
    <3> HIDE DEF f
    <3> QED
      BY <2>1, <3>1
  <2> QED
    BY <2>2, <2>3
<1>6. IsSearch(f, a, n)
  <2>1. DOMAIN f = 0 .. n /\ f = [i \in 0 .. n |-> f[i]]
    OBVIOUS
  <2> HIDE DEF f
  <2> QED
    BY <1>5, <2>1 DEF IsSearch
<1> QED
  BY <1>1, <1>6

LEMMA SearchResult ==
  ASSUME NEW a, Len(rtable) \in Nat
  PROVE  \E f : IsSearch(f, a, Len(rtable)) /\ longest_prefix_match(a) = f[Len(rtable)].iface
<1> DEFINE N == Len(rtable)
           f == CHOOSE g : IsSearch(g, a, N)
<1>1. IsSearch(f, a, N)
  <2> HIDE DEF N
  <2>1. N \in Nat
    BY DEF N
  <2> QED
    BY <2>1, SearchExists
<1>2. f = CHOOSE best : best = [i \in 0 .. Len(rtable) |->
          IF i = 0 THEN [mask |-> 0, iface |-> NoPort] ELSE Better(best[i - 1], rtable[i], a)]
  BY DEF IsSearch, None
<1>3. longest_prefix_match(a) = f[Len(rtable)].iface
  BY <1>2 DEF longest_prefix_match
<1> QED
  BY <1>1, <1>3

(* The best entry of the first n lines of the table.                       *)
Matching(a, j) == First(a, Len(table[j])) = table[j]
IsBest(v, a, n) ==
  /\ v \in 1 .. n /\ Matching(a, v)
  /\ \A j \in 1 .. n : Matching(a, j) => Beats(v, j)
Found(b, a, n) ==
  \/ b = None /\ \A j \in 1 .. n : ~Matching(a, j)
  \/ IsBest(b.iface, a, n) /\ b.mask = Len(table[b.iface])

LEMMA RtableEntries ==
  ASSUME table \in Tables
  PROVE  /\ Len(table) \in Nat /\ Len(rtable) = Len(table) + 1
         /\ Len(rtable[1].dest) = 0
         /\ \A n \in 1 .. Len(table) : rtable[n + 1] = Entry(table[n], n)
<1> DEFINE lines == [i \in DOMAIN table |-> Entry(table[i], i)]
<1>1. /\ Len(table) \in Nat /\ lines \in Seq({lines[i] : i \in 1 .. Len(table)})
      /\ Len(lines) = Len(table)
  BY Lines
<1>2. \A i \in 1 .. Len(table) : lines[i] = Entry(table[i], i)
  BY Lines
<1>3. rtable = <<Entry(<< >>, 0)>> \o lines
  BY DEF rtable
<1> HIDE DEF lines
<1>4. Len(rtable) = Len(table) + 1 /\ rtable[1] = Entry(<< >>, 0)
  BY <1>1, <1>3
<1>5. \A n \in 1 .. Len(table) : rtable[n + 1] = lines[n]
  BY <1>1, <1>3
<1>6. Len(rtable[1].dest) = 0
  <2>1. Entry(<< >>, 0).dest = << >>
    BY DEF Entry
  <2> QED
    BY <1>4, <2>1
<1>7. \A n \in 1 .. Len(table) : rtable[n + 1] = Entry(table[n], n)
  BY <1>2, <1>5
<1> QED
  BY <1>1, <1>4, <1>6, <1>7

LEMMA BetterFinds ==
  ASSUME table \in Tables, NEW a, NEW n \in 1 .. Len(table), NEW b, Found(b, a, n - 1)
  PROVE  Found(Better(b, Entry(table[n], n), a), a, n)
<1> DEFINE l == Len(table[n])
           new == [mask |-> l, iface |-> n]
           c == Better(b, Entry(table[n], n), a)
<1>0. /\ n \in Nat /\ l \in Nat /\ l > 0
      /\ \A j \in 1 .. n : j \in 1 .. n - 1 \/ j = n
      /\ \A j \in 1 .. n - 1 : j \in 1 .. n /\ j < n /\ j \in Nat /\ Len(table[j]) \in Nat
  BY Lines, PrefixBits DEF Bits
<1>1. c = IF Matching(a, n) /\ l > b.mask THEN new ELSE b
  BY DEF Better, Longer, Entry, Matching
<1> HIDE DEF c, l
<1>2. CASE ~Matching(a, n)
  <2>1. c = b
    BY <1>1, <1>2
  <2>2. CASE b = None /\ \A j \in 1 .. n - 1 : ~Matching(a, j)
    <3>1. Found(b, a, n)
      BY <1>0, <1>2, <2>2 DEF Found
    <3> QED
      BY <2>1, <3>1 DEF c
  <2>3. CASE IsBest(b.iface, a, n - 1) /\ b.mask = Len(table[b.iface])
    <3>1. IsBest(b.iface, a, n)
      BY <1>0, <1>2, <2>3 DEF IsBest
    <3>2. Found(b, a, n)
      BY <2>3, <3>1 DEF Found
    <3> QED
      BY <2>1, <3>2 DEF c
  <2> QED
    BY <2>2, <2>3 DEF Found
<1>3. CASE Matching(a, n)
  <2>1. CASE b = None /\ \A j \in 1 .. n - 1 : ~Matching(a, j)
    <3>1. c = new
      BY <1>0, <1>1, <1>3, <2>1 DEF None
    <3>2. IsBest(n, a, n)
      BY <1>0, <1>3, <2>1 DEF IsBest, Beats
    <3>3. c.iface = n /\ c.mask = Len(table[n])
      BY <3>1 DEF l
    <3>4. Found(c, a, n)
      BY <3>2, <3>3 DEF Found
    <3> QED
      BY <3>4 DEF c
  <2>2. CASE IsBest(b.iface, a, n - 1) /\ b.mask = Len(table[b.iface])
    <3> DEFINE v == b.iface
               m == Len(table[v])
    <3>1. v \in 1 .. n - 1 /\ Matching(a, v) /\ m \in Nat /\ b.mask = m
      BY <1>0, <2>2 DEF IsBest
    <3>2. \A j \in 1 .. n - 1 : Matching(a, j) => Beats(v, j)
      BY <2>2 DEF IsBest
    <3> HIDE DEF v
    <3>3. CASE l > m
      <4>1. c = new
        BY <1>1, <1>3, <3>1, <3>3
      <4>2. ASSUME NEW j \in 1 .. n - 1, Matching(a, j) PROVE Beats(n, j)
        <5>1. Beats(n, v)
          BY <3>3 DEF Beats, l
        <5>2. Beats(v, j)
          BY <3>2, <4>2
        <5> QED
          BY <1>0, <3>1, <5>1, <5>2, BeatsTransitive DEF l
      <4>3. Beats(n, n)
        BY <1>0 DEF Beats
      <4>4. IsBest(n, a, n)
        BY <1>0, <1>3, <4>2, <4>3 DEF IsBest
      <4>5. c.iface = n /\ c.mask = Len(table[n])
        BY <4>1 DEF l
      <4>6. Found(c, a, n)
        BY <4>4, <4>5 DEF Found
      <4> QED
        BY <4>6 DEF c
    <3>4. CASE ~(l > m)
      <4>1. c = b
        BY <1>1, <1>3, <3>1, <3>4
      <4>2. Beats(v, n)
        <5>1. m > l \/ (m = l /\ v <= n)
          <6> HIDE DEF m
          <6> QED
            BY <1>0, <3>1, <3>4
        <5> QED
          BY <5>1 DEF Beats, l
      <4>3. IsBest(v, a, n)
        BY <1>0, <3>1, <3>2, <4>2 DEF IsBest
      <4>4. Found(b, a, n)
        BY <3>1, <4>3 DEF Found, v
      <4> QED
        BY <4>1, <4>4 DEF c
    <3> QED
      BY <3>3, <3>4
  <2> QED
    BY <2>1, <2>2 DEF Found
<1> QED
  BY <1>2, <1>3

(* The default route is not found, and the first line with the longest     *)
(* prefix is, by induction on the lines.                                   *)
LEMMA SearchFinds ==
  ASSUME table \in Tables, NEW a, NEW f, IsSearch(f, a, Len(rtable)),
         NEW n \in 0 .. Len(table)
  PROVE  Found(f[n + 1], a, n)
<1> DEFINE S == {m \in Nat : m <= Len(table) /\ ~Found(f[m + 1], a, m)}
<1>1. /\ Len(table) \in Nat /\ Len(rtable) = Len(table) + 1
      /\ Len(rtable[1].dest) = 0
      /\ \A m \in 1 .. Len(table) : rtable[m + 1] = Entry(table[m], m)
  BY RtableEntries
<1>2. \A i \in 0 .. Len(table) + 1 : f[i] = IF i = 0 THEN None ELSE Better(f[i - 1], rtable[i], a)
  BY <1>1 DEF IsSearch
<1> SUFFICES ASSUME S # {} PROVE FALSE
  OBVIOUS
<1>3. PICK m \in S : \A k \in S : m <= k
  <2>1. S \in SUBSET Nat
    OBVIOUS
  <2> HIDE DEF S
  <2> QED
    BY <2>1, LeastNat
<1>4. CASE m = 0
  <2>1. f[1] = Better(None, rtable[1], a)
    BY <1>1, <1>2
  <2>2. f[1] = None
    BY <1>1, <2>1 DEF Better, Longer, None
  <2>3. Found(f[1], a, 0)
    BY <2>2 DEF Found
  <2> QED
    BY <1>3, <1>4, <2>3
<1>5. CASE m # 0
  <2>1. m \in 1 .. Len(table) /\ m - 1 \in Nat /\ m - 1 <= Len(table) /\ m - 1 < m
    BY <1>1, <1>3, <1>5
  <2>2. m - 1 \notin S
    BY <1>1, <1>3, <2>1
  <2>3. Found(f[(m - 1) + 1], a, m - 1)
    BY <2>1, <2>2
  <2>4. (m - 1) + 1 = m
    BY <2>1
  <2>5. Found(f[m], a, m - 1)
    BY <2>3, <2>4
  <2>6. f[m + 1] = Better(f[m], Entry(table[m], m), a)
    <3>1. m + 1 \in 0 .. Len(table) + 1 /\ m + 1 # 0 /\ (m + 1) - 1 = m
      BY <1>1, <2>1
    <3>2. f[m + 1] = Better(f[(m + 1) - 1], rtable[m + 1], a)
      BY <1>2, <3>1
    <3> QED
      BY <1>1, <2>1, <3>1, <3>2
  <2>7. Found(f[m + 1], a, m)
    BY <2>1, <2>5, <2>6, BetterFinds
  <2> QED
    BY <1>3, <2>7
<1> QED
  BY <1>4, <1>5

LEMMA RtableFinds ==
  ASSUME table \in Tables, NEW a \in Address
  PROVE  longest_prefix_match(a) = LongestMatch(a, 0)
<1>1. Len(table) \in Nat /\ Len(rtable) = Len(table) + 1 /\ Len(rtable) \in Nat
  BY RtableEntries
<1>2. PICK f : IsSearch(f, a, Len(rtable)) /\ longest_prefix_match(a) = f[Len(rtable)].iface
  BY <1>1, SearchResult
<1> DEFINE b == f[Len(table) + 1]
<1>3. longest_prefix_match(a) = b.iface /\ Found(b, a, Len(table))
  BY <1>1, <1>2, SearchFinds
<1> HIDE DEF b
<1>4. \A j : j \in Matches(a, 0) <=> j \in 1 .. Len(table) /\ Matching(a, j)
  BY Lines, PrefixBits DEF Matches, Matching
<1>5. CASE b = None /\ \A j \in 1 .. Len(table) : ~Matching(a, j)
  <2>1. b.iface = NoPort /\ Matches(a, 0) = {}
    BY <1>4, <1>5 DEF None
  <2> QED
    BY <1>3, <2>1, LongestIsBest
<1>6. CASE IsBest(b.iface, a, Len(table))
  <2> DEFINE v == b.iface
  <2>1. v \in Matches(a, 0) /\ \A j \in Matches(a, 0) : Beats(v, j)
    BY <1>4, <1>6 DEF IsBest
  <2> HIDE DEF v
  <2>2. v = LongestMatch(a, 0)
    BY <2>1, LongestIsBest
  <2> QED
    BY <1>3, <2>2 DEF v
<1> QED
  BY <1>3, <1>5, <1>6 DEF Found
--------------------------------------------------------------------------------
TriesInv == table \in Tables /\ TrieOK /\ AdOK /\ SuperOK

LEMMA NoLines ==
  ASSUME Init
  PROVE  TriesInv
<1>1. table \in Tables /\ Len(table) = 0 /\ DOMAIN table = {}
  BY DEF Init, Tables
<1>2. DOMAIN trie = {} /\ DOMAIN ad_trie = {} /\ DOMAIN super_trie = {}
  BY DEF Init
<1>3. ASSUME NEW each PROVE NodesOf(each, table) = {}
  BY <1>1 DEF NodesOf
<1>4. TrieOK
  BY <1>2, <1>3 DEF TrieOK, KeptPorts
<1>5. AdOK
  BY <1>2, <1>3 DEF AdOK, KeptPorts
<1>6. SuperOK
  BY <1>2, <1>3 DEF SuperOK
<1> QED
  BY <1>1, <1>4, <1>5, <1>6 DEF TriesInv

LEMMA OneMoreLine ==
  ASSUME TriesInv, [Next]_vars
  PROVE  TriesInv'
<1>1. ASSUME NEW p \in Prefix, ReadLine(p) PROVE TriesInv'
  <2>1. table' = Append(table, p) /\ table' \in Tables
    BY <1>1, MoreLines DEF ReadLine, TriesInv
  <2>2. TrieOK'
    BY <1>1, TrieStep DEF ReadLine, TriesInv
  <2>3. AdOK'
    BY <1>1, AdStep DEF ReadLine, TriesInv
  <2>4. SuperOK'
    BY <1>1, SuperStep DEF ReadLine, TriesInv
  <2> QED
    BY <2>1, <2>2, <2>3, <2>4 DEF TriesInv
<1>2. CASE UNCHANGED vars
  <2>1. table' = table /\ trie' = trie /\ ad_trie' = ad_trie /\ super_trie' = super_trie
    BY <1>2 DEF vars
  <2>2. TrieOK'
    BY <2>1 DEF TriesInv, TrieOK, KeptPorts
  <2>3. AdOK'
    BY <2>1 DEF TriesInv, AdOK, KeptPorts
  <2>4. SuperOK'
    BY <2>1 DEF TriesInv, SuperOK, CoveringFirst
  <2> QED
    BY <2>1, <2>2, <2>3, <2>4 DEF TriesInv
<1> QED
  BY <1>1, <1>2 DEF Next

(* Which nodes and which ports the three tries have, whatever the table    *)
(* and the order of its lines (06-lookup/tree.c).                          *)
THEOREM TriesInvariant == Spec => []TriesInv
<1>1. Init => TriesInv
  BY NoLines
<1>2. TriesInv /\ [Next]_vars => TriesInv'
  BY OneMoreLine
<1> QED
  BY <1>1, <1>2, PTL DEF Spec

(* trie_lookup returns the port of the longest prefix, for every table and *)
(* every address, of any width.                                            *)
THEOREM TrieFindsLongest == Spec => []TrieIsLongestMatch
<1>1. TriesInv => TrieIsLongestMatch
  BY TrieFinds DEF TriesInv, TrieIsLongestMatch
<1> QED
  BY <1>1, TriesInvariant, PTL

(* ad_trie_lookup does so for the prefixes longer than its head.           *)
THEOREM AdTrieFindsLongest == Spec => []AdTrieIsLongestMatch
<1>1. TriesInv => AdTrieIsLongestMatch
  BY AdFinds DEF TriesInv, AdTrieIsLongestMatch
<1> QED
  BY <1>1, TriesInvariant, PTL

(* super_trie_lookup does so for the tables that list no prefix twice and  *)
(* none after one that it covers: then each port is overwritten by longer  *)
(* prefixes only.                                                          *)
THEOREM SuperTrieFindsLongest == Spec => []SuperTrieIsLongestMatch
<1>1. TriesInv => SuperTrieIsLongestMatch
  BY SuperFinds DEF TriesInv, SuperTrieIsLongestMatch
<1> QED
  BY <1>1, TriesInvariant, PTL

(* longest_prefix_match of the router returns the first of the entries     *)
(* with the longest prefix (ip_base.c:29-44), for every table and every    *)
(* address that an entry other than the default route matches.             *)
THEOREM RtableFindsLongest == Spec => []RtableIsLongestMatch
<1>1. TriesInv => RtableIsLongestMatch
  BY RtableFinds DEF TriesInv, RtableIsLongestMatch
<1> QED
  BY <1>1, TriesInvariant, PTL
================================================================================
