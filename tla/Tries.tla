---------------------------------- MODULE Tries --------------------------------
(***************************************************************************)
(* The three prefix tries of 06-lookup: one bit a level (trie), a head of  *)
(* six bits and then two bits a level (ad_trie), a head of eight bits and  *)
(* then four bits a level (super_trie).  They are filled with the entries  *)
(* of the same forwarding table, in its order.                             *)
(*                                                                         *)
(* An address or a prefix is the sequence of its bits, and a node is named *)
(* by the bits that lead to it: a trie is a function from its nodes to     *)
(* their ports.  The port of an entry is its line in the table, so that    *)
(* two entries never have the same one; NoPort is the -1 of the lookups.   *)
(*                                                                         *)
(* super_trie_insert allocates nodes without setting their children.  The  *)
(* program has freed nothing that malloc could give it there (main.c fills *)
(* the tries from memory that is new), so the children it reads are NULL.  *)
(***************************************************************************)
EXTENDS Integers, FiniteSets, Sequences, FiniteSetsExt

CONSTANTS Width,       \* the bits of an address: 32
          AdHead,      \* the bits of the head of ad_trie: 6
          SuperHead,   \* the bits of the head of super_trie: 8
          SuperChunk,  \* the bits of a level of super_trie: 4
          Prefix,      \* the prefixes that a table may hold
          Address,     \* the addresses that are looked up
          MaxEntries   \* bound: the entries of a table

ASSUME TriesAssumption ==
  /\ {Width, AdHead, SuperHead, SuperChunk} \subseteq Nat \ {0} /\ MaxEntries \in Nat
  /\ AdHead % 2 = 0 /\ SuperHead % SuperChunk = 0
  /\ (Width - AdHead) % 2 = 0 /\ Width % SuperChunk = 0
  /\ \A p \in Prefix : p \in Seq({0, 1}) /\ Len(p) \in SuperHead .. Width
  /\ Address \subseteq [1 .. Width -> {0, 1}]

VARIABLES
  table,      \* the prefixes of the forwarding table that have been read
  trie,       \* the nodes of each trie, and their ports
  ad_trie,
  super_trie

vars == <<table, trie, ad_trie, super_trie>>

NoPort == -1
First(bits, n) == SubSeq(bits, 1, n)
Heads(bits, lengths) == {First(bits, n) : n \in lengths}

Init ==
  /\ table = << >>
  /\ trie = << >> /\ ad_trie = << >> /\ super_trie = << >>

(* The nodes of a trie after those of a set were added, without a port. *)
Grown(nodes, new) ==
  [k \in DOMAIN nodes \cup new |-> IF k \in DOMAIN nodes THEN nodes[k] ELSE NoPort]
(* Port v at node k: if the node has none yet, or in any case. *)
Kept(nodes, k, v) == IF nodes[k] = NoPort THEN [nodes EXCEPT ![k] = v] ELSE nodes
Overwritten(nodes, ks, v) == [k \in DOMAIN nodes |-> IF k \in ks THEN v ELSE nodes[k]]
-------------------------------------------------------------------------------
(* trie_insert: an entry that exists already is kept. *)
TrieInsert_Overwrite(nodes, p, port) ==
  Overwritten(Grown(nodes, Heads(p, 1 .. Len(p))), {p}, port)
TrieInsert(nodes, p, port) == Kept(Grown(nodes, Heads(p, 1 .. Len(p))), p, port)

(* ad_trie_insert: whole levels, then, for an odd length, an odd child of  *)
(* the last node.                                                          *)
AdLevels(n) == {m \in AdHead .. n : (m - AdHead) % 2 = 0}
AdTrieInsert_NoOdd(nodes, p, port) ==
  Kept(Grown(nodes, Heads(p, AdLevels(Len(p)))), First(p, Max(AdLevels(Len(p)))), port)
AdTrieInsert(nodes, p, port) ==
  LET grown == Grown(nodes, Heads(p, AdLevels(Len(p)) \cup {Len(p)}))
  IN  IF Len(p) = AdHead THEN grown ELSE Kept(grown, p, port)

(* super_trie_insert: a prefix that ends with a level sets the port of its *)
(* node; any other sets the ports of all the children that it covers.  A   *)
(* prefix of the length of the head sets the port of a head that is new,   *)
(* and the ports of all children of it.                                    *)
SuperLevels(n) == {m \in SuperHead .. n : m % SuperChunk = 0}
Covered_Leftmost(p, n) ==
  {p \o [i \in 1 .. n - Len(p) |-> 0]}
Covered(p, n) ==
  {p \o tail : tail \in [1 .. n - Len(p) -> {0, 1}]}
SuperTrieInsert(nodes, p, port) ==
  LET whole == Len(p) % SuperChunk = 0 /\ Len(p) > SuperHead
      last == Max(SuperLevels(Len(p)))
      set == IF whole THEN {p} ELSE Covered(p, last + SuperChunk)
      head == IF Len(p) = SuperHead /\ p \notin DOMAIN nodes THEN {p} ELSE {}
  IN  Overwritten(Grown(nodes, Heads(p, SuperLevels(Len(p))) \cup set), set \cup head, port)

(* create_tree and create_tree_advance read the next line.  Which of the   *)
(* two larger tries create_tree_advance fills is chosen by a comment.      *)
ReadLine(p) ==
  /\ Len(table) < MaxEntries
  /\ table' = Append(table, p)
  /\ trie' = TrieInsert(trie, p, Len(table'))
  /\ ad_trie' = AdTrieInsert(ad_trie, p, Len(table'))
  /\ super_trie' = SuperTrieInsert(super_trie, p, Len(table'))

Next == \E p \in Prefix : ReadLine(p)

Spec == Init /\ [][Next]_vars
-------------------------------------------------------------------------------
(* The lookups go down, level by level, as long as there is a node, and    *)
(* return the last port on the way.                                        *)

Reached(nodes, a, levels) ==
  {n \in levels : \A m \in levels : m <= n => First(a, m) \in DOMAIN nodes}
LastPort(nodes, a, passed) ==
  LET ports == {n \in passed : First(a, n) \in DOMAIN nodes /\ nodes[First(a, n)] # NoPort}
  IN  IF ports = {} THEN NoPort ELSE nodes[First(a, Max(ports))]

trie_lookup(a) == LastPort(trie, a, Reached(trie, a, 1 .. Width))

(* At each node, first the odd child and then the next level.  The head    *)
(* has no port.                                                            *)
ad_trie_lookup(a) ==
  LET nodes == Reached(ad_trie, a, AdLevels(Width))
  IN  LastPort(ad_trie, a, (nodes \cup {n + 1 : n \in nodes \ {Width}}) \ {AdHead})

super_trie_lookup(a) == LastPort(super_trie, a, Reached(super_trie, a, SuperLevels(Width)))
-------------------------------------------------------------------------------
(* The reference: the first entry with the longest prefix of the address.  *)
Matches(a, longer) ==
  {i \in DOMAIN table : Len(table[i]) > longer /\ First(a, Len(table[i])) = table[i]}
LongestMatch(a, longer) ==
  LET best == {i \in Matches(a, longer) :
                 \A j \in Matches(a, longer) : Len(table[j]) <= Len(table[i])}
  IN  IF best = {} THEN NoPort ELSE Min(best)

(* Type correctness, and the shape the lookups rely on: a node has its     *)
(* parent, in each trie.                                                   *)
TypeOK ==
  /\ table \in Seq(Prefix) /\ Len(table) <= MaxEntries
  /\ \A nodes \in {trie, ad_trie, super_trie} : \A k \in DOMAIN nodes :
       k \in Seq({0, 1}) /\ nodes[k] \in {NoPort} \cup DOMAIN table
  /\ \A k \in DOMAIN trie : Len(k) > 1 => First(k, Len(k) - 1) \in DOMAIN trie
  /\ \A k \in DOMAIN super_trie :
       Len(k) > SuperHead => First(k, Len(k) - SuperChunk) \in DOMAIN super_trie

(* The trie finds the longest prefix, in whatever order the table lists    *)
(* its entries, and twice the same prefix keeps the first port.            *)
TrieIsLongestMatch == \A a \in Address : trie_lookup(a) = LongestMatch(a, 0)

(* So does the two-bit trie, for the prefixes longer than its head.        *)
AdTrieIsLongestMatch ==
  \A a \in Address : ad_trie_lookup(a) = LongestMatch(a, AdHead)

(* The four-bit trie spreads a prefix over the children that it covers and *)
(* overwrites what is there: it finds the longest prefix when the table    *)
(* lists no prefix twice, and none after one that it covers, as the        *)
(* program's forwarding table does.                                        *)
CoveringFirst ==
  \A i, j \in DOMAIN table :
    i < j => ~(Len(table[j]) <= Len(table[i]) /\ First(table[i], Len(table[j])) = table[j])
SuperTrieIsLongestMatch ==
  CoveringFirst => \A a \in Address : super_trie_lookup(a) = LongestMatch(a, 0)
===============================================================================
