------------------------------- MODULE LinkedList ------------------------------
(***************************************************************************)
(* The circular lists of include/list.h.  A list L is the fields `next`    *)
(* and `prev` of all the nodes that may be in it and of its head: a node   *)
(* that is deleted keeps its pointers, and nothing tells that it is not in *)
(* the list any more.                                                      *)
(***************************************************************************)
EXTENDS Integers, FiniteSets

(* A pointer of memory that was set to zero. *)
NULL == "NULL"

(* init_list_head, and the zeroed pointers of the nodes around it. *)
init_list_head(head, Nodes) ==
  LET fresh == [n \in Nodes \cup {head} |-> IF n = head THEN head ELSE NULL]
  IN  [next |-> fresh, prev |-> fresh]

list_empty(L, head) == L.next[head] = head

list_insert(L, new, prev, next) ==
  [next |-> [L.next EXCEPT ![prev] = new, ![new] = next],
   prev |-> [L.prev EXCEPT ![next] = new, ![new] = prev]]

list_add_head(L, new, head) == list_insert(L, new, head, L.next[head])
list_add_tail(L, new, head) == list_insert(L, new, L.prev[head], head)

(* Only the neighbours are changed. *)
list_delete_entry(L, entry) ==
  [next |-> [L.next EXCEPT ![L.prev[entry]] = L.next[entry]],
   prev |-> [L.prev EXCEPT ![L.next[entry]] = L.prev[entry]]]

(* The nodes that list_for_each_entry comes to, as long as the pointers lead to nodes. *)
list_for_each_entry(L, head) ==
  LET N == Cardinality(DOMAIN L.next)
      pos[i \in 1 .. N] == IF i = 1 THEN L.next[head]
                           ELSE IF pos[i - 1] \in DOMAIN L.next \ {head}
                           THEN L.next[pos[i - 1]] ELSE pos[i - 1]
  IN  {pos[i] : i \in 1 .. N} \cap (DOMAIN L.next \ {head})

(* The nodes of S form rings: what the callers of these functions rely on. *)
Ring(L, S) ==
  \A n \in S :
    /\ L.next[n] \in S /\ L.prev[L.next[n]] = n
    /\ L.prev[n] \in S /\ L.next[L.prev[n]] = n
================================================================================
