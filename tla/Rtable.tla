--------------------------------- MODULE Rtable --------------------------------
(***************************************************************************)
(* The routing table of 07-router, and of the labs after it: a list that   *)
(* is searched from its head for the longest prefix of an address.  Here   *)
(* it holds the entries that 06-lookup puts into its tries, so that all    *)
(* four answer the same question, and before them a default route.         *)
(***************************************************************************)
EXTENDS Tries

(* parse_routing_info: entries in the order in which the kernel reports    *)
(* them; the default route has no RTA_DST, and so the mask 0.              *)
Entry(dest, iface) == [dest |-> dest, iface |-> iface]
rtable == <<Entry(<< >>, 0)>> \o [i \in DOMAIN table |-> Entry(table[i], i)]

(* longest_prefix_match: an entry replaces the best so far when its mask   *)
(* is larger.  Masks are runs of ones, so they compare like lengths.       *)
Longer_OrEqual(best, entry, a) ==
  /\ First(a, Len(entry.dest)) = entry.dest
  /\ Len(entry.dest) >= best.mask
Longer(best, entry, a) ==
  /\ First(a, Len(entry.dest)) = entry.dest
  /\ Len(entry.dest) > best.mask
Better(best, entry, a) ==
  IF Longer(best, entry, a)
  THEN [mask |-> Len(entry.dest), iface |-> entry.iface] ELSE best
longest_prefix_match(a) ==
  LET best[i \in 0 .. Len(rtable)] ==
        IF i = 0 THEN [mask |-> 0, iface |-> NoPort] ELSE Better(best[i - 1], rtable[i], a)
  IN  best[Len(rtable)].iface

-------------------------------------------------------------------------------
(* The router and the tries of the lab before it agree wherever an entry   *)
(* other than the default route matches: the first of the entries with the *)
(* longest prefix wins, in whatever order they are listed (ip_base.c:35-42).*)
(* Nothing is said of addresses that only the default route matches, which *)
(* LongestIsFound is about.                                                *)
RtableIsLongestMatch ==
  \A a \in Address : Matches(a, 0) # {} => longest_prefix_match(a) = LongestMatch(a, 0)
-------------------------------------------------------------------------------
(* What a comment of the repository says, and the code does not do.        *)

(* ip_base.c:28, "to find the entry with the same and longest prefix": one *)
(* of the entries that match the address, the default route among them,    *)
(* and none of them is longer.                                             *)
LongestIsFound ==
  \A a \in Address :
    LET matching == {i \in DOMAIN rtable : First(a, Len(rtable[i].dest)) = rtable[i].dest}
    IN  \E i \in matching :
          /\ \A j \in matching : Len(rtable[j].dest) <= Len(rtable[i].dest)
          /\ longest_prefix_match(a) = rtable[i].iface
===============================================================================
