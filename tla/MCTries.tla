---------------------------------- MODULE MCTries ------------------------------
EXTENDS Rtable

\* Addresses of 16 bits: all zeroes, and with one of some bits set.
Zeroes == [i \in 1 .. 16 |-> 0]
With(b) == [Zeroes EXCEPT ![b] = 1]
Addresses == {Zeroes} \cup {With(b) : b \in {8, 9, 11, 12, 13, 15, 16}}

\* Prefixes of lengths within, at the end of and between the levels.
Prefixes ==
  {First(Zeroes, n) : n \in {8, 9, 10, 12, 13, 15, 16}}
  \cup {First(With(9), n) : n \in {9, 12}} \cup {First(With(12), 12), First(With(12), 14)}
===============================================================================
