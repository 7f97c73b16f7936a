------------------------------ MODULE MCArpCache ------------------------------
EXTENDS ArpCache

CONSTANTS a, b, a1, a2, b1   \* two hops; two MACs of a, one of b

MCOwner == [mac \in Mac |-> IF mac = b1 THEN b ELSE a]
===============================================================================
