---------------------------------- MODULE MCStp --------------------------------
EXTENDS Stp

ASSUME TopologyAssumption == LinksConnect /\ DistanceIsSteady

Four == 1 .. 4
Ring == {{1, 2}, {1, 3}, {2, 4}, {3, 4}}    \* four_node_ring.py

Three == 1 .. 3
Chain == {{1, 3}, {3, 2}}
===============================================================================
