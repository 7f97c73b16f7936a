---------------------------------- MODULE MCMospf ------------------------------
EXTENDS Mospf

Three == 1 .. 3
Triangle == <<<<{1}, {1, 2}, {1, 3}>>, <<{1, 2}, {2, 3}>>, <<{1, 3}, {2, 3}, {3}>>>>
Ascending == {<<<<2, 3>>, <<1, 3>>, <<1, 2>>>>}

Four == 1 .. 4              \* topo.py
Square == <<<<{1}, {1, 2}, {1, 3}>>, <<{1, 2}, {2, 4}>>, <<{1, 3}, {3, 4}>>,
            <<{2, 4}, {3, 4}, {4}>>>>
Ascending4 == {<<<<2, 3, 4>>, <<1, 3, 4>>, <<1, 2, 4>>, <<1, 2, 3>>>>}
===============================================================================
