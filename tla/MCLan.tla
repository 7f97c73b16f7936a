----------------------------------- MODULE MCLan -------------------------------
EXTENDS Lan, TLC

\* One switch with two hosts, a free jack, and a hub with the third host.
OnePort == ("s" :> {"s1", "s2", "s3", "s4"} @@ "b" :> {"b1", "b2"})
OneWire == {{"s4", "b1"}}
OneStart == ("h1" :> "s1" @@ "h2" :> "s2" @@ "h3" :> "b2")

ASSUME OneIsPlain == PortsOf = OnePort => LoopFree /\ NoEcho

\* Two switches, two hosts on the one, one and a free jack on the other.
TwoPort == ("s" :> {"s1", "s2", "s3"} @@ "t" :> {"t1", "t2", "t3"})
TwoWire == {{"s3", "t1"}}
TwoStart == ("h1" :> "s1" @@ "h2" :> "s2" @@ "h3" :> "t2")
===============================================================================
