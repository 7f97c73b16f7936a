--------------------------------- MODULE MCNat ---------------------------------
EXTENDS Nat, TLC

CONSTANTS client, server, r1, r2

\* Two rules for a port outside the pool, as the labs configure; the first decides.
RulesOf80 == <<[external_port |-> 80, internal |-> server],
               [external_port |-> 80, internal |-> client]>>

\* A rule for a port of the pool, which parse_config accepts.
RuleInPool == <<[external_port |-> 11, internal |-> server]>>
===============================================================================
