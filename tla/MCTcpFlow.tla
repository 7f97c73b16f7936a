------------------------------- MODULE MCTcpFlow -------------------------------
(* Values for TcpFlow: see the configurations.                             *)
EXTENDS TcpFlow
===============================================================================
