------------------------------ MODULE MCTcpConn -------------------------------
EXTENDS TcpConn

CONSTANTS c1, c2   \* two client hosts
===============================================================================
