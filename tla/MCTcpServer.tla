----------------------------- MODULE MCTcpServer ----------------------------
\* The TCP server on a small instance.
EXTENDS TcpServer

CONSTANTS c1, c2, c3, m1, m2, m3

\* m1 and m2 go from c1 to c2, m3 from c2 to the server.
MCVia == [m \in Value |-> IF m = m3 THEN c2 ELSE c1]
MCDest == [m \in Value |-> IF m = m3 THEN Server ELSE c2]

=============================================================================
