--------------------------- MODULE MCSocketServer ---------------------------
(***************************************************************************)
(* SocketServer on small instances.                                        *)
(***************************************************************************)
EXTENDS SocketServer, TLC

CONSTANTS w1, w2, w3, alice, bob, c1, c2, c3, u1, m1, m2, srvid

\* c2 is bob's connection; every other link is alice's.
MCOwner == [l \in Link |-> IF l = c2 THEN bob ELSE alice]

\* m1 goes to alice, from bob or, where bob has no connection, from her own;
\* m2 goes to the server, from alice's address where she has one.
MCVia == [m \in Data |-> IF m = m2 /\ u1 \in UdpAddr THEN u1
                         ELSE IF c2 \in Conn THEN c2 ELSE c1]
MCDest == [m \in Data |-> IF m = m1 THEN alice ELSE srvid]

OneLine == <<"line">>
NoLines == << >>

Symmetry == Permutations(Worker) \cup Permutations(Conn \ {c2})
=============================================================================
