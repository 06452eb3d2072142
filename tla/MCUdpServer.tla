---------------------------- MODULE MCUdpServer ----------------------------
\* The UDP server on a small instance: alice moves from a1 to a2, one message
\* is for her and one for the server.
EXTENDS UdpServer, TLC

CONSTANTS w1, w2, alice, a1, a2, m1, m2

MCOwner == a1 :> alice @@ a2 :> alice
MCTries == a1 :> 2 @@ a2 :> 1
MCDest == m1 :> alice @@ m2 :> Server

=============================================================================
