---------------------------- MODULE MCUdpClient ----------------------------
\* The UDP client on a small instance.
EXTENDS UdpClient

CONSTANTS w1, w2, l1, l2, n1, server, bob

=============================================================================
