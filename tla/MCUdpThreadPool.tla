-------------------------- MODULE MCUdpThreadPool --------------------------
\* The older pool on a small instance.
EXTENDS UdpThreadPool

CONSTANTS w1, w2, w3, s1, s2, t1, t2, t3, t4

=============================================================================
