--------------------------- MODULE MCSocketClient ---------------------------
\* The client on a small instance.
EXTENDS SocketClient, TLC

CONSTANTS w1, w2

Symmetry == Permutations(Worker)

=============================================================================
