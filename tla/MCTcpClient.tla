----------------------------- MODULE MCTcpClient ----------------------------
\* The TCP client on a small instance.
EXTENDS TcpClient

CONSTANT bob

=============================================================================
