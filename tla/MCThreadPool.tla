---------------------------- MODULE MCThreadPool ----------------------------
\* ThreadPool on a small instance.
EXTENDS ThreadPool

CONSTANTS w1, w2, w3, s1, s2, t1, t2, t3

=============================================================================
