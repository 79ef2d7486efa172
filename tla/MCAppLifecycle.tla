--------------------------- MODULE MCAppLifecycle ---------------------------
\* AppLifecycle for TLC.
EXTENDS AppLifecycle, TLC

ConnSymmetry == Permutations(Conns)
=============================================================================
