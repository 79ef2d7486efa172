----------------------------- MODULE MCRealtime -----------------------------
\* Realtime for TLC.
EXTENDS Realtime, TLC

ConnSymmetry == Permutations(WsConns) \cup Permutations(SseConns) \cup Permutations(Drainers)
=============================================================================
