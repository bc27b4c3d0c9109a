------------------------- MODULE MCBridgeTransport -------------------------
\* The action transport for TLC; the safety run uses the symmetry of callers
\* and of panels, the liveness run does not.
EXTENDS BridgeTransport, TLC

Symmetry == Permutations(Callers) \cup Permutations(Panels)
=============================================================================
