---------------------------- MODULE MCSessionSave ----------------------------
\* Saving and resuming for TLC, with the symmetry of the daemon threads.
EXTENDS SessionSave, TLC

Symmetry == Permutations(Background)
=============================================================================
