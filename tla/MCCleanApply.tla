---------------------------- MODULE MCCleanApply ----------------------------
\* Two cleanups for TLC, of two files with one base name. In the first, y is in the
\* monitored lane and the policy refuses one of the two actions about x; the second is
\* about y alone.
EXTENDS CleanApply, TLC

CONSTANTS u1, u2, x, y, q

To(s, lane, allowed) ==
    [source |-> s, base |-> q, monitored |-> lane, permitted |-> allowed]

MCActions ==
    u1 :> <<To(y, TRUE, TRUE), To(x, FALSE, FALSE), To(x, FALSE, TRUE)>>
      @@ u2 :> <<To(y, FALSE, TRUE)>>

Symmetry == Permutations(Runners)
=============================================================================
