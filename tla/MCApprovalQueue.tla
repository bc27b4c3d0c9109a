-------------------------- MODULE MCApprovalQueue --------------------------
\* The approval queue for TLC: two agents, two reviewers, symmetric processes.
EXTENDS ApprovalQueue, TLC

Symmetry == Permutations(Agents) \cup Permutations(Reviewers) \cup Permutations(Uids)

\* Once two reviewers have met, only RanIsTrue and the types promise anything; of those
\* states TLC visits the ones in which nothing else has happened, no agent in a call
\* with a reviewer and no crash.
ReviewersMeetAlone ==
    {"reviewer"} \in met => {"agent", "reviewer"} \notin met /\ crashes = 0
=============================================================================
