---------------------------- MODULE MCPublication ----------------------------
(***************************************************************************)
(* Instances of Publication for TLC: all posts on one channel.             *)
(***************************************************************************)
EXTENDS Publication, TLC

CONSTANT c1

OneChannel == [p \in Posts |-> c1]

\* Bounds: the step to a second mishap, or to an attempt past MaxAttempts (which overlapping
\* retries allow), is the last of a behaviour.
FewTroubles ==
    /\ Cardinality(mishaps) <= 1
    /\ \A p \in Posts : rows[p].attempt <= MaxAttempts

\* Sound for the runs that check safety only.
Symmetry ==
    Permutations(Tasks) \cup Permutations(Posts) \cup Permutations(Retriers)

=============================================================================
