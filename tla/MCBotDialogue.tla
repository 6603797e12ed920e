---------------------------- MODULE MCBotDialogue ----------------------------
(***************************************************************************)
(* Instances of BotDialogue for TLC.                                       *)
(***************************************************************************)
EXTENDS BotDialogue, TLC

CONSTANTS h1, h2, c1, c2, r1, r2

\* Bound: the step to a second post is the last.
OnePost == Cardinality(posts) <= 1

Symmetry == Permutations(Handlers) \cup Permutations(Channels) \cup Permutations(Results)

=============================================================================
