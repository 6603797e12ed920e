--------------------------- MODULE MCAccountLimits ---------------------------
(***************************************************************************)
(* Instances of AccountLimits for TLC.                                     *)
(***************************************************************************)
EXTENDS AccountLimits, TLC

CONSTANTS k1, k2, k3, k4, p1, p2, p3, p4

\* Two requests connect the same community, the others one each.
ThreeCommunities == [c \in Connects |-> CASE c = k3 -> 2 [] c = k4 -> 3 [] OTHER -> 1]

\* Posts go to the first channel; two requests are one button pressed twice.
FirstChannel == [p \in Creates |-> k1]

PressedTwice == [p \in Creates |-> IF p \in {p1, p2} THEN 1 ELSE NoKey]

\* The two presses may be exchanged, and so may the two posts without a key, and the two
\* requests whose communities no other request connects.
Symmetry ==
    {f @@ g @@ h : f \in Permutations({p1, p2}), g \in Permutations({p3, p4}),
                   h \in Permutations({k3, k4})}

=============================================================================
