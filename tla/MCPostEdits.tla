----------------------------- MODULE MCPostEdits -----------------------------
(***************************************************************************)
(* An instance of PostEdits for TLC: three edits that overlap in pairs and *)
(* that can leave a post without a text, or without an image, together.    *)
(***************************************************************************)
EXTENDS PostEdits, TLC

CONSTANTS e1, e2, e3, w1, w2

SetsOf == e1 :> {"generated_text"} @@ e2 :> {"image"} @@ e3 :> {"text_prompt", "image"}

ClearsOf == e1 :> {"text_prompt", "image_prompt"} @@ e2 :> {"generated_text"} @@ e3 :> {"image_prompt"}

Symmetry == Permutations({w1, w2})

=============================================================================
