---------------------------- MODULE MCQuotaLedger ----------------------------
(***************************************************************************)
(* Instances of QuotaLedger for TLC.                                       *)
(***************************************************************************)
EXTENDS QuotaLedger

CONSTANTS o1, o2, o3

\* A text, an image, and a text with an image.
MixedUnits == [o \in Operations |->
    CASE o = o1 -> {"post_generated"}
      [] o = o2 -> {"image_generated"}
      [] OTHER  -> {"post_generated", "image_generated"}]

=============================================================================
