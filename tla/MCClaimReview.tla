--------------------------- MODULE MCClaimReview ---------------------------
(* Instances of ClaimReview and Workbench: one claim, a primary and a      *)
(* secondary verification source.                                           *)
EXTENDS Workbench, TLC

CONSTANTS r1, r2, s1, s2

MCPayloads ==
  {[url |-> "u1", class |-> "primary", origin |-> "verification"],
   [url |-> "u2", class |-> "secondary", origin |-> "verification"]}

MCSymmetry == Permutations(Sessions)
=============================================================================
