----------------------------- MODULE MCProposals -----------------------------
(* An instance of Proposals: a suggestion of a source that others add too,   *)
(* and two frame mappings, of which the script makes one.                    *)
EXTENDS Proposals, TLC

MCKindOf == [pv |-> "verification_source_suggestion",
             pf |-> "issue_frame_mapping", pg |-> "issue_frame_mapping"]

MCValueOf == [pv |-> "u", pf |-> "f", pg |-> "g"]

MCProposalIds == DOMAIN MCKindOf

\* Sessions and reviewers are interchangeable.
MCSymmetry == Permutations(Sessions) \cup Permutations(Reviewers)
=============================================================================
