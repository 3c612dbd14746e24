------------------------------ MODULE MCOffice ------------------------------
(* An instance of Office: two profiles; one intake profile with a batch that *)
(* is not on the allowlist; one action that only admins may do and one that  *)
(* reviewers may too; up to three sources of which two fit the prompt.       *)
EXTENDS Office

MCKinds == {"roster", "batch", "extract", "map"}

MCAllowlisted == [t \in MCKinds |-> IF t = "map" THEN {"m3"} ELSE {"m1"}]

MCCommitted == [p \in {"p1"} |->
  [roster |-> "m1", extract |-> "m1",
   batches |-> [starter |-> "m1", round5 |-> "m2"]]]

MCRowLists == {<<"primary">>, <<"primary", "secondary">>,
               <<"secondary", "secondary", "primary">>}
=============================================================================
