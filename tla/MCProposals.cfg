SPECIFICATION Spec
CONSTANTS
  None = None
  Proposals <- MCProposalIds
  KindOf <- MCKindOf
  ValueOf <- MCValueOf
  Urls = {"u"}
  Frames = {"f", "g"}
  Matched = "f"
  Reviewers = {r1, r2}
  Sessions = {q1, q2}
SYMMETRY MCSymmetry
INVARIANTS
  TrailTellsStatus
PROPERTY LedgerSpec
