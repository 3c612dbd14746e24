SPECIFICATION Spec
CONSTANTS
  r1 = r1
  r2 = r2
  s1 = s1
  s2 = s2
  Claims = {c1}
  Reviewers = {r1, r2}
  Admins = {r1, r2}
  Bootstrap = bootstrap
  Payloads <- MCPayloads
  Sessions = {s1, s2}
  Background = {"flags"}
  MaxStarts = 4
  None = None
SYMMETRY MCSymmetry
INVARIANT TypeOK
INVARIANT PublishedProvenance
INVARIANT OverwritesCountersigned
INVARIANT WorkbenchAgrees
INVARIANT SomebodyCanPublish
CHECK_DEADLOCK FALSE
