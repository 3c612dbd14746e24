SPECIFICATION Spec
CONSTANTS
  r1 = r1
  r2 = r2
  s1 = s1
  s2 = s2
  Claims = {c1}
  Reviewers = {r1, r2}
  Admins = {r1, r2}
  Bootstrap = bootstrap
  Payloads <- MCPayloads
  Sessions = {s1, s2}
  Background = {"accounts", "flags", "reviewability", "bootstrap"}
  MaxStarts = 3
  None = None
SYMMETRY MCSymmetry
INVARIANT PublishedEvidence
PROPERTY PolicySpec
CHECK_DEADLOCK FALSE
