SPECIFICATION Spec
CONSTANTS
  Templates <- MCTemplates
  Records = {r1}
  Bills = {b1, b2}
  AnchorSets <- MCAnchorSets
  MaxLimit = 2
INVARIANT AttachableIsAnchored
CHECK_DEADLOCK FALSE
