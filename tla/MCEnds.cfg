SPECIFICATION Spec
CONSTANT None = None
PROPERTIES
  EveryRowIsTried
  ProbeEnds
  EveryJobEnds
  StopsWhenTold
