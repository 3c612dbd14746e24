SPECIFICATION Spec
CONSTANTS
  Keys = {"k1"}
  Threads = {"t1", "t2"}
  Limit = 2
  Window = 4
  Second = 2
  MaxClock = 10
INVARIANT LimitIsEnforced
