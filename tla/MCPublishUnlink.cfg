CONSTANTS
  Captures = {c1, c2}
  Outputs = {o1}
  Platforms = {"posix"}
  UnlinkMayFail = TRUE
SPECIFICATION Spec
SYMMETRY Symmetry
CHECK_DEADLOCK FALSE
INVARIANT FailureLeavesNoOutput
