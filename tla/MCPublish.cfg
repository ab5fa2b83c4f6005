CONSTANTS
  Captures = {c1, c2}
  Outputs = {o1, o2}
  Platforms = {"posix", "windows"}
  UnlinkMayFail = FALSE
SPECIFICATION Spec
SYMMETRY Symmetry
CHECK_DEADLOCK FALSE
INVARIANTS TypeOK PublishedIsWritten OkMeansPublished FailureIsClean
PROPERTY NeverReplaced
