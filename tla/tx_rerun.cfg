SPECIFICATION Spec
CHECK_DEADLOCK FALSE
CONSTANTS
  Runs = {r1, r2}
  Blocks = {b1, b2}
  NoBlock = NoBlock
  Overlap = TRUE
  IsBatch = FALSE
  Faults = {}
INVARIANTS
  AtMostOneSubmission
