SPECIFICATION FairSpec
CHECK_DEADLOCK FALSE
CONSTANTS
  Runs = {r1, r2}
  Blocks = {b1, b2}
  NoBlock = NoBlock
  Overlap = FALSE
  IsBatch = TRUE
  Faults = {"fork", "finalityTimeout", "drop", "answerLost", "getBlock", "resolver", "listener"}
INVARIANTS
  TypeOK
  SuccessIsFinal
  AtMostOneSubmission
  ReportIsTrue
PROPERTIES
  ImplementsLifecycle
  SubmittedSettles
