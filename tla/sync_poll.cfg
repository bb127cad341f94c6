SPECIFICATION FairPollSpec
CHECK_DEADLOCK FALSE
CONSTANTS
  Enabled = TRUE
  TxBlock = 2
  MaxBlock = 4
  Attempts = 6
INVARIANTS
  PollTypeOK
  ToldOnceAndTruly
PROPERTIES
  ToldEventually
