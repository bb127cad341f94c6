SPECIFICATION Spec
CHECK_DEADLOCK FALSE
CONSTANTS
  Plans <- MCPlans
  Amounts = {1, 2, 3}
  NoLimit = NoLimit
  MaxPrices <- MCMaxPrices
  Balances = {2, 5}
  Windows <- MCWindows
  MaxTime = 5
INVARIANTS
  TypeOK
  RevertedOnlyIfStale
  AvailableIfBuyable
PROPERTIES
  TurnedAwayRightly
  DoneAsAsked
