SPECIFICATION Spec
CHECK_DEADLOCK FALSE
CONSTANTS
  alice = alice
  bob = bob
  pa = pa
  pb = pb
  pn = pn
  carol = carol
  pc = pc
  Dids = {alice, bob, carol}
  VenueOwner = alice
  Portfolios = {pa, pb, pn, pc}
  OwnerOf <- MCOwnerOf
  Default = {pa, pb, pc}
  Movable = {pb}
  Requests <- MCRequests
  Selections <- MCSelections
  MaxLegs = 10
  MaxBlock = 3
  MaxInstructions = 1
  MaxChanges = 1
INVARIANTS
  TypeOK
  RevertedOnlyIfStale
PROPERTIES
  TurnedAwayRightly
  DoneAsAsked
