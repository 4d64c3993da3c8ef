SPECIFICATION FairSpec
CONSTANTS
  N = 3
  MaxInits = 1
  MaxRounds = 4
  Setups <- SafeSetups
CHECK_DEADLOCK FALSE
INVARIANTS NoOverlap MixFresh CountBounded BuffersReady
PROPERTY CallbackReturns
