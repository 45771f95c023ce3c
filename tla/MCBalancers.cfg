SPECIFICATION BalancerSpec
CONSTANTS
  Backends = {a, b, c}
  NoBackend = none
  MaxWeight = 2
  MaxPicks = 4
  MaxSetWeights = 1
  Replicas = 3
  MaxHash = 3
INVARIANTS
  TurnIsFair
  DrawMatchesWeights
  PicksLeast
  NextIsOwner
CHECK_DEADLOCK FALSE
