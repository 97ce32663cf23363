SPECIFICATION Spec
CONSTANTS
  Validators = {v1}
  Addresses = {a1}
  NoAddress = NoAddress
  Forgers = {}
  Stamps = {t1}
  NoActor = NoActor
  LocalValidator = v1
  HasConnman = TRUE
  HeartbeatInterval = 1
  UptimeWindow = 2
  MinValidatorStake = 1
  MaxSeen = 2
  StakeAmounts = {0, 1}
  ClaimedHeights = {0, 1, 2}
  MaxHeight = 4
INVARIANTS TypeOK HeartbeatSpacing
PROPERTY UptimeRefinement
