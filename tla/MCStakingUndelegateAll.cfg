SPECIFICATION Spec
CONSTANTS
  Validators = {v1}
  Delegators = {d1, d2}
  NoActor = NoActor
  MinValidatorStake = 2
  MinDelegation = 2
  MaxPoolFee = 10000
  DelegationMaturity = 1
  ValidatorUnbonding = 1
  DelegationUnbonding = 1
  StakeAmounts = {2}
  StakeDeltas = {}
  FeeRates = {0}
  DirectedStatuses = {"Active"}
  DelegationAmounts = {2}
  UndelegationAmounts = {0, 1, 3}
  JailTerms = {}
  RewardAmounts = {1}
  MaxHeight = 2
  MaxStake = 3
  MaxPending = 1
PROPERTY UndelegateAllReleasesAll
