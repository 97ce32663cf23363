SPECIFICATION Spec
CONSTANTS
  Validators = {v1}
  Delegators = {d1}
  NoActor = NoActor
  MinValidatorStake = 2
  MinDelegation = 2
  MaxPoolFee = 10000
  DelegationMaturity = 1
  ValidatorUnbonding = 1
  DelegationUnbonding = 1
  StakeAmounts = {2}
  StakeDeltas <- MCStakeDeltas
  FeeRates = {0}
  DirectedStatuses = {"Pending", "Active", "Inactive", "Jailed", "Unbonding"}
  DelegationAmounts = {2}
  UndelegationAmounts = {0, 3}
  JailTerms = {1}
  RewardAmounts = {}
  MaxHeight = 2
  MaxStake = 3
  MaxPending = 1
INVARIANTS DelegatedCoversBonded DelegatorCountMatchesBonded
