----------------------------- MODULE MCStaking -----------------------------
(***************************************************************************)
(* Model-checking harness for Staking: the ledger's views and the         *)
(* properties the spec states of the registry and the ledger.              *)
(***************************************************************************)
EXTENDS Staking, TLC

\* Stake updates the registry run offers: ProcessUpdate adds an
\* INCREASE_STAKE newValue unchecked, so a negative one is among them.
MCStakeDeltas == {-1, 1}

\* Delegators are interchangeable model values.
DelegatorSymmetry == Permutations(Delegators)

-----------------------------------------------------------------------------
(* The ledger's own views of a validator's delegations.                    *)

\* DelegationDB::GetTotalDelegationForValidator: the sum of the amounts of
\* the Active records to the validator.
GetTotalDelegationForValidator(v) ==
  AmountOf({id \in DelegationIds : ValidatorOf(id) = v /\ del[id].status = "Active"})

\* DelegationDB::GetDelegatorCountForValidator: the number of distinct
\* delegators with an Active record to the validator.
GetDelegatorCountForValidator(v) ==
  Cardinality({d \in Delegators : ActiveOf(d, v) # {}})

-----------------------------------------------------------------------------
(* Properties the spec states, which the code does not keep.               *)

\* spec 4.2 invariant 1: after every ledger operation, the registry's
\* totalDelegated equals the ledger's GetTotalDelegationForValidator.
TotalDelegatedMatchesActive ==
  DlIdle =>
    \A v \in Validators :
      val[v].totalDelegated = GetTotalDelegationForValidator(v)

\* spec 4.2 invariant 2: after every ledger operation, the registry's
\* delegatorCount equals the ledger's GetDelegatorCountForValidator.
DelegatorCountDistinct ==
  DlIdle =>
    \A v \in Validators :
      val[v].delegatorCount = GetDelegatorCountForValidator(v)

\* spec 4.2 invariants 1 and 2 together: after every ledger operation the
\* registry's aggregates (totalDelegated, delegatorCount) are the ledger's
\* views of the validator's Active delegations.
RegistryMatchesLedger ==
  TotalDelegatedMatchesActive /\ DelegatorCountDistinct

\* spec 4.1: a validator leaves UNBONDING for INACTIVE (ValidatorDB::
\* ProcessBlock) only UNBONDING_PERIOD blocks after it started unbonding.
ValidatorUnbondingLasts ==
  [][\A v \in Validators :
       (val[v].status = "Unbonding" /\ val'[v].status = "Inactive")
         => vrHeight' - unbondFrom[v] >= ValidatorUnbonding]_vars

\* spec 4.1: a jailed validator is Active again only once the registry
\* height reaches the release height JailValidator set.
JailRespected ==
  \A v \in Validators :
    val[v].status = "Active" => vrHeight >= jailedUntil[v]

\* spec 4.2 and scenario S2: an undelegation of amount 0 ("all") leaves no
\* Active delegation of the delegator to the validator.
UndelegateAllReleasesAll ==
  [][LET d == dlOp.delegator
         v == dlOp.validator
     IN (dlOp.kind = "undelegate" /\ dlOp.amount = 0 /\ dlOp'.kind = "idle")
          => \A id \in DelegationIds :
               (DelegatorOf(id) = d /\ ValidatorOf(id) = v)
                 => del'[id].status # "Active"]_vars

\* spec 4.2: a Pending delegation becomes Active once the chain is
\* DELEGATION_MATURITY blocks past its height (DelegationDB::ProcessBlock).
PendingDelegationMatures ==
  \A id \in DelegationIds :
    HeightOf(id) + DelegationMaturity <= MaxHeight =>
      (del[id].status = "Pending" ~> del[id].status = "Active")

=============================================================================
