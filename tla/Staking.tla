------------------------------ MODULE Staking ------------------------------
(***************************************************************************)
(* The validator registry (ValidatorDB, src/unnamed/part_008) and the      *)
(* delegation ledger (DelegationDB, src/unnamed/part_009) of the WATTx     *)
(* validator core, composed: the ledger calls into the registry to keep    *)
(* the aggregates totalDelegated and delegatorCount of each validator.     *)
(*                                                                         *)
(* Every registry operation holds cs_validators for its whole duration and *)
(* calls nothing, so it is one atomic step.  A ledger operation holds      *)
(* cs_delegations for its whole duration, but takes and releases           *)
(* cs_validators for each call into the registry; registry operations of   *)
(* other threads may run between those calls.  The ledger operation in     *)
(* flight (at most one, since cs_delegations serialises them) is dlOp, and *)
(* each call into the registry ends one step of it.                        *)
(*                                                                         *)
(* Data is abstracted: identities are model values, a delegation id        *)
(* H(delegator || validator || height) is the triple itself, names,        *)
(* public keys and outpoints are left out, signatures are taken as valid   *)
(* (the wallet RPCs sign with the key they look up).                       *)
(***************************************************************************)
EXTENDS Integers, FiniteSets

CONSTANTS
  Validators,           \* validator key ids
  Delegators,           \* delegator key ids
  NoActor,              \* placeholder for "no delegator / validator"
  MinValidatorStake,    \* consensusParams.nMinValidatorStake
  MinDelegation,        \* MIN_DELEGATION_AMOUNT
  MaxPoolFee,           \* MAX_POOL_FEE (MIN_POOL_FEE is 0)
  DelegationMaturity,   \* DELEGATION_MATURITY
  ValidatorUnbonding,   \* UNBONDING_PERIOD
  DelegationUnbonding,  \* DELEGATION_UNBONDING_PERIOD
  StakeAmounts,         \* self-stakes offered to RegisterValidator
  StakeDeltas,          \* newValue of INCREASE_STAKE / DECREASE_STAKE updates
  FeeRates,             \* pool fee rates offered in registrations and updates
  DirectedStatuses,     \* statuses consensus directives pass to SetValidatorStatus
  DelegationAmounts,    \* amounts of delegation requests
  UndelegationAmounts,  \* amounts of undelegation requests (0 = "all")
  JailTerms,            \* jailBlocks arguments of JailValidator
  RewardAmounts,        \* amounts given to AddRewards / DistributeBlockReward
  MaxHeight,            \* bound: last block height the model reaches
  MaxStake,             \* bound: largest self-stake the model reaches
  MaxPending            \* bound: largest pendingRewards the model reaches

ASSUME ConstantsAssumption ==
  /\ NoActor \notin Validators \cup Delegators
  /\ MinValidatorStake \in Nat /\ MinDelegation \in Nat /\ MaxPoolFee \in Nat
  /\ DelegationMaturity \in Nat /\ ValidatorUnbonding \in Nat
  /\ DelegationUnbonding \in Nat
  /\ StakeAmounts \subseteq Nat /\ StakeDeltas \subseteq Int
  /\ FeeRates \subseteq Int
  /\ DirectedStatuses \subseteq {"Pending", "Active", "Inactive", "Jailed", "Unbonding"}
  /\ DelegationAmounts \subseteq Nat
  /\ UndelegationAmounts \subseteq Nat /\ JailTerms \subseteq Nat
  /\ RewardAmounts \subseteq Nat
  /\ MaxHeight \in Nat /\ MaxStake \in Nat /\ MaxPending \in Nat
  \* key ids are 160-bit hashes (CKeyID), so there are finitely many
  /\ IsFiniteSet(Validators) /\ IsFiniteSet(Delegators)

VARIABLES
  chainHeight,   \* height of the chain tip, as the wallet RPCs read it
  vrHeight,      \* ValidatorDB::currentHeight
  dlHeight,      \* DelegationDB::currentHeight
  val,           \* ValidatorDB::validators, status "None" when absent
  del,           \* DelegationDB::delegations, status "None" when absent
  dlOp,          \* the DelegationDB operation holding cs_delegations
  unbondFrom,    \* history: height at which each validator entered UNBONDING
  jailedUntil    \* history: release height of the last JailValidator

vars == <<chainHeight, vrHeight, dlHeight, val, del, dlOp, unbondFrom, jailedUntil>>

-----------------------------------------------------------------------------
Heights == 0..MaxHeight

ValidatorStatuses == {"Pending", "Active", "Inactive", "Jailed", "Unbonding"}
DelegationStatuses == {"Pending", "Active", "Unbonding", "Withdrawn"}

\* DelegationEntry::GetDelegationId hashes delegator, validator and height.
DelegationIds == Delegators \X Validators \X Heights
DelegatorOf(id) == id[1]
ValidatorOf(id) == id[2]
HeightOf(id) == id[3]

ValidatorRec == [status : ValidatorStatuses \cup {"None"}, stake : Int,
                 fee : Int, regHeight : Heights, lastActive : Heights,
                 jailRelease : Nat, totalDelegated : Int, delegatorCount : Int]
DelegationRec == [status : DelegationStatuses \cup {"None"}, amount : Nat,
                  unbondStart : Heights, pending : Nat]
DlOpRec == [kind : {"idle", "add", "undelegate", "distribute"},
            delegator : Delegators \cup {NoActor},
            validator : Validators \cup {NoActor},
            amount : Nat, remaining : Nat]

NoValidator == [status |-> "None", stake |-> 0, fee |-> 0, regHeight |-> 0,
                lastActive |-> 0, jailRelease |-> 0, totalDelegated |-> 0,
                delegatorCount |-> 0]
NoDelegation == [status |-> "None", amount |-> 0, unbondStart |-> 0, pending |-> 0]
IdleOp == [kind |-> "idle", delegator |-> NoActor, validator |-> NoActor,
           amount |-> 0, remaining |-> 0]

Registered(v) == val[v].status # "None"
DlIdle == dlOp.kind = "idle"

\* The Active delegations of delegator d to validator v (the records
\* ProcessUndelegation walks).
ActiveOf(d, v) == {id \in DelegationIds : /\ DelegatorOf(id) = d
                                          /\ ValidatorOf(id) = v
                                          /\ del[id].status = "Active"}

\* Delegations the registry counts in validator v's aggregates: the ledger
\* calls AddDelegation when it creates a record and RemoveDelegation when
\* the record starts unbonding.
BondedTo(v) == {id \in DelegationIds : /\ ValidatorOf(id) = v
                                       /\ del[id].status \in {"Pending", "Active"}}

\* The total amount of a set S of delegation records in the ledger state f,
\* counted as the number of (record, satoshi) pairs: the sum of the
\* f[id].amount for id in S, as GetTotalDelegationForValidator adds them.
AmountUnits(f, S) == UNION {{id} \X (1..f[id].amount) : id \in S}
AmountIn(f, S) == Cardinality(AmountUnits(f, S))
AmountOf(S) == AmountIn(del, S)

Init ==
  /\ chainHeight = 0
  /\ vrHeight = 0
  /\ dlHeight = 0
  /\ val = [v \in Validators |-> NoValidator]
  /\ del = [id \in DelegationIds |-> NoDelegation]
  /\ dlOp = IdleOp
  /\ unbondFrom = [v \in Validators |-> 0]
  /\ jailedUntil = [v \in Validators |-> 0]

-----------------------------------------------------------------------------
(***************************************************************************)
(* Registry calls made by the ledger (ValidatorDB::AddDelegation and       *)
(* ValidatorDB::RemoveDelegation), as functions of the registry state.     *)
(***************************************************************************)
AddDelegation(vs, v, amount) ==
  IF vs[v].status = "None" THEN vs
  ELSE [vs EXCEPT ![v].totalDelegated = @ + amount,
                  ![v].delegatorCount = @ + 1]

\* Variant of RemoveDelegation that keeps the last delegator counted.
RemoveDelegationKeepLast(vs, v, amount) ==
  IF vs[v].status = "None" \/ amount > vs[v].totalDelegated THEN vs
  ELSE [vs EXCEPT ![v].totalDelegated = @ - amount,
                  ![v].delegatorCount = IF @ > 1 THEN @ - 1 ELSE @]

RemoveDelegation(vs, v, amount) ==
  IF vs[v].status = "None" \/ amount > vs[v].totalDelegated THEN vs
  ELSE [vs EXCEPT ![v].totalDelegated = @ - amount,
                  ![v].delegatorCount = IF @ > 0 THEN @ - 1 ELSE @]

-----------------------------------------------------------------------------
(***************************************************************************)
(* Block driver: the tip advances; each database learns the new height     *)
(* through its own ProcessBlock, called one after the other.               *)
(***************************************************************************)
NewBlock ==
  /\ chainHeight < MaxHeight
  /\ chainHeight' = chainHeight + 1
  /\ UNCHANGED <<vrHeight, dlHeight, val, del, dlOp, unbondFrom, jailedUntil>>

\* ValidatorDB::ProcessBlock: UNBONDING ends UNBONDING_PERIOD blocks after
\* lastActiveHeight.  Jail expiry is only logged.
VRProcessBlock ==
  /\ vrHeight # chainHeight
  /\ vrHeight' = chainHeight
  /\ val' = [v \in Validators |->
               IF val[v].status = "Unbonding"
                  /\ chainHeight - val[v].lastActive >= ValidatorUnbonding
               THEN [val[v] EXCEPT !.status = "Inactive"]
               ELSE val[v]]
  /\ UNCHANGED <<chainHeight, dlHeight, del, dlOp, unbondFrom, jailedUntil>>

\* Variant of DLProcessBlock that matures a delegation one block early.
DLProcessBlockEarly ==
  /\ DlIdle
  /\ dlHeight # chainHeight
  /\ dlHeight' = chainHeight
  /\ del' = [id \in DelegationIds |->
               CASE del[id].status = "Pending"
                      /\ chainHeight - HeightOf(id) >= DelegationMaturity - 1
                      -> [del[id] EXCEPT !.status = "Active"]
                 [] del[id].status = "Unbonding"
                      /\ chainHeight - del[id].unbondStart >= DelegationUnbonding
                      -> [del[id] EXCEPT !.status = "Withdrawn"]
                 [] OTHER -> del[id]]
  /\ UNCHANGED <<chainHeight, vrHeight, val, dlOp, unbondFrom, jailedUntil>>

\* DelegationDB::ProcessBlock: PENDING matures after DELEGATION_MATURITY
\* blocks, UNBONDING completes after DELEGATION_UNBONDING_PERIOD blocks.
DLProcessBlock ==
  /\ DlIdle
  /\ dlHeight # chainHeight
  /\ dlHeight' = chainHeight
  /\ del' = [id \in DelegationIds |->
               CASE del[id].status = "Pending"
                      /\ chainHeight - HeightOf(id) >= DelegationMaturity
                      -> [del[id] EXCEPT !.status = "Active"]
                 [] del[id].status = "Unbonding"
                      /\ chainHeight - del[id].unbondStart >= DelegationUnbonding
                      -> [del[id] EXCEPT !.status = "Withdrawn"]
                 [] OTHER -> del[id]]
  /\ UNCHANGED <<chainHeight, vrHeight, val, dlOp, unbondFrom, jailedUntil>>

-----------------------------------------------------------------------------
(***************************************************************************)
(* Registry operations.                                                    *)
(***************************************************************************)

\* registervalidator builds a PENDING entry at the tip height;
\* ValidatorDB::RegisterValidator rejects duplicates, bad fees, low stakes.
RegisterValidator(v, stake, fee) ==
  /\ ~Registered(v)
  /\ 0 <= fee /\ fee <= MaxPoolFee
  /\ stake >= MinValidatorStake
  /\ val' = [val EXCEPT ![v] = [NoValidator EXCEPT !.status = "Pending",
                                  !.stake = stake, !.fee = fee,
                                  !.regHeight = chainHeight]]
  /\ UNCHANGED <<chainHeight, vrHeight, dlHeight, del, dlOp, unbondFrom, jailedUntil>>

\* ProcessUpdate, UPDATE_FEE.
UpdateFee(v, fee) ==
  /\ Registered(v)
  /\ 0 <= fee /\ fee <= MaxPoolFee
  /\ val' = [val EXCEPT ![v].fee = fee]
  /\ UNCHANGED <<chainHeight, vrHeight, dlHeight, del, dlOp, unbondFrom, jailedUntil>>

\* ProcessUpdate, DEACTIVATE: from any status, lastActiveHeight untouched.
Deactivate(v) ==
  /\ Registered(v)
  /\ val' = [val EXCEPT ![v].status = "Unbonding"]
  /\ unbondFrom' = [unbondFrom EXCEPT ![v] = vrHeight]
  /\ UNCHANGED <<chainHeight, vrHeight, dlHeight, del, dlOp, jailedUntil>>

\* ProcessUpdate, REACTIVATE: refused while a jail term runs; INACTIVE or
\* JAILED become ACTIVE; any other status is accepted unchanged.
Reactivate(v) ==
  /\ Registered(v)
  /\ val[v].status = "Jailed" => vrHeight >= val[v].jailRelease
  /\ val' = IF val[v].status \in {"Inactive", "Jailed"}
            THEN [val EXCEPT ![v].status = "Active"]
            ELSE val
  /\ UNCHANGED <<chainHeight, vrHeight, dlHeight, del, dlOp, unbondFrom, jailedUntil>>

\* ProcessUpdate, INCREASE_STAKE: newValue is added unchecked.
IncreaseStake(v, delta) ==
  /\ Registered(v)
  /\ val[v].stake + delta \in -MaxStake..MaxStake
  /\ val' = [val EXCEPT ![v].stake = @ + delta]
  /\ UNCHANGED <<chainHeight, vrHeight, dlHeight, del, dlOp, unbondFrom, jailedUntil>>

\* ProcessUpdate, DECREASE_STAKE: refused below zero or below the minimum;
\* a negative newValue passes both checks and raises the stake.
DecreaseStake(v, delta) ==
  /\ Registered(v)
  /\ delta <= val[v].stake
  /\ val[v].stake - delta >= MinValidatorStake
  /\ val[v].stake - delta <= MaxStake
  /\ val' = [val EXCEPT ![v].stake = @ - delta]
  /\ UNCHANGED <<chainHeight, vrHeight, dlHeight, del, dlOp, unbondFrom, jailedUntil>>

\* ValidatorDB::SetValidatorStatus (the consensus directive); ACTIVE
\* records lastActiveHeight.  A directive lifts any jail term.
SetValidatorStatus(v, s) ==
  /\ Registered(v)
  /\ val' = [val EXCEPT ![v].status = s,
                        ![v].lastActive = IF s = "Active" THEN vrHeight ELSE @]
  /\ unbondFrom' = IF s = "Unbonding" THEN [unbondFrom EXCEPT ![v] = vrHeight]
                   ELSE unbondFrom
  /\ jailedUntil' = [jailedUntil EXCEPT ![v] = 0]
  /\ UNCHANGED <<chainHeight, vrHeight, dlHeight, del, dlOp>>

\* ValidatorDB::JailValidator.
JailValidator(v, blocks) ==
  /\ Registered(v)
  /\ val' = [val EXCEPT ![v].status = "Jailed",
                        ![v].jailRelease = vrHeight + blocks]
  /\ jailedUntil' = [jailedUntil EXCEPT ![v] = vrHeight + blocks]
  /\ UNCHANGED <<chainHeight, vrHeight, dlHeight, del, dlOp, unbondFrom>>

\* ValidatorDB::UnjailValidator.
UnjailValidator(v) ==
  /\ val[v].status = "Jailed"
  /\ vrHeight >= val[v].jailRelease
  /\ val' = [val EXCEPT ![v].status = "Active", ![v].jailRelease = 0]
  /\ UNCHANGED <<chainHeight, vrHeight, dlHeight, del, dlOp, unbondFrom, jailedUntil>>

-----------------------------------------------------------------------------
(***************************************************************************)
(* Ledger operations.                                                      *)
(***************************************************************************)

\* ProcessDelegation, first part: with cs_delegations held, check the
\* amount, look the validator up (cs_validators taken and released), and
\* insert the PENDING record under the id of the request height (the tip,
\* as delegatestake sends it).  AddDelegation follows as DelegateAdd.
ProcessDelegation(d, v, amount) ==
  LET id == <<d, v, chainHeight>> IN
  /\ DlIdle
  /\ amount >= MinDelegation
  /\ val[v].status = "Active"
  /\ del[id].status = "None"
  /\ del' = [del EXCEPT ![id] = [NoDelegation EXCEPT !.status = "Pending",
                                   !.amount = amount]]
  /\ dlOp' = [IdleOp EXCEPT !.kind = "add", !.validator = v, !.amount = amount]
  /\ UNCHANGED <<chainHeight, vrHeight, dlHeight, val, unbondFrom, jailedUntil>>

\* ProcessDelegation, last part: g_validator_db->AddDelegation, then return.
DelegateAdd ==
  /\ dlOp.kind = "add"
  /\ val' = AddDelegation(val, dlOp.validator, dlOp.amount)
  /\ dlOp' = IdleOp
  /\ UNCHANGED <<chainHeight, vrHeight, dlHeight, del, unbondFrom, jailedUntil>>

\* ProcessUndelegation takes cs_delegations; it walks the delegator's
\* records (returning false at once when there are none).
ProcessUndelegation(d, v, amount) ==
  /\ DlIdle
  /\ \E id \in DelegationIds : DelegatorOf(id) = d /\ del[id].status # "None"
  /\ dlOp' = [IdleOp EXCEPT !.kind = "undelegate", !.delegator = d,
                            !.validator = v, !.amount = amount,
                            !.remaining = amount]
  /\ UNCHANGED <<chainHeight, vrHeight, dlHeight, val, del, unbondFrom, jailedUntil>>

\* Variant of IsNextActive whose loop skips only other validators' records,
\* not the ones that are not ACTIVE.
IsNextActiveAnyStatus(id) ==
  LET C == {j \in DelegationIds : /\ DelegatorOf(j) = dlOp.delegator
                                  /\ ValidatorOf(j) = dlOp.validator
                                  /\ del[j].status # "None"}
  IN  id \in C /\ \A j \in C : HeightOf(id) <= HeightOf(j)

\* The record ProcessUndelegation's loop reaches next: the delegator's
\* Active record to the validator that comes first in delegatorIndex,
\* whose order is creation order, hence height order.
IsNextActive(id) ==
  LET C == ActiveOf(dlOp.delegator, dlOp.validator) IN
  id \in C /\ \A j \in C : HeightOf(id) <= HeightOf(j)

\* toUndelegate: what the loop consumes from a record of amount a; an
\* amount of 0 ("all") consumes the record whole.
ToUndelegate(a) ==
  IF dlOp.amount = 0 \/ dlOp.remaining >= a THEN a ELSE dlOp.remaining

\* Variant of RemainingAfter without the partial branch.
RemainingAfterUncapped(a) ==
  IF dlOp.amount = 0 THEN 0 ELSE dlOp.remaining - a

\* remainingToUndelegate after the loop consumed a record of amount a; with
\* amount 0 it stays 0.
RemainingAfter(a) ==
  IF dlOp.amount = 0 THEN 0
  ELSE IF dlOp.remaining >= a THEN dlOp.remaining - a ELSE 0

\* Variant of UndelegateStep that leaves a partly undelegated record Active.
UndelegateStepPartialStaysActive ==
  /\ dlOp.kind = "undelegate"
  /\ \E id \in DelegationIds :
       LET a == del[id].amount IN
       /\ IsNextActive(id)
       /\ del' = IF ToUndelegate(a) < a THEN del
                 ELSE [del EXCEPT ![id].status = "Unbonding",
                                  ![id].unbondStart = dlHeight]
       /\ val' = RemoveDelegation(val, dlOp.validator, ToUndelegate(a))
       /\ dlOp' = IF RemainingAfter(a) = 0 THEN IdleOp
                  ELSE [dlOp EXCEPT !.remaining = RemainingAfter(a)]
  /\ UNCHANGED <<chainHeight, vrHeight, dlHeight, unbondFrom, jailedUntil>>

\* One iteration of the loop: the next Active record starts unbonding
\* (the whole record, even when only part of it is consumed) and
\* RemoveDelegation is called for the amount consumed.  The loop breaks
\* once remainingToUndelegate is 0, which with amount 0 is after the first
\* record.
UndelegateStep ==
  /\ dlOp.kind = "undelegate"
  /\ \E id \in DelegationIds :
       LET a == del[id].amount IN
       /\ IsNextActive(id)
       /\ del' = [del EXCEPT ![id].status = "Unbonding", ![id].unbondStart = dlHeight]
       /\ val' = RemoveDelegation(val, dlOp.validator, ToUndelegate(a))
       /\ dlOp' = IF RemainingAfter(a) = 0 THEN IdleOp
                  ELSE [dlOp EXCEPT !.remaining = RemainingAfter(a)]
  /\ UNCHANGED <<chainHeight, vrHeight, dlHeight, unbondFrom, jailedUntil>>

\* The loop runs out of matching records: ProcessUndelegation returns.
UndelegateEnd ==
  /\ dlOp.kind = "undelegate"
  /\ ActiveOf(dlOp.delegator, dlOp.validator) = {}
  /\ dlOp' = IdleOp
  /\ UNCHANGED <<chainHeight, vrHeight, dlHeight, val, del, unbondFrom, jailedUntil>>

\* ProcessRewardClaim: every record of the delegator (to v, or to any
\* validator when the request names none) hands over its pending rewards.
ProcessRewardClaim(d, v) ==
  /\ DlIdle
  /\ \E id \in DelegationIds : DelegatorOf(id) = d /\ del[id].pending > 0
                               /\ v \in {NoActor, ValidatorOf(id)}
  /\ del' = [id \in DelegationIds |->
               IF DelegatorOf(id) = d /\ v \in {NoActor, ValidatorOf(id)}
               THEN [del[id] EXCEPT !.pending = 0]
               ELSE del[id]]
  /\ UNCHANGED <<chainHeight, vrHeight, dlHeight, val, dlOp, unbondFrom, jailedUntil>>

\* DelegationDB::AddRewards.
AddRewards(id, r) ==
  /\ DlIdle
  /\ del[id].status # "None"
  /\ del[id].pending + r <= MaxPending
  /\ del' = [del EXCEPT ![id].pending = @ + r]
  /\ UNCHANGED <<chainHeight, vrHeight, dlHeight, val, dlOp, unbondFrom, jailedUntil>>

\* DistributeBlockReward holds cs_delegations; a zero share returns at
\* once.  Otherwise it calls GetTotalDelegationForValidator, whose
\* LOCK(cs_delegations) on the non-recursive Mutex its own thread holds
\* never returns (or aborts under DEBUG_LOCKORDER): the lock stays held.
DistributeBlockReward(v, share) ==
  /\ DlIdle
  /\ share # 0
  /\ dlOp' = [IdleOp EXCEPT !.kind = "distribute", !.validator = v, !.amount = share]
  /\ UNCHANGED <<chainHeight, vrHeight, dlHeight, val, del, unbondFrom, jailedUntil>>

-----------------------------------------------------------------------------
\* Type invariant: the registry and the ledger hold well-formed records, and
\* the in-flight ledger operation is one the code can be in.
TypeOK ==
  /\ chainHeight \in Heights /\ vrHeight \in Heights /\ dlHeight \in Heights
  /\ val \in [Validators -> ValidatorRec]
  /\ del \in [DelegationIds -> DelegationRec]
  /\ dlOp \in DlOpRec
  /\ dlOp.kind # "idle" => dlOp.validator \in Validators
  /\ unbondFrom \in [Validators -> Heights]
  /\ jailedUntil \in [Validators -> Nat]

\* A delegation earns (is Active) only once the ledger's height is
\* DELEGATION_MATURITY blocks past the height it was created at, and its
\* stake is released (Withdrawn) only DELEGATION_UNBONDING_PERIOD blocks
\* after ProcessUndelegation started its unbonding: DelegationDB::
\* ProcessBlock compares with the tip height, the records with the ledger's
\* lagging currentHeight.
DelegationTiming ==
  \A id \in DelegationIds :
    /\ del[id].status \in {"Active", "Unbonding", "Withdrawn"}
         => HeightOf(id) + DelegationMaturity <= dlHeight
    /\ del[id].status = "Withdrawn"
         => del[id].unbondStart + DelegationUnbonding <= dlHeight

\* The forward steps of a delegation record's lifecycle (DelegationStatus:
\* created PENDING, matured ACTIVE, UNBONDING on undelegation, WITHDRAWN
\* when the unbonding period is over).
LifecycleSteps == {<<"None", "Pending">>, <<"Pending", "Active">>,
                   <<"Active", "Unbonding">>, <<"Unbonding", "Withdrawn">>}

RecordStep(id) ==
  /\ del'[id].status # del[id].status
       => <<del[id].status, del'[id].status>> \in LifecycleSteps
  /\ del[id].status # "None" => del'[id].amount = del[id].amount
  /\ del[id].status \in {"Unbonding", "Withdrawn"}
       => del'[id].unbondStart = del[id].unbondStart

\* Action property: no step of the ledger moves a delegation record
\* backwards or skips a status (ProcessDelegation never overwrites an
\* existing record, ProcessUndelegation only unbonds ACTIVE ones,
\* DelegationDB::ProcessBlock only matures PENDING and completes
\* UNBONDING), and once a record exists its amount, and once it unbonds its
\* unbondingStartHeight, never change.
DelegationLifecycle == [][\A id \in DelegationIds : RecordStep(id)]_del

\* Inductive strengthening of DelegationTiming: the ledger's height never
\* passes the tip, and a record's unbonding started after it matured and
\* no later than the ledger's height.
RecordTimingInv(id) ==
  /\ del[id].status = "Active" => HeightOf(id) + DelegationMaturity <= dlHeight
  /\ del[id].status \in {"Unbonding", "Withdrawn"}
       => /\ HeightOf(id) + DelegationMaturity <= del[id].unbondStart
          /\ del[id].unbondStart <= dlHeight
  /\ del[id].status = "Withdrawn"
       => del[id].unbondStart + DelegationUnbonding <= dlHeight

DelegationTimingInv ==
  /\ TypeOK
  /\ dlHeight <= chainHeight
  /\ \A id \in DelegationIds : RecordTimingInv(id)

\* cs_delegations is free, or held by an operation that has changed nothing
\* yet (DistributeBlockReward blocked on its own lock).
DlQuiescent == dlOp.kind \in {"idle", "distribute"}

\* Whenever no ledger operation is half done, each validator's
\* totalDelegated covers the amounts of the delegations ProcessDelegation
\* counted and ProcessUndelegation has not yet released; hence
\* RemoveDelegation is never refused for lack of delegated stake.
DelegatedCoversBonded ==
  DlQuiescent =>
    \A v \in Validators : val[v].totalDelegated >= AmountOf(BondedTo(v))

\* Whenever no ledger operation is half done, each validator's
\* delegatorCount is the number of Pending or Active delegation records to
\* it: AddDelegation and RemoveDelegation are paired one to one.
DelegatorCountMatchesBonded ==
  DlQuiescent =>
    \A v \in Validators : val[v].delegatorCount = Cardinality(BondedTo(v))

\* Inductive strengthening of the two aggregate properties.  Records exist
\* only for registered validators (ProcessDelegation requires ACTIVE, and
\* no operation removes a validator), and while ProcessDelegation waits to
\* call AddDelegation its record is bonded but not yet counted.
AddingTo(v) == dlOp.kind = "add" /\ dlOp.validator = v

AggregateInv(v) ==
  /\ ~Registered(v) =>
       \A id \in DelegationIds : ValidatorOf(id) = v => del[id].status = "None"
  /\ val[v].delegatorCount + (IF AddingTo(v) THEN 1 ELSE 0)
       = Cardinality(BondedTo(v))
  /\ val[v].totalDelegated + (IF AddingTo(v) THEN dlOp.amount ELSE 0)
       >= AmountOf(BondedTo(v))

AggregatesInv ==
  /\ TypeOK
  /\ dlOp.kind = "add" => Registered(dlOp.validator)
  /\ \A v \in Validators : AggregateInv(v)

-----------------------------------------------------------------------------
Next ==
  \/ NewBlock \/ VRProcessBlock \/ DLProcessBlock
  \/ \E v \in Validators :
       \/ \E s \in StakeAmounts, f \in FeeRates : RegisterValidator(v, s, f)
       \/ \E f \in FeeRates : UpdateFee(v, f)
       \/ Deactivate(v) \/ Reactivate(v)
       \/ \E x \in StakeDeltas : IncreaseStake(v, x) \/ DecreaseStake(v, x)
       \/ \E s \in DirectedStatuses : SetValidatorStatus(v, s)
       \/ \E b \in JailTerms : JailValidator(v, b)
       \/ UnjailValidator(v)
       \/ \E r \in RewardAmounts : DistributeBlockReward(v, r)
  \/ \E d \in Delegators, v \in Validators :
       \/ \E a \in DelegationAmounts : ProcessDelegation(d, v, a)
       \/ \E a \in UndelegationAmounts : ProcessUndelegation(d, v, a)
  \/ \E d \in Delegators, v \in Validators \cup {NoActor} : ProcessRewardClaim(d, v)
  \/ \E id \in DelegationIds, r \in RewardAmounts : AddRewards(id, r)
  \/ DelegateAdd \/ UndelegateStep \/ UndelegateEnd

Spec == Init /\ [][Next]_vars

\* The block driver keeps delivering blocks and both databases keep
\* processing them; an operation holding cs_delegations runs to its end.
\* DelegationDB::ProcessBlock waits for cs_delegations, which RPC calls
\* take and release: a waiter on a lock released again and again is not
\* passed over forever, so that step is strongly fair.
Fairness ==
  /\ WF_vars(NewBlock) /\ WF_vars(VRProcessBlock) /\ SF_vars(DLProcessBlock)
  /\ WF_vars(DelegateAdd) /\ WF_vars(UndelegateStep) /\ WF_vars(UndelegateEnd)

FairSpec == Spec /\ Fairness

=============================================================================
