--------------------------- MODULE StakingProofs ---------------------------
(***************************************************************************)
(* Proofs about the composed validator registry and delegation ledger of   *)
(* module Staking, for every value of the constants that satisfies         *)
(* ConstantsAssumption.                                                    *)
(***************************************************************************)
EXTENDS Staking, TLAPS

USE ConstantsAssumption

-----------------------------------------------------------------------------
(* Type correctness.                                                       *)

\* The placeholder records the databases start from are well formed.
LEMMA PlaceholdersTyped ==
  /\ NoValidator \in ValidatorRec
  /\ NoDelegation \in DelegationRec
  /\ IdleOp \in DlOpRec
BY DEF NoValidator, ValidatorRec, NoDelegation, DelegationRec, IdleOp, DlOpRec,
       Heights

\* Updating a validator's two aggregates with integers keeps its record
\* well formed.
LEMMA AggregatesUpdateTyped ==
  ASSUME NEW r \in ValidatorRec, NEW t \in Int, NEW c \in Int
  PROVE  [r EXCEPT !.totalDelegated = t, !.delegatorCount = c] \in ValidatorRec
BY DEF ValidatorRec, ValidatorStatuses

\* Changing a validator's status together with its last-active or its
\* jail-release height keeps its record well formed.
LEMMA StatusUpdateTyped ==
  ASSUME NEW r \in ValidatorRec, NEW st \in ValidatorStatuses,
         NEW h \in Heights, NEW j \in Nat
  PROVE  /\ [r EXCEPT !.status = st, !.lastActive = h] \in ValidatorRec
         /\ [r EXCEPT !.status = st, !.jailRelease = j] \in ValidatorRec
BY DEF ValidatorRec

\* Starting the unbonding of a delegation keeps its record well formed.
LEMMA UnbondingUpdateTyped ==
  ASSUME NEW r \in DelegationRec, NEW h \in Heights
  PROVE  [r EXCEPT !.status = "Unbonding", !.unbondStart = h] \in DelegationRec
BY DEF DelegationRec, DelegationStatuses

\* The registry calls the ledger makes keep every validator record well
\* formed, whatever integer amount they are passed.
LEMMA RegistryCallsTyped ==
  ASSUME NEW vs \in [Validators -> ValidatorRec], NEW v \in Validators,
         NEW amount \in Int
  PROVE  /\ AddDelegation(vs, v, amount) \in [Validators -> ValidatorRec]
         /\ RemoveDelegation(vs, v, amount) \in [Validators -> ValidatorRec]
<1>1. /\ vs[v] \in ValidatorRec
      /\ vs[v].totalDelegated + amount \in Int
      /\ vs[v].totalDelegated - amount \in Int
      /\ vs[v].delegatorCount + 1 \in Int
      /\ (IF vs[v].delegatorCount > 0 THEN vs[v].delegatorCount - 1
          ELSE vs[v].delegatorCount) \in Int
  BY DEF ValidatorRec
<1>2. [vs[v] EXCEPT !.totalDelegated = vs[v].totalDelegated + amount,
                   !.delegatorCount = vs[v].delegatorCount + 1] \in ValidatorRec
  BY <1>1, AggregatesUpdateTyped
<1>3. [vs[v] EXCEPT !.totalDelegated = vs[v].totalDelegated - amount,
                   !.delegatorCount = IF vs[v].delegatorCount > 0
                                      THEN vs[v].delegatorCount - 1
                                      ELSE vs[v].delegatorCount] \in ValidatorRec
  BY <1>1, AggregatesUpdateTyped
<1>4. QED
  BY <1>2, <1>3 DEF AddDelegation, RemoveDelegation

\* The amounts ProcessUndelegation's loop computes stay natural numbers.
LEMMA UndelegateAmountsTyped ==
  ASSUME TypeOK, NEW a \in Nat
  PROVE  /\ ToUndelegate(a) \in Nat
         /\ RemainingAfter(a) \in Nat
BY DEF TypeOK, DlOpRec, ToUndelegate, RemainingAfter

\* The initial state is well typed.
LEMMA TypeInit == Init => TypeOK
BY PlaceholdersTyped DEF Init, TypeOK, Heights, IdleOp

\* Every step of every operation keeps the state well typed.
LEMMA TypeNext == TypeOK /\ [Next]_vars => TypeOK'
<1>2. TypeOK /\ [Next]_vars => TypeOK'
  <2> SUFFICES ASSUME TypeOK, [Next]_vars PROVE TypeOK'
    OBVIOUS
  <2>. USE DEF TypeOK, ValidatorRec, DelegationRec, DlOpRec, ValidatorStatuses,
               DelegationStatuses, Heights
  <2>1. CASE NewBlock
    BY <2>1 DEF NewBlock, Heights
  <2>2. CASE VRProcessBlock
    BY <2>2 DEF VRProcessBlock, ValidatorRec
  <2>3. CASE DLProcessBlock
    BY <2>3 DEF DLProcessBlock, DelegationRec
  <2>4. ASSUME NEW v \in Validators, NEW s \in StakeAmounts, NEW f \in FeeRates,
               RegisterValidator(v, s, f)
        PROVE TypeOK'
    <3>0. s \in Int /\ f \in Int
      OBVIOUS
    <3>1. [NoValidator EXCEPT !.status = "Pending", !.stake = s, !.fee = f,
                              !.regHeight = chainHeight] \in ValidatorRec
      BY <3>0, PlaceholdersTyped
    <3>2. QED
      BY <2>4, <3>1 DEF RegisterValidator
  <2>5. ASSUME NEW v \in Validators, NEW f \in FeeRates, UpdateFee(v, f)
        PROVE TypeOK'
    BY <2>5 DEF UpdateFee, ValidatorRec
  <2>6. ASSUME NEW v \in Validators, Deactivate(v) PROVE TypeOK'
    BY <2>6 DEF Deactivate, ValidatorRec, ValidatorStatuses
  <2>7. ASSUME NEW v \in Validators, Reactivate(v) PROVE TypeOK'
    BY <2>7 DEF Reactivate, ValidatorRec, ValidatorStatuses
  <2>8. ASSUME NEW v \in Validators, NEW x \in StakeDeltas, IncreaseStake(v, x)
        PROVE TypeOK'
    BY <2>8 DEF IncreaseStake, ValidatorRec
  <2>9. ASSUME NEW v \in Validators, NEW x \in StakeDeltas, DecreaseStake(v, x)
        PROVE TypeOK'
    BY <2>9 DEF DecreaseStake, ValidatorRec
  <2>10. ASSUME NEW v \in Validators, NEW s \in DirectedStatuses,
                SetValidatorStatus(v, s)
         PROVE TypeOK'
    <3>0. /\ val[v] \in ValidatorRec
          /\ s \in ValidatorStatuses
          /\ (IF s = "Active" THEN vrHeight ELSE val[v].lastActive) \in Heights
      OBVIOUS
    <3>1. [val[v] EXCEPT !.status = s,
                         !.lastActive = IF s = "Active" THEN vrHeight
                                        ELSE val[v].lastActive] \in ValidatorRec
      BY <3>0, StatusUpdateTyped
    <3>2. QED
      BY <2>10, <3>1 DEF SetValidatorStatus
  <2>11. ASSUME NEW v \in Validators, NEW b \in JailTerms, JailValidator(v, b)
         PROVE TypeOK'
    <3>0. val[v] \in ValidatorRec /\ vrHeight + b \in Nat /\ "Jailed" \in ValidatorStatuses
      OBVIOUS
    <3>1. [val[v] EXCEPT !.status = "Jailed", !.jailRelease = vrHeight + b]
            \in ValidatorRec
      BY <3>0, StatusUpdateTyped
    <3>2. QED
      BY <2>11, <3>1 DEF JailValidator
  <2>12. ASSUME NEW v \in Validators, UnjailValidator(v) PROVE TypeOK'
    <3>1. [val[v] EXCEPT !.status = "Active", !.jailRelease = 0] \in ValidatorRec
      <4>1. val[v] \in ValidatorRec /\ "Active" \in ValidatorStatuses /\ 0 \in Nat
        OBVIOUS
      <4>2. QED
        BY <4>1, StatusUpdateTyped
    <3>2. QED
      BY <2>12, <3>1 DEF UnjailValidator
  <2>13. ASSUME NEW v \in Validators, NEW r \in RewardAmounts,
                DistributeBlockReward(v, r)
         PROVE TypeOK'
    BY <2>13, PlaceholdersTyped DEF DistributeBlockReward, DlOpRec, IdleOp
  <2>14. ASSUME NEW d \in Delegators, NEW v \in Validators,
                NEW a \in DelegationAmounts, ProcessDelegation(d, v, a)
         PROVE TypeOK'
    BY <2>14, PlaceholdersTyped
    DEF ProcessDelegation, DelegationRec, DlOpRec, IdleOp, DelegationIds, Heights
  <2>15. ASSUME NEW d \in Delegators, NEW v \in Validators,
                NEW a \in UndelegationAmounts, ProcessUndelegation(d, v, a)
         PROVE TypeOK'
    BY <2>15, PlaceholdersTyped DEF ProcessUndelegation, DlOpRec, IdleOp
  <2>16. ASSUME NEW d \in Delegators, NEW v \in Validators \cup {NoActor},
                ProcessRewardClaim(d, v)
         PROVE TypeOK'
    BY <2>16 DEF ProcessRewardClaim, DelegationRec
  <2>17. ASSUME NEW id \in DelegationIds, NEW r \in RewardAmounts, AddRewards(id, r)
         PROVE TypeOK'
    BY <2>17 DEF AddRewards, DelegationRec
  <2>18. CASE DelegateAdd
    <3>1. dlOp.validator \in Validators /\ dlOp.amount \in Int
      BY <2>18 DEF DelegateAdd
    <3>2. QED
      BY <2>18, <3>1, RegistryCallsTyped, PlaceholdersTyped DEF DelegateAdd, IdleOp
  <2>19. CASE UndelegateStep
    <3>1. PICK id \in DelegationIds :
            /\ IsNextActive(id)
            /\ del' = [del EXCEPT ![id].status = "Unbonding",
                                  ![id].unbondStart = dlHeight]
            /\ val' = RemoveDelegation(val, dlOp.validator, ToUndelegate(del[id].amount))
            /\ dlOp' = IF RemainingAfter(del[id].amount) = 0 THEN IdleOp
                       ELSE [dlOp EXCEPT !.remaining = RemainingAfter(del[id].amount)]
      BY <2>19 DEF UndelegateStep
    <3>2. del[id].amount \in Nat
      BY DEF DelegationRec
    <3>3. dlOp.validator \in Validators
      BY <2>19 DEF UndelegateStep
    <3>4. val' \in [Validators -> ValidatorRec]
      <4>1. ToUndelegate(del[id].amount) \in Int
        BY <3>2, UndelegateAmountsTyped
      <4>2. QED
        BY <3>1, <3>3, <4>1, RegistryCallsTyped
    <3>5. dlOp' \in DlOpRec
      BY <3>1, <3>2, UndelegateAmountsTyped, PlaceholdersTyped DEF DlOpRec
    <3>6. del' \in [DelegationIds -> DelegationRec]
      <4>1. [del[id] EXCEPT !.status = "Unbonding", !.unbondStart = dlHeight]
              \in DelegationRec
        BY UnbondingUpdateTyped
      <4>2. QED
        BY <3>1, <4>1
    <3>7. QED
      BY <2>19, <3>1, <3>4, <3>5, <3>6 DEF UndelegateStep, IdleOp
  <2>20. CASE UndelegateEnd
    BY <2>20, PlaceholdersTyped DEF UndelegateEnd, IdleOp
  <2>21. CASE UNCHANGED vars
    BY <2>21 DEF vars
  <2>22. QED
    BY <2>1, <2>2, <2>3, <2>4, <2>5, <2>6, <2>7, <2>8, <2>9, <2>10, <2>11,
       <2>12, <2>13, <2>14, <2>15, <2>16, <2>17, <2>18, <2>19, <2>20, <2>21
    DEF Next
<1>3. QED
  BY <1>2

\* Type correctness: every reachable state holds well-formed registry and
\* ledger records (so, in particular, RemoveDelegation and the
\* undelegation loop never compute outside their types).
THEOREM TypeCorrect == Spec => []TypeOK
BY TypeInit, TypeNext, PTL DEF Spec

-----------------------------------------------------------------------------
(* Delegation maturity and unbonding.                                     *)

LEMMA TimingInit == Init => DelegationTimingInv
BY TypeInit DEF Init, DelegationTimingInv, RecordTimingInv, NoDelegation

\* A step that leaves the tip, the ledger's height and the records alone
\* keeps the timing facts.
LEMMA TimingUnchanged ==
  ASSUME DelegationTimingInv, TypeOK',
         UNCHANGED <<chainHeight, dlHeight, del>>
  PROVE  DelegationTimingInv'
BY DEF DelegationTimingInv, RecordTimingInv

LEMMA TimingNext == DelegationTimingInv /\ [Next]_vars => DelegationTimingInv'
<1> SUFFICES ASSUME DelegationTimingInv, [Next]_vars PROVE DelegationTimingInv'
  OBVIOUS
<1>1. TypeOK /\ TypeOK'
  BY TypeNext DEF DelegationTimingInv
<1>2. USE DEF DelegationTimingInv
<1>3. CASE NewBlock
  BY <1>1, <1>3 DEF NewBlock, RecordTimingInv, TypeOK, Heights
<1>4. CASE DLProcessBlock
  <2>1. dlHeight' = chainHeight /\ chainHeight' = chainHeight /\ dlHeight <= chainHeight
    BY <1>4 DEF DLProcessBlock
  <2>2. SUFFICES ASSUME NEW id \in DelegationIds PROVE RecordTimingInv(id)'
    BY <1>1, <2>1 DEF TypeOK, Heights
  <2>3. /\ HeightOf(id) \in Nat /\ del[id].unbondStart \in Nat
        /\ chainHeight \in Nat /\ dlHeight \in Nat
    BY <1>1 DEF TypeOK, DelegationIds, HeightOf, DelegationRec, Heights
  <2>4. RecordTimingInv(id)
    OBVIOUS
  <2>5. CASE del[id].status = "Pending"
              /\ chainHeight - HeightOf(id) >= DelegationMaturity
    <3>1. del'[id] = [del[id] EXCEPT !.status = "Active"]
      BY <1>4, <2>5 DEF DLProcessBlock
    <3>2. del[id] \in DelegationRec
      BY <1>1 DEF TypeOK
    <3>3. QED
      BY <2>1, <2>3, <2>5, <3>1, <3>2 DEF RecordTimingInv, DelegationRec
  <2>6. CASE del[id].status = "Unbonding"
              /\ chainHeight - del[id].unbondStart >= DelegationUnbonding
    <3>1. del'[id] = [del[id] EXCEPT !.status = "Withdrawn"]
      BY <1>4, <2>6 DEF DLProcessBlock
    <3>2. del[id] \in DelegationRec
      BY <1>1 DEF TypeOK
    <3>3. QED
      BY <2>1, <2>3, <2>4, <2>6, <3>1, <3>2 DEF RecordTimingInv, DelegationRec
  <2>7. CASE ~(del[id].status = "Pending"
               /\ chainHeight - HeightOf(id) >= DelegationMaturity)
             /\ ~(del[id].status = "Unbonding"
               /\ chainHeight - del[id].unbondStart >= DelegationUnbonding)
    <3>1. del'[id] = del[id]
      BY <1>4, <2>7 DEF DLProcessBlock
    <3>2. QED
      BY <2>1, <2>3, <2>4, <3>1 DEF RecordTimingInv
  <2>8. QED
    BY <2>5, <2>6, <2>7
<1>5. ASSUME NEW d \in Delegators, NEW v \in Validators,
             NEW a \in DelegationAmounts, ProcessDelegation(d, v, a)
      PROVE DelegationTimingInv'
  <2>1. SUFFICES ASSUME NEW id \in DelegationIds PROVE RecordTimingInv(id)'
    BY <1>1, <1>5 DEF ProcessDelegation
  <2>2. CASE id = <<d, v, chainHeight>>
    BY <1>5, <2>2 DEF ProcessDelegation, RecordTimingInv, NoDelegation, DelegationIds
  <2>3. CASE id # <<d, v, chainHeight>>
    BY <1>5, <2>3 DEF ProcessDelegation, RecordTimingInv
  <2>4. QED
    BY <2>2, <2>3
<1>6. CASE UndelegateStep
  <2>1. PICK j \in DelegationIds :
          /\ IsNextActive(j)
          /\ del' = [del EXCEPT ![j].status = "Unbonding", ![j].unbondStart = dlHeight]
    BY <1>6 DEF UndelegateStep
  <2>2. UNCHANGED <<chainHeight, dlHeight>>
    BY <1>6 DEF UndelegateStep
  <2>3. SUFFICES ASSUME NEW id \in DelegationIds PROVE RecordTimingInv(id)'
    BY <1>1, <2>2
  <2>4. CASE id = j
    <3>1. del[j].status = "Active"
      BY <2>1 DEF IsNextActive, ActiveOf
    <3>2. HeightOf(j) + DelegationMaturity <= dlHeight
      BY <3>1 DEF RecordTimingInv
    <3>3. del[j] \in DelegationRec
      BY <1>1 DEF TypeOK
    <3>4. QED
      BY <1>1, <2>1, <2>2, <2>4, <3>2, <3>3 DEF RecordTimingInv, DelegationRec,
                                                TypeOK, Heights
  <2>5. CASE id # j
    BY <1>1, <2>1, <2>2, <2>5 DEF RecordTimingInv, TypeOK
  <2>6. QED
    BY <2>4, <2>5
<1>7. ASSUME NEW d \in Delegators, NEW v \in Validators \cup {NoActor},
             ProcessRewardClaim(d, v)
      PROVE DelegationTimingInv'
  <2>1. SUFFICES ASSUME NEW id \in DelegationIds PROVE RecordTimingInv(id)'
    BY <1>1, <1>7 DEF ProcessRewardClaim
  <2>2. del[id] \in DelegationRec
    BY <1>1 DEF TypeOK
  <2>3. QED
    BY <1>7, <2>2 DEF ProcessRewardClaim, RecordTimingInv, DelegationRec
<1>8. ASSUME NEW j \in DelegationIds, NEW r \in RewardAmounts, AddRewards(j, r)
      PROVE DelegationTimingInv'
  <2>1. SUFFICES ASSUME NEW id \in DelegationIds PROVE RecordTimingInv(id)'
    BY <1>1, <1>8 DEF AddRewards
  <2>2. del[id] \in DelegationRec
    BY <1>1 DEF TypeOK
  <2>3. QED
    BY <1>8, <2>2 DEF AddRewards, RecordTimingInv, DelegationRec
<1>10. ASSUME NEW v \in Validators,
              \/ \E s \in StakeAmounts, f \in FeeRates : RegisterValidator(v, s, f)
              \/ \E f \in FeeRates : UpdateFee(v, f)
              \/ Deactivate(v) \/ Reactivate(v)
              \/ \E x \in StakeDeltas : IncreaseStake(v, x) \/ DecreaseStake(v, x)
              \/ \E s \in DirectedStatuses : SetValidatorStatus(v, s)
              \/ \E b \in JailTerms : JailValidator(v, b)
              \/ UnjailValidator(v)
              \/ \E r \in RewardAmounts : DistributeBlockReward(v, r)
       PROVE DelegationTimingInv'
  <2>1. UNCHANGED <<chainHeight, dlHeight, del>>
    BY <1>10 DEF RegisterValidator, UpdateFee, Deactivate, Reactivate, IncreaseStake,
                 DecreaseStake, SetValidatorStatus, JailValidator, UnjailValidator,
                 DistributeBlockReward
  <2>2. QED
    BY <1>1, <2>1, TimingUnchanged
<1>11. ASSUME NEW d \in Delegators, NEW v \in Validators,
              NEW a \in UndelegationAmounts, ProcessUndelegation(d, v, a)
       PROVE DelegationTimingInv'
  BY <1>1, <1>11, TimingUnchanged DEF ProcessUndelegation
<1>12. CASE VRProcessBlock \/ DelegateAdd \/ UndelegateEnd \/ UNCHANGED vars
  BY <1>1, <1>12, TimingUnchanged DEF VRProcessBlock, DelegateAdd, UndelegateEnd, vars
<1>13. QED
  BY <1>3, <1>4, <1>5, <1>6, <1>7, <1>8, <1>10, <1>11, <1>12 DEF Next

\* Delegation timing: in every reachable state, an Active, unbonding or
\* withdrawn delegation is at least DELEGATION_MATURITY blocks old by the
\* ledger's height, and a withdrawn one finished DELEGATION_UNBONDING_PERIOD
\* blocks of unbonding (DelegationDB::ProcessBlock and ProcessUndelegation,
\* interleaved with blocks the ledger has not processed yet).
THEOREM DelegationTimingCorrect == Spec => []DelegationTiming
<1>1. DelegationTimingInv => DelegationTiming
  <2> SUFFICES ASSUME DelegationTimingInv, NEW id \in DelegationIds
               PROVE  /\ del[id].status \in {"Active", "Unbonding", "Withdrawn"}
                           => HeightOf(id) + DelegationMaturity <= dlHeight
                      /\ del[id].status = "Withdrawn"
                           => del[id].unbondStart + DelegationUnbonding <= dlHeight
    BY DEF DelegationTiming
  <2>1. /\ HeightOf(id) \in Nat /\ del[id].unbondStart \in Nat /\ dlHeight \in Nat
    BY DEF DelegationTimingInv, TypeOK, DelegationIds, HeightOf, DelegationRec, Heights
  <2>2. RecordTimingInv(id)
    BY DEF DelegationTimingInv
  <2>3. QED
    BY <2>1, <2>2 DEF RecordTimingInv
<1>2. QED
  BY <1>1, TimingInit, TimingNext, PTL DEF Spec

-----------------------------------------------------------------------------
(* Delegation record lifecycle.                                           *)

\* The steps that change the ledger's records move each of them one status
\* forward at most, and keep the amount and the unbonding start.
LEMMA LifecycleNext ==
  TypeOK /\ [Next]_vars => [\A id \in DelegationIds : RecordStep(id)]_del
<1> SUFFICES ASSUME TypeOK, [Next]_vars
             PROVE  [\A id \in DelegationIds : RecordStep(id)]_del
  OBVIOUS
<1>1. CASE del' = del
  BY <1>1
<1>2. CASE DLProcessBlock
  <2> SUFFICES ASSUME NEW id \in DelegationIds PROVE RecordStep(id)
    OBVIOUS
  <2>1. del[id] \in DelegationRec
    BY DEF TypeOK
  <2> QED
    BY <1>2, <2>1 DEF DLProcessBlock, RecordStep, LifecycleSteps, DelegationRec
<1>3. ASSUME NEW d \in Delegators, NEW v \in Validators,
             NEW a \in DelegationAmounts, ProcessDelegation(d, v, a)
      PROVE  \A id \in DelegationIds : RecordStep(id)
  <2> SUFFICES ASSUME NEW id \in DelegationIds PROVE RecordStep(id)
    OBVIOUS
  <2>1. <<d, v, chainHeight>> \in DelegationIds
    BY DEF TypeOK, DelegationIds
  <2> QED
    BY <1>3, <2>1 DEF ProcessDelegation, RecordStep, LifecycleSteps, NoDelegation,
                      TypeOK
<1>4. CASE UndelegateStep
  <2>1. PICK j \in DelegationIds :
          /\ IsNextActive(j)
          /\ del' = [del EXCEPT ![j].status = "Unbonding", ![j].unbondStart = dlHeight]
    BY <1>4 DEF UndelegateStep
  <2>2. del[j].status = "Active" /\ del[j] \in DelegationRec
    BY <2>1 DEF IsNextActive, ActiveOf, TypeOK
  <2> SUFFICES ASSUME NEW id \in DelegationIds PROVE RecordStep(id)
    OBVIOUS
  <2> QED
    BY <2>1, <2>2 DEF RecordStep, LifecycleSteps, TypeOK, DelegationRec
<1>5. ASSUME NEW d \in Delegators, NEW v \in Validators \cup {NoActor},
             ProcessRewardClaim(d, v)
      PROVE  \A id \in DelegationIds : RecordStep(id)
  BY <1>5 DEF ProcessRewardClaim, RecordStep, TypeOK, DelegationRec
<1>6. ASSUME NEW id \in DelegationIds, NEW r \in RewardAmounts, AddRewards(id, r)
      PROVE  \A j \in DelegationIds : RecordStep(j)
  BY <1>6 DEF AddRewards, RecordStep, TypeOK, DelegationRec
<1> QED
  BY <1>1, <1>2, <1>3, <1>4, <1>5, <1>6
  DEF Next, NewBlock, VRProcessBlock, RegisterValidator, UpdateFee, Deactivate,
      Reactivate, IncreaseStake, DecreaseStake, SetValidatorStatus,
      JailValidator, UnjailValidator, DistributeBlockReward,
      ProcessUndelegation, DelegateAdd, UndelegateEnd, vars

\* No step moves a delegation record backwards or past a status, or changes
\* its amount once created or its unbonding start once it unbonds
\* (DelegationLifecycle), for all values of the constants.
THEOREM LifecycleCorrect == Spec => DelegationLifecycle
<1>1. []TypeOK /\ [][Next]_vars => [][\A id \in DelegationIds : RecordStep(id)]_del
  BY LifecycleNext, PTL
<1> QED
  BY <1>1, TypeCorrect DEF Spec, DelegationLifecycle

=============================================================================
