----------------------- MODULE StakingAggregateProofs -----------------------
(***************************************************************************)
(* Proofs that the registry's aggregates (totalDelegated, delegatorCount)  *)
(* stay consistent with the delegation ledger of module Staking: the two   *)
(* invariants DelegatedCoversBonded and DelegatorCountMatchesBonded, from  *)
(* the inductive invariant AggregatesInv.                                  *)
(***************************************************************************)
EXTENDS Staking, StakingProofs, FiniteSetTheorems, TLAPS

USE ConstantsAssumption

-----------------------------------------------------------------------------
(* The sum of amounts, AmountIn, as a cardinality.                         *)

\* The units of one record form a finite set of f[x].amount elements.
LEMMA RecordUnits ==
  ASSUME NEW f, NEW x, f[x].amount \in Nat
  PROVE  /\ IsFiniteSet({x} \X (1..f[x].amount))
         /\ Cardinality({x} \X (1..f[x].amount)) = f[x].amount
<1>1. IsFiniteSet({x}) /\ Cardinality({x}) = 1
  BY FS_Singleton
<1>2. IsFiniteSet(1..f[x].amount) /\ Cardinality(1..f[x].amount) = f[x].amount
  <2>1. /\ IsFiniteSet(1..f[x].amount)
        /\ Cardinality(1..f[x].amount)
             = IF 1 > f[x].amount THEN 0 ELSE f[x].amount - 1 + 1
    BY FS_Interval
  <2> QED
    BY <2>1
<1>3. IsFiniteSet({x} \X (1..f[x].amount))
      /\ Cardinality({x} \X (1..f[x].amount)) = 1 * f[x].amount
  BY <1>1, <1>2, FS_Product
<1> QED
  BY <1>3

\* The units of a finite set of records are finitely many.
LEMMA AmountUnitsFinite ==
  ASSUME NEW f, NEW S, IsFiniteSet(S), \A x \in S : f[x].amount \in Nat
  PROVE  IsFiniteSet(AmountUnits(f, S))
<1> DEFINE g == [x \in S |-> {x} \X (1..f[x].amount)]
<1>1. g \in Surjection(S, {{x} \X (1..f[x].amount) : x \in S})
  BY DEF Surjection
<1>2. IsFiniteSet({{x} \X (1..f[x].amount) : x \in S})
  BY <1>1, FS_Surjection
<1>3. \A T \in {{x} \X (1..f[x].amount) : x \in S} : IsFiniteSet(T)
  BY RecordUnits
<1> QED
  BY <1>2, <1>3, FS_UNION DEF AmountUnits

\* The total of no records is 0.
LEMMA AmountEmpty ==
  ASSUME NEW f
  PROVE  AmountIn(f, {}) = 0
<1>1. AmountUnits(f, {}) = {}
  BY DEF AmountUnits
<1> QED
  BY <1>1, FS_EmptySet DEF AmountIn

\* The total of a finite set of records is a natural.
LEMMA AmountNat ==
  ASSUME NEW f, NEW S, IsFiniteSet(S), \A x \in S : f[x].amount \in Nat
  PROVE  AmountIn(f, S) \in Nat
BY AmountUnitsFinite, FS_CardinalityType DEF AmountIn

\* Adding a record to a finite set adds its amount to the total.
LEMMA AmountAdd ==
  ASSUME NEW f, NEW S, IsFiniteSet(S), NEW x, x \notin S,
         \A y \in S \cup {x} : f[y].amount \in Nat
  PROVE  AmountIn(f, S \cup {x}) = AmountIn(f, S) + f[x].amount
<1> DEFINE A == AmountUnits(f, S)
           B == {x} \X (1..f[x].amount)
<1>1. AmountUnits(f, S \cup {x}) = A \cup B
  BY DEF AmountUnits
<1>2. A \cap B = {}
  BY DEF AmountUnits
<1>3. IsFiniteSet(A) /\ IsFiniteSet(B) /\ Cardinality(B) = f[x].amount
  BY AmountUnitsFinite, RecordUnits
<1>4. Cardinality(A \cup B)
        = Cardinality(A) + Cardinality(B) - Cardinality(A \cap B)
  BY <1>3, FS_Union
<1>5. Cardinality(A \cap B) = 0
  BY <1>2, FS_EmptySet
<1>6. Cardinality(A) \in Nat
  BY <1>3, FS_CardinalityType
<1>7. AmountIn(f, S \cup {x}) = Cardinality(A \cup B)
  BY <1>1 DEF AmountIn
<1>8. AmountIn(f, S) = Cardinality(A)
  BY DEF AmountIn
<1> QED
  BY <1>3, <1>4, <1>5, <1>6, <1>7, <1>8

\* A record of a finite set accounts for its amount of the total.
LEMMA AmountRemove ==
  ASSUME NEW f, NEW S, IsFiniteSet(S), NEW x \in S,
         \A y \in S : f[y].amount \in Nat
  PROVE  AmountIn(f, S) = AmountIn(f, S \ {x}) + f[x].amount
<1>1. IsFiniteSet(S \ {x}) /\ S = (S \ {x}) \cup {x}
  BY FS_RemoveElement
<1> QED
  BY <1>1, AmountAdd

\* The total depends only on the amounts of the records in the set.
LEMMA AmountFrame ==
  ASSUME NEW f, NEW g, NEW S, \A x \in S : f[x].amount = g[x].amount
  PROVE  AmountIn(f, S) = AmountIn(g, S)
<1>1. AmountUnits(f, S) = AmountUnits(g, S)
  BY DEF AmountUnits
<1> QED
  BY <1>1 DEF AmountIn

-----------------------------------------------------------------------------
(* Facts about the bonded records.                                         *)

\* There are finitely many delegation ids, hence finitely many records in
\* any set of them.
LEMMA IdsFinite ==
  ASSUME NEW T \in SUBSET DelegationIds
  PROVE  IsFiniteSet(T)
<1>1. IsFiniteSet(Heights)
  BY FS_Interval DEF Heights
<1>2. IsFiniteSet(Delegators \X Validators)
  BY FS_Product
<1>3. IsFiniteSet((Delegators \X Validators) \X Heights)
  BY <1>1, <1>2, FS_Product
<1>4. [p \in (Delegators \X Validators) \X Heights |-> <<p[1][1], p[1][2], p[2]>>]
        \in Surjection((Delegators \X Validators) \X Heights, DelegationIds)
  <2>1. ASSUME NEW id \in DelegationIds
        PROVE  \E p \in (Delegators \X Validators) \X Heights :
                 id = <<p[1][1], p[1][2], p[2]>>
    <3>1. <<<<id[1], id[2]>>, id[3]>> \in (Delegators \X Validators) \X Heights
      BY DEF DelegationIds
    <3> QED
      BY <3>1 DEF DelegationIds
  <2> QED
    BY <2>1 DEF Surjection, DelegationIds
<1>5. IsFiniteSet(DelegationIds)
  BY <1>3, <1>4, FS_Surjection
<1> QED
  BY <1>5, FS_Subset

\* In a well-typed state every record's amount is a natural.
LEMMA AmountsTyped ==
  ASSUME TypeOK
  PROVE  \A id \in DelegationIds : del[id].amount \in Nat
BY DEF TypeOK, DelegationRec

\* In a well-typed state, the records bonded to a validator are finitely
\* many and their count and total are naturals.
LEMMA BondedFacts ==
  ASSUME TypeOK, NEW v
  PROVE  /\ IsFiniteSet(BondedTo(v))
         /\ \A id \in BondedTo(v) : del[id].amount \in Nat
         /\ Cardinality(BondedTo(v)) \in Nat
         /\ AmountOf(BondedTo(v)) \in Nat
<1>1. IsFiniteSet(BondedTo(v))
  BY IdsFinite DEF BondedTo
<1>2. \A id \in BondedTo(v) : del[id].amount \in Nat
  BY AmountsTyped DEF BondedTo
<1>3. Cardinality(BondedTo(v)) \in Nat
  BY <1>1, FS_CardinalityType
<1>4. AmountOf(BondedTo(v)) \in Nat
  BY <1>1, <1>2, AmountNat DEF AmountOf
<1> QED
  BY <1>1, <1>2, <1>3, <1>4

-----------------------------------------------------------------------------
(* The steps that leave the aggregates alone.                              *)

\* No validator's aggregates or registration change.
ValFrame ==
  \A v \in Validators :
    /\ val'[v].totalDelegated = val[v].totalDelegated
    /\ val'[v].delegatorCount = val[v].delegatorCount
    /\ Registered(v)' = Registered(v)

\* No record changes its amount, or whether it exists or is bonded.
DelFrame ==
  \A id \in DelegationIds :
    /\ del'[id].amount = del[id].amount
    /\ (del'[id].status \in {"Pending", "Active"}
          <=> del[id].status \in {"Pending", "Active"})
    /\ (del'[id].status = "None" <=> del[id].status = "None")

\* No ProcessDelegation is waiting for AddDelegation, before or after, or
\* the ledger operation is unchanged.
OpFrame ==
  \/ dlOp' = dlOp
  \/ dlOp.kind # "add" /\ dlOp'.kind # "add"

\* A step that keeps the three frames keeps the aggregate invariant.
LEMMA AggFrame ==
  AggregatesInv /\ TypeOK' /\ ValFrame /\ DelFrame /\ OpFrame => AggregatesInv'
<1> SUFFICES ASSUME AggregatesInv, TypeOK', ValFrame, DelFrame, OpFrame
             PROVE  AggregatesInv'
  OBVIOUS
<1>1. (dlOp.kind = "add" => Registered(dlOp.validator))'
  BY DEF AggregatesInv, OpFrame, ValFrame, TypeOK
<1>2. ASSUME NEW v \in Validators PROVE AggregateInv(v)'
  <2>1. BondedTo(v)' = BondedTo(v)
    BY DEF DelFrame, BondedTo
  <2>2. AmountIn(del', BondedTo(v)) = AmountIn(del, BondedTo(v))
    <3>1. \A id \in BondedTo(v) : del'[id].amount = del[id].amount
      BY DEF DelFrame, BondedTo
    <3> QED
      BY <3>1, AmountFrame
  <2>3. AmountOf(BondedTo(v))' = AmountOf(BondedTo(v))
    BY <2>1, <2>2 DEF AmountOf
  <2>4. /\ AddingTo(v)' = AddingTo(v)
        /\ AddingTo(v) => dlOp'.amount = dlOp.amount
    BY DEF OpFrame, AddingTo
  <2>5. (~Registered(v) =>
          \A id \in DelegationIds : ValidatorOf(id) = v => del[id].status = "None")'
    BY DEF AggregatesInv, AggregateInv, ValFrame, DelFrame
  <2> QED
    BY <2>1, <2>3, <2>4, <2>5 DEF AggregatesInv, AggregateInv, ValFrame
<1> QED
  BY <1>1, <1>2 DEF AggregatesInv

\* The initial state: no validator, no record, no operation in flight.
LEMMA AggInit == Init => AggregatesInv
<1> SUFFICES ASSUME Init PROVE AggregatesInv
  OBVIOUS
<1>1. TypeOK
  BY TypeInit
<1>2. ASSUME NEW v \in Validators PROVE AggregateInv(v)
  <2>1. BondedTo(v) = {}
    BY DEF Init, BondedTo, NoDelegation
  <2>2. AmountOf(BondedTo(v)) = 0 /\ Cardinality(BondedTo(v)) = 0
    BY <2>1, AmountEmpty, FS_EmptySet DEF AmountOf
  <2> QED
    BY <2>2 DEF AggregateInv, Init, NoValidator, NoDelegation, IdleOp, AddingTo,
               Registered
<1> QED
  BY <1>1, <1>2 DEF AggregatesInv, Init, IdleOp

-----------------------------------------------------------------------------
(* The steps that move the aggregates.                                     *)

\* RegisterValidator starts a validator with zero aggregates; it had no
\* record, so nothing is bonded to it.
LEMMA AggRegister ==
  ASSUME AggregatesInv, TypeOK', NEW v \in Validators, NEW s \in StakeAmounts,
         NEW fee \in FeeRates, RegisterValidator(v, s, fee)
  PROVE  AggregatesInv'
<1>1. BondedTo(v) = {}
  BY DEF AggregatesInv, AggregateInv, RegisterValidator, BondedTo
<1>2. AmountOf(BondedTo(v)) = 0 /\ Cardinality(BondedTo(v)) = 0
  BY <1>1, AmountEmpty, FS_EmptySet DEF AmountOf
<1>3. ~AddingTo(v) /\ ~AddingTo(v)'
  BY DEF AggregatesInv, AddingTo, RegisterValidator
<1>0. ASSUME NEW u \in Validators
      PROVE  /\ BondedTo(u)' = BondedTo(u)
             /\ AmountOf(BondedTo(u))' = AmountOf(BondedTo(u))
  BY DEF RegisterValidator, BondedTo, AmountOf
<1>4. AggregateInv(v)'
  <2>1. val'[v].delegatorCount = 0 /\ val'[v].totalDelegated = 0
        /\ Registered(v)'
    BY DEF RegisterValidator, NoValidator, Registered, TypeOK
  <2> QED
    BY <1>0, <1>2, <1>3, <2>1 DEF AggregateInv
<1>5. ASSUME NEW w \in Validators, w # v PROVE AggregateInv(w)'
  <2>1. val'[w] = val[w] /\ del' = del /\ dlOp' = dlOp
    BY <1>5 DEF RegisterValidator, TypeOK
  <2>2. AggregateInv(w)
    BY DEF AggregatesInv
  <2> QED
    BY <1>0, <2>1, <2>2 DEF AggregateInv, AddingTo, Registered
<1>6. (dlOp.kind = "add" => Registered(dlOp.validator))'
  BY DEF AggregatesInv, RegisterValidator, Registered, TypeOK
<1> QED
  BY <1>4, <1>5, <1>6 DEF AggregatesInv

\* ProcessDelegation bonds a new record to v before AddDelegation counts it.
LEMMA AggDelegate ==
  ASSUME AggregatesInv, TypeOK', NEW d \in Delegators, NEW v \in Validators,
         NEW x \in DelegationAmounts, ProcessDelegation(d, v, x)
  PROVE  AggregatesInv'
<1> DEFINE id0 == <<d, v, chainHeight>>
<1>0. /\ TypeOK /\ id0 \in DelegationIds /\ del[id0].status = "None"
      /\ del'[id0].status = "Pending" /\ del'[id0].amount = x
      /\ \A j \in DelegationIds \ {id0} : del'[j] = del[j]
      /\ dlOp'.kind = "add" /\ dlOp'.validator = v /\ dlOp'.amount = x
      /\ DlIdle /\ val' = val /\ val[v].status = "Active"
  BY DEF AggregatesInv, ProcessDelegation, TypeOK, DelegationIds, Heights,
         NoDelegation, IdleOp, DelegationRec
<1>1. (dlOp.kind = "add" => Registered(dlOp.validator))'
  BY <1>0 DEF Registered
<1>2. AggregateInv(v)'
  <2>1. BondedTo(v)' = BondedTo(v) \cup {id0} /\ id0 \notin BondedTo(v)
    BY <1>0 DEF BondedTo, ValidatorOf
  <2>2. IsFiniteSet(BondedTo(v))
    BY IdsFinite DEF BondedTo
  <2>3. Cardinality(BondedTo(v)') = Cardinality(BondedTo(v)) + 1
    BY <2>1, <2>2, FS_AddElement
  <2>4. AmountIn(del', BondedTo(v) \cup {id0})
          = AmountIn(del', BondedTo(v)) + x
    <3>1. \A y \in BondedTo(v) \cup {id0} : del'[y].amount \in Nat
      BY <1>0, AmountsTyped DEF BondedTo, TypeOK, DelegationRec
    <3> QED
      BY <2>1, <2>2, <3>1, <1>0, AmountAdd
  <2>5. AmountIn(del', BondedTo(v)) = AmountIn(del, BondedTo(v))
    BY <1>0, <2>1, AmountFrame DEF BondedTo
  <2>6. ~AddingTo(v) /\ AddingTo(v)'
    BY <1>0 DEF AddingTo, DlIdle
  <2>7. AggregateInv(v)
    BY DEF AggregatesInv
  <2>8. AmountOf(BondedTo(v))' = AmountOf(BondedTo(v)) + x
    BY <2>1, <2>4, <2>5 DEF AmountOf
  <2>9. /\ AmountOf(BondedTo(v)) \in Nat /\ val[v].totalDelegated \in Int
        /\ x \in Nat /\ dlOp'.amount = x
        /\ val[v].delegatorCount \in Int /\ Cardinality(BondedTo(v)) \in Nat
    <3>1. AmountOf(BondedTo(v)) \in Nat /\ Cardinality(BondedTo(v)) \in Nat
      BY <1>0, BondedFacts
    <3> QED
      BY <1>0, <3>1 DEF TypeOK, ValidatorRec
  <2>10. Registered(v)' /\ val'[v] = val[v]
    BY <1>0 DEF Registered
  <2>11. val'[v].delegatorCount + 1 = Cardinality(BondedTo(v)')
    BY <2>3, <2>6, <2>7, <2>9, <2>10 DEF AggregateInv
  <2>12. val'[v].totalDelegated + x >= AmountOf(BondedTo(v))'
    BY <2>6, <2>7, <2>8, <2>9, <2>10 DEF AggregateInv
  <2> QED
    BY <2>6, <2>9, <2>10, <2>11, <2>12 DEF AggregateInv
<1>3. ASSUME NEW w \in Validators, w # v PROVE AggregateInv(w)'
  <2>1. BondedTo(w)' = BondedTo(w)
    BY <1>0, <1>3 DEF BondedTo, ValidatorOf
  <2>2. AmountIn(del', BondedTo(w)) = AmountIn(del, BondedTo(w))
    BY <1>0, <1>3, AmountFrame DEF BondedTo, ValidatorOf
  <2>3. ~AddingTo(w) /\ ~AddingTo(w)'
    BY <1>0, <1>3 DEF AddingTo, DlIdle
  <2>4. (~Registered(w) =>
          \A id \in DelegationIds : ValidatorOf(id) = w => del[id].status = "None")'
    BY <1>0, <1>3 DEF AggregatesInv, AggregateInv, Registered, ValidatorOf
  <2> QED
    BY <1>0, <2>1, <2>2, <2>3, <2>4 DEF AggregatesInv, AggregateInv, AmountOf
<1> QED
  BY <1>1, <1>2, <1>3 DEF AggregatesInv

\* DelegateAdd: AddDelegation counts the record ProcessDelegation bonded.
LEMMA AggAdd ==
  ASSUME AggregatesInv, TypeOK', DelegateAdd
  PROVE  AggregatesInv'
<1>a. PICK w \in Validators : w = dlOp.validator
  BY DEF AggregatesInv, TypeOK, DelegateAdd
<1>b. PICK x \in Nat : x = dlOp.amount
  BY DEF AggregatesInv, TypeOK, DlOpRec
<1>0. /\ TypeOK /\ w \in Validators /\ Registered(w) /\ x \in Nat
      /\ val'[w] = [val[w] EXCEPT !.totalDelegated = @ + x,
                                  !.delegatorCount = @ + 1]
      /\ \A u \in Validators \ {w} : val'[u] = val[u]
      /\ del' = del /\ dlOp' = IdleOp
  BY <1>a, <1>b DEF AggregatesInv, DelegateAdd, AddDelegation, TypeOK, Registered
<1>1. ASSUME NEW u \in Validators
      PROVE  /\ BondedTo(u)' = BondedTo(u)
             /\ AmountOf(BondedTo(u))' = AmountOf(BondedTo(u))
             /\ ~AddingTo(u)'
             /\ Registered(u)' = Registered(u)
             /\ AggregateInv(u)
  <2>1. BondedTo(u)' = BondedTo(u) /\ AmountOf(BondedTo(u))' = AmountOf(BondedTo(u))
    BY <1>0 DEF BondedTo, AmountOf
  <2>2. ~AddingTo(u)'
    BY <1>0 DEF AddingTo, IdleOp
  <2>3. val'[u].status = val[u].status
    <3>1. CASE u = w
      <4>1. val[w] \in ValidatorRec
        BY <1>0 DEF TypeOK
      <4> QED
        BY <1>0, <3>1, <4>1 DEF ValidatorRec
    <3>2. CASE u # w
      BY <1>0, <3>2
    <3> QED
      BY <3>1, <3>2
  <2>4. AggregateInv(u)
    BY DEF AggregatesInv
  <2> QED
    BY <2>1, <2>2, <2>3, <2>4 DEF Registered
<1>2. AggregateInv(w)'
  <2>1. AddingTo(w)
    BY <1>a DEF DelegateAdd, AddingTo
  <2>2. /\ val[w].totalDelegated \in Int /\ val[w].delegatorCount \in Int
        /\ val'[w].totalDelegated = val[w].totalDelegated + x
        /\ val'[w].delegatorCount = val[w].delegatorCount + 1
    BY <1>0 DEF TypeOK, ValidatorRec
  <2>3. /\ BondedTo(w)' = BondedTo(w)
        /\ AmountOf(BondedTo(w))' = AmountOf(BondedTo(w))
        /\ ~AddingTo(w)'
        /\ Registered(w)' /\ Registered(w)
        /\ AggregateInv(w)
    BY <1>0, <1>1
  <2>4. Cardinality(BondedTo(w)) \in Nat /\ AmountOf(BondedTo(w)) \in Nat
    BY <1>0, BondedFacts
  <2>5. /\ val[w].delegatorCount + 1 = Cardinality(BondedTo(w))
        /\ val[w].totalDelegated + x >= AmountOf(BondedTo(w))
    BY <1>b, <2>1, <2>3 DEF AggregateInv
  <2>6. /\ val'[w].delegatorCount = Cardinality(BondedTo(w)')
        /\ val'[w].totalDelegated >= AmountOf(BondedTo(w))'
    BY <1>0, <2>2, <2>3, <2>4, <2>5
  <2>7. val'[w].delegatorCount \in Int /\ val'[w].totalDelegated \in Int
    BY DEF TypeOK, ValidatorRec
  <2>8. Cardinality(BondedTo(w)') \in Nat /\ AmountOf(BondedTo(w))' \in Nat
    BY <2>3, <2>4
  <2> QED
    BY <2>3, <2>6, <2>7, <2>8 DEF AggregateInv
<1>3. ASSUME NEW u \in Validators, u # w PROVE AggregateInv(u)'
  <2>1. ~AddingTo(u)
    BY <1>a, <1>3 DEF AddingTo
  <2> QED
    BY <1>0, <1>1, <1>3, <2>1 DEF AggregateInv
<1>4. (dlOp.kind = "add" => Registered(dlOp.validator))'
  BY <1>0 DEF IdleOp
<1> QED
  BY <1>2, <1>3, <1>4 DEF AggregatesInv

\* UndelegateStep: the next Active record of the delegator leaves the
\* bonded set and RemoveDelegation takes at most its amount off, which the
\* total covers, so the call is never refused.
LEMMA AggUndelegate ==
  ASSUME AggregatesInv, TypeOK', UndelegateStep
  PROVE  AggregatesInv'
<1>a. PICK w \in Validators : w = dlOp.validator
  BY DEF AggregatesInv, TypeOK, UndelegateStep
<1>1. PICK id \in DelegationIds :
        /\ IsNextActive(id)
        /\ del' = [del EXCEPT ![id].status = "Unbonding", ![id].unbondStart = dlHeight]
        /\ val' = RemoveDelegation(val, w, ToUndelegate(del[id].amount))
        /\ dlOp' = IF RemainingAfter(del[id].amount) = 0 THEN IdleOp
                   ELSE [dlOp EXCEPT !.remaining = RemainingAfter(del[id].amount)]
  BY <1>a DEF UndelegateStep
<1> DEFINE a == del[id].amount
           t == ToUndelegate(a)
<1>2. /\ TypeOK /\ w \in Validators /\ dlOp.kind = "undelegate"
      /\ ValidatorOf(id) = w /\ del[id].status = "Active"
      /\ id \in BondedTo(w)
      /\ a \in Nat /\ t \in 0..a
  BY <1>a, <1>1 DEF AggregatesInv, UndelegateStep, TypeOK, IsNextActive, ActiveOf,
              BondedTo, DelegationRec, DlOpRec, ToUndelegate
<1>3. Registered(w)
  BY <1>2 DEF AggregatesInv, AggregateInv
<1>4. /\ AmountOf(BondedTo(w)) = AmountIn(del, BondedTo(w) \ {id}) + a
      /\ AmountIn(del, BondedTo(w) \ {id}) \in Nat
      /\ Cardinality(BondedTo(w) \ {id}) = Cardinality(BondedTo(w)) - 1
      /\ Cardinality(BondedTo(w)) \in Nat
  <2>1. IsFiniteSet(BondedTo(w)) /\ \A y \in BondedTo(w) : del[y].amount \in Nat
        /\ Cardinality(BondedTo(w)) \in Nat
    BY <1>2, BondedFacts
  <2>2. IsFiniteSet(BondedTo(w) \ {id})
    BY <2>1, FS_RemoveElement
  <2> QED
    BY <1>2, <2>1, <2>2, AmountRemove, AmountNat, FS_RemoveElement DEF AmountOf
<1>5. /\ val[w].totalDelegated \in Int /\ val[w].delegatorCount \in Int
      /\ val[w].totalDelegated >= AmountOf(BondedTo(w))
      /\ val[w].delegatorCount = Cardinality(BondedTo(w))
  BY <1>2 DEF AggregatesInv, AggregateInv, AddingTo, TypeOK, ValidatorRec
<1>6. /\ val'[w].totalDelegated = val[w].totalDelegated - t
      /\ val'[w].delegatorCount = val[w].delegatorCount - 1
      /\ Registered(w)'
      /\ \A u \in Validators \ {w} : val'[u] = val[u]
  <2>1. t <= val[w].totalDelegated /\ val[w].delegatorCount > 0
    <3>1. Cardinality(BondedTo(w)) # 0
      BY <1>2, BondedFacts, FS_EmptySet
    <3> QED
      BY <1>2, <1>4, <1>5, <3>1
  <2>2. val' = [val EXCEPT ![w].totalDelegated = @ - t,
                           ![w].delegatorCount = IF @ > 0 THEN @ - 1 ELSE @]
    BY <1>1, <1>2, <1>3, <1>5, <2>1 DEF RemoveDelegation, Registered, t, a
  <2>3. val[w] \in ValidatorRec /\ val \in [Validators -> ValidatorRec]
    BY <1>2 DEF TypeOK
  <2> QED
    BY <2>1, <2>2, <2>3, <1>3 DEF ValidatorRec, Registered
<1>7. ~AddingTo(w) /\ \A u \in Validators : ~AddingTo(u)'
  BY <1>a, <1>1, <1>2 DEF AddingTo, IdleOp
<1>8. /\ BondedTo(w)' = BondedTo(w) \ {id}
      /\ \A u \in Validators \ {w} : BondedTo(u)' = BondedTo(u)
  BY <1>1, <1>2 DEF BondedTo, TypeOK
<1>9. \A u \in Validators :
        AmountIn(del', BondedTo(u) \ {id}) = AmountIn(del, BondedTo(u) \ {id})
  <2>1. ASSUME NEW u \in Validators
        PROVE  AmountIn(del', BondedTo(u) \ {id}) = AmountIn(del, BondedTo(u) \ {id})
    <3>1. \A y \in BondedTo(u) \ {id} : del'[y].amount = del[y].amount
      BY <1>1, <1>2 DEF TypeOK, BondedTo
    <3> QED
      BY <3>1, AmountFrame
  <2> QED
    BY <2>1
<1>10. AggregateInv(w)'
  <2>1. AmountOf(BondedTo(w))' = AmountIn(del, BondedTo(w) \ {id})
    BY <1>8, <1>9 DEF AmountOf
  <2>2. val'[w].delegatorCount = Cardinality(BondedTo(w)')
    BY <1>4, <1>5, <1>6, <1>8
  <2>3. val'[w].totalDelegated >= AmountOf(BondedTo(w))'
    BY <1>2, <1>4, <1>5, <1>6, <2>1
  <2>4. val'[w].delegatorCount \in Int /\ val'[w].totalDelegated \in Int
    BY DEF TypeOK, ValidatorRec
  <2>5. AmountOf(BondedTo(w))' \in Nat
    BY <1>4, <2>1
  <2> QED
    BY <1>6, <1>7, <2>2, <2>3, <2>4, <2>5 DEF AggregateInv
<1>11. ASSUME NEW u \in Validators, u # w PROVE AggregateInv(u)'
  <2>1. id \notin BondedTo(u)
    BY <1>2, <1>11 DEF BondedTo
  <2>2. AmountOf(BondedTo(u))' = AmountOf(BondedTo(u))
    <3>1. BondedTo(u) \ {id} = BondedTo(u)
      BY <2>1
    <3> QED
      BY <1>8, <1>9, <1>11, <3>1 DEF AmountOf
  <2>3. Registered(u)' = Registered(u)
    BY <1>6, <1>11 DEF Registered
  <2>4. (\A j \in DelegationIds : ValidatorOf(j) = u => del[j].status = "None")
          => (\A j \in DelegationIds : ValidatorOf(j) = u => del'[j].status = "None")
    BY <1>1, <1>2, <1>11 DEF TypeOK
  <2>5. AggregateInv(u) /\ ~AddingTo(u)
    BY DEF AggregatesInv, AddingTo, UndelegateStep
  <2> QED
    BY <1>6, <1>7, <1>8, <1>11, <2>2, <2>3, <2>4, <2>5 DEF AggregateInv
<1>12. (dlOp.kind = "add" => Registered(dlOp.validator))'
  BY <1>1, <1>2 DEF IdleOp
<1> QED
  BY <1>10, <1>11, <1>12 DEF AggregatesInv

\* Every step keeps the aggregate invariant: the actions that do not touch
\* the aggregates, the bonded set or a pending AddDelegation keep the three
\* frames; the four that do are the lemmas above.
LEMMA AggNext == AggregatesInv /\ [Next]_vars => AggregatesInv'
<1> SUFFICES ASSUME AggregatesInv, [Next]_vars PROVE AggregatesInv'
  OBVIOUS
<1>0. TypeOK /\ TypeOK'
  BY TypeNext DEF AggregatesInv
<1> USE <1>0
<1>1. CASE NewBlock
  <2>1. ValFrame /\ DelFrame /\ OpFrame
    BY <1>1 DEF NewBlock, ValFrame, DelFrame, OpFrame, Registered
  <2> QED
    BY <2>1, AggFrame
<1>2. CASE VRProcessBlock
  <2>1. ValFrame
    BY <1>2 DEF VRProcessBlock, ValFrame, Registered, TypeOK, ValidatorRec
  <2>2. DelFrame /\ OpFrame
    BY <1>2 DEF VRProcessBlock, DelFrame, OpFrame
  <2> QED
    BY <2>1, <2>2, AggFrame
<1>3. CASE DLProcessBlock
  <2>1. DelFrame
    BY <1>3 DEF DLProcessBlock, DelFrame, TypeOK, DelegationRec
  <2>2. ValFrame /\ OpFrame
    BY <1>3 DEF DLProcessBlock, ValFrame, OpFrame, Registered
  <2> QED
    BY <2>1, <2>2, AggFrame
<1>4. ASSUME NEW v \in Validators, NEW s \in StakeAmounts, NEW f \in FeeRates,
             RegisterValidator(v, s, f)
      PROVE  AggregatesInv'
  BY <1>4, AggRegister
<1>5. ASSUME NEW v \in Validators, NEW f \in FeeRates, UpdateFee(v, f)
      PROVE  AggregatesInv'
  <2>1. ValFrame
    BY <1>5 DEF UpdateFee, ValFrame, Registered, TypeOK, ValidatorRec
  <2>2. DelFrame /\ OpFrame
    BY <1>5 DEF UpdateFee, DelFrame, OpFrame
  <2> QED
    BY <2>1, <2>2, AggFrame
<1>6. ASSUME NEW v \in Validators, Deactivate(v) PROVE AggregatesInv'
  <2>1. ValFrame
    BY <1>6 DEF Deactivate, ValFrame, Registered, TypeOK, ValidatorRec
  <2>2. DelFrame /\ OpFrame
    BY <1>6 DEF Deactivate, DelFrame, OpFrame
  <2> QED
    BY <2>1, <2>2, AggFrame
<1>7. ASSUME NEW v \in Validators, Reactivate(v) PROVE AggregatesInv'
  <2>1. ValFrame
    BY <1>7 DEF Reactivate, ValFrame, Registered, TypeOK, ValidatorRec
  <2>2. DelFrame /\ OpFrame
    BY <1>7 DEF Reactivate, DelFrame, OpFrame
  <2> QED
    BY <2>1, <2>2, AggFrame
<1>8. ASSUME NEW v \in Validators, NEW x \in StakeDeltas, IncreaseStake(v, x)
      PROVE  AggregatesInv'
  <2>1. ValFrame
    BY <1>8 DEF IncreaseStake, ValFrame, Registered, TypeOK, ValidatorRec
  <2>2. DelFrame /\ OpFrame
    BY <1>8 DEF IncreaseStake, DelFrame, OpFrame
  <2> QED
    BY <2>1, <2>2, AggFrame
<1>9. ASSUME NEW v \in Validators, NEW x \in StakeDeltas, DecreaseStake(v, x)
      PROVE  AggregatesInv'
  <2>1. ValFrame
    BY <1>9 DEF DecreaseStake, ValFrame, Registered, TypeOK, ValidatorRec
  <2>2. DelFrame /\ OpFrame
    BY <1>9 DEF DecreaseStake, DelFrame, OpFrame
  <2> QED
    BY <2>1, <2>2, AggFrame
<1>10. ASSUME NEW v \in Validators, NEW s \in DirectedStatuses,
              SetValidatorStatus(v, s)
       PROVE  AggregatesInv'
  <2>1. s # "None"
    BY ConstantsAssumption
  <2>2. ValFrame
    BY <1>10, <2>1 DEF SetValidatorStatus, ValFrame, Registered, TypeOK, ValidatorRec
  <2>3. DelFrame /\ OpFrame
    BY <1>10 DEF SetValidatorStatus, DelFrame, OpFrame
  <2> QED
    BY <2>2, <2>3, AggFrame
<1>11. ASSUME NEW v \in Validators, NEW b \in JailTerms, JailValidator(v, b)
       PROVE  AggregatesInv'
  <2>1. ValFrame
    BY <1>11 DEF JailValidator, ValFrame, Registered, TypeOK, ValidatorRec
  <2>2. DelFrame /\ OpFrame
    BY <1>11 DEF JailValidator, DelFrame, OpFrame
  <2> QED
    BY <2>1, <2>2, AggFrame
<1>12. ASSUME NEW v \in Validators, UnjailValidator(v) PROVE AggregatesInv'
  <2>1. ValFrame
    BY <1>12 DEF UnjailValidator, ValFrame, Registered, TypeOK, ValidatorRec
  <2>2. DelFrame /\ OpFrame
    BY <1>12 DEF UnjailValidator, DelFrame, OpFrame
  <2> QED
    BY <2>1, <2>2, AggFrame
<1>13. ASSUME NEW v \in Validators, NEW r \in RewardAmounts,
              DistributeBlockReward(v, r)
       PROVE  AggregatesInv'
  <2>1. ValFrame /\ DelFrame /\ OpFrame
    BY <1>13 DEF DistributeBlockReward, ValFrame, DelFrame, OpFrame, Registered,
                 DlIdle, IdleOp
  <2> QED
    BY <2>1, AggFrame
<1>14. ASSUME NEW d \in Delegators, NEW v \in Validators,
              NEW x \in DelegationAmounts, ProcessDelegation(d, v, x)
       PROVE  AggregatesInv'
  BY <1>14, AggDelegate
<1>15. ASSUME NEW d \in Delegators, NEW v \in Validators,
              NEW x \in UndelegationAmounts, ProcessUndelegation(d, v, x)
       PROVE  AggregatesInv'
  <2>1. ValFrame /\ DelFrame /\ OpFrame
    BY <1>15 DEF ProcessUndelegation, ValFrame, DelFrame, OpFrame, Registered,
                 DlIdle, IdleOp
  <2> QED
    BY <2>1, AggFrame
<1>16. ASSUME NEW d \in Delegators, NEW v \in Validators \cup {NoActor},
              ProcessRewardClaim(d, v)
       PROVE  AggregatesInv'
  <2>1. DelFrame
    BY <1>16 DEF ProcessRewardClaim, DelFrame, TypeOK, DelegationRec
  <2>2. ValFrame /\ OpFrame
    BY <1>16 DEF ProcessRewardClaim, ValFrame, OpFrame, Registered
  <2> QED
    BY <2>1, <2>2, AggFrame
<1>17. ASSUME NEW id \in DelegationIds, NEW r \in RewardAmounts, AddRewards(id, r)
       PROVE  AggregatesInv'
  <2>1. DelFrame
    BY <1>17 DEF AddRewards, DelFrame, TypeOK, DelegationRec
  <2>2. ValFrame /\ OpFrame
    BY <1>17 DEF AddRewards, ValFrame, OpFrame, Registered
  <2> QED
    BY <2>1, <2>2, AggFrame
<1>18. CASE DelegateAdd
  BY <1>18, AggAdd
<1>19. CASE UndelegateStep
  BY <1>19, AggUndelegate
<1>20. CASE UndelegateEnd
  <2>1. ValFrame /\ DelFrame /\ OpFrame
    BY <1>20 DEF UndelegateEnd, ValFrame, DelFrame, OpFrame, Registered, IdleOp
  <2> QED
    BY <2>1, AggFrame
<1>21. CASE UNCHANGED vars
  <2>1. ValFrame /\ DelFrame /\ OpFrame
    BY <1>21 DEF vars, ValFrame, DelFrame, OpFrame, Registered
  <2> QED
    BY <2>1, AggFrame
<1> QED
  BY <1>1, <1>2, <1>3, <1>4, <1>5, <1>6, <1>7, <1>8, <1>9, <1>10, <1>11,
     <1>12, <1>13, <1>14, <1>15, <1>16, <1>17, <1>18, <1>19, <1>20, <1>21
  DEF Next

-----------------------------------------------------------------------------
\* The aggregate invariant holds in every reachable state.
THEOREM AggregatesCorrect == Spec => []AggregatesInv
BY AggInit, AggNext, PTL DEF Spec

\* With no ledger operation half done, nothing is being added.
LEMMA QuiescentNotAdding ==
  ASSUME DlQuiescent, NEW v PROVE ~AddingTo(v)
BY DEF DlQuiescent, AddingTo

\* Whenever the ledger is quiescent, every validator's totalDelegated is at
\* least the sum of the amounts of its Pending and Active delegations
\* (ValidatorDB::RemoveDelegation, called by ProcessUndelegation, is then
\* never refused for lack of delegated stake).
THEOREM DelegatedCoversBondedCorrect == Spec => []DelegatedCoversBonded
<1>1. AggregatesInv => DelegatedCoversBonded
  <2> SUFFICES ASSUME AggregatesInv, DlQuiescent, NEW v \in Validators
               PROVE  val[v].totalDelegated >= AmountOf(BondedTo(v))
    BY DEF DelegatedCoversBonded
  <2>1. ~AddingTo(v)
    BY QuiescentNotAdding
  <2>2. TypeOK /\ AggregateInv(v)
    BY DEF AggregatesInv
  <2>3. val[v].totalDelegated \in Int /\ AmountOf(BondedTo(v)) \in Nat
    BY <2>2, BondedFacts DEF TypeOK, ValidatorRec
  <2> QED
    BY <2>1, <2>2, <2>3 DEF AggregateInv
<1> QED
  BY <1>1, AggregatesCorrect, PTL

\* Whenever the ledger is quiescent, every validator's delegatorCount is
\* the number of its Pending and Active delegation records: AddDelegation
\* and RemoveDelegation are paired one to one.
THEOREM DelegatorCountCorrect == Spec => []DelegatorCountMatchesBonded
<1>1. AggregatesInv => DelegatorCountMatchesBonded
  <2> SUFFICES ASSUME AggregatesInv, DlQuiescent, NEW v \in Validators
               PROVE  val[v].delegatorCount = Cardinality(BondedTo(v))
    BY DEF DelegatorCountMatchesBonded
  <2>1. ~AddingTo(v)
    BY QuiescentNotAdding
  <2>2. TypeOK /\ AggregateInv(v)
    BY DEF AggregatesInv
  <2>3. val[v].delegatorCount \in Int
    BY <2>2 DEF TypeOK, ValidatorRec
  <2> QED
    BY <2>1, <2>2, <2>3 DEF AggregateInv
<1> QED
  BY <1>1, AggregatesCorrect, PTL

=============================================================================
