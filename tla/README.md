# TLA+ models of the WATTx validator staking and trust layers

This directory holds TLA+ models of the validator staking code and the heartbeat / trust-score code of WATTx. It has:

- TLC configurations that model-check the models on small instances;
- TLAPS proofs that hold for every value of the constants.

## The system

The staking subsystem has two stores, each guarded by its own mutex.

- **Validator registry**: `ValidatorDB` (`src/unnamed/part_007` declares it, `src/unnamed/part_008` implements it). It is guarded by `cs_validators`. Each validator has:
  - an entry with a status (Pending, Active, Inactive, Jailed, Unbonding);
  - its self stake, pool fee, registration height, `lastActiveHeight` and `jailReleaseHeight`;
  - two aggregates the ledger maintains, `totalDelegated` and `delegatorCount`.

  Its operations are:
  - `RegisterValidator`;
  - `ProcessUpdate`, which covers FEE, NAME, DEACTIVATE, REACTIVATE, INCREASE_STAKE and DECREASE_STAKE;
  - `SetValidatorStatus`, `JailValidator` and `UnjailValidator`;
  - `AddDelegation` and `RemoveDelegation`, which update the aggregates;
  - `ProcessBlock`, which moves an Unbonding validator to Inactive.
- **Delegation ledger**: `DelegationDB` (`src/src/validators/delegation.h` declares it, `src/unnamed/part_009` implements it). It is guarded by `cs_delegations`. Each delegation record is keyed by (delegator, validator, height) and has a status (Pending, Active, Unbonding, Withdrawn), an amount, an unbonding start and pending rewards. Its operations are:
  - `ProcessDelegation` and `ProcessUndelegation`;
  - `ProcessRewardClaim`, `AddRewards` and `DistributeBlockReward`;
  - `ProcessBlock`: Pending becomes Active after `DELEGATION_MATURITY` blocks, and Unbonding becomes Withdrawn after `DELEGATION_UNBONDING_PERIOD` blocks;
  - the views `GetTotalDelegationForValidator` and `GetDelegatorCountForValidator`.

**How they interact.** The ledger calls into the registry while it holds `cs_delegations`:
- `ProcessDelegation` calls `GetValidator` to check that the validator is Active, then `AddDelegation`.
- `ProcessUndelegation` calls `RemoveDelegation` once per record it releases.

The registry never calls the ledger. Both stores receive `ProcessBlock` from the block connection path, each with its own height.

**The trust layer** (`src/unnamed/part_005`) is a separate set of three managers of one node:
- `HeartbeatManager` (HM), guarded by `cs_heartbeat`. It keeps the set `m_seen_heartbeats` of heartbeat hashes it has seen (at most `MAX_SEEN_HEARTBEATS`, cleaned by `CleanupSeenHeartbeats`), broadcasts the node's own heartbeat, and handles inbound heartbeats, registrations and validator lists.
- `TrustScoreManager` (TS), with no mutex. Per validator it keeps a `ValidatorInfo`: stake, registration height, last heartbeat height, heartbeats expected and received, active flag, and check-in counters. `GetUptimePercentage` is received / expected.
- `PeerDiscoveryManager` (PD), guarded by `cs_peers`. It keeps the known validator addresses and those pending an `addnode`; it loads the known ones from `validator_peers.conf` at start and saves them at shutdown.

How they interact: HM's `ProcessHeartbeat` inserts the hash into the seen set, calls TS's `ProcessHeartbeat`, then TS's `UpdateValidatorAddress` (which calls PD) and PD's `ProcessValidatorAddress` itself, and finally `CConnman::AddNode` and `MarkPeerAdded` for a new address. `OnNewBlock` on the block thread calls TS's `UpdateHeartbeatExpectations`. The staking stores and the trust layer do not call each other.

**Other parts, not modelled.**
- The RPC wrappers in `part_003`. `setvalidatorpoolfee` is the only caller of `ProcessUpdate`.
- The Solidity contracts, the Qt widget and the deployment scripts.

## Modules

| Module | Models |
|---|---|
| `Staking.tla` | The registry and the ledger together. It has the type invariant `TypeOK`, the timing invariant `DelegationTiming` and its inductive strengthening `DelegationTimingInv`. It also has the aggregate invariants `DelegatedCoversBonded` and `DelegatorCountMatchesBonded` with their strengthening `AggregatesInv`, and the action property `DelegationLifecycle`. The sum over records, `AmountOf`, is defined here. |
| `MCStaking.tla` | The TLC harness. It defines the symmetry, the ledger's views and the properties the spec states that the code does not keep. |
| `StakingProofs.tla` | The TLAPS proofs about `Staking`: type correctness, delegation timing and the record lifecycle. |
| `StakingAggregateProofs.tla` | The TLAPS proofs of the aggregate invariants, and the lemmas on `AmountOf` they rest on. |
| `Trust.tla` | HM, TS and PD together, with restarts and crashes. It has `TypeOK`, the invariant `HeartbeatSpacing` and the refinement property `UptimeRefinement`. |
| `Uptime.tla` | The abstract uptime ledger TS promises: per validator an entry that is registered once, counts a heartbeat only an interval after the last, can be deactivated, and is forgotten as a whole at a restart. |
| `MCTrust.tla` | The TLC harness of `Trust`: the properties the spec states of the heartbeat path that the code does not keep. |
| `TrustProofs.tla` | The TLAPS proofs about `Trust`: type correctness, the refinement and the spacing invariant. |

### State in `Staking.tla`

| Variable | Code |
|---|---|
| `chainHeight` | The tip height passed to both `ProcessBlock` calls. |
| `vrHeight` | `ValidatorDB::currentHeight`. |
| `dlHeight` | `DelegationDB::currentHeight`. |
| `val` | `ValidatorDB::validators`. A status of `"None"` means the key is absent. |
| `del` | `DelegationDB::delegations`, keyed by the id tuple `GetDelegationId` hashes. |
| `dlOp` | Which ledger operation is in progress while `cs_delegations` is held across calls into the registry: `"add"`, `"undelegate"` with the remaining amount, or `"distribute"`. |
| `unbondFrom`, `jailedUntil` | History variables. They record the height at which a validator started unbonding and its last release height. Only properties read them. |

### Actions

Each action is one whole handler, or one step of a handler that releases control.

- **Registry.** Each of these is one action:
  - `RegisterValidator`;
  - the `ProcessUpdate` kinds: `UpdateFee`, `Deactivate`, `Reactivate`, `IncreaseStake` and `DecreaseStake`;
  - `SetValidatorStatus`, `JailValidator` and `UnjailValidator`;
  - `VRProcessBlock`.

  `AddDelegation` and `RemoveDelegation` are operators on the registry. The ledger actions that make those calls use them.
- **Delegation.**
  - `ProcessDelegation` checks the validator and inserts the Pending record.
  - `DelegateAdd` is the `AddDelegation` call that follows.
- **Undelegation.** `ProcessUndelegation` is a loop, modelled as three actions:
  - `ProcessUndelegation` looks the request up;
  - `UndelegateStep` handles one Active record: it marks the record Unbonding, calls `RemoveDelegation` and reduces the remaining amount;
  - `UndelegateEnd` runs when no Active record is left.

  Registry operations can interleave between the steps, as they can between the code's calls into the registry.
- **Rewards.**
  - `ProcessRewardClaim` and `AddRewards` are one action each.
  - `DistributeBlockReward` takes `cs_delegations` and then blocks forever, because it re-locks it.
- **Blocks.**
  - `DLProcessBlock` is the ledger's `ProcessBlock`.
  - `NewBlock` advances the chain.

Some code is abstracted:
- Data: names, outpoints, keys, signatures and logging.
- Amounts: they are small integers.
- Request parameters: they are drawn from small constant sets.

### State and actions in `Trust.tla`

| Variable | Code |
|---|---|
| `height` | The height `OnNewBlock` passes to TS (`TrustScoreManager::currentHeight`). |
| `ts` | `TrustScoreManager::validators`, a `ValidatorInfo` record per validator (`reg` FALSE means absent). |
| `seen`, `lastBroadcast` | `m_seen_heartbeats` (a heartbeat's hash is the tuple `Heartbeat::GetHash` covers), `m_last_heartbeat_height`. |
| `msg` | The heartbeat the message thread is processing. |
| `hmStuck`, `chainStuck` | A thread holds `cs_heartbeat` and waits for it; the block thread waits for `cs_heartbeat`. |
| `known`, `pending`, `saved`, `added` | PD's `knownValidatorPeers` and `pendingAdditions`, the file `validator_peers.conf`, the addresses passed to `AddNode`. |
| `counted`, `registeredAt` | History variables: the heartbeats TS counted, and the node's height at each registration. Only properties read them. |

Actions:
- `OnNewBlock`: `UpdateHeartbeatExpectations` (the expected count, capped by the window) and the broadcast check that needs `cs_heartbeat`.
- `ReceiveHeartbeat` hands a heartbeat to the message thread. It is any heartbeat a peer could send: any validator, claimed height, address, stamp and signer.
- `ProcessHeartbeat` is four actions, one per way out: `HMReplay` (already seen), `HMOverflow` (the insert passes `MaxSeen` and `CleanupSeenHeartbeats` self-deadlocks), `HMReject` (TS refuses) and `HMAccept` (TS counts it; the address goes to PD twice, and to `AddNode` when PD says it is new).
- `ProcessValidatorRegistration` and `ProcessValidatorList` register validators at the height the message claims.
- `UpdateStake`, `DeactivateValidator`, `RecordMissedCheckIns` and `BroadcastHeartbeat`.
- `Restart` (a clean shutdown saves `known`, then everything in memory is lost and the file is loaded) and `Crash` (no save).

## Runs

Passing runs. Both check `DelegatedCoversBonded` and `DelegatorCountMatchesBonded`. `staking_ledger` also checks `TypeOK`, `DelegationTiming` and the action property `DelegationLifecycle`.

- `staking_ledger` (`MCStaking.cfg`)
  - Instance: two delegators, one validator, heights 0..2, and undelegation amounts 0 ("all"), 1 (partial) and 3 (over-large).
  - Symmetry over the delegators. This is sound because the delegators are interchangeable model values.
- `staking_registry` (`MCStakingRegistry.cfg`)
  - Instance: one delegator, every directed status, stake deltas of -1 and +1, and a jail term.
  - This run interleaves every registry operation with the ledger: between `ProcessDelegation`'s status check and its `AddDelegation`, and between the undelegation loop's calls into the registry.
  - It checks only the aggregate properties. The registry actions never write the records or the ledger height, so `DelegationTiming` here would repeat `staking_ledger`. `TypeOK` is proved for every instance.

What the aggregate properties say. Whenever no ledger operation is half done:
- `totalDelegated` covers the amount of the Pending and Active records;
- `delegatorCount` is their number.

What `DelegationLifecycle` says. No step moves a delegation record backwards or skips a status (None, Pending, Active, Unbonding, Withdrawn). A record's amount never changes once it exists, and its unbonding start never changes once it unbonds.

Consequences of the aggregate properties:
- `RemoveDelegation` is never refused.
- The counts cannot drift, even when registry operations interleave with an undelegation.

Violation runs. Each checks one statement of the spec, and TLC finds a counterexample.

| Run | Property | Counterexample |
|---|---|---|
| `total_delegated_spec` | `RegistryMatchesLedger` (invariants 1 and 2 of spec 4.2) | Pending delegations are counted, the count is per record rather than per delegator, and partial undelegation leaves the remainder unaccounted. |
| `undelegate_all` | `UndelegateAllReleasesAll` | An amount of 0 releases only the first record. |
| `validator_unbonding` | `ValidatorUnbondingLasts` | DEACTIVATE does not set `lastActiveHeight`. |
| `jail_escape` | `JailRespected` | The path DEACTIVATE, then unbond, then REACTIVATE skips the release height. |
| `distribute_deadlock` | `PendingDelegationMatures` | The run uses `FairSpec`. After `DistributeBlockReward`, the ledger is stuck for good. With every reward share 0 (no `DistributeBlockReward`), the same property holds on this instance. So the violation is the deadlock, not a starvation the fairness allows. |

`PROJECT.json` records each of these as a finding.

**Trust layer.** The passing run `trust_layer` (`MCTrust.cfg`) checks `TypeOK`, `HeartbeatSpacing` and the refinement `UptimeRefinement` (the property `UptimeAbs!Spec`).
- Instance: one validator (the local one), one address, no forger, one stamp, a connection manager, interval 1, window 2, stakes 0 and 1, `MaxSeen` 2, claimed heights 0..2 and block heights 0..4. About 1.2 million distinct states.
- One validator is enough because TS treats validators independently; a second one, or a second stamp, multiplies the state space past the run's time limit without a new interleaving of TS. Heights up to 4 let `RecordMissedCheckIns` fire (a gap of more than two intervals); claimed heights below, at and above the chain height let heartbeats and registrations claim the past and the future. `MaxSeen` 2 lets the seen set overflow.

Violation runs of the trust layer (one validator, heights 0..2, no local validator):

| Run | Property | Counterexample |
|---|---|---|
| `seen_before_accept` | `SeenOnlyAccepted` | A heartbeat TS rejects stays in the seen set (spec 4.4 step 3). |
| `unsigned_heartbeat` | `CountedHeartbeatsSigned` | A forged heartbeat is counted: no signature check (spec 4.4 step 2). |
| `uptime_over_100` | `UptimeAtMost100` | Honest inputs only: the constraint `HonestClaims` admits no claimed height ahead of the tip. Window 1, heights 0..3. One heartbeat per block gives a received count of 2 against an expected count capped at 1. With a window of 9 the same run passes, so the cap is the cause. |
| `heartbeat_hang` | `HeartbeatEventuallyHandled` | Under `FairSpec`, the seen set overflows and the message thread deadlocks in `CleanupSeenHeartbeats`. |

`FairSpec` of `Trust` is weakly fair to the message thread's `ProcessHeartbeat` and to `OnNewBlock`: the node's threads run them without outside input. Peers, RPC callers and restarts are not made fair.

Replay protection (a heartbeat is counted at most once) is not a property of a run: it holds twice over, through the seen set and through TS's interval check, so no single mutant of the code breaks it.

**Bounds.** Heights 0..2 (0..3 in the unbonding run) with maturity and unbonding periods of 1 (2 in the unbonding run). These are enough for:
- a record to be created, mature and unbond;
- a validator to deactivate and go Inactive.

Two delegators are enough for two records to the same validator: one per delegator, or two of one delegator at different heights. `MaxPending` bounds the reward counter.

**Fairness.** `FairSpec` puts fairness on the steps that the code runs without any external input:
- weak fairness on new blocks and on `ValidatorDB::ProcessBlock`;
- strong fairness on `DelegationDB::ProcessBlock`. It waits for `cs_delegations`, which RPC calls take and release again and again. A waiter on such a lock is not passed over forever. Weak fairness would let a loop of `ProcessUndelegation` calls starve it without any deadlock;
- weak fairness on the continuation steps of an operation that holds `cs_delegations` (`DelegateAdd`, `UndelegateStep`, `UndelegateEnd`).

Only the liveness run uses it. Requests from users are not made fair.

**Mutants.** Each property of the passing runs has a mutant of the code that TLC catches on every run that checks the property:

| Mutant | What it changes | Property that catches it |
|---|---|---|
| `RemainingAfterUncapped` | The remaining amount is not capped at 0. | `TypeOK` |
| `DLProcessBlockEarly` | Maturity comes one block early. | `DelegationTiming` |
| `UndelegateStepPartialStaysActive` | A partial undelegation keeps the record Active. | `DelegatedCoversBonded` |
| `RemoveDelegationKeepLast` | The last delegator is never uncounted. | `DelegatorCountMatchesBonded` |
| `IsNextActiveAnyStatus` | The undelegation loop drops its `status != ACTIVE` filter, so it unbonds Pending records and restarts unbondings. | `DelegationLifecycle` |
| `ExpectedAtUnguarded` (Trust) | The `blocksSinceRegistration > 0` guard is dropped, so a registration height in the future gives a negative expected count. | `TypeOK` |
| `TSAcceptsEarly` (Trust) | A heartbeat is accepted one block early. | `HeartbeatSpacing` |
| `CanRegisterAgain` (Trust) | A registered validator can register again. | `UptimeRefinement` |

## Proofs

`StakingProofs.tla` proves three theorems for every value of the constants. It assumes only `ConstantsAssumption`. That assumption types the constants and says `Validators` and `Delegators` are finite. Finiteness is justified because key ids are 160-bit hashes (`CKeyID`).

- `TypeCorrect: Spec => []TypeOK`.
  - `TypeOK` is inductive.
  - The proof has one step per action.
  - It uses small lemmas that show that an `EXCEPT` on a record's fields stays in its record set.
- `DelegationTimingCorrect: Spec => []DelegationTiming`.
  - `DelegationTiming` is not inductive by itself. A step of `DLProcessBlock` is safe only if the ledger height never runs ahead of the chain height and the records are well typed.
  - The inductive invariant `DelegationTimingInv` is `TypeOK /\ dlHeight <= chainHeight` plus the per-record timing fact `RecordTimingInv`.
  - The proof shows that `Init` implies it, that every action preserves it (one case per action), and that it implies `DelegationTiming`.
- `LifecycleCorrect: Spec => DelegationLifecycle`.
  - Under `TypeOK`, every step either leaves `del` unchanged or satisfies `RecordStep` for every record. This is shown one case per action that writes `del`.
  - Combined with `TypeCorrect` by PTL.

`StakingAggregateProofs.tla` proves that the two aggregate invariants hold for every value of the constants:
- `DelegatedCoversBondedCorrect: Spec => []DelegatedCoversBonded`;
- `DelegatorCountCorrect: Spec => []DelegatorCountMatchesBonded`.

The sum:
- `AmountOf(S)` is the cardinality of the set of (record, unit) pairs: `AmountIn(f, S) == Cardinality(UNION {{id} \X (1..f[id].amount) : id \in S})`.
- This equals the sum of the amounts, but it is not recursive. The Folds sum `MapThenSumSet` is a RECURSIVE operator, which the prover cannot use.
- Lemmas, from `FiniteSetTheorems`, give the facts the proof needs:
  - the total of a finite set is a natural;
  - adding or removing a record adds or subtracts its amount;
  - equal amounts give equal totals.

The inductive invariant:
- Neither property is inductive. Two steps are the problem:
  - between `ProcessDelegation` and `DelegateAdd` (its `AddDelegation` call), the record is bonded but not yet counted;
  - `UndelegateStep` is safe only if `RemoveDelegation` is not refused, which needs the invariant for the unquiescent state.
- The strengthening `AggregatesInv` says:
  - a record exists only for a registered validator;
  - an `"add"` in flight targets a registered validator;
  - per validator, `delegatorCount` plus one while its add is in flight equals the number of bonded records;
  - per validator, `totalDelegated` plus the amount in flight is at least their total amount.
- TLC checked `AggregatesInv` on both staking instances before it was proved.

The argument, step by step:
- Every action that touches neither the aggregates nor the bonded set nor an in-flight add keeps three frame conditions. Lemma `AggFrame` shows those preserve the invariant.
- `RegisterValidator` registers a validator with no records.
- `ProcessDelegation` adds one bonded record while the add is in flight; `DelegateAdd` then counts it.
- `UndelegateStep` removes an Active record from the bonded set.
  - `totalDelegated` is at least the total, which is at least that record's amount, which is at least the amount consumed.
  - `delegatorCount` equals the number of bonded records, which is at least 1.
  - So `RemoveDelegation` is not refused, and it decrements both aggregates.
- The theorems follow because a quiescent ledger has no add in flight.

`TrustProofs.tla` proves three theorems about `Trust` from `TrustAssumption`, which types the constants (the interval is positive).

- `TypeCorrect: Spec => []TypeOK`. `TypeOK` is inductive; there is a lemma per group of actions, and lemmas on the record updates of `ValidatorInfo`.
- `UptimeRefined: Spec => UptimeAbs!Spec`. The refinement mapping projects each `ValidatorInfo` on the fields of an `Uptime` entry. `Init` maps to `Uptime`'s `Init`; under `TypeOK` every step maps to a step of `Uptime` or a stutter:
  - `HMAccept` to `Count`, registrations to `Register`, `DeactivateValidator` and an `UpdateStake` below the minimum to `Deactivate`, `Restart` and `Crash` to `Forget`;
  - every other step, `RecordMissedCheckIns` and `OnNewBlock` included, leaves the image unchanged.
- `SpacingCorrect: Spec => []HeartbeatSpacing`. `HeartbeatSpacing` is not inductive in `Trust` by itself, but its image under the mapping is preserved by every step of `Uptime`. The proof combines the refinement step lemma with that fact, so the invariant is proved once, on the abstract ledger.

Some properties are only model-checked:
- the liveness property;
- the properties the code violates.

Liveness and `ENABLED` are beyond TLAPS.

## Not modelled

- Two shallow disagreements are recorded as hazards rather than runs, since one call shows each: INCREASE_STAKE with a negative value breaks spec 3's minimum stake, and the double `ProcessValidatorAddress` call in `HeartbeatManager::ProcessHeartbeat` leaves a discovered peer pending forever.
- In the trust layer: pool fees, trust tiers and reward multipliers, the read-only views, the check-in timestamps, `CreateRegistration` (pure), the file format of `validator_peers.conf`, and the relay to other peers (a TODO in the code). TS has no mutex; the model takes each TS call as one atomic step, which is one outcome of that data race.
- Keys and signatures: a heartbeat carries the key that signed it; a registration is taken to be validly signed, as `reg.Verify()` checks.
- In the staking model, `ProcessDelegation` records the tip height as the request height, as `delegatestake` sends it.
- `src/src/qt/tokenamountfield.h`: a Qt widget declaration followed by a unit-test suite for EVM precompiles whose implementation is not in the repository. Nothing in it has state to model. It and `delegation.h` are the only header files of the repository's source; the trust and staking implementations are in the `src/unnamed/part_*` files.
- `SetDelegationStatus`, which has no caller.
- The reward split `CalculateValidatorReward` / `CalculateDelegatorsReward`, and 64-bit overflow.
- Serialisation, the RPC layer, the contracts and the scripts.
