------------------------------- MODULE Trust -------------------------------
(***************************************************************************)
(* The trust layer of a WATTx node (src/unnamed/part_005): the heartbeat   *)
(* manager HM, which deduplicates inbound heartbeats under cs_heartbeat    *)
(* and hands them to the trust-score manager TS, which counts them toward  *)
(* a validator's uptime and hands the validator's address to the peer      *)
(* discovery manager PD, which remembers it and queues it for addnode.     *)
(*                                                                         *)
(* Keys, hashes, ports and pool fees are abstracted away: a heartbeat is  *)
(* its validator, its claimed height, its address, a stamp standing for    *)
(* its block hash and timestamp, and the key that signed it; its hash is   *)
(* the part Heartbeat::GetHash covers (everything but the signature).      *)
(***************************************************************************)
EXTENDS Integers, FiniteSets

CONSTANTS
  Validators,          \* validator ids
  Addresses,           \* well-formed validator network addresses
  NoAddress,           \* an address for which CService::IsValid is false
  Forgers,             \* keys other than the validators' own that sign heartbeats
  Stamps,              \* (block hash, timestamp) pairs a heartbeat may carry
  NoActor,             \* no validator
  LocalValidator,      \* the node's own validator id, or NoActor
  HasConnman,          \* whether HM was given a connection manager
  HeartbeatInterval,   \* consensus nHeartbeatInterval
  UptimeWindow,        \* consensus nUptimeWindow
  MinValidatorStake,   \* consensus nMinValidatorStake
  MaxSeen,             \* HeartbeatManager::MAX_SEEN_HEARTBEATS
  StakeAmounts,        \* stakes announced in registrations and stake updates
  ClaimedHeights,      \* heights peers put in heartbeats and registrations
  MaxHeight            \* the last block height of the model

ASSUME TrustAssumption ==
  /\ HeartbeatInterval \in Nat \ {0}
  /\ UptimeWindow \in Nat
  /\ MinValidatorStake \in Int
  /\ MaxSeen \in Nat
  /\ StakeAmounts \subseteq Int
  /\ ClaimedHeights \subseteq Int
  /\ MaxHeight \in Nat
  /\ HasConnman \in BOOLEAN
  /\ NoAddress \notin Addresses
  /\ NoActor \notin Validators
  /\ LocalValidator \in Validators \cup {NoActor}

VARIABLES
  height,        \* the height of the last block announced by OnNewBlock
  ts,            \* TrustScoreManager::validators
  seen,          \* HeartbeatManager::m_seen_heartbeats
  lastBroadcast, \* HeartbeatManager::m_last_heartbeat_height
  msg,           \* the heartbeat the message-handler thread is processing
  hmStuck,       \* a thread holds cs_heartbeat and waits for it forever
  chainStuck,    \* the block-notification thread waits for cs_heartbeat
  known,         \* PeerDiscoveryManager::knownValidatorPeers
  pending,       \* PeerDiscoveryManager::pendingAdditions
  saved,         \* the addresses in validator_peers.conf
  added,         \* the addresses HM passed to CConnman::AddNode
  counted,       \* history: the heartbeats TS has counted
  registeredAt   \* history: the node's height when TS registered a validator

vars == <<height, ts, seen, lastBroadcast, msg, hmStuck, chainStuck,
          known, pending, saved, added, counted, registeredAt>>

Heights == 0..MaxHeight
AddressValues == Addresses \cup {NoAddress}

Heartbeat == [vid : Validators, height : ClaimedHeights, addr : AddressValues,
              stamp : Stamps, signer : Validators \cup Forgers]
NoMsg == [vid |-> NoActor]

\* Heartbeat::GetHash: every field but the signature.
Hash(hb) == <<hb.vid, hb.height, hb.addr, hb.stamp>>

\* ValidatorInfo; reg is FALSE for an id that has no entry in the map.
Info == [reg : BOOLEAN, stake : Int, regHeight : Int, lastHb : Int,
         expected : Int, received : Nat, active : BOOLEAN,
         addr : AddressValues, checkIns : Nat]

\* The ValidatorInfo default constructor.
NoInfo == [reg |-> FALSE, stake |-> 0, regHeight |-> 0, lastHb |-> 0,
           expected |-> 0, received |-> 0, active |-> FALSE,
           addr |-> NoAddress, checkIns |-> 0]

MinOf(a, b) == IF a <= b THEN a ELSE b

\* ValidatorInfo::GetUptimePercentage, in tenths of a percent.
GetUptimePercentage(r) ==
  IF r.expected = 0 THEN 1000 ELSE (r.received * 1000) \div r.expected

-----------------------------------------------------------------------------
(* TrustScoreManager                                                       *)

\* Mutant: the already-registered check dropped.
CanRegisterAgain(v, stake) == stake >= MinValidatorStake

\* TrustScoreManager::RegisterValidator: the entry it creates, if the stake
\* meets the minimum and the id is new (the fee check is abstracted away).
CanRegister(v, stake) == stake >= MinValidatorStake /\ ~ts[v].reg

Registered(v, stake, rh) ==
  [NoInfo EXCEPT !.reg = TRUE, !.stake = stake, !.regHeight = rh,
                 !.lastHb = rh, !.active = TRUE]

\* Mutant: the blocksSinceRegistration > 0 guard dropped.
ExpectedAtUnguarded(r, h) ==
  LET sinceReg == h - r.regHeight
      window   == MinOf(sinceReg, UptimeWindow)
  IN IF ~r.active THEN r.expected
     ELSE IF window > 0 THEN window \div HeartbeatInterval
     ELSE sinceReg \div HeartbeatInterval

\* TrustScoreManager::UpdateHeartbeatExpectations for one entry.
ExpectedAt(r, h) ==
  LET sinceReg == h - r.regHeight
      window   == MinOf(sinceReg, UptimeWindow)
  IN IF ~r.active \/ sinceReg <= 0 THEN r.expected
     ELSE IF window > 0 THEN window \div HeartbeatInterval
     ELSE sinceReg \div HeartbeatInterval

UpdateHeartbeatExpectations(h) ==
  [v \in Validators |-> [ts[v] EXCEPT !.expected = ExpectedAt(ts[v], h)]]

\* Mutant: the too-early test one block short.
TSAcceptsEarly(hb) ==
  /\ ts[hb.vid].reg
  /\ ts[hb.vid].active
  /\ hb.height >= ts[hb.vid].lastHb + HeartbeatInterval - 1

\* TrustScoreManager::ProcessHeartbeat's acceptance test, with the height
\* HM passes: the one the heartbeat claims.
TSAccepts(hb) ==
  /\ ts[hb.vid].reg
  /\ ts[hb.vid].active
  /\ hb.height >= ts[hb.vid].lastHb + HeartbeatInterval

-----------------------------------------------------------------------------
Init ==
  /\ height = 0
  /\ ts = [v \in Validators |-> NoInfo]
  /\ seen = {}
  /\ lastBroadcast = 0
  /\ msg = NoMsg
  /\ hmStuck = FALSE
  /\ chainStuck = FALSE
  /\ saved \in SUBSET Addresses
  /\ known = saved
  /\ pending = {}
  /\ added = {}
  /\ counted = {}
  /\ registeredAt = [v \in Validators |-> 0]

-----------------------------------------------------------------------------
(* Block notifications: HeartbeatManager::OnNewBlock.                      *)

\* OnNewBlock updates TS's expectations and height without any lock, then
\* asks ShouldBroadcastHeartbeat, which takes cs_heartbeat: if a thread
\* holds it forever, the block-notification thread waits for good.
OnNewBlock ==
  /\ ~chainStuck
  /\ height < MaxHeight
  /\ height' = height + 1
  /\ ts' = UpdateHeartbeatExpectations(height + 1)
  /\ chainStuck' = hmStuck
  /\ UNCHANGED <<seen, lastBroadcast, msg, hmStuck, known, pending, saved,
                 added, counted, registeredAt>>

-----------------------------------------------------------------------------
(* Inbound heartbeats: HeartbeatManager::ProcessHeartbeat, one action per  *)
(* way it ends.                                                            *)

\* The P2P layer hands a heartbeat, any a peer may send, to the handler.
ReceiveHeartbeat ==
  /\ msg = NoMsg
  /\ \E hb \in Heartbeat : msg' = hb
  /\ UNCHANGED <<height, ts, seen, lastBroadcast, hmStuck, chainStuck, known,
                 pending, saved, added, counted, registeredAt>>

\* The handler runs ProcessHeartbeat once it holds cs_heartbeat.
HMCanRun == msg # NoMsg /\ ~hmStuck

\* Already seen: dropped.
HMReplay ==
  /\ HMCanRun
  /\ Hash(msg) \in seen
  /\ msg' = NoMsg
  /\ UNCHANGED <<height, ts, seen, lastBroadcast, hmStuck, chainStuck, known,
                 pending, saved, added, counted, registeredAt>>

\* New: the hash is inserted first; past MAX_SEEN_HEARTBEATS the handler
\* calls CleanupSeenHeartbeats, which locks the cs_heartbeat it holds.
HMOverflow ==
  /\ HMCanRun
  /\ Hash(msg) \notin seen
  /\ Cardinality(seen \cup {Hash(msg)}) > MaxSeen
  /\ seen' = seen \cup {Hash(msg)}
  /\ hmStuck' = TRUE
  /\ UNCHANGED <<height, ts, lastBroadcast, msg, chainStuck, known, pending,
                 saved, added, counted, registeredAt>>

\* New, and TS refuses it (unknown, inactive or too early): it stays seen.
HMReject ==
  /\ HMCanRun
  /\ Hash(msg) \notin seen
  /\ Cardinality(seen \cup {Hash(msg)}) <= MaxSeen
  /\ ~TSAccepts(msg)
  /\ seen' = seen \cup {Hash(msg)}
  /\ msg' = NoMsg
  /\ UNCHANGED <<height, ts, lastBroadcast, hmStuck, chainStuck, known,
                 pending, saved, added, counted, registeredAt>>

\* PeerDiscoveryManager::ProcessValidatorAddress on the sets K and P: a
\* valid address not yet known goes into both, and the call reports it new.
PDProcess(K, P, a) ==
  IF a # NoAddress /\ a \notin K
  THEN [known |-> K \cup {a}, pending |-> P \cup {a}, isNew |-> TRUE]
  ELSE [known |-> K, pending |-> P, isNew |-> FALSE]

\* New and counted by TS. A valid address then goes to
\* TS::UpdateValidatorAddress, which records it and hands it to PD; HM then
\* hands it to PD itself and, if that call reports a new peer and HM has a
\* connection manager, calls AddNode and MarkPeerAdded.
HMAccept ==
  /\ HMCanRun
  /\ Hash(msg) \notin seen
  /\ Cardinality(seen \cup {Hash(msg)}) <= MaxSeen
  /\ TSAccepts(msg)
  /\ LET v      == msg.vid
         a      == msg.addr
         r      == [ts[v] EXCEPT !.received = @ + 1, !.lastHb = msg.height]
         byTS   == PDProcess(known, pending, a)
         byHM   == PDProcess(byTS.known, byTS.pending, a)
         addNode == byHM.isNew /\ HasConnman
     IN /\ ts' = [ts EXCEPT ![v] =
                    IF a = NoAddress THEN r
                    ELSE [r EXCEPT !.addr = a, !.checkIns = @ + 1]]
        /\ known' = byHM.known
        /\ pending' = IF addNode THEN byHM.pending \ {a} ELSE byHM.pending
        /\ added' = IF addNode THEN added \cup {a} ELSE added
  /\ seen' = seen \cup {Hash(msg)}
  /\ counted' = counted \cup {msg}
  /\ msg' = NoMsg
  /\ UNCHANGED <<height, lastBroadcast, hmStuck, chainStuck, saved,
                 registeredAt>>
-----------------------------------------------------------------------------
(* Registration announcements and TS's own operations.                     *)

\* HeartbeatManager::ProcessValidatorRegistration: a correctly signed
\* announcement with enough stake goes to TS::RegisterValidator, with the
\* registration height the announcement claims.
ProcessValidatorRegistration(v, stake, rh) ==
  /\ stake >= MinValidatorStake
  /\ CanRegister(v, stake)
  /\ ts' = [ts EXCEPT ![v] = Registered(v, stake, rh)]
  /\ registeredAt' = [registeredAt EXCEPT ![v] = height]
  /\ UNCHANGED <<height, seen, lastBroadcast, msg, hmStuck, chainStuck,
                 known, pending, saved, added, counted>>

\* HeartbeatManager::ProcessValidatorList: every active entry of a peer's
\* list with enough stake and an unknown id goes to TS::RegisterValidator.
ProcessValidatorList(L, stake, rh) ==
  /\ \E v \in L : CanRegister(v, stake[v])
  /\ ts' = [v \in Validators |->
              IF v \in L /\ CanRegister(v, stake[v])
              THEN Registered(v, stake[v], rh[v]) ELSE ts[v]]
  /\ registeredAt' = [v \in Validators |->
                        IF v \in L /\ CanRegister(v, stake[v])
                        THEN height ELSE registeredAt[v]]
  /\ UNCHANGED <<height, seen, lastBroadcast, msg, hmStuck, chainStuck,
                 known, pending, saved, added, counted>>

\* TrustScoreManager::UpdateStake: a stake below the minimum deactivates.
UpdateStake(v, stake) ==
  /\ ts[v].reg
  /\ ts' = [ts EXCEPT ![v].stake = stake,
                      ![v].active = @ /\ stake >= MinValidatorStake]
  /\ UNCHANGED <<height, seen, lastBroadcast, msg, hmStuck, chainStuck,
                 known, pending, saved, added, counted, registeredAt>>

\* TrustScoreManager::DeactivateValidator.
DeactivateValidator(v) ==
  /\ ts[v].reg
  /\ ts' = [ts EXCEPT ![v].active = FALSE]
  /\ UNCHANGED <<height, seen, lastBroadcast, msg, hmStuck, chainStuck,
                 known, pending, saved, added, counted, registeredAt>>

\* TrustScoreManager::RecordMissedCheckIns at the current height: an active
\* validator silent for more than two intervals loses its consecutive
\* check-ins (the missed counter, which nothing reads, is left out).
Silent(r) == r.active /\ height - r.lastHb > 2 * HeartbeatInterval

RecordMissedCheckIns ==
  /\ \E v \in Validators : Silent(ts[v]) /\ ts[v].checkIns # 0
  /\ ts' = [v \in Validators |->
              IF Silent(ts[v]) THEN [ts[v] EXCEPT !.checkIns = 0] ELSE ts[v]]
  /\ UNCHANGED <<height, seen, lastBroadcast, msg, hmStuck, chainStuck,
                 known, pending, saved, added, counted, registeredAt>>

\* HeartbeatManager::BroadcastHeartbeat at the current height: the node's
\* own heartbeat (nodeAddress is never set), stamped with the time of the
\* call, is recorded as seen, without the cleanup ProcessHeartbeat does.
BroadcastHeartbeat(t) ==
  /\ ~hmStuck
  /\ LocalValidator # NoActor
  /\ seen' = seen \cup {<<LocalValidator, height, NoAddress, t>>}
  /\ lastBroadcast' = height
  /\ UNCHANGED <<height, ts, msg, hmStuck, chainStuck, known, pending, saved,
                 added, counted, registeredAt>>

-----------------------------------------------------------------------------
(* Node restarts. Only PD persists: ShutdownPeerDiscovery writes the known *)
(* peers, InitPeerDiscovery reads them back; TS, HM, PD's pending list and *)
(* the connection manager's added nodes start empty.                       *)

Restarted(file) ==
  /\ ts' = [v \in Validators |-> NoInfo]
  /\ seen' = {}
  /\ lastBroadcast' = 0
  /\ msg' = NoMsg
  /\ hmStuck' = FALSE
  /\ chainStuck' = FALSE
  /\ known' = file
  /\ pending' = {}
  /\ added' = {}
  /\ counted' = {}
  /\ registeredAt' = [v \in Validators |-> 0]
  /\ UNCHANGED height

\* A clean shutdown (SavePeersToConfig), then start-up.
Restart ==
  /\ ~hmStuck
  /\ saved' = known
  /\ Restarted(known)

\* The process dies; the file keeps what the last clean shutdown wrote.
Crash ==
  /\ UNCHANGED saved
  /\ Restarted(saved)

-----------------------------------------------------------------------------
TypeOK ==
  /\ height \in Heights
  /\ ts \in [Validators -> Info]
  /\ \A v \in Validators : ts[v].expected \in Nat
  /\ seen \subseteq Validators \X (Heights \cup ClaimedHeights) \X AddressValues
                   \X Stamps
  /\ lastBroadcast \in Heights
  /\ msg \in Heartbeat \cup {NoMsg}
  /\ hmStuck \in BOOLEAN
  /\ chainStuck \in BOOLEAN
  /\ known \subseteq Addresses
  /\ pending \subseteq known
  /\ saved \subseteq Addresses
  /\ added \subseteq Addresses
  /\ counted \subseteq Heartbeat
  /\ registeredAt \in [Validators -> Heights]

\* TS::ProcessHeartbeat counts a heartbeat only an interval after the last
\* one it counted, starting from the registration height: a validator's
\* received count never exceeds the intervals between its registration
\* height and its last counted heartbeat, whatever heights peers claim.
HeartbeatSpacing ==
  \A v \in Validators :
    ts[v].reg =>
      ts[v].received * HeartbeatInterval <= ts[v].lastHb - ts[v].regHeight

-----------------------------------------------------------------------------
(* Refinement: TS's heartbeat accounting implements the Uptime promise.    *)

UptimeEntry(r) ==
  [reg |-> r.reg, active |-> r.active, regHeight |-> r.regHeight,
   lastHb |-> r.lastHb, received |-> r.received]

UptimeAbs == INSTANCE Uptime WITH uptime <- [v \in Validators |-> UptimeEntry(ts[v])]

-----------------------------------------------------------------------------
Next ==
  \/ OnNewBlock
  \/ ReceiveHeartbeat
  \/ HMReplay
  \/ HMOverflow
  \/ HMReject
  \/ HMAccept
  \/ \E v \in Validators, st \in StakeAmounts, rh \in ClaimedHeights :
       ProcessValidatorRegistration(v, st, rh)
  \/ \E L \in SUBSET Validators :
       \E st \in [L -> StakeAmounts], rh \in [L -> ClaimedHeights] :
         ProcessValidatorList(L, st, rh)
  \/ \E v \in Validators, st \in StakeAmounts : UpdateStake(v, st)
  \/ \E v \in Validators : DeactivateValidator(v)
  \/ RecordMissedCheckIns
  \/ \E t \in Stamps : BroadcastHeartbeat(t)
  \/ Restart
  \/ Crash

Spec == Init /\ [][Next]_vars

\* The message-handler thread keeps running ProcessHeartbeat, and blocks
\* keep arriving; peers, RPC callers and restarts are not obliged to act.
Fairness ==
  /\ WF_vars(HMReplay \/ HMOverflow \/ HMReject \/ HMAccept)
  /\ WF_vars(OnNewBlock)

FairSpec == Spec /\ Fairness

\* Every step of the node (block, heartbeat, registration, stake change,
\* restart) moves TS's entries as the Uptime promise allows: no entry is
\* registered twice or reactivated, and a heartbeat is counted only an
\* interval past the last one counted.
UptimeRefinement == UptimeAbs!Spec

====
