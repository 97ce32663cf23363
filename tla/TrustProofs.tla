---------------------------- MODULE TrustProofs ----------------------------
(***************************************************************************)
(* Proofs about the trust layer of module Trust, for every value of the    *)
(* constants that satisfies TrustAssumption: type correctness, the spacing *)
(* of counted heartbeats, and that TS's accounting implements Uptime.      *)
(***************************************************************************)
EXTENDS Trust, TLAPS

USE TrustAssumption

-----------------------------------------------------------------------------
(* Lemmas about the trust scorer's entries.                                *)

\* The entry of an unknown id is well formed.
LEMMA NoInfoTyped == NoInfo \in Info /\ NoInfo.expected = 0
BY DEF NoInfo, Info, AddressValues

\* A fresh registration is well formed, and expects no heartbeat yet.
LEMMA RegisteredTyped ==
  ASSUME NEW v, NEW stake \in Int, NEW rh \in Int
  PROVE  /\ Registered(v, stake, rh) \in Info
         /\ Registered(v, stake, rh).expected = 0
<1>1. \A r \in Info :
        [r EXCEPT !.reg = TRUE, !.stake = stake, !.regHeight = rh,
                  !.lastHb = rh, !.active = TRUE] \in Info
  BY DEF Info
<1>2. Registered(v, stake, rh).expected = 0
  BY NoInfoTyped DEF Registered, NoInfo, Info
<1>3. QED
  BY NoInfoTyped, <1>1, <1>2 DEF Registered

\* UpdateHeartbeatExpectations computes a natural expected count from one.
LEMMA ExpectedTyped ==
  ASSUME NEW r \in Info, r.expected \in Nat, NEW h \in Int
  PROVE  ExpectedAt(r, h) \in Nat
<1> DEFINE sinceReg == h - r.regHeight
           window   == MinOf(sinceReg, UptimeWindow)
<1>1. sinceReg \in Int /\ window \in Int
  BY DEF Info, MinOf
<1>2. CASE ~r.active \/ sinceReg <= 0
  BY <1>2 DEF ExpectedAt
<1>3. CASE ~(~r.active \/ sinceReg <= 0) /\ window > 0
  BY <1>1, <1>3 DEF ExpectedAt
<1>4. CASE ~(~r.active \/ sinceReg <= 0) /\ ~(window > 0)
  BY <1>1, <1>4 DEF ExpectedAt
<1>5. QED
  BY <1>2, <1>3, <1>4

\* A new expected count keeps an entry well formed and changes nothing else.
LEMMA ExpectedUpdateTyped ==
  ASSUME NEW r \in Info, NEW e \in Int
  PROVE  /\ [r EXCEPT !.expected = e] \in Info
         /\ [r EXCEPT !.expected = e].expected = e
         /\ UptimeEntry([r EXCEPT !.expected = e]) = UptimeEntry(r)
BY DEF Info, UptimeEntry

\* The field updates the trust scorer's operations make keep an entry well
\* formed, and leave its expected count alone.
LEMMA FieldUpdatesTyped ==
  /\ \A q \in Info, b \in BOOLEAN :
       /\ [q EXCEPT !.active = b] \in Info
       /\ [q EXCEPT !.active = b].expected = q.expected
  /\ \A q \in Info, i \in Int, b \in BOOLEAN :
       /\ [q EXCEPT !.stake = i, !.active = b] \in Info
       /\ [q EXCEPT !.stake = i, !.active = b].expected = q.expected
  /\ \A q \in Info :
       /\ [q EXCEPT !.checkIns = 0] \in Info
       /\ [q EXCEPT !.checkIns = 0].expected = q.expected
  /\ \A q \in Info, i \in Int :
       /\ [q EXCEPT !.received = @ + 1, !.lastHb = i] \in Info
       /\ [q EXCEPT !.received = @ + 1, !.lastHb = i].expected = q.expected
  /\ \A q \in Info, a \in AddressValues :
       /\ [q EXCEPT !.addr = a, !.checkIns = @ + 1] \in Info
       /\ [q EXCEPT !.addr = a, !.checkIns = @ + 1].expected = q.expected
<1>1. \A q \in Info, b \in BOOLEAN :
        /\ [q EXCEPT !.active = b] \in Info
        /\ [q EXCEPT !.active = b].expected = q.expected
  BY DEF Info
<1>2. \A q \in Info, i \in Int, b \in BOOLEAN :
        /\ [q EXCEPT !.stake = i, !.active = b] \in Info
        /\ [q EXCEPT !.stake = i, !.active = b].expected = q.expected
  BY DEF Info
<1>3. \A q \in Info :
        /\ [q EXCEPT !.checkIns = 0] \in Info
        /\ [q EXCEPT !.checkIns = 0].expected = q.expected
  BY DEF Info
<1>4. \A q \in Info, i \in Int :
        /\ [q EXCEPT !.received = @ + 1, !.lastHb = i] \in Info
        /\ [q EXCEPT !.received = @ + 1, !.lastHb = i].expected = q.expected
  <2> SUFFICES ASSUME NEW q \in Info, NEW i \in Int
               PROVE  /\ [q EXCEPT !.received = @ + 1, !.lastHb = i] \in Info
                      /\ [q EXCEPT !.received = @ + 1, !.lastHb = i].expected
                           = q.expected
    OBVIOUS
  <2>1. q.received + 1 \in Nat
    BY DEF Info
  <2> QED
    BY <2>1 DEF Info
<1>5. \A q \in Info, a \in AddressValues :
        /\ [q EXCEPT !.addr = a, !.checkIns = @ + 1] \in Info
        /\ [q EXCEPT !.addr = a, !.checkIns = @ + 1].expected = q.expected
  <2> SUFFICES ASSUME NEW q \in Info, NEW a \in AddressValues
               PROVE  /\ [q EXCEPT !.addr = a, !.checkIns = @ + 1] \in Info
                      /\ [q EXCEPT !.addr = a, !.checkIns = @ + 1].expected
                           = q.expected
    OBVIOUS
  <2>1. q.checkIns + 1 \in Nat
    BY DEF Info
  <2> QED
    BY <2>1 DEF Info
<1>6. QED
  BY <1>1, <1>2, <1>3, <1>4, <1>5

\* PeerDiscoveryManager::ProcessValidatorAddress keeps the pending queue
\* inside the known set, and reports new only a well-formed address.
LEMMA PDProcessTyped ==
  ASSUME NEW K \in SUBSET Addresses, NEW P \in SUBSET K,
         NEW a \in AddressValues
  PROVE  /\ PDProcess(K, P, a).known \in SUBSET Addresses
         /\ PDProcess(K, P, a).pending \in SUBSET PDProcess(K, P, a).known
         /\ PDProcess(K, P, a).isNew => a \in Addresses
BY DEF PDProcess, AddressValues

-----------------------------------------------------------------------------
(* Type correctness.                                                       *)

\* The start-up state is well typed.
LEMMA TypeInit == Init => TypeOK
<1> SUFFICES ASSUME Init PROVE TypeOK
  OBVIOUS
<1>1. NoInfo \in Info /\ NoInfo.expected = 0
  BY NoInfoTyped
<1>2. 0 \in Heights
  BY DEF Heights
<1>3. /\ ts \in [Validators -> Info]
      /\ \A v \in Validators : ts[v].expected \in Nat
  BY <1>1 DEF Init
<1>4. registeredAt \in [Validators -> Heights]
  BY <1>2 DEF Init
<1>5. msg \in Heartbeat \cup {NoMsg}
  BY DEF Init
<1> QED
  BY <1>2, <1>3, <1>4, <1>5 DEF Init, TypeOK

\* The entries a restart starts from are well typed.
LEMMA RestartTyped == TypeOK /\ (Restart \/ Crash) => TypeOK'
<1> SUFFICES ASSUME TypeOK, Restart \/ Crash PROVE TypeOK'
  OBVIOUS
<1>0. /\ saved' \subseteq Addresses
      /\ \E file \in SUBSET Addresses : Restarted(file)
  BY DEF Restart, Crash, TypeOK
<1>1. NoInfo \in Info /\ NoInfo.expected = 0
  BY NoInfoTyped
<1>2. 0 \in Heights
  BY DEF Heights
<1>3. /\ ts' \in [Validators -> Info]
      /\ \A v \in Validators : ts'[v].expected \in Nat
  BY <1>0, <1>1 DEF Restarted
<1>4. registeredAt' \in [Validators -> Heights]
  BY <1>0, <1>2 DEF Restarted
<1>5. msg' \in Heartbeat \cup {NoMsg}
  BY <1>0 DEF Restarted
<1> QED
  BY <1>0, <1>2, <1>3, <1>4, <1>5 DEF Restarted, TypeOK

\* The message the handler works on, when there is one, is a heartbeat.
LEMMA MsgTyped ==
  ASSUME TypeOK, msg # NoMsg
  PROVE  /\ msg \in Heartbeat
         /\ msg.vid \in Validators
         /\ msg.height \in Int
         /\ msg.addr \in AddressValues
         /\ Hash(msg) \in Validators \X (Heights \cup ClaimedHeights)
                           \X AddressValues \X Stamps
BY DEF TypeOK, Heartbeat, Hash

LEMMA OnNewBlockTyped == TypeOK /\ OnNewBlock => TypeOK'
<1> SUFFICES ASSUME TypeOK, OnNewBlock PROVE TypeOK'
  OBVIOUS
<1>1. height + 1 \in Heights
  BY DEF OnNewBlock, TypeOK, Heights
<1>2. \A v \in Validators :
        /\ ExpectedAt(ts[v], height + 1) \in Nat
        /\ [ts[v] EXCEPT !.expected = ExpectedAt(ts[v], height + 1)] \in Info
        /\ [ts[v] EXCEPT !.expected = ExpectedAt(ts[v], height + 1)].expected
             = ExpectedAt(ts[v], height + 1)
  BY ExpectedTyped, ExpectedUpdateTyped DEF TypeOK, Heights
<1>3. /\ ts' \in [Validators -> Info]
      /\ \A v \in Validators : ts'[v].expected \in Nat
  BY <1>2 DEF OnNewBlock, UpdateHeartbeatExpectations
<1> QED
  BY <1>1, <1>3 DEF OnNewBlock, TypeOK

LEMMA HMStepsTyped ==
  TypeOK /\ (ReceiveHeartbeat \/ HMReplay \/ HMOverflow \/ HMReject)
    => TypeOK'
<1> SUFFICES ASSUME TypeOK, ReceiveHeartbeat \/ HMReplay \/ HMOverflow \/ HMReject
             PROVE TypeOK'
  OBVIOUS
<1>1. CASE ReceiveHeartbeat
  BY <1>1 DEF ReceiveHeartbeat, TypeOK
<1>2. CASE HMReplay
  BY <1>2 DEF HMReplay, HMCanRun, TypeOK
<1>3. CASE HMOverflow
  BY <1>3, MsgTyped DEF HMOverflow, HMCanRun, TypeOK
<1>4. CASE HMReject
  BY <1>4, MsgTyped DEF HMReject, HMCanRun, TypeOK
<1> QED
  BY <1>1, <1>2, <1>3, <1>4

LEMMA HMAcceptTyped == TypeOK /\ HMAccept => TypeOK'
<1> SUFFICES ASSUME TypeOK, HMAccept PROVE TypeOK'
  OBVIOUS
<1> DEFINE v    == msg.vid
           a    == msg.addr
           r    == [ts[v] EXCEPT !.received = @ + 1, !.lastHb = msg.height]
           byTS == PDProcess(known, pending, a)
           byHM == PDProcess(byTS.known, byTS.pending, a)
<1>1. msg # NoMsg
  BY DEF HMAccept, HMCanRun
<1>2. /\ msg \in Heartbeat /\ v \in Validators /\ msg.height \in Int
      /\ a \in AddressValues
      /\ Hash(msg) \in Validators \X (Heights \cup ClaimedHeights)
                         \X AddressValues \X Stamps
  BY <1>1, MsgTyped
<1>3. /\ r \in Info /\ r.expected = ts[v].expected
      /\ [r EXCEPT !.addr = a, !.checkIns = @ + 1] \in Info
      /\ [r EXCEPT !.addr = a, !.checkIns = @ + 1].expected = ts[v].expected
  <2>1. ts[v] \in Info
    BY <1>2 DEF TypeOK
  <2>2. r \in Info /\ r.expected = ts[v].expected
    BY <1>2, <2>1, FieldUpdatesTyped
  <2> QED
    BY <1>2, <2>2, FieldUpdatesTyped
<1>4. /\ ts' \in [Validators -> Info]
      /\ \A w \in Validators : ts'[w].expected \in Nat
  BY <1>2, <1>3 DEF HMAccept, TypeOK
<1>5. /\ byTS.known \in SUBSET Addresses
      /\ byTS.pending \in SUBSET byTS.known
      /\ byHM.known \in SUBSET Addresses
      /\ byHM.pending \in SUBSET byHM.known
      /\ byHM.isNew => a \in Addresses
  BY <1>2, PDProcessTyped DEF TypeOK
<1>6. /\ known' \subseteq Addresses
      /\ pending' \subseteq known'
      /\ added' \subseteq Addresses
  BY <1>5 DEF HMAccept, TypeOK
<1> QED
  BY <1>2, <1>4, <1>6 DEF HMAccept, TypeOK

LEMMA RegistrationTyped ==
  ASSUME TypeOK,
         \/ \E v \in Validators, st \in StakeAmounts, rh \in ClaimedHeights :
              ProcessValidatorRegistration(v, st, rh)
         \/ \E L \in SUBSET Validators :
              \E st \in [L -> StakeAmounts], rh \in [L -> ClaimedHeights] :
                ProcessValidatorList(L, st, rh)
  PROVE  TypeOK'
<1>1. height \in Heights
  BY DEF TypeOK
<1>2. CASE \E v \in Validators, st \in StakeAmounts, rh \in ClaimedHeights :
             ProcessValidatorRegistration(v, st, rh)
  <2>1. PICK v \in Validators, st \in StakeAmounts, rh \in ClaimedHeights :
               ProcessValidatorRegistration(v, st, rh)
    BY <1>2
  <2>2. Registered(v, st, rh) \in Info /\ Registered(v, st, rh).expected = 0
    BY RegisteredTyped
  <2> QED
    BY <1>1, <2>1, <2>2 DEF ProcessValidatorRegistration, TypeOK
<1>3. CASE \E L \in SUBSET Validators :
             \E st \in [L -> StakeAmounts], rh \in [L -> ClaimedHeights] :
               ProcessValidatorList(L, st, rh)
  <2>0. PICK L \in SUBSET Validators :
               \E st \in [L -> StakeAmounts], rh \in [L -> ClaimedHeights] :
                 ProcessValidatorList(L, st, rh)
    BY <1>3
  <2>1. PICK st \in [L -> StakeAmounts], rh \in [L -> ClaimedHeights] :
               ProcessValidatorList(L, st, rh)
    BY <2>0
  <2>2. \A v \in L : /\ Registered(v, st[v], rh[v]) \in Info
                     /\ Registered(v, st[v], rh[v]).expected = 0
    BY RegisteredTyped
  <2>3. /\ ts' \in [Validators -> Info]
        /\ \A w \in Validators : ts'[w].expected \in Nat
    BY <2>1, <2>2 DEF ProcessValidatorList, TypeOK
  <2> QED
    BY <1>1, <2>1, <2>3 DEF ProcessValidatorList, TypeOK
<1> QED
  BY <1>2, <1>3

LEMMA TSStepsTyped ==
  ASSUME TypeOK,
         \/ \E v \in Validators, st \in StakeAmounts : UpdateStake(v, st)
         \/ \E v \in Validators : DeactivateValidator(v)
         \/ RecordMissedCheckIns
         \/ \E t \in Stamps : BroadcastHeartbeat(t)
  PROVE  TypeOK'
<1>1. CASE \E v \in Validators, st \in StakeAmounts : UpdateStake(v, st)
  <2>1. PICK v \in Validators, st \in StakeAmounts : UpdateStake(v, st)
    BY <1>1
  <2> DEFINE b == ts[v].active /\ st >= MinValidatorStake
  <2>2. ts' = [ts EXCEPT ![v] = [ts[v] EXCEPT !.stake = st, !.active = b]]
    BY <2>1 DEF UpdateStake
  <2>3. ts[v] \in Info /\ st \in Int /\ b \in BOOLEAN
    BY DEF TypeOK, Info
  <2>4. /\ [ts[v] EXCEPT !.stake = st, !.active = b] \in Info
        /\ [ts[v] EXCEPT !.stake = st, !.active = b].expected = ts[v].expected
    BY <2>3 DEF Info
  <2> QED
    BY <2>1, <2>2, <2>4 DEF UpdateStake, TypeOK
<1>2. CASE \E v \in Validators : DeactivateValidator(v)
  <2>1. PICK v \in Validators : DeactivateValidator(v)
    BY <1>2
  <2>2. ts' = [ts EXCEPT ![v] = [ts[v] EXCEPT !.active = FALSE]]
    BY <2>1 DEF DeactivateValidator
  <2>3. /\ [ts[v] EXCEPT !.active = FALSE] \in Info
        /\ [ts[v] EXCEPT !.active = FALSE].expected = ts[v].expected
    BY FieldUpdatesTyped DEF TypeOK
  <2> QED
    BY <2>1, <2>2, <2>3 DEF DeactivateValidator, TypeOK
<1>3. CASE RecordMissedCheckIns
  <2>1. \A v \in Validators :
          /\ [ts[v] EXCEPT !.checkIns = 0] \in Info
          /\ [ts[v] EXCEPT !.checkIns = 0].expected = ts[v].expected
    BY FieldUpdatesTyped DEF TypeOK
  <2> QED
    BY <1>3, <2>1 DEF RecordMissedCheckIns, TypeOK
<1>4. CASE \E t \in Stamps : BroadcastHeartbeat(t)
  BY <1>4 DEF BroadcastHeartbeat, TypeOK, AddressValues
<1> QED
  BY <1>1, <1>2, <1>3, <1>4

\* Every step of the node keeps the state well typed.
LEMMA TypeNext == TypeOK /\ [Next]_vars => TypeOK'
<1> SUFFICES ASSUME TypeOK, [Next]_vars PROVE TypeOK'
  OBVIOUS
<1>1. CASE OnNewBlock
  BY <1>1, OnNewBlockTyped
<1>2. CASE ReceiveHeartbeat \/ HMReplay \/ HMOverflow \/ HMReject
  BY <1>2, HMStepsTyped
<1>3. CASE HMAccept
  BY <1>3, HMAcceptTyped
<1>4. CASE \/ \E v \in Validators, st \in StakeAmounts, rh \in ClaimedHeights :
               ProcessValidatorRegistration(v, st, rh)
           \/ \E L \in SUBSET Validators :
                \E st \in [L -> StakeAmounts], rh \in [L -> ClaimedHeights] :
                  ProcessValidatorList(L, st, rh)
  BY <1>4, RegistrationTyped
<1>5. CASE \/ \E v \in Validators, st \in StakeAmounts : UpdateStake(v, st)
           \/ \E v \in Validators : DeactivateValidator(v)
           \/ RecordMissedCheckIns
           \/ \E t \in Stamps : BroadcastHeartbeat(t)
  BY <1>5, TSStepsTyped
<1>6. CASE Restart \/ Crash
  BY <1>6, RestartTyped
<1>7. CASE UNCHANGED vars
  BY <1>7 DEF vars, TypeOK
<1> QED
  BY <1>1, <1>2, <1>3, <1>4, <1>5, <1>6, <1>7 DEF Next

\* The state of the node's trust layer stays well typed: in particular
\* UpdateHeartbeatExpectations never computes a negative expected count,
\* because it skips an entry whose announced registration height is not
\* yet behind the block height.
THEOREM TypeCorrect == Spec => []TypeOK
BY TypeInit, TypeNext, PTL DEF Spec

-----------------------------------------------------------------------------
(* Refinement of Uptime.                                                   *)

\* The abstract state the refinement mapping gives.
Map == [v \in Validators |-> UptimeEntry(ts[v])]

\* What each of TS's updates does to an entry's image in Uptime.
LEMMA EntryImages ==
  /\ UptimeEntry(NoInfo) = UptimeAbs!Absent
  /\ \A u \in Validators, s \in Int, k \in Int :
       UptimeEntry(Registered(u, s, k)) = UptimeAbs!Entry(TRUE, TRUE, k, k, 0)
  /\ \A q \in Info, i \in Int :
       UptimeEntry([q EXCEPT !.received = @ + 1, !.lastHb = i])
         = UptimeAbs!Entry(q.reg, q.active, q.regHeight, i, q.received + 1)
  /\ \A q \in Info, a \in AddressValues :
       UptimeEntry([q EXCEPT !.addr = a, !.checkIns = @ + 1]) = UptimeEntry(q)
  /\ \A q \in Info : UptimeEntry([q EXCEPT !.checkIns = 0]) = UptimeEntry(q)
  /\ \A q \in Info, b \in BOOLEAN :
       UptimeEntry([q EXCEPT !.active = b])
         = UptimeAbs!Entry(q.reg, b, q.regHeight, q.lastHb, q.received)
  /\ \A q \in Info, i \in Int, b \in BOOLEAN :
       UptimeEntry([q EXCEPT !.stake = i, !.active = b])
         = UptimeAbs!Entry(q.reg, b, q.regHeight, q.lastHb, q.received)
  /\ \A q \in Info : UptimeEntry(q)
                       = UptimeAbs!Entry(q.reg, q.active, q.regHeight,
                                         q.lastHb, q.received)
<1>1. UptimeEntry(NoInfo) = UptimeAbs!Absent
  BY DEF UptimeEntry, NoInfo, UptimeAbs!Absent, UptimeAbs!Entry
<1>2. \A u \in Validators, s \in Int, k \in Int :
        UptimeEntry(Registered(u, s, k)) = UptimeAbs!Entry(TRUE, TRUE, k, k, 0)
  BY DEF UptimeEntry, Registered, NoInfo, UptimeAbs!Entry
<1>3. \A q \in Info, i \in Int :
        UptimeEntry([q EXCEPT !.received = @ + 1, !.lastHb = i])
          = UptimeAbs!Entry(q.reg, q.active, q.regHeight, i, q.received + 1)
  BY DEF UptimeEntry, Info, UptimeAbs!Entry
<1>4. \A q \in Info, a \in AddressValues :
        UptimeEntry([q EXCEPT !.addr = a, !.checkIns = @ + 1]) = UptimeEntry(q)
  BY DEF UptimeEntry, Info
<1>5. \A q \in Info : UptimeEntry([q EXCEPT !.checkIns = 0]) = UptimeEntry(q)
  BY DEF UptimeEntry, Info
<1>6. \A q \in Info, b \in BOOLEAN :
        UptimeEntry([q EXCEPT !.active = b])
          = UptimeAbs!Entry(q.reg, b, q.regHeight, q.lastHb, q.received)
  BY DEF UptimeEntry, Info, UptimeAbs!Entry
<1>7. \A q \in Info, i \in Int, b \in BOOLEAN :
        UptimeEntry([q EXCEPT !.stake = i, !.active = b])
          = UptimeAbs!Entry(q.reg, b, q.regHeight, q.lastHb, q.received)
  BY DEF UptimeEntry, Info, UptimeAbs!Entry
<1>8. \A q \in Info : UptimeEntry(q)
                        = UptimeAbs!Entry(q.reg, q.active, q.regHeight,
                                          q.lastHb, q.received)
  BY DEF UptimeEntry, UptimeAbs!Entry
<1>9. QED
  BY <1>1, <1>2, <1>3, <1>4, <1>5, <1>6, <1>7, <1>8

\* Steps that leave every entry's image alone: block notifications (only
\* expected counts change), the heartbeat handler's refusals, broadcasts,
\* and RecordMissedCheckIns (only check-in counters change).
LEMMA RefineStutter ==
  ASSUME TypeOK,
         \/ OnNewBlock \/ ReceiveHeartbeat \/ HMReplay \/ HMOverflow \/ HMReject
         \/ RecordMissedCheckIns \/ \E t \in Stamps : BroadcastHeartbeat(t)
         \/ UNCHANGED vars
  PROVE  Map' = Map
<1>1. CASE OnNewBlock
  <2>1. \A v \in Validators :
          UptimeEntry(ts'[v]) = UptimeEntry(ts[v])
    BY <1>1, ExpectedTyped, ExpectedUpdateTyped
       DEF OnNewBlock, UpdateHeartbeatExpectations, TypeOK, Heights
  <2> QED
    BY <2>1 DEF Map
<1>2. CASE RecordMissedCheckIns
  <2>1. \A v \in Validators :
          UptimeEntry(ts'[v]) = UptimeEntry(ts[v])
    BY <1>2, EntryImages DEF RecordMissedCheckIns, TypeOK
  <2> QED
    BY <2>1 DEF Map
<1>3. CASE ~OnNewBlock /\ ~RecordMissedCheckIns
  <2>1. ts' = ts
    BY <1>3 DEF ReceiveHeartbeat, HMReplay, HMOverflow, HMReject,
                BroadcastHeartbeat, vars
  <2> QED
    BY <2>1 DEF Map
<1> QED
  BY <1>1, <1>2, <1>3

\* A heartbeat TS counts is a heartbeat Uptime counts.
LEMMA RefineAccept ==
  ASSUME TypeOK, HMAccept
  PROVE  UptimeAbs!Count(msg.vid, msg.height) /\ msg.height \in ClaimedHeights
<1> DEFINE v == msg.vid
           h == msg.height
           r == [ts[v] EXCEPT !.received = @ + 1, !.lastHb = h]
<1>1. msg \in Heartbeat /\ v \in Validators /\ h \in ClaimedHeights
      /\ msg.addr \in AddressValues
  BY MsgTyped DEF HMAccept, HMCanRun, TypeOK, Heartbeat
<1>2. ts[v] \in Info /\ h \in Int
  BY <1>1 DEF TypeOK
<1>3. /\ ts[v].reg /\ ts[v].active
      /\ h >= ts[v].lastHb + HeartbeatInterval
  BY DEF HMAccept, TSAccepts
<1>4. /\ Map[v].reg /\ Map[v].active
      /\ h >= Map[v].lastHb + HeartbeatInterval
      /\ Map[v].regHeight = ts[v].regHeight
      /\ Map[v].received = ts[v].received
  BY <1>1, <1>3 DEF Map, UptimeEntry
<1>5. r \in Info
  BY <1>2, FieldUpdatesTyped
<1>6. UptimeEntry(ts'[v])
        = UptimeAbs!Entry(TRUE, TRUE, ts[v].regHeight, h, ts[v].received + 1)
  <2>1. UptimeEntry(r)
          = UptimeAbs!Entry(TRUE, TRUE, ts[v].regHeight, h, ts[v].received + 1)
    BY <1>2, <1>3, EntryImages
  <2>2. UptimeEntry([r EXCEPT !.addr = msg.addr, !.checkIns = @ + 1])
          = UptimeEntry(r)
    BY <1>1, <1>5, EntryImages
  <2>3. ts'[v] = IF msg.addr = NoAddress THEN r
                 ELSE [r EXCEPT !.addr = msg.addr, !.checkIns = @ + 1]
    BY <1>1 DEF HMAccept, TypeOK
  <2> QED
    BY <2>1, <2>2, <2>3
<1>7. \A w \in Validators \ {v} : ts'[w] = ts[w]
  BY DEF HMAccept, TypeOK
<1>8. Map' = [Map EXCEPT ![v] = UptimeAbs!Entry(TRUE, TRUE, Map[v].regHeight, h,
                                               Map[v].received + 1)]
  BY <1>1, <1>4, <1>6, <1>7 DEF Map
<1> QED
  BY <1>1, <1>4, <1>8 DEF UptimeAbs!Count, Map

\* A registration, and the registrations of a peer's validator list, are
\* registrations in Uptime of the ids TS did not know.
LEMMA RefineRegister ==
  ASSUME TypeOK, NEW L \in SUBSET Validators,
         NEW st \in [L -> StakeAmounts], NEW rh \in [L -> ClaimedHeights],
         ProcessValidatorList(L, st, rh)
  PROVE  \E S \in SUBSET Validators : \E rhS \in [S -> ClaimedHeights] :
           UptimeAbs!Register(S, rhS)
<1> DEFINE S   == {w \in L : CanRegister(w, st[w])}
           rhS == [w \in S |-> rh[w]]
<1>1. S # {} /\ rhS \in [S -> ClaimedHeights]
  BY DEF ProcessValidatorList
<1>2. \A w \in S : ~Map[w].reg
  BY DEF CanRegister, Map, UptimeEntry
<1>3. \A w \in Validators :
        Map'[w] = IF w \in S THEN UptimeAbs!Entry(TRUE, TRUE, rhS[w], rhS[w], 0)
                  ELSE Map[w]
  <2> SUFFICES ASSUME NEW w \in Validators
               PROVE  Map'[w] = IF w \in S
                                THEN UptimeAbs!Entry(TRUE, TRUE, rhS[w], rhS[w], 0)
                                ELSE Map[w]
    OBVIOUS
  <2>1. CASE w \in S
    <3>1. w \in L /\ CanRegister(w, st[w])
      BY <2>1
    <3>2. st[w] \in Int /\ rh[w] \in Int /\ rhS[w] = rh[w]
      BY <3>1
    <3>3. ts'[w] = Registered(w, st[w], rh[w])
      BY <3>1 DEF ProcessValidatorList
    <3>4. UptimeEntry(Registered(w, st[w], rh[w]))
            = UptimeAbs!Entry(TRUE, TRUE, rh[w], rh[w], 0)
      BY DEF UptimeEntry, Registered, NoInfo, UptimeAbs!Entry
    <3> QED
      BY <2>1, <3>2, <3>3, <3>4 DEF Map
  <2>2. CASE w \notin S
    <3>1. ts'[w] = ts[w]
      BY <2>2 DEF ProcessValidatorList
    <3> QED
      BY <2>2, <3>1 DEF Map
  <2> QED
    BY <2>1, <2>2
<1>4. Map' = [w \in Validators |->
                IF w \in S THEN UptimeAbs!Entry(TRUE, TRUE, rhS[w], rhS[w], 0)
                ELSE Map[w]]
  BY <1>3 DEF Map
<1> QED
  BY <1>1, <1>2, <1>4 DEF UptimeAbs!Register, Map

\* A registration announcement registers one id in Uptime.
LEMMA RefineAnnouncement ==
  ASSUME TypeOK, NEW v \in Validators, NEW st \in StakeAmounts,
         NEW rh \in ClaimedHeights, ProcessValidatorRegistration(v, st, rh)
  PROVE  UptimeAbs!Register({v}, [w \in {v} |-> rh])
<1>1. ~Map[v].reg
  BY DEF ProcessValidatorRegistration, CanRegister, Map, UptimeEntry
<1>2. UptimeEntry(Registered(v, st, rh)) = UptimeAbs!Entry(TRUE, TRUE, rh, rh, 0)
  BY DEF UptimeEntry, Registered, NoInfo, UptimeAbs!Entry
<1>3. Map' = [w \in Validators |->
                IF w \in {v} THEN UptimeAbs!Entry(TRUE, TRUE, rh, rh, 0)
                ELSE Map[w]]
  BY <1>2 DEF ProcessValidatorRegistration, Map, TypeOK
<1> QED
  BY <1>1, <1>3 DEF UptimeAbs!Register, Map

\* A step that deactivates a registered entry, and changes no other
\* entry's image, deactivates it in Uptime.
LEMMA RefineDeactivate ==
  ASSUME TypeOK, NEW v \in Validators, ts[v].reg,
         UptimeEntry(ts'[v])
           = UptimeAbs!Entry(TRUE, FALSE, ts[v].regHeight, ts[v].lastHb,
                             ts[v].received),
         \A w \in Validators \ {v} : ts'[w] = ts[w]
  PROVE  UptimeAbs!Deactivate(v)
<1>1. /\ Map[v].reg
      /\ Map[v].regHeight = ts[v].regHeight
      /\ Map[v].lastHb = ts[v].lastHb
      /\ Map[v].received = ts[v].received
  BY DEF Map, UptimeEntry
<1>2. Map' = [Map EXCEPT ![v] = UptimeAbs!Entry(TRUE, FALSE, Map[v].regHeight,
                                                Map[v].lastHb, Map[v].received)]
  BY <1>1 DEF Map
<1> QED
  BY <1>1, <1>2 DEF UptimeAbs!Deactivate, Map

\* Every step of the node is a step of Uptime or leaves its image alone.
LEMMA RefineNext == TypeOK /\ [Next]_vars => [UptimeAbs!Next]_Map
<1> SUFFICES ASSUME TypeOK, [Next]_vars PROVE UptimeAbs!Next \/ Map' = Map
  OBVIOUS
<1>1. CASE \/ OnNewBlock \/ ReceiveHeartbeat \/ HMReplay \/ HMOverflow \/ HMReject
           \/ RecordMissedCheckIns \/ \E t \in Stamps : BroadcastHeartbeat(t)
           \/ UNCHANGED vars
  BY <1>1, RefineStutter
<1>2. CASE HMAccept
  <2>1. UptimeAbs!Count(msg.vid, msg.height) /\ msg.height \in ClaimedHeights
        /\ msg.vid \in Validators
    BY <1>2, RefineAccept, MsgTyped DEF HMAccept, HMCanRun
  <2> QED
    BY <2>1 DEF UptimeAbs!Next
<1>3. CASE \E v \in Validators, st \in StakeAmounts, rh \in ClaimedHeights :
             ProcessValidatorRegistration(v, st, rh)
  <2>1. PICK v \in Validators, st \in StakeAmounts, rh \in ClaimedHeights :
               ProcessValidatorRegistration(v, st, rh)
    BY <1>3
  <2>2. UptimeAbs!Register({v}, [w \in {v} |-> rh])
    BY <2>1, RefineAnnouncement
  <2> QED
    BY <2>2 DEF UptimeAbs!Next
<1>4. CASE \E L \in SUBSET Validators :
             \E st \in [L -> StakeAmounts], rh \in [L -> ClaimedHeights] :
               ProcessValidatorList(L, st, rh)
  <2>1. PICK L \in SUBSET Validators :
               \E st \in [L -> StakeAmounts], rh \in [L -> ClaimedHeights] :
                 ProcessValidatorList(L, st, rh)
    BY <1>4
  <2>2. PICK st \in [L -> StakeAmounts], rh \in [L -> ClaimedHeights] :
               ProcessValidatorList(L, st, rh)
    BY <2>1
  <2> QED
    BY <2>2, RefineRegister DEF UptimeAbs!Next
<1>5. CASE \E v \in Validators, st \in StakeAmounts : UpdateStake(v, st)
  <2>1. PICK v \in Validators, st \in StakeAmounts : UpdateStake(v, st)
    BY <1>5
  <2>2. ts[v] \in Info /\ st \in Int /\ ts[v].reg
    BY <2>1 DEF TypeOK, UpdateStake
  <2>3. \A w \in Validators \ {v} : ts'[w] = ts[w]
    BY <2>1 DEF UpdateStake, TypeOK
  <2>4. CASE st >= MinValidatorStake
    <3>1. UptimeEntry(ts'[v]) = UptimeEntry(ts[v])
      BY <2>1, <2>2, <2>4 DEF UpdateStake, UptimeEntry, Info, TypeOK
    <3> QED
      BY <2>3, <3>1 DEF Map
  <2>5. CASE ~(st >= MinValidatorStake)
    <3>1. UptimeEntry(ts'[v])
            = UptimeAbs!Entry(TRUE, FALSE, ts[v].regHeight, ts[v].lastHb,
                              ts[v].received)
      BY <2>1, <2>2, <2>5 DEF UpdateStake, UptimeEntry, UptimeAbs!Entry, Info,
                              TypeOK
    <3> QED
      BY <2>2, <2>3, <3>1, RefineDeactivate DEF UptimeAbs!Next
  <2> QED
    BY <2>4, <2>5
<1>6. CASE \E v \in Validators : DeactivateValidator(v)
  <2>1. PICK v \in Validators : DeactivateValidator(v)
    BY <1>6
  <2>2. ts[v] \in Info /\ ts[v].reg
    BY <2>1 DEF TypeOK, DeactivateValidator
  <2>3. UptimeEntry(ts'[v])
          = UptimeAbs!Entry(TRUE, FALSE, ts[v].regHeight, ts[v].lastHb,
                            ts[v].received)
    BY <2>1, <2>2 DEF DeactivateValidator, UptimeEntry, UptimeAbs!Entry, Info,
                      TypeOK
  <2>4. \A w \in Validators \ {v} : ts'[w] = ts[w]
    BY <2>1 DEF DeactivateValidator, TypeOK
  <2> QED
    BY <2>2, <2>3, <2>4, RefineDeactivate DEF UptimeAbs!Next
<1>7. CASE Restart \/ Crash
  <2>1. ts' = [v \in Validators |-> NoInfo]
    BY <1>7 DEF Restart, Crash, Restarted
  <2>2. UptimeAbs!Forget
    BY <2>1, EntryImages DEF UptimeAbs!Forget, Map
  <2> QED
    BY <2>2 DEF UptimeAbs!Next
<1> QED
  BY <1>1, <1>2, <1>3, <1>4, <1>5, <1>6, <1>7 DEF Next

\* The start-up state maps to Uptime's: no entry.
LEMMA RefineInit == Init => UptimeAbs!Init
BY EntryImages DEF Init, UptimeAbs!Init, UptimeEntry

\* TS's heartbeat accounting implements Uptime under the mapping that keeps
\* an entry's registration, activity, registration height, last counted
\* height and received count: HeartbeatManager and TS together never count
\* a heartbeat too early, never register an id twice and never reactivate
\* an entry, whatever peers send and however the node restarts.
THEOREM UptimeRefined == Spec => UptimeRefinement
<1>1. Spec => []TypeOK
  BY TypeCorrect
<1> QED
  BY <1>1, RefineInit, RefineNext, PTL DEF Spec, UptimeRefinement, UptimeAbs!Spec, Map

-----------------------------------------------------------------------------
(* Spacing of counted heartbeats.                                          *)

\* HeartbeatSpacing, read on the image in Uptime.
MapSpacing ==
  \A v \in Validators :
    Map[v].reg =>
      Map[v].received * HeartbeatInterval <= Map[v].lastHb - Map[v].regHeight

LEMMA SpacingOnMap == HeartbeatSpacing <=> MapSpacing
BY DEF HeartbeatSpacing, MapSpacing, Map, UptimeEntry

\* Every step of Uptime keeps the spacing of well-typed entries.
LEMMA MapSpacingStep ==
  TypeOK /\ MapSpacing /\ [UptimeAbs!Next]_Map => MapSpacing'
<1> SUFFICES ASSUME TypeOK, MapSpacing, [UptimeAbs!Next]_Map
             PROVE  MapSpacing'
  OBVIOUS
<1> DEFINE I == HeartbeatInterval
<1>1. \A v \in Validators :
        /\ Map[v].received \in Nat
        /\ Map[v].lastHb \in Int
        /\ Map[v].regHeight \in Int
  BY DEF TypeOK, Info, Map, UptimeEntry
<1>2. CASE Map' = Map
  BY <1>2 DEF MapSpacing
<1>3. CASE \E S \in SUBSET Validators : \E rh \in [S -> ClaimedHeights] :
             UptimeAbs!Register(S, rh)
  <2>1. PICK S \in SUBSET Validators : \E rh \in [S -> ClaimedHeights] :
               UptimeAbs!Register(S, rh)
    BY <1>3
  <2>2. PICK rh \in [S -> ClaimedHeights] : UptimeAbs!Register(S, rh)
    BY <2>1
  <2>3. \A v \in S : Map'[v] = UptimeAbs!Entry(TRUE, TRUE, rh[v], rh[v], 0)
    BY <2>2 DEF UptimeAbs!Register, Map
  <2>4. \A v \in S : Map'[v].received * I <= Map'[v].lastHb - Map'[v].regHeight
    <3> SUFFICES ASSUME NEW v \in S
                 PROVE  Map'[v].received * I <= Map'[v].lastHb - Map'[v].regHeight
      OBVIOUS
    <3>0. rh[v] \in Int /\ Map'[v] = UptimeAbs!Entry(TRUE, TRUE, rh[v], rh[v], 0)
      BY <2>3
    <3>1. Map'[v].received = 0 /\ Map'[v].lastHb = Map'[v].regHeight
          /\ Map'[v].regHeight \in Int
      BY <3>0 DEF UptimeAbs!Entry
    <3>2. I \in Nat
      OBVIOUS
    <3> QED
      BY <3>1, <3>2
  <2>5. \A v \in Validators \ S : Map'[v] = Map[v]
    BY <2>2 DEF UptimeAbs!Register, Map
  <2> QED
    BY <2>4, <2>5 DEF MapSpacing
<1>4. CASE \E v \in Validators, h \in ClaimedHeights : UptimeAbs!Count(v, h)
  <2>1. PICK v \in Validators, h \in ClaimedHeights : UptimeAbs!Count(v, h)
    BY <1>4
  <2>2. /\ Map[v].reg
        /\ h >= Map[v].lastHb + I
        /\ Map'[v] = UptimeAbs!Entry(TRUE, TRUE, Map[v].regHeight, h,
                                     Map[v].received + 1)
        /\ \A w \in Validators \ {v} : Map'[w] = Map[w]
    BY <2>1 DEF UptimeAbs!Count, Map
  <2>3. Map[v].received * I <= Map[v].lastHb - Map[v].regHeight
    BY <2>2 DEF MapSpacing
  <2>4. (Map[v].received + 1) * I <= h - Map[v].regHeight
    BY <1>1, <2>2, <2>3
  <2> QED
    BY <2>2, <2>4 DEF MapSpacing, UptimeAbs!Entry
<1>5. CASE \E v \in Validators : UptimeAbs!Deactivate(v)
  <2>1. PICK v \in Validators : UptimeAbs!Deactivate(v)
    BY <1>5
  <2>2. /\ Map[v].reg
        /\ Map'[v] = UptimeAbs!Entry(TRUE, FALSE, Map[v].regHeight,
                                     Map[v].lastHb, Map[v].received)
        /\ \A w \in Validators \ {v} : Map'[w] = Map[w]
    BY <2>1 DEF UptimeAbs!Deactivate, Map
  <2> QED
    BY <2>2 DEF MapSpacing, UptimeAbs!Entry
<1>6. CASE UptimeAbs!Forget
  BY <1>6 DEF UptimeAbs!Forget, UptimeAbs!Absent, UptimeAbs!Entry, MapSpacing,
              Map
<1> QED
  BY <1>2, <1>3, <1>4, <1>5, <1>6 DEF UptimeAbs!Next

\* TrustScoreManager::ProcessHeartbeat counts a heartbeat only an interval
\* past the last one it counted, from the announced registration height
\* on: a validator's received count never exceeds the intervals between
\* its registration height and its last counted heartbeat, whatever heights
\* peers put in heartbeats and announcements, for every interval, window,
\* seen-set bound and restart pattern.
THEOREM SpacingCorrect == Spec => []HeartbeatSpacing
<1>1. Init => HeartbeatSpacing
  BY NoInfoTyped DEF Init, HeartbeatSpacing, NoInfo
<1>2. TypeOK /\ HeartbeatSpacing /\ [Next]_vars => HeartbeatSpacing'
  <2> SUFFICES ASSUME TypeOK, HeartbeatSpacing, [Next]_vars
               PROVE  HeartbeatSpacing'
    OBVIOUS
  <2>1. MapSpacing
    BY SpacingOnMap
  <2>2. [UptimeAbs!Next]_Map
    BY RefineNext
  <2>3. MapSpacing'
    BY <2>1, <2>2, MapSpacingStep
  <2> QED
    BY <2>3 DEF HeartbeatSpacing, MapSpacing, Map, UptimeEntry
<1> QED
  BY <1>1, <1>2, TypeCorrect, PTL DEF Spec

====
