------------------------------ MODULE Uptime -------------------------------
(***************************************************************************)
(* What the trust-score manager promises about heartbeat accounting, with  *)
(* heartbeat transport, deduplication, stakes, expectations and addresses  *)
(* left out. Each validator's entry is created once, with the registration *)
(* height it was announced with; it counts a heartbeat only at a height an *)
(* interval or more past the last one counted (the registration height at  *)
(* first); it can be deactivated but not reactivated; a node restart       *)
(* forgets every entry.                                                    *)
(***************************************************************************)
EXTENDS Integers

CONSTANTS
  Validators,          \* validator ids
  HeartbeatInterval,   \* blocks between two counted heartbeats
  ClaimedHeights       \* heights announcements and heartbeats carry

VARIABLE uptime     \* validator id -> its entry

Entry(reg, active, regHeight, lastHb, received) ==
  [reg |-> reg, active |-> active, regHeight |-> regHeight,
   lastHb |-> lastHb, received |-> received]

Absent == Entry(FALSE, FALSE, 0, 0, 0)

Init == uptime = [v \in Validators |-> Absent]

\* The validators of S, none yet known, are registered at the given heights.
Register(S, rh) ==
  /\ S # {}
  /\ \A v \in S : ~uptime[v].reg
  /\ uptime' = [v \in Validators |->
                  IF v \in S THEN Entry(TRUE, TRUE, rh[v], rh[v], 0)
                  ELSE uptime[v]]

\* A heartbeat for height h is counted.
Count(v, h) ==
  /\ uptime[v].reg
  /\ uptime[v].active
  /\ h >= uptime[v].lastHb + HeartbeatInterval
  /\ uptime' = [uptime EXCEPT ![v] = Entry(TRUE, TRUE, uptime[v].regHeight, h,
                                            uptime[v].received + 1)]

Deactivate(v) ==
  /\ uptime[v].reg
  /\ uptime' = [uptime EXCEPT ![v] = Entry(TRUE, FALSE, uptime[v].regHeight,
                                            uptime[v].lastHb, uptime[v].received)]

Forget == uptime' = [v \in Validators |-> Absent]

Next ==
  \/ \E S \in SUBSET Validators : \E rh \in [S -> ClaimedHeights] : Register(S, rh)
  \/ \E v \in Validators, h \in ClaimedHeights : Count(v, h)
  \/ \E v \in Validators : Deactivate(v)
  \/ Forget

Spec == Init /\ [][Next]_uptime

====
