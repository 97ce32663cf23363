------------------------------ MODULE MCTrust ------------------------------
(***************************************************************************)
(* Model-checking harness for Trust: the properties the spec states of the *)
(* heartbeat path, the trust scorer and peer discovery.                    *)
(***************************************************************************)
EXTENDS Trust, TLC

-----------------------------------------------------------------------------
(* Properties the spec states that the code does not keep.                 *)

\* Spec 4.4 step 3: a heartbeat hash enters seenHeartbeats only once the
\* heartbeat was processed successfully. HeartbeatManager::ProcessHeartbeat
\* inserts it before TS has looked at it, so a rejected heartbeat (early, or
\* from an unknown validator) is later dropped as a replay. The node's own
\* broadcast heartbeats are the other legitimate members.
SeenOnlyAccepted ==
  \A k \in seen :
    k[1] = LocalValidator \/ \E hb \in counted : Hash(hb) = k

\* Spec 4.4 step 2: only a heartbeat signed by the validator's key is
\* counted. Neither HeartbeatManager::ProcessHeartbeat nor
\* TrustScoreManager::ProcessHeartbeat calls Heartbeat::Verify.
CountedHeartbeatsSigned ==
  \A hb \in counted : hb.signer = hb.vid

\* Honest inputs, for the run about the uptime window: every heartbeat
\* claims a height the chain has reached when it arrives, and every
\* registration a height at or below the node's.  A claim ahead of the tip
\* (stale_state at part_005:1100) is another way past 100%.
HonestClaims ==
  /\ msg = NoMsg \/ msg.height <= height
  /\ \A v \in Validators : ts[v].reg => ts[v].regHeight <= registeredAt[v]

\* GetUptimePercentage is a percentage (x10): at most 1000.
\* UpdateHeartbeatExpectations caps the expected count at the uptime
\* window while heartbeatsReceived keeps counting, so once the chain is a
\* window past its registration an honest validator exceeds 100%.
UptimeAtMost100 ==
  \A v \in Validators : ts[v].reg => GetUptimePercentage(ts[v]) <= 1000

\* Every received heartbeat is eventually handled by the message thread.
\* CleanupSeenHeartbeats locks cs_heartbeat, which ProcessHeartbeat holds,
\* so the first overflow of the seen set hangs the thread.
HeartbeatEventuallyHandled ==
  msg # NoMsg ~> msg = NoMsg

====
