---------------------------- MODULE TerrainHeight ----------------------------
(***************************************************************************)
(* The node that publishes the height over ground.  A cloud is paired with *)
(* the odometry of its time, its transforms are looked up and the ground   *)
(* is estimated, both without the lock, while odometry, the heartbeat of   *)
(* the base system, further clouds and a watchdog change what the estimate *)
(* rests on.                                                               *)
(*                                                                         *)
(* One clock stands for the ROS clock of the stamps and the steady clock   *)
(* of the arrivals.  A message is its stamp and whether its frames and     *)
(* numbers are right; looking up and estimating may fail.  The base gate   *)
(* is required and the reference confirmed, as they are for a flight.      *)
(***************************************************************************)
EXTENDS Integers, Sequences, FiniteSets, SequencesExt

CONSTANTS Threads,            \* threads that run the cloud callback, one per publisher
          OdomTimeout, CloudTimeout, BaseTimeout,
          MaxAge, Tolerance,  \* max_header_age, future_tolerance
          Skew,               \* odom_cloud_skew
          HistoryLimit,       \* 32 in the code
          Horizon, MaxClouds, MaxRevocations  \* bounds

TerrainAssumption ==
  /\ {OdomTimeout, CloudTimeout, BaseTimeout, MaxAge, Tolerance, Skew} \subseteq Nat
  /\ HistoryLimit \in Nat \ {0}
  /\ {Horizon, MaxClouds, MaxRevocations} \subseteq Nat

VARIABLES now, watched,   \* the clock; has the watchdog run since it last moved?
          odom,           \* odom_history, watermark, accepted stamp, arrival
          cloud,          \* watermark, accepted stamp, arrival, cloud_generation
          base,           \* base_ready and when it was heard
          revocations,    \* revocation_generation
          ready, reason,  \* ready, last_watchdog_reason
          basis,          \* history: the snapshot of the height last found valid
          callback        \* thread -> where its cloud is

inputVars == <<odom, cloud, base>>
outputVars == <<ready, reason, basis>>
terrainVars == <<now, watched, inputVars, revocations, outputVars, callback>>

Never == 0 - 100
NoSample == [stamp |-> 0, wall |-> Never]
NoSnapshot == [stamp |-> 0, odom |-> NoSample, gen |-> 0, revocation |-> 0]
Idle == [at |-> "idle", snapshot |-> NoSnapshot]
-----------------------------------------------------------------------------
\* _stamp_ns
StampOk(stamp) == stamp > 0 /\ now - stamp <= MaxAge /\ stamp - now <= Tolerance

BaseGateOpen == base.ready /\ now - base.wall <= BaseTimeout
OdomFresh(wall) == now - wall <= OdomTimeout
CloudFresh == now - cloud.wall <= CloudTimeout

Invalid == ready' = FALSE /\ UNCHANGED <<reason, basis>>

\* _clear_odom
ClearOdom == /\ revocations < MaxRevocations
             /\ revocations' = revocations + 1
             /\ odom' = [odom EXCEPT !.history = <<>>, !.stamp = 0, !.wall = Never]

OdomCallback(stamp, sound) ==
  LET known == StampOk(stamp)
      grows == stamp > odom.watermark
  IN  /\ IF known /\ grows /\ sound
           THEN LET sample == [stamp |-> stamp, wall |-> now]
                    all    == Append(odom.history, sample)
                    over   == Len(all) > HistoryLimit
                IN  /\ odom' = [watermark |-> stamp, stamp |-> stamp, wall |-> now,
                                history |-> IF over THEN Tail(all) ELSE all]
                    /\ UNCHANGED <<revocations, outputVars>>
           ELSE /\ revocations < MaxRevocations
                /\ revocations' = revocations + 1
                /\ odom' = [history |-> <<>>, stamp |-> 0, wall |-> Never,
                            watermark |-> IF known /\ grows THEN stamp ELSE odom.watermark]
                /\ Invalid
      /\ UNCHANGED <<now, watched, cloud, base, callback>>

BaseCallback(up) ==
  /\ base' = [ready |-> up, wall |-> now]
  /\ IF up THEN UNCHANGED <<revocations, outputVars>>
     ELSE /\ revocations < MaxRevocations
          /\ revocations' = revocations + 1
          /\ Invalid
  /\ UNCHANGED <<now, watched, odom, cloud, callback>>
-----------------------------------------------------------------------------
Become(t, at, snapshot) == callback' = [callback EXCEPT ![t] = [at |-> at, snapshot |-> snapshot]]

\* The first half of _prepare_cloud, up to the wait for odometry.
CloudArrives(t, stamp, sound) ==
  LET newer == StampOk(stamp) /\ stamp > cloud.watermark
  IN  /\ callback[t].at = "idle" /\ cloud.gen < MaxClouds
      /\ cloud' = [watermark |-> IF newer THEN stamp ELSE cloud.watermark,
                   stamp |-> IF newer /\ sound THEN stamp ELSE cloud.stamp,
                   wall |-> IF newer /\ sound THEN now ELSE cloud.wall,
                   gen |-> cloud.gen + 1]
      /\ IF newer /\ sound /\ BaseGateOpen
           THEN /\ Become(t, "waiting", [NoSnapshot EXCEPT !.stamp = stamp, !.gen = cloud.gen + 1])
                /\ UNCHANGED outputVars
           ELSE Invalid /\ UNCHANGED callback
      /\ UNCHANGED <<now, watched, odom, base, revocations>>

Distance(a, b) == IF a < b THEN b - a ELSE a - b

\* _matching_odom: the samples within the skew that are closest to the cloud.
Matching(stamp) ==
  {i \in DOMAIN odom.history :
     /\ Distance(odom.history[i].stamp, stamp) <= Skew
     /\ \A j \in DOMAIN odom.history :
          LET di == Distance(odom.history[i].stamp, stamp)
              dj == Distance(odom.history[j].stamp, stamp)
          IN  di < dj \/ (di = dj /\ i <= j)}

\* The rest of _prepare_cloud, when the odometry is there or the wait is over.
CloudPairs(t) ==
  LET request == callback[t].snapshot
      matched == Matching(request.stamp)
      sample  == odom.history[CHOOSE i \in matched : TRUE]
  IN  /\ callback[t].at = "waiting"
      /\ IF request.gen # cloud.gen
           THEN Become(t, "idle", NoSnapshot) /\ UNCHANGED <<odom, revocations, outputVars>>
         ELSE IF ~BaseGateOpen \/ ~OdomFresh(odom.wall)
           THEN Become(t, "idle", NoSnapshot) /\ Invalid /\ UNCHANGED <<odom, revocations>>
         ELSE IF \/ ~StampOk(odom.stamp)
                 \/ matched # {} /\ ~(StampOk(sample.stamp) /\ OdomFresh(sample.wall))
           THEN Become(t, "idle", NoSnapshot) /\ Invalid /\ ClearOdom
         ELSE IF matched = {}
           THEN Become(t, "idle", NoSnapshot) /\ Invalid /\ UNCHANGED <<odom, revocations>>
         ELSE /\ Become(t, "looking", [request EXCEPT !.odom = sample, !.revocation = revocations])
              /\ UNCHANGED <<odom, revocations, outputVars>>
      /\ UNCHANGED <<now, watched, cloud, base>>

SnapshotCurrent(s) ==
  /\ s.gen = cloud.gen /\ s.revocation = revocations
  /\ \E i \in DOMAIN odom.history : odom.history[i] = s.odom
  /\ s.stamp = cloud.stamp

\* _recheck_snapshot: what a thread may do with its snapshot under the lock.
Recheck(t, Proceed) ==
  LET s == callback[t].snapshot
  IN  IF ~SnapshotCurrent(s)
        THEN Become(t, "idle", NoSnapshot) /\ UNCHANGED <<odom, revocations, outputVars>>
      ELSE IF ~(BaseGateOpen /\ OdomFresh(odom.wall) /\ OdomFresh(s.odom.wall) /\ CloudFresh)
        THEN Become(t, "idle", NoSnapshot) /\ Invalid /\ UNCHANGED <<odom, revocations>>
      ELSE IF ~(StampOk(s.odom.stamp) /\ StampOk(s.stamp))
        THEN Become(t, "idle", NoSnapshot) /\ Invalid /\ ClearOdom
      ELSE Proceed /\ UNCHANGED <<odom, revocations>>

\* The transforms are there.
LookedUp(t) == /\ callback[t].at = "looking"
               /\ Recheck(t, Become(t, "estimating", callback[t].snapshot) /\ UNCHANGED outputVars)
               /\ UNCHANGED <<now, watched, cloud, base>>

\* A transform is missing, or the cloud cannot be read: _invalidate_snapshot.
Fails(t) == /\ callback[t].at \in {"looking", "estimating"}
            /\ Become(t, "idle", NoSnapshot)
            /\ IF SnapshotCurrent(callback[t].snapshot) THEN Invalid ELSE UNCHANGED outputVars
            /\ UNCHANGED <<now, watched, inputVars, revocations>>

\* The estimate is published as valid or not.
Publish(t, valid) ==
  /\ callback[t].at = "estimating"
  /\ Recheck(t, /\ Become(t, "idle", NoSnapshot)
                /\ ready' = valid
                /\ IF valid THEN reason' = "none" /\ basis' = callback[t].snapshot
                            ELSE UNCHANGED <<reason, basis>>)
  /\ UNCHANGED <<now, watched, cloud, base>>
-----------------------------------------------------------------------------
Complaint == IF ~BaseGateOpen THEN "base"
             ELSE IF ~OdomFresh(odom.wall) THEN "odom"
             ELSE IF ~CloudFresh THEN "cloud"
             ELSE IF ready /\ ~(StampOk(odom.stamp) /\ StampOk(cloud.stamp)) THEN "stamp"
             ELSE "none"

Watchdog ==
  /\ ~watched /\ watched' = TRUE
  /\ IF Complaint # "none" /\ (ready \/ Complaint # reason)
       THEN /\ revocations < MaxRevocations
            /\ revocations' = revocations + 1
            /\ reason' = Complaint
            /\ ready' = FALSE /\ UNCHANGED basis
       ELSE UNCHANGED <<revocations, outputVars>>
  /\ UNCHANGED <<now, inputVars, callback>>

\* The watchdog runs at least once in every unit of time.
Tick == /\ watched /\ now < Horizon
        /\ now' = now + 1 /\ watched' = FALSE
        /\ UNCHANGED <<inputVars, revocations, outputVars, callback>>
-----------------------------------------------------------------------------
Init == /\ now = 2 /\ watched = TRUE
        /\ odom = [history |-> <<>>, watermark |-> 0, stamp |-> 0, wall |-> Never]
        /\ cloud = [watermark |-> 0, stamp |-> 0, wall |-> Never, gen |-> 0]
        /\ base = [ready |-> FALSE, wall |-> Never]
        /\ revocations = 0
        /\ ready = FALSE /\ reason = "none" /\ basis = NoSnapshot
        /\ callback = [t \in Threads |-> Idle]

Stamps == {now - MaxAge - 1, now - MaxAge, now}

Next == \/ \E stamp \in Stamps, sound \in BOOLEAN : OdomCallback(stamp, sound)
        \/ \E up \in BOOLEAN : BaseCallback(up)
        \/ \E t \in Threads :
             \/ \E stamp \in Stamps, sound \in BOOLEAN : CloudArrives(t, stamp, sound)
             \/ CloudPairs(t) \/ LookedUp(t) \/ Fails(t)
             \/ \E valid \in BOOLEAN : Publish(t, valid)
        \/ Watchdog \/ Tick

Spec == Init /\ [][Next]_terrainVars
-----------------------------------------------------------------------------
\* While the node reports the height as ready, what that height was made from has
\* not been revoked: no odometry was thrown away and the base did not go down since
\* its cloud was paired, however late the estimate came. Odometry, cloud and
\* heartbeat go on: the newest of each is at most one run of the watchdog older than
\* allowed (terrain_height_node.py:353, :379, :553). The cloud of the height itself
\* may be older: newer clouds whose estimates are dropped keep it ready.
ReadyStandsOnLiveInputs ==
  ready => /\ basis.revocation = revocations
           /\ base.ready /\ now - base.wall <= BaseTimeout + 1
           /\ now - odom.wall <= OdomTimeout + 1 /\ now - odom.stamp <= MaxAge + 1
           /\ now - cloud.wall <= CloudTimeout + 1 /\ now - cloud.stamp <= MaxAge + 1
=============================================================================
