------------------------------ MODULE MCServices ------------------------------
(***************************************************************************)
(* The components around the executor that say what it may do and whether  *)
(* their inputs can be trusted, in one instance for TLC: a behaviour is    *)
(* one of a single component, and the others stay as they begin.  The task *)
(* is the module it extends; it issues nothing while another moves.        *)
(***************************************************************************)
EXTENDS TaskMachine

CONSTANTS
    \* the log
    QueueLimit, FileLimit, LogFiles, MaxRecords,
    \* the terrain height
    Threads, OdomTimeout, CloudTimeout, TerrainBase, TerrainAge, Tolerance, Skew,
    HistoryLimit, Horizon, MaxClouds, MaxRevocations,
    \* the remote control behind the base system
    MavrosTimeout, LidarTimeout, RcHorizon, Timers, RcTimeout, RcFuture, RcBase,
    \* the odometry chain
    ChainAge, ChainFuture, ChainBase, StateTimeout, ChainHorizon, MaxQueue,
    \* the owner of the transform
    TfAge, TfBase, MaxCache, TfHorizon

VARIABLES part,
          queue, dropped, stopping, hand, files, offered, written, reported, failed, broken,
          time, watched, odom, cloud, base, revocations, ready, reason, basis, callback,
          tick, due, mavros, livox, beat, decoder, heartbeat, state, rcReady, heard,
          clock, timers, gate, chainReady, seen, sample, fcu, aligned, wire,
          hour, watch, cache, stamps, enabled, baseWall, last, tfReady, void

\* Sensors of a feedback: landed, flying away from and at the target, flying
\* under another mode, with the position or the flight controller lost.
Seen ==
    LET flying == [fcu |-> "up", motion |-> TRUE, grounded |-> FALSE,
                   armed |-> TRUE, mode |-> "OFFBOARD", near |-> FALSE]
    IN {flying, [flying EXCEPT !.near = TRUE], [flying EXCEPT !.mode = "OTHER"],
        [flying EXCEPT !.motion = FALSE], [flying EXCEPT !.fcu = "stale"],
        [flying EXCEPT !.armed = FALSE, !.grounded = TRUE]}

Issues == 6

\* Feedback of every phase for the first identifiers; a landed one and one of
\* a hover without a takeoff point; a revocation; and one that is too old.
Reports ==
    LET fresh == [age : {0}, phase : {"TAKEOFF", "GUIDING", "PAUSED", "HOLDING", "ERROR"},
                  originValid : {TRUE}, originGeneration : {1}, generation : {1},
                  id : 1..Issues, lost : {FALSE}, sensors : Seen]
        landed == [age |-> 0, phase |-> "IDLE_GROUND", originValid |-> FALSE,
                   originGeneration |-> 1, generation |-> 1, id |-> 1, lost |-> FALSE,
                   sensors |-> CHOOSE s \in Seen : ~s.armed]
    IN {f \in fresh : f.phase \in {"GUIDING", "HOLDING"} \/ f.sensors.near}
       \cup {[landed EXCEPT !.id = n] : n \in 1..Issues}
       \cup {[landed EXCEPT !.phase = "PAUSED", !.sensors = s] : s \in Seen}
       \cup {[landed EXCEPT !.lost = TRUE, !.sensors = s] : s \in Seen}
       \cup {[landed EXCEPT !.age = TaskTimeout + 1, !.sensors = s] : s \in Seen}

\* Missions of no point, of one, and of two.
Points == {<<>>, <<"A">>, <<"A", "B">>}

Logger == INSTANCE SessionLogger WITH Keep <- LogFiles
Terrain == INSTANCE TerrainHeight
    WITH BaseTimeout <- TerrainBase, MaxAge <- TerrainAge, now <- time
Rc == INSTANCE RcMonitor
    WITH MaxTime <- RcHorizon, Timeout <- RcTimeout, Future <- RcFuture, BaseTimeout <- RcBase,
         now <- tick, base <- heartbeat, ready <- rcReady
Chain == INSTANCE OdometryChain
    WITH MaxAge <- ChainAge, Future <- ChainFuture, BaseTimeout <- ChainBase,
         MaxTime <- ChainHorizon, now <- clock, due <- timers, ready <- chainReady
Tf == INSTANCE WorldTf
    WITH MaxAge <- TfAge, BaseTimeout <- TfBase, MaxTime <- TfHorizon,
         now <- hour, due <- watch, seen <- stamps, ready <- tfReady

ASSUME ServicesAssumptions ==
    /\ Logger!LoggerAssumption /\ Terrain!TerrainAssumption /\ Rc!RcMonitorAssumption
    /\ Rc!BaseHealthAssumption /\ Chain!OdometryChainAssumption /\ Tf!WorldTfAssumption

loggerVars == <<queue, dropped, stopping, hand, files, offered, written, reported, failed,
                broken>>
terrainVars == <<time, watched, odom, cloud, base, revocations, ready, reason, basis, callback>>
rcVars == <<tick, due, mavros, livox, beat, decoder, heartbeat, state, rcReady, heard>>
chainVars == <<clock, timers, gate, chainReady, seen, sample, fcu, aligned, wire>>
tfVars == <<hour, watch, cache, stamps, enabled, baseWall, last, tfReady, void>>
services == <<part, task, loggerVars, terrainVars, rcVars, chainVars, tfVars>>

Parts == {"task", "logger", "terrain", "rc", "chain", "tf"}

ServicesInit ==
    /\ part \in Parts
    /\ Init /\ Logger!Init /\ Terrain!Init /\ Rc!Init /\ Chain!Init /\ Tf!Init

\* The named component moves, and the others stay.
Moves(moving) ==
    /\ part = moving /\ UNCHANGED part
    /\ moving # "task" => UNCHANGED task
    /\ moving # "logger" => UNCHANGED loggerVars
    /\ moving # "terrain" => UNCHANGED terrainVars
    /\ moving # "rc" => UNCHANGED rcVars
    /\ moving # "chain" => UNCHANGED chainVars
    /\ moving # "tf" => UNCHANGED tfVars

ServicesNext ==
    \/ Moves("task") /\ Next
    \/ Moves("logger") /\ Logger!Next
    \/ Moves("terrain") /\ Terrain!Next
    \/ Moves("rc") /\ Rc!Next
    \/ Moves("chain") /\ Chain!Next
    \/ Moves("tf") /\ Tf!Next

ServicesSpec == ServicesInit /\ [][ServicesNext]_services

-----------------------------------------------------------------------------
\* A record that is not in the files was counted as dropped or lost, or made room
\* for newer ones when every file was in use (offboard_node.cpp).
LogIsComplete == part = "logger" => Logger!AccountsForAll /\ Logger!LogIsNewest

\* Ready is said only on inputs that are as they were when it was decided and no
\* older than their timeouts and a run of the watchdog: by the terrain height, the
\* remote control, both nodes of the odometry chain and the owner of the transform
\* (terrain_height_node.py, rc_monitor.py, fastlio_odometry_adapter.py,
\* external_odometry_relay.py, world_tf_owner.py).
ReadyIsBacked ==
    /\ part = "terrain" => Terrain!ReadyStandsOnLiveInputs
    /\ part = "rc" => Rc!ReadyIsBacked
    /\ part = "chain" => Chain!ReadyIsBacked
    /\ part = "tf" => Tf!ReadyIsBacked

\* A valid state of the remote control is a new measurement, and a transform pairs
\* estimates that both came after the last reason to forget (rc.py, world_tf_owner.py).
EstimatesAreNew ==
    /\ [][part = "rc" => Rc!NewMeasurement]_rcVars
    /\ [][part = "tf" => Tf!NewPair]_tfVars
=============================================================================
