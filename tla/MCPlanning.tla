------------------------------ MODULE MCPlanning ------------------------------
(***************************************************************************)
(* The components that say where the vehicle is on the map and which way   *)
(* it goes, in one instance for TLC: a behaviour is one of a single        *)
(* component, and the others stay as they begin.  The relocalization,      *)
(* which the module extends, has two of them: a first session with one     *)
(* more scan, and sessions that the operator starts again, disarmed.  So   *)
(* has the frozen EGO controller with its bridge: one guided from the      *)
(* first hover after a takeoff, and one from the ground that is not, with  *)
(* landings and calls that fail.  The preprocessing of a scan meets every  *)
(* short one of points that its tests tell apart, sweeps of one layer, and *)
(* longer ones for the features.                                           *)
(***************************************************************************)
EXTENDS Relocalization

CONSTANTS w1, w2,    \* waypoints
          Waypoints, MaxAttempts, Missions, Singles, CommandValues, MaxGenerations, MaxEvents,
                     \* of the frozen controller and its bridge
          Length, MaxStamp, MaxObstacles, MaxSpeed, Acceleration, WaypointStep, Horizon, Clearance,
          Tolerance, Persistence, MaxTrack, MinMotion, Prediction, ProgressTimeout, MaxGap,
                     \* of the trajectory guard
          Reserve, Radius, Margin, MinZ, MaxZ, Tiny, Chord, SeedAge, SeedReach,
          Starts, Goals, Obstacles, Vias, PathClearance, PathHorizon, PathStamp, PathTerminal,
                     \* of the path service
          Axes, Side, DetRange,   \* of the local map
          Way        \* bound: how far the vehicle gets from one scan to the next

VARIABLES part,
          ctl, bridge, events, known, goals, calls,
          guard, sent, now,
          lidar, features, scan, surf, corn, curv, given, fault, handled,
          curve, aim, stamp, blocked, shown, request, answer, seed,
          imu, poses, cloud, span, stage, kf, box, place

TwoPoints == {<<w1, w2>>}
Deepest == -8
OneStart == {<<0, 0, 0>>}
FarAndNear == {<<9, 0, 0>>, <<3, 0, 0>>}
ThreePoints == {<<5, 2, 0>>, <<0, 9, 1>>, <<0, -4, 1>>}
TwoVias == {<<5, 0, 0>>, <<4, -3, 0>>}

Bridge == INSTANCE PlannerBridge
Guard == INSTANCE TrajectoryGuard

\* Points of a scan: of every distance, line and tag that a handler tells apart;
\* of one layer, over two turns and a half; and what makes planes, edges and their ends.
Plain == [apart |-> FALSE, flat |-> FALSE, bent |-> FALSE, prev |-> "nor", next |-> "nor",
          gap |-> 2, jump |-> FALSE, even |-> TRUE, smooth |-> FALSE]
At(pos, line, valid) == [pos |-> pos, line |-> line, valid |-> valid, sweep |-> 1, shape |-> Plain]
Sorts == {At(p, 0, TRUE) : p \in {0, 2, 3, 4}}
           \cup {At(4, 1, TRUE), At(4, 0, FALSE), At(4, 2, TRUE)}
Sweeping == {[At(4, 0, TRUE) EXCEPT !.sweep = s] : s \in 0 .. 5}
Formed == {At(2, 0, TRUE),
           [At(4, 0, TRUE) EXCEPT !.shape.flat = TRUE],
           [At(9, 0, TRUE) EXCEPT !.shape.apart = TRUE, !.shape.bent = TRUE, !.shape.flat = TRUE,
                                  !.shape.next = "zero", !.shape.jump = TRUE, !.shape.smooth = TRUE]}

Pre == INSTANCE Preprocess
    WITH NScans <- 1, Blind <- 3, InfBound <- 8, Filter <- 2, Group <- 2, MinLine <- 3,
         Turn <- 3, Messages <- 1,
         Scans <- UNION {[1 .. n -> Sorts] : n \in 0 .. 3} \cup [1 .. 4 -> Sweeping]
                    \cup [1 .. 6 -> Formed]
Ego == INSTANCE EgoService
    WITH Clearance <- PathClearance, Horizon <- PathHorizon, MaxStamp <- PathStamp,
         Terminal <- PathTerminal
Est == INSTANCE Estimator
    WITH MaxInit <- 1, Iterations <- 3, Reach <- DetRange, Period <- 3,
         Clouds <- {<<1>>, <<2, 0, 3>>, <<3, 1, 2>>, <<2, 2, 1>>}, Feats <- {1, 2},
         Ways <- {-Way, 0, Way}, MaxTime <- 7

ASSUME PlanningAssumptions ==
    /\ Guard!GuardAssumption /\ Pre!PreprocessAssumption /\ Ego!EgoServiceAssumption
    /\ Bridge!EgoAssumption /\ Bridge!BridgeAssumption /\ {w1, w2} \subseteq Waypoints
    /\ Est!EstimatorAssumption

bridgeVars == <<ctl, bridge, events, known, goals, calls>>
guardVars == <<guard, sent, now>>
preVars == <<lidar, features, scan, surf, corn, curv, given, fault, handled>>
egoVars == <<curve, aim, stamp, blocked, shown, request, answer, seed>>
estimatorVars == <<imu, poses, cloud, span, stage, kf, box, place>>
planning == <<part, vars, bridgeVars, guardVars, preVars, egoVars, estimatorVars>>

Parts == {"first", "again", "guided", "unguided", "guard", "scan", "path", "estimate"}

Hover == [Bridge!InitController EXCEPT
            !.phase = "HOLDING", !.zero = TRUE, !.last = {1},
            !.prestream = TRUE, !.origin = TRUE, !.raw = <<w1, w2>>]

PlanningInit ==
    /\ part \in Parts
    /\ Init /\ Guard!Init /\ Ego!Init
    /\ Est!Init /\ imu.end \in IF part = "estimate" THEN {0, 3, 7} ELSE {0}
    /\ Pre!Init /\ (part # "scan" => lidar = "OTHER" /\ features = FALSE)
    /\ IF part = "guided" THEN Bridge!InitWith(Hover) ELSE Bridge!Init

\* The named component moves, and the others stay.
Moves(moving) ==
    /\ part = moving /\ UNCHANGED part
    /\ moving \notin {"first", "again"} => UNCHANGED vars
    /\ moving \notin {"guided", "unguided"} => UNCHANGED bridgeVars
    /\ moving # "guard" => UNCHANGED guardVars
    /\ moving # "scan" => UNCHANGED preVars
    /\ moving # "path" => UNCHANGED egoVars
    /\ moving # "estimate" => UNCHANGED estimatorVars

PlanningNext ==
    \/ Moves("first") /\ Next /\ asked' = 0
    \/ Moves("again") /\ Next /\ node'.seen < 3 /\ ~node'.armed
    \/ Moves("guided") /\ Bridge!Next /\ ctl'.pending \notin {{1}, {3}}
    \/ Moves("unguided") /\ Bridge!Next /\ ctl'.generation = 0
    \/ Moves("guard") /\ Guard!Next
    \/ Moves("scan") /\ Pre!Next /\ (Len(scan') > 4 => features)
    \/ /\ Moves("path")
       /\ \E r \in Ego!Requests :
            /\ (r.usable /\ r.slow) \/ r.stamp = 2
            /\ r.stamp > request.stamp /\ Ego!Plan(r)
    \/ /\ Moves("estimate") /\ Est!Next
       /\ \A a \in Axes : place'[a] \in -2 * Way .. 2 * Way
       /\ stage' = "update" =>
            cloud.times = <<1>> /\ \A a \in Axes : place[a] \in {-Way, 0, Way}

PlanningSpec == PlanningInit /\ [][PlanningNext]_planning

-----------------------------------------------------------------------------
\* A setpoint from the planner leads to the waypoint the mission is at, however late
\* the planner's messages come, and a goal is sent once and with the context the node
\* has acknowledged (planner_core.cpp, planner_bridge.cpp).
BridgeIsInStep == Bridge!TargetsLeadToWaypoint /\ Bridge!GoalsAreSentOnce

\* Whatever was planned and not published, a command can be flown from the one before
\* it and stops before its reference; and what the optimizer goes on from is the answer
\* that was given before (trajectory_guard.py, ego_node.cpp).
CommandsAreFlyable == Guard!CommandsAreFlyable /\ Ego!SeedIsCertified

\* A scan is handed on without a blind point or one twice, and with the times that
\* its yaws tell (preprocess.cpp).
ScanIsClean == part = "scan" => Pre!ScanIsClean /\ Pre!TimesAreRecovered

\* A path that is returned keeps its clearance everywhere, and no blocker stays shown
\* (ego_node.cpp, grid_map.h).
PathsAreClear == part = "path" => Ego!PathsAreClear /\ Ego!BlockersAreTaken

\* The estimate is carried on exactly to the end of a scan, every point is moved with
\* the motion it was measured in, and an update is made whole or not at all
\* (IMU_Processing.hpp, esekfom.hpp).
EstimateIsWhole ==
    part = "estimate" => Est!CarriedToEnd /\ Est!PointsAreMovedOnce /\ Est!UpdateIsWhole

\* What the lidar can reach is in the box of the local map, and what is deleted to move
\* the box is not (lasermap_fov_segment of laserMapping.cpp).
LocalMapFollows == Est!LocalMapFollows
=============================================================================
