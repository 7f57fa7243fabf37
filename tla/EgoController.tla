----------------------------- MODULE EgoController -----------------------------
(***************************************************************************)
(* The controller of the frozen EGO mode (core.cpp and planner_core.cpp):  *)
(* one state machine for commands, takeoff, mission and landing, which     *)
(* follows the targets of a planner between waypoints.  Operators on its   *)
(* members; PlannerBridge.tla runs it.                                     *)
(*                                                                         *)
(* Time is which intervals have elapsed at a tick: "wait", the short one   *)
(* of the phase (prestream, feedback and retry, dwell, ground delay),      *)
(* "limit", its deadline, and "stale", the age of what the planner sent.   *)
(***************************************************************************)
EXTENDS Naturals, Sequences

CONSTANTS MaxAttempts

EgoAssumption == MaxAttempts \in Nat \ {0}

Intervals == {"wait", "limit", "stale"}
None == "none"
Here == "here"      \* the pose of the sensors
Ramp == "ramp"      \* on the way to the takeoff height
Pose(p) == [kind |-> p, id |-> 0]

Grounded == {"BOOT_WAIT_ZERO", "IDLE_GROUND"}
Holds == {"PAUSED", "HOLDING"}
Landings == {"LAND_REQUEST", "LANDING", "WAIT_DISARM"}

\* raw: raw_mission_, which mission_ is resolved from once there is an origin;
\* id: planner_id_, 0 when revoked; target: planner_target_ once received
InitController ==
    [phase |-> "BOOT_WAIT_ZERO", zero |-> FALSE, last |-> {}, pending |-> {},
     takeoff |-> FALSE, prestream |-> FALSE, arrived |-> FALSE, ground |-> FALSE,
     origin |-> FALSE, raw |-> <<>>, sequence |-> TRUE, index |-> 1, replaced |-> FALSE,
     setpoint |-> Pose(Here), final |-> Here,
     generation |-> 0, id |-> 0, state |-> "INACTIVE", error |-> FALSE,
     target |-> Pose(None), status |-> FALSE, capture |-> FALSE,
     action |-> None, attempts |-> 0]

Mission(c) == IF c.origin THEN c.raw ELSE <<>>

\* inputsReady implies a fresh state.
GroundSeen(s) == s.ready /\ s.ground /\ ~s.armed
-----------------------------------------------------------------------------
(* The planner's part *)

RevokePlanner(c) ==
    [c EXCEPT !.id = 0, !.state = "INACTIVE", !.error = FALSE, !.target = Pose(None),
              !.status = FALSE, !.capture = FALSE]

BeginPlanner(c) ==
    [RevokePlanner(c) EXCEPT !.generation = @ + 1, !.id = c.generation + 1,
                             !.state = "WAITING", !.capture = TRUE]

Concerns(c, id) == c.phase = "GUIDING" /\ id # 0 /\ id = c.id

\* Mutant of AcceptTarget: a target for any request.
AcceptTargetOfAnyone(c, m) ==
    IF c.phase # "GUIDING" \/ c.id = 0 THEN c
    ELSE IF m.old THEN [c EXCEPT !.error = TRUE]
    ELSE [c EXCEPT !.target = [kind |-> m.goal, id |-> m.id]]

\* acceptPlannerTarget; old: its stamp is stale, repeated or malformed.
AcceptTarget(c, m) ==
    IF ~Concerns(c, m.id) THEN c
    ELSE IF m.old THEN [c EXCEPT !.error = TRUE]
    ELSE [c EXCEPT !.target = [kind |-> m.goal, id |-> m.id]]

AcceptStatus(c, m) ==
    IF ~Concerns(c, m.id) THEN c
    ELSE IF m.old THEN [c EXCEPT !.error = TRUE]
    ELSE [c EXCEPT !.status = TRUE, !.state = m.state,
                   !.error = @ \/ m.state \notin {"IDLE", "AVOIDING", "GOAL_REACHED"}]

AcceptResponse(c, m) ==
    IF Concerns(c, m.id) /\ ~m.accepted THEN [c EXCEPT !.error = TRUE] ELSE c
-----------------------------------------------------------------------------
(* Commands, missions and the results of service calls *)

ObserveCommand(c, command) ==
    IF {command} = c.last THEN c
    ELSE [c EXCEPT !.last = {command}, !.pending = {command}]

SetMission(c, mission, sequence) ==
    [c EXCEPT !.raw = mission, !.sequence = sequence, !.index = 1]

Cancelled(c) == [c EXCEPT !.action = None]
StartActions(c, phase) == [Cancelled(c) EXCEPT !.phase = phase, !.attempts = 0]
Fail(c) == [Cancelled(RevokePlanner(c)) EXCEPT !.phase = "ERROR"]

StartGuiding(c) ==
    IF Mission(c) = <<>>
    THEN [c EXCEPT !.phase = "HOLDING", !.final = c.setpoint.kind]
    ELSE LET i == IF c.index > Len(c.raw) THEN 1 ELSE c.index
         IN BeginPlanner([c EXCEPT !.phase = "GUIDING", !.arrived = FALSE, !.index = i,
                              !.final = c.raw[i], !.replaced = FALSE])

ReplaceSequence(c, mission) ==
    IF c.phase \notin Grounded \cup Holds THEN c
    ELSE [SetMission(c, mission, TRUE) EXCEPT !.replaced = c.phase \in Holds]

ReplaceSingle(c, waypoint) ==
    IF c.phase \in Landings \cup {"ERROR"} THEN c
    ELSE LET d == SetMission(c, <<waypoint>>, FALSE)
         IN IF c.origin /\ c.phase = "GUIDING" THEN StartGuiding(d) ELSE d

\* acceptActionResult, of the call that is pending.  A success waits for its
\* confirmation and a failure for the next try: both are "wait".
AcceptResult(c) == [c EXCEPT !.action = None]

PauseAtActual(c) ==
    [Cancelled(RevokePlanner(c)) EXCEPT !.phase = "PAUSED", !.setpoint = Pose(Here),
        !.final = Here, !.arrived = FALSE]

StartLanding(c) ==
    StartActions([RevokePlanner(c) EXCEPT !.setpoint = Pose(Here), !.final = Here,
                                          !.ground = FALSE], "LAND_REQUEST")

FinishLanding(c) ==
    [Cancelled(RevokePlanner(c)) EXCEPT !.phase = "IDLE_GROUND", !.origin = FALSE,
        !.takeoff = FALSE, !.index = 1, !.arrived = FALSE, !.ground = FALSE,
        !.raw = IF c.sequence THEN @ ELSE <<>>]

WaitCommand(c, s) ==
    LET d == [c EXCEPT !.zero = TRUE, !.takeoff = FALSE]
    IN CASE c.phase = "BOOT_WAIT_ZERO" -> [d EXCEPT !.phase = "IDLE_GROUND"]
         [] c.phase \in {"OFFBOARD_REQUEST", "ARMING"} ->
              IF s.armed THEN PauseAtActual(d) ELSE [Cancelled(d) EXCEPT !.phase = "IDLE_GROUND"]
         [] c.phase \in {"TAKEOFF", "GUIDING", "HOLDING"} -> PauseAtActual(d)
         [] OTHER -> d

\* processCommand
ProcessCommand(c, s) ==
    LET d == [c EXCEPT !.pending = {}]
    IN CASE c.pending = {0} -> WaitCommand(d, s)
         [] c.pending = {1} /\ c.zero /\ c.phase = "IDLE_GROUND" /\ ~s.armed ->
              [d EXCEPT !.takeoff = TRUE]
         [] c.pending = {2} /\ c.zero /\ c.phase \in Holds /\ s.armed /\ s.mode = "OFFBOARD" ->
              StartGuiding([d EXCEPT !.index = IF c.replaced THEN 1 ELSE @])
         [] c.pending = {3} /\ c.zero /\ s.armed -> StartLanding(d)
         [] OTHER -> d
-----------------------------------------------------------------------------
(* tick *)

\* maybeRequest
MaybeRequest(c, kind, elapsed) ==
    IF c.action # None THEN IF "limit" \in elapsed THEN Fail(c) ELSE c
    ELSE IF c.attempts > 0 /\ "wait" \notin elapsed THEN c
    ELSE IF c.attempts >= MaxAttempts THEN Fail(c)
    ELSE [c EXCEPT !.action = kind, !.attempts = @ + 1]

OnGround(c, s) ==
    IF GroundSeen(s)
    THEN [c EXCEPT !.prestream = TRUE,
                   !.setpoint = IF c.phase \in Grounded THEN Pose(Here) ELSE @,
                   !.final = IF c.phase \in Grounded THEN Here ELSE @]
    ELSE [c EXCEPT !.prestream = @ /\ c.phase \notin Grounded]

Guarded(c, s) ==
    IF \/ ~s.ready /\ c.phase \notin Grounded \cup Landings \cup {"ERROR"}
       \/ s.mode # "OFFBOARD" /\ c.phase \in {"TAKEOFF", "GUIDING"} \cup Holds
    THEN Fail(c) ELSE c

\* startOffboard
Started(c, s, elapsed) ==
    IF c.phase = "IDLE_GROUND" /\ c.takeoff /\ GroundSeen(s) /\ c.prestream /\ "wait" \in elapsed
    THEN StartActions([c EXCEPT !.takeoff = FALSE, !.origin = TRUE, !.index = 1,
                                !.setpoint = Pose(Here), !.final = Here],
                      "OFFBOARD_REQUEST")
    ELSE c

\* The requests of OFFBOARD and ARM, which one tick may go through together
Requested(c, s, elapsed) ==
    LET d == IF c.phase # "OFFBOARD_REQUEST" THEN c
             ELSE IF s.mode = "OFFBOARD" THEN StartActions(c, "ARMING")
             ELSE MaybeRequest(c, "SET_OFFBOARD", elapsed)
    IN IF d.phase # "ARMING" THEN d
       ELSE IF s.mode # "OFFBOARD" THEN Fail(d)
       ELSE IF s.armed
       THEN Cancelled([d EXCEPT !.phase = "TAKEOFF", !.arrived = FALSE, !.final = Ramp])
       ELSE MaybeRequest(d, "ARM", elapsed)

\* updateSetpoint and updatePlanner
Steered(c, s, elapsed) ==
    CASE c.phase = "TAKEOFF" -> [c EXCEPT !.setpoint = Pose(Ramp)]
      [] c.phase = "GUIDING" ->
         LET d == IF c.capture THEN [c EXCEPT !.setpoint = Pose(Here), !.capture = FALSE] ELSE c
         IN IF ~s.aligned \/ c.error THEN PauseAtActual(d)
            ELSE IF c.target = Pose(None)
            THEN IF "limit" \in elapsed THEN PauseAtActual(d) ELSE d
            ELSE IF "stale" \in elapsed \/ ~c.status THEN PauseAtActual(d)
            ELSE [d EXCEPT !.setpoint = c.target]
      [] OTHER -> c

FinishTakeoff(c) ==
    [RevokePlanner(c) EXCEPT !.phase = "HOLDING", !.setpoint = Pose(Here), !.final = Here]

\* The next waypoint of updateArrival
Advance(c) ==
    BeginPlanner([c EXCEPT !.index = @ + 1, !.final = c.raw[c.index + 1],
                           !.setpoint = Pose(Here)])

UpdateArrival(c, s, elapsed) ==
    IF ~s.reached \/ (c.phase = "GUIDING" /\ c.state # "GOAL_REACHED")
    THEN [c EXCEPT !.arrived = FALSE]
    ELSE IF ~c.arrived THEN [c EXCEPT !.arrived = TRUE]
    ELSE IF "wait" \notin elapsed THEN c
    ELSE LET d == [c EXCEPT !.arrived = FALSE]
         IN IF c.phase = "TAKEOFF" THEN FinishTakeoff(d)
            ELSE IF c.index < Len(c.raw) THEN Advance(d)
            ELSE [RevokePlanner(d) EXCEPT !.setpoint = Pose(Here), !.phase = "HOLDING"]

Landed(c, s, elapsed) ==
    CASE c.phase = "LAND_REQUEST" ->
           IF ~s.fresh THEN Fail(c)
           ELSE IF s.mode = "AUTO.LAND"
           THEN [Cancelled(c) EXCEPT !.phase = "LANDING", !.ground = FALSE]
           ELSE MaybeRequest(c, "SET_LAND", elapsed)
      [] c.phase = "LANDING" ->
           IF ~s.fresh THEN Fail(c)
           ELSE IF ~s.armed THEN FinishLanding(c)
           ELSE IF "limit" \in elapsed THEN Fail(c)
           ELSE IF ~s.ground THEN [c EXCEPT !.ground = FALSE]
           ELSE IF ~c.ground THEN [c EXCEPT !.ground = TRUE]
           ELSE IF "wait" \in elapsed
           THEN MaybeRequest(StartActions(c, "WAIT_DISARM"), "DISARM", elapsed) ELSE c
      [] c.phase = "WAIT_DISARM" ->
           IF ~s.fresh THEN Fail(c)
           ELSE IF ~s.armed THEN FinishLanding(c)
           ELSE IF ~s.ground THEN Fail(c)
           ELSE MaybeRequest(c, "DISARM", elapsed)
      [] OTHER -> c

Progressed(c, s, elapsed) ==
    IF c.phase \in {"TAKEOFF", "GUIDING"}
    THEN IF "limit" \in elapsed THEN PauseAtActual(c) ELSE UpdateArrival(c, s, elapsed)
    ELSE Landed(c, s, elapsed)

Captured(c) ==
    IF c.phase = "GUIDING" /\ c.capture
    THEN [c EXCEPT !.setpoint = Pose(Here), !.capture = FALSE] ELSE c

Tick(c, s, elapsed) ==
    LET commanded == Guarded(ProcessCommand(OnGround(c, s), s), s)
        requested == Requested(Started(commanded, s, elapsed), s, elapsed)
    IN Captured(Progressed(Steered(requested, s, elapsed), s, elapsed))

\* planner_ready of makeOutput
PlannerReady(c, s) ==
    /\ c.phase = "GUIDING" /\ c.id # 0 /\ s.ready /\ s.aligned
    /\ s.armed /\ s.mode = "OFFBOARD"
=============================================================================
