----------------------------- MODULE TaskStages -----------------------------
(***************************************************************************)
(* What TaskMachine computes (task_machine.cpp): loading a mission, and    *)
(* one tick on the feedback and the command.  It has no state of its own:  *)
(* TaskMachine ticks it on any feedback, Offboard from the loop of the     *)
(* process.                                                                *)
(*                                                                         *)
(* state_.target is left out: it equals intent.target while it is read.    *)
(* last_tick_ needs no field: every tick stamps the intent, so the age of  *)
(* the intent is the time since the last tick.                             *)
(***************************************************************************)
EXTENDS OffboardTypes, Sequences

CONSTANTS WaypointTimeout,      \* waypoint_timeout
          OdomWaypoints         \* the waypoints whose frame_id is "odom"

ASSUME WaypointAssumption ==
    WaypointTimeout \in Nat /\ OdomWaypoints \subseteq Waypoints

\* ExecutionFeedback, with stamp as an age; phase to reference_valid of its
\* output are all the task reads.
FeedbackStates ==
    [age : Age(TaskTimeout), phase : Phases, originValid : BOOLEAN,
     originGeneration : Nat, generation : Nat, id : Nat, lost : BOOLEAN,
     sensors : SensorStates]

MissionLimit == 10000
Commands == 0..3
\* The phases a task can be in: the others are the executor's own.
TaskPhases == {"BOOT_WAIT_ZERO", "IDLE_GROUND", "TAKEOFF", "GUIDING", "PAUSED",
               "HOLDING", "LAND_REQUEST", "ERROR"}

-----------------------------------------------------------------------------
(* Helpers of the handlers.  age: 0 for now, the age of last_tick_ in load. *)

Issue(t, kind, target, age) ==
    [t EXCEPT !.intent.kind = kind, !.intent.target = target,
              !.intent.age = age, !.intent.id = @ + 1, !.arrival = None]

\* Mutant of Rest: a pause forgets the progress of the mission.
RestRestarts(t, air) ==
    [Issue(t, IF air THEN "HOLD" ELSE "WAIT", Zero, 0)
        EXCEPT !.phase = IF air THEN "PAUSED" ELSE "IDLE_GROUND", !.index = 0]

\* Mutant of Rest: the intent in force is turned into another.
RestInPlace(t, air) ==
    [t EXCEPT !.intent.kind = IF air THEN "HOLD" ELSE "WAIT", !.intent.target = Zero,
              !.intent.age = 0, !.arrival = None,
              !.phase = IF air THEN "PAUSED" ELSE "IDLE_GROUND"]

\* A hovering intent in the air, a waiting one on the ground.
Rest(t, air) ==
    [Issue(t, IF air THEN "HOLD" ELSE "WAIT", Zero, 0)
        EXCEPT !.phase = IF air THEN "PAUSED" ELSE "IDLE_GROUND"]

\* resolveWaypoint: relative to the takeoff point unless given in odom.
Resolve(w, generation) == <<w, IF w \in OdomWaypoints THEN 0 ELSE generation>>

Guide(t, age) ==
    IF t.mission = <<>> \/ ~t.originValid THEN t
    ELSE LET k == IF t.index >= Len(t.mission) THEN 0 ELSE t.index
             goal == Resolve(t.mission[k + 1], t.origin)
         IN [Issue(t, "TRACK", goal, age)
                EXCEPT !.index = k, !.started = age, !.phase = "GUIDING"]

Loadable(t, points, sequence) ==
    /\ Len(points) \in 1..MissionLimit
    /\ t.phase \notin {"LAND_REQUEST", "ERROR"}
    /\ sequence => t.phase \in {"BOOT_WAIT_ZERO", "IDLE_GROUND", "HOLDING", "PAUSED"}

\* Mutant of LoadOf: a point that arrives while guiding waits for a command.
LoadOnly(t, points, sequence) ==
    IF Loadable(t, points, sequence)
    THEN [t EXCEPT !.mission = points, !.sequence = sequence, !.index = 0]
    ELSE t

\* A point that arrives while guiding becomes the target at once.
LoadOf(t, points, sequence) ==
    LET loaded == [t EXCEPT !.mission = points, !.sequence = sequence, !.index = 0]
    IN CASE ~Loadable(t, points, sequence) -> t
         [] Loadable(t, points, sequence) /\ t.phase = "GUIDING" /\ ~sequence ->
                Guide(loaded, t.intent.age)
         [] OTHER -> loaded

FeedbackFresh(f) == f.age \in 0..TaskTimeout
Matched(t, f) == f.id = t.intent.id /\ f.generation = t.intent.generation

-----------------------------------------------------------------------------
(* The stages of tick, in the order of the code. *)

Learn(t, f) ==
    IF f.originValid /\ f.generation = t.intent.generation
    THEN [t EXCEPT !.origin = f.originGeneration, !.originValid = TRUE]
    ELSE t

Landed(t) ==
    [Rest(t, FALSE) EXCEPT !.originValid = FALSE, !.index = 0,
                           !.mission = IF t.sequence THEN @ ELSE <<>>]

Arrived(t) ==
    IF t.index + 1 < Len(t.mission)
    THEN Guide([t EXCEPT !.index = @ + 1], 0)
    ELSE [Rest(t, TRUE) EXCEPT !.phase = "HOLDING"]

Track(t, s) ==
    CASE t.started > WaypointTimeout -> Rest(t, TRUE)
      [] t.started <= WaypointTimeout /\ ~WithinArrival(s) ->
            [t EXCEPT !.arrival = None]
      [] t.started <= WaypointTimeout /\ WithinArrival(s) /\ t.arrival = None ->
            [t EXCEPT !.arrival = 0]
      [] t.started <= WaypointTimeout /\ WithinArrival(s) /\ t.arrival # None
                                      /\ t.arrival >= ArrivalDwell -> Arrived(t)
      [] OTHER -> t

\* What the executor reports of the intent it was last given.
Progress(t, f) ==
    CASE t.phase = "TAKEOFF" /\ f.phase = "HOLDING" -> [t EXCEPT !.phase = "HOLDING"]
      [] t.phase \in {"TAKEOFF", "GUIDING"} /\ f.phase = "PAUSED" -> Rest(t, TRUE)
      [] t.phase = "LAND_REQUEST" /\ f.phase = "IDLE_GROUND" /\ ~f.sensors.armed ->
            Landed(t)
      [] t.phase = "GUIDING" /\ f.phase = "GUIDING" -> Track(t, f.sensors)
      [] OTHER -> t

AuthorityLost(t, f) ==
    f.lost /\ t.phase \notin {"BOOT_WAIT_ZERO", "PAUSED", "IDLE_GROUND"}

\* Mutant of Follow: feedback about an earlier intent counts.
FollowUnmatched(t, f) ==
    CASE FeedbackFresh(f) /\ f.phase = "ERROR" -> [Learn(t, f) EXCEPT !.phase = "ERROR"]
      [] FeedbackFresh(f) /\ f.phase # "ERROR" /\ AuthorityLost(t, f) ->
            Rest(Learn(t, f), f.sensors.armed)
      [] FeedbackFresh(f) /\ f.phase # "ERROR" /\ ~AuthorityLost(t, f) ->
            Progress(Learn(t, f), f)
      [] ~FeedbackFresh(f) /\ t.phase \in {"GUIDING", "TAKEOFF"} -> Rest(t, TRUE)
      [] OTHER -> t

Follow(t, f) ==
    CASE FeedbackFresh(f) /\ f.phase = "ERROR" -> [Learn(t, f) EXCEPT !.phase = "ERROR"]
      [] FeedbackFresh(f) /\ f.phase # "ERROR" /\ AuthorityLost(t, f) ->
            Rest(Learn(t, f), f.sensors.armed)
      [] FeedbackFresh(f) /\ f.phase # "ERROR" /\ ~AuthorityLost(t, f) ->
            IF Matched(t, f) THEN Progress(Learn(t, f), f) ELSE Learn(t, f)
      [] ~FeedbackFresh(f) /\ t.phase \in {"GUIDING", "TAKEOFF"} -> Rest(t, TRUE)
      [] OTHER -> t

Stop(t, f) ==
    IF t.phase \in {"ERROR", "LAND_REQUEST"} THEN t
    ELSE Rest(t, FeedbackFresh(f) /\ f.sensors.armed)

TakeOff(t, f) ==
    IF t.phase = "IDLE_GROUND" /\ FeedbackFresh(f) /\ ~f.sensors.armed
    THEN Issue([t EXCEPT !.intent.generation = @ + 1, !.originValid = FALSE,
                         !.index = 0, !.phase = "TAKEOFF"], "TAKEOFF", Zero, 0)
    ELSE t

Start(t, f) ==
    IF /\ t.phase \in {"HOLDING", "PAUSED"} /\ FeedbackFresh(f)
       /\ f.sensors.armed /\ f.sensors.mode = "OFFBOARD" /\ Healthy(f.sensors)
    THEN Guide(t, 0)
    ELSE t

Land(t, f) ==
    IF /\ t.phase # "LAND_REQUEST" /\ FeedbackFresh(f)
       /\ StateFresh(f.sensors) /\ f.sensors.armed
    THEN Issue([t EXCEPT !.phase = "LAND_REQUEST"], "LAND", Zero, 0)
    ELSE t

\* Mutant of Obey: a command is obeyed for as long as it stays.
ObeyLevel(t, command, f) ==
    LET seen == [t EXCEPT !.command = command]
    IN CASE command = 0 -> Stop([seen EXCEPT !.zeroSeen = TRUE], f)
         [] command = 1 /\ t.zeroSeen -> TakeOff(seen, f)
         [] command = 2 /\ t.zeroSeen -> Start(seen, f)
         [] command = 3 /\ t.zeroSeen -> Land(seen, f)
         [] OTHER -> t

\* A command is obeyed when it changes, and not again while it stays.
Obey(t, command, f) ==
    LET seen == [t EXCEPT !.command = command]
    IN CASE command \notin Commands \/ command = t.command -> t
         [] command = 0 /\ t.command # 0 -> Stop([seen EXCEPT !.zeroSeen = TRUE], f)
         [] command = 1 /\ t.command # 1 /\ t.zeroSeen -> TakeOff(seen, f)
         [] command = 2 /\ t.command # 2 /\ t.zeroSeen -> Start(seen, f)
         [] command = 3 /\ t.command # 3 /\ t.zeroSeen -> Land(seen, f)
         [] OTHER -> seen

TaskTickOf(t, command, f) ==
    [Obey(Follow(t, f), command, f) EXCEPT !.intent.age = 0]

ElapsedTask(t) ==
    [t EXCEPT !.intent.age = Older(@, TaskTimeout),
              !.started = Older(@, WaypointTimeout),
              !.arrival = Older(@, ArrivalDwell)]

-----------------------------------------------------------------------------
InitialTask ==
    [phase |-> "BOOT_WAIT_ZERO", intent |-> NoIntent, command |-> None,
     index |-> 0, mission |-> <<>>, sequence |-> FALSE, zeroSeen |-> FALSE,
     originValid |-> FALSE, origin |-> 0, started |-> 0, arrival |-> None]

\* What the intent of every phase is.
IntentOfPhase(t) ==
    /\ t.phase = "BOOT_WAIT_ZERO" => t.intent.id = 0
    /\ t.phase = "IDLE_GROUND" => t.intent.kind = "WAIT"
    /\ t.phase = "TAKEOFF" => t.intent.kind = "TAKEOFF"
    /\ t.phase = "HOLDING" => t.intent.kind \in {"TAKEOFF", "HOLD"}
    /\ t.phase = "PAUSED" => t.intent.kind = "HOLD"
    /\ t.phase = "LAND_REQUEST" => t.intent.kind = "LAND"
    /\ t.phase = "GUIDING" =>
            /\ t.intent.kind = "TRACK" /\ t.originValid
            /\ t.index < Len(t.mission)
            /\ t.intent.target[1] = t.mission[t.index + 1]
    /\ t.arrival # None => t.phase \in {"GUIDING", "ERROR"}
=============================================================================
