------------------------------ MODULE Offboard ------------------------------
(***************************************************************************)
(* The ducted_offboard process (offboard_node.cpp): the task loop around   *)
(* TaskMachine, the execution loop around FlightExecutor, the service      *)
(* worker that calls MAVROS, and what they share: the two snapshots, the   *)
(* mission slot and the queue of service results.  Around them an operator *)
(* who writes the command parameter, a flight controller, and time.        *)
(*                                                                         *)
(* A thread step is what happens between two accesses to shared state; the *)
(* executor mutex makes a tick, with the results it drains, one step.      *)
(***************************************************************************)
EXTENDS ExecutorStages, TaskStages

CONSTANT Plans          \* what happens around the process, in order

\* The mission of target_source=file|param (<<>> for topic), the command parameter
\* when the process starts, what the operator writes, the mission messages, and the
\* kinds of faults with a bound on their number.
ASSUME OffboardAssumption ==
    Plans \subseteq [mission : Seq(Waypoints), command : Int, script : Seq(0..3),
                     arrivals : Seq([points : Seq(Waypoints), sequence : BOOLEAN]),
                     faults : SUBSET {"link", "position", "pilot"}, limit : Nat]

\* The counter that names the requests has one left, whatever three are under way.
ASSUME NamesAssumption ==
    \A x, y, z \in ActionIds \cup {0} : ActionIds \ {x, y, z} # {}

VARIABLES exec,         \* FlightExecutor, under executor_mutex_
          task,         \* TaskMachine, private to the task thread
          intent,       \* task_snapshot_, of which only the intent matters
          feedback,     \* feedback_snapshot_
          taskLoop,     \* the task thread: where it is and what it has read
          execLoop,     \* the execution thread, likewise
          worker,       \* ServiceWorker
          results,      \* service_results_
          vehicle,      \* the flight controller as the sensor cache shows it
          input         \* the plan and how far it is, the parameter, the mission slot

vars == <<exec, task, intent, feedback, taskLoop, execLoop, worker, results,
          vehicle, input>>

NoFeedback == [age |-> None, phase |-> "BOOT_WAIT_ZERO", originValid |-> FALSE,
               originGeneration |-> 0, generation |-> 0, id |-> 0, lost |-> FALSE,
               sensors |-> [fcu |-> "stale", motion |-> FALSE, grounded |-> FALSE,
                            armed |-> FALSE, mode |-> "OTHER", near |-> FALSE]]

\* sensorSnapshot, with the distance to the executor's target.
Snapshot(near) ==
    [fcu |-> vehicle.link, motion |-> vehicle.motion, armed |-> vehicle.armed,
     grounded |-> vehicle.grounded, mode |-> vehicle.mode, near |-> near]

FeedbackOf(e, s) ==
    [age |-> 0, phase |-> e.phase, originValid |-> e.originValid,
     originGeneration |-> e.originGeneration, generation |-> e.accepted.generation,
     id |-> e.accepted.id, lost |-> e.lost, sensors |-> s]

\* The task loop goes round until the execution loop returns.
Running == execLoop.at # "returned"

-----------------------------------------------------------------------------
(* The task thread: taskLoop. *)

TaskRead ==
    /\ Running /\ taskLoop.at = "read"
    /\ taskLoop' = [at |-> "tick", seen |-> feedback, command |-> input.command]
    /\ UNCHANGED <<exec, task, intent, feedback, execLoop, worker, results,
                   vehicle, input>>

\* A message that arrives after the tick and before the exchange could as well
\* have arrived before the tick, so an empty slot is exchanged here.
TaskCompute ==
    /\ taskLoop.at = "tick"
    /\ task' = TaskTickOf(task, taskLoop.command, taskLoop.seen)
    /\ taskLoop' = [taskLoop EXCEPT !.at = IF input.pending = <<>> THEN "store"
                                                                   ELSE "load"]
    /\ UNCHANGED <<exec, intent, feedback, execLoop, worker, results, vehicle,
                   input>>

\* fresh: messageFresh, whose clock is not the model's.
TaskLoad(fresh) ==
    /\ taskLoop.at = "load"
    /\ LET m == Head(input.pending)
           loaded == IF fresh THEN LoadOf(task, m.points, m.sequence) ELSE task
       IN task' = TaskTickOf(loaded, taskLoop.command, taskLoop.seen)
    /\ input' = [input EXCEPT !.pending = <<>>]
    /\ taskLoop' = [taskLoop EXCEPT !.at = "store"]
    /\ UNCHANGED <<exec, intent, feedback, execLoop, worker, results, vehicle>>

TaskStore ==
    /\ taskLoop.at = "store"
    /\ intent' = task.intent
    /\ taskLoop' = [at |-> "read", seen |-> NoFeedback, command |-> None]
    /\ UNCHANGED <<exec, task, feedback, execLoop, worker, results, vehicle, input>>

-----------------------------------------------------------------------------
(* The execution thread: executionLoop. *)

ExecLoad ==
    /\ execLoop.at = "load"
    /\ execLoop' = [execLoop EXCEPT !.at = "tick", !.seen = intent]
    /\ UNCHANGED <<exec, task, intent, feedback, taskLoop, worker, results,
                   vehicle, input>>

\* drainServiceResults.  Only the result of the request in flight counts, and
\* after it none is.
Drained(e, queue) ==
    LET mine == {n \in 1..Len(queue) : queue[n].id = e.actionId}
    IN IF mine = {} THEN e ELSE AnswerOf(e, e.actionId, queue[CHOOSE n \in mine : TRUE].ok)

InUse ==
    {exec.actionId, worker.slot.id, worker.request.id}
        \cup {results[n].id : n \in 1..Len(results)}

\* ++next_action_id_: a name no request in the process has.
FreshId == CHOOSE id \in ActionIds : id \notin InUse

\* near: within arrival of the target, for who reads it.
ExecTick(near) ==
    /\ execLoop.at = "tick"
    /\ LET s == Snapshot(near)
       IN /\ exec' = TickOf(Drained(exec, results), s, execLoop.seen, FreshId)
          /\ feedback' = FeedbackOf(exec', s)
    /\ near => ~vehicle.grounded /\ (exec.phase = "TAKEOFF" \/ exec'.phase = "GUIDING")
    /\ results' = <<>>
    /\ execLoop' = [at |-> IF exec'.action # "NONE" THEN "dispatch"
                           ELSE IF exec'.exit # 0 THEN "returned" ELSE "load",
                    seen |-> NoIntent,
                    request |-> IF exec'.action # "NONE" THEN RequestOf(exec')
                                                         ELSE NoRequest]
    /\ UNCHANGED <<task, intent, taskLoop, worker, vehicle, input>>

\* Mutant of ExecDispatch: a refused request is dropped.
ExecDispatchDrops ==
    /\ execLoop.at = "dispatch"
    /\ IF worker.slot # NoRequest \/ worker.stage \in {"calling", "skipping"}
       THEN UNCHANGED worker
       ELSE worker' = [worker EXCEPT !.slot = execLoop.request]
    /\ execLoop' = [execLoop EXCEPT !.at = "load", !.request = NoRequest]
    /\ UNCHANGED <<exec, task, intent, feedback, taskLoop, results, vehicle, input>>

\* A refused request is answered on the spot.
ExecDispatch ==
    /\ execLoop.at = "dispatch"
    /\ IF worker.slot # NoRequest \/ worker.stage \in {"calling", "skipping"}
       THEN exec' = AnswerOf(exec, execLoop.request.id, FALSE)
            /\ UNCHANGED worker
       ELSE worker' = [worker EXCEPT !.slot = execLoop.request] /\ UNCHANGED exec
    /\ execLoop' = [execLoop EXCEPT !.at = "load", !.request = NoRequest]
    /\ UNCHANGED <<task, intent, feedback, taskLoop, results, vehicle, input>>

-----------------------------------------------------------------------------
(* The service worker: ServiceWorker::run and call.  stage: waiting for a  *)
(* request, calling MAVROS, skipping a stale request (working_ is set in   *)
(* both), or reporting, when working_ is clear and the callback has not    *)
(* pushed the result.                                                      *)

\* The request is taken and validated in one step: whoever looks at the worker
\* in between finds it busy before and after.
WorkerTake ==
    /\ worker.stage = "waiting" /\ worker.slot # NoRequest
    /\ LET allowed == ActionAllowed(exec, worker.slot, Snapshot(FALSE), intent)
       IN /\ worker' = [worker EXCEPT !.request = worker.slot, !.slot = NoRequest,
                                      !.stage = IF allowed THEN "calling"
                                                           ELSE "skipping"]
          /\ vehicle' = [vehicle EXCEPT !.todo = IF allowed THEN worker.slot.kind
                                                            ELSE @]
    /\ UNCHANGED <<exec, task, intent, feedback, taskLoop, execLoop, results, input>>

WorkerFinish(ok) ==
    /\ \/ worker.stage = "calling"
       \/ worker.stage = "skipping" /\ ~ok
    /\ worker' = [worker EXCEPT !.stage = "reporting", !.ok = ok]
    /\ UNCHANGED <<exec, task, intent, feedback, taskLoop, execLoop, results,
                   vehicle, input>>

WorkerReport ==
    /\ worker.stage = "reporting"
    /\ results' = Append(results, [id |-> worker.request.id, ok |-> worker.ok])
    /\ worker' = [worker EXCEPT !.stage = "waiting", !.request = NoRequest,
                                !.ok = FALSE]
    /\ UNCHANGED <<exec, task, intent, feedback, taskLoop, execLoop, vehicle, input>>

-----------------------------------------------------------------------------
(* The flight controller, as its telemetry shows it while the link is up. *)

\* The effect of the last call: before or after the call returns, or never.
\* A normal disarm, the only one that is asked for, is refused in the air.
VehicleObeys ==
    /\ vehicle.link = "up" /\ vehicle.todo # "NONE"
    /\ vehicle' = [vehicle EXCEPT !.todo = "NONE",
           !.mode = CASE vehicle.todo = "SET_OFFBOARD" -> "OFFBOARD"
                      [] vehicle.todo = "SET_LAND" -> "AUTO.LAND"
                      [] OTHER -> @,
           !.armed = CASE vehicle.todo = "ARM" -> TRUE
                       [] vehicle.todo = "DISARM" -> @ /\ ~vehicle.grounded
                       [] OTHER -> @]
    /\ UNCHANGED <<exec, task, intent, feedback, taskLoop, execLoop, worker,
                   results, input>>

LiftOff ==
    /\ vehicle.link = "up" /\ vehicle.armed /\ vehicle.mode = "OFFBOARD"
    /\ vehicle.grounded
    /\ exec.phase \in AirPhases
    /\ vehicle' = [vehicle EXCEPT !.grounded = FALSE]
    /\ UNCHANGED <<exec, task, intent, feedback, taskLoop, execLoop, worker,
                   results, input>>

\* The vehicle touches the ground, and may bounce off it while it is armed.
TouchGround ==
    /\ vehicle.link = "up" /\ vehicle.mode = "AUTO.LAND"
    /\ ~vehicle.grounded \/ vehicle.armed
    /\ vehicle' = [vehicle EXCEPT !.grounded = ~@]
    /\ UNCHANGED <<exec, task, intent, feedback, taskLoop, execLoop, worker,
                   results, input>>

AutoDisarm ==
    /\ vehicle.link = "up" /\ vehicle.mode = "AUTO.LAND"
    /\ vehicle.grounded /\ vehicle.armed
    /\ vehicle' = [vehicle EXCEPT !.armed = FALSE]
    /\ UNCHANGED <<exec, task, intent, feedback, taskLoop, execLoop, worker,
                   results, input>>

\* The link to the flight controller or the position estimate is lost, or the
\* pilot takes over.
Fault ==
    /\ input.faults < input.plan.limit
    /\ input' = [input EXCEPT !.faults = @ + 1]
    /\ \/ /\ "link" \in input.plan.faults
          /\ \E link \in {"lost", "stale"} : vehicle' = [vehicle EXCEPT !.link = link]
       \/ "position" \in input.plan.faults /\ vehicle' = [vehicle EXCEPT !.motion = FALSE]
       \/ "pilot" \in input.plan.faults /\ vehicle' = [vehicle EXCEPT !.mode = "OTHER"]
    /\ UNCHANGED <<exec, task, intent, feedback, taskLoop, execLoop, worker, results>>

Recover ==
    /\ vehicle.link # "up" \/ ~vehicle.motion
    /\ vehicle' = [vehicle EXCEPT !.link = "up", !.motion = TRUE]
    /\ UNCHANGED <<exec, task, intent, feedback, taskLoop, execLoop, worker,
                   results, input>>

-----------------------------------------------------------------------------
(* The operator, the mission topics, and time. *)

OperatorWrites ==
    /\ input.written < Len(input.plan.script)
    /\ input' = [input EXCEPT !.written = @ + 1, 
                              !.command = input.plan.script[input.written + 1]]
    /\ UNCHANGED <<exec, task, intent, feedback, taskLoop, execLoop, worker,
                   results, vehicle>>

\* targetCallback, waypointsCallback: the slot keeps the last message.
MissionArrives ==
    /\ input.arrived < Len(input.plan.arrivals)
    /\ input' = [input EXCEPT !.arrived = @ + 1,
                              !.pending = <<input.plan.arrivals[input.arrived + 1]>>]
    /\ UNCHANGED <<exec, task, intent, feedback, taskLoop, execLoop, worker,
                   results, vehicle>>

\* A call takes effect within a time unit of its return, or not at all.
Elapse ==
    /\ exec' = ElapsedExec(exec)
    /\ task' = ElapsedTask(task)
    /\ intent' = [intent EXCEPT !.age = Older(@, TaskTimeout)]
    /\ feedback' = [feedback EXCEPT !.age = Older(@, TaskTimeout)]
    /\ taskLoop' = [taskLoop EXCEPT !.seen.age = Older(@, TaskTimeout)]
    /\ execLoop' = [execLoop EXCEPT !.seen.age = Older(@, TaskTimeout)]
    /\ vehicle' = [vehicle EXCEPT !.todo = IF worker.stage = "calling" THEN @
                                                                       ELSE "NONE"]
    /\ UNCHANGED <<worker, results, input>>

-----------------------------------------------------------------------------
Boot(plan) ==
    /\ exec = InitialExec
    /\ task = LoadOf(InitialTask, plan.mission, TRUE)    \* configureMissionSource
    /\ intent = NoIntent
    /\ feedback = NoFeedback
    /\ taskLoop = [at |-> "read", seen |-> NoFeedback, command |-> None]
    /\ execLoop = [at |-> "load", seen |-> NoIntent, request |-> NoRequest]
    /\ worker = [slot |-> NoRequest, stage |-> "waiting", request |-> NoRequest,
                 ok |-> FALSE]
    /\ results = <<>>
    /\ vehicle = [link |-> "up", motion |-> TRUE, grounded |-> TRUE,
                  armed |-> FALSE, mode |-> "OTHER", todo |-> "NONE"]
    /\ input = [plan |-> plan, command |-> plan.command, written |-> 0, pending |-> <<>>,
                arrived |-> 0, faults |-> 0]

Init == \E plan \in Plans : Boot(plan)

TaskStep == TaskRead \/ TaskCompute \/ (\E fresh \in BOOLEAN : TaskLoad(fresh)) \/ TaskStore
ExecStep == ExecLoad \/ (\E near \in BOOLEAN : ExecTick(near)) \/ ExecDispatch
WorkerStep == WorkerTake \/ (\E ok \in BOOLEAN : WorkerFinish(ok)) \/ WorkerReport
VehicleStep == VehicleObeys \/ LiftOff \/ TouchGround \/ AutoDisarm \/ Fault \/ Recover
InputStep == OperatorWrites \/ MissionArrives

Next == TaskStep \/ ExecStep \/ WorkerStep \/ VehicleStep \/ InputStep \/ Elapse

Spec == Init /\ [][Next]_vars

\* Both loops go round for ever, on threads of their own, unless the process
\* returns: no step of theirs waits for a condition, so this is weak fairness
\* of their steps.  Nothing makes MAVROS return from a call.
TaskGoesRound == []<>(taskLoop.at = "read") /\ []<>(taskLoop.at = "tick")
ExecGoesRound == []<>(execLoop.at = "load") /\ []<>(execLoop.at = "tick")
ExecutionFairness ==
    /\ <>[](execLoop.at = "returned") \/ ExecGoesRound
    /\ WF_vars(Elapse)
Fairness ==
    /\ ExecutionFairness
    /\ <>[](execLoop.at = "returned") \/ TaskGoesRound
FairSpec == Spec /\ Fairness

-----------------------------------------------------------------------------
(* Properties. *)

\* No request is lost between the threads: the one the executor waits for is
\* being dispatched, queued, called or reported (a refused dispatch is
\* answered at once, offboard_node.cpp:577-581).
RequestIsOnItsWay ==
    exec.pending => exec.actionId \in
        {execLoop.request.id, worker.slot.id, worker.request.id}
            \cup {results[n].id : n \in 1..Len(results)}

\* However stale the copies of an intent are that the threads hold, two of
\* them with one identifier are one command, and none is of the future.
CopiesOfIntentAgree ==
    \A i, j \in {task.intent, intent, execLoop.seen, exec.accepted} :
        /\ i.id <= task.intent.id /\ i.generation <= task.intent.generation
        /\ i.id = j.id => /\ i.kind = j.kind /\ i.target = j.target
                          /\ i.generation = j.generation

\* "Superseded queued requests never call MAVROS" (offboard_node.cpp:390):
\* however long a request has been queued, when its call starts, OFFBOARD and
\* ARM are still asked for by the intent the task last published, within its
\* lease, AUTO.LAND by the landing in progress, and neither ARM nor DISARM is
\* sent to a vehicle in the air.
CallsAreCurrent ==
    [][worker.stage = "waiting" /\ worker'.stage = "calling" =>
        LET kind == worker'.request.kind
        IN /\ kind \in {"SET_OFFBOARD", "ARM"} =>
                intent.kind = "TAKEOFF" /\ Fresh(intent) /\ ~exec.lost
           /\ kind = "SET_LAND" => exec.accepted.kind = "LAND"
           /\ kind \in {"ARM", "DISARM"} => vehicle.grounded]_vars

\* The executor never takes a flying vehicle for one that waits on the ground,
\* whatever revokes, replaces or fails the flight.
IdleIsNotAirborne == exec.phase = "IDLE_GROUND" => vehicle.grounded


\* "3 may also be used to request a landing while the task is unfinished or
\* paused" (manual, line 183): a landing once requested is not taken back.
LandIsNotAbandoned ==
    [][task.phase = "LAND_REQUEST" => task'.phase # "PAUSED"]_vars

\* "After a manual switch out of OFFBOARD in flight the node stops its targets
\* and enters the error state; it does not seize control again" (README of the
\* package, line 74).
ManualTakeoverIsFinal ==
    [][LET flying(f, mode) == f.sensors.armed /\ ~f.sensors.grounded
                                              /\ f.sensors.mode = mode
       IN flying(feedback, "OFFBOARD") /\ feedback.phase # "IDLE_GROUND"
            /\ flying(feedback', "OTHER") => feedback'.phase = "ERROR"]_vars

\* A task that stops for good, whatever it was doing and whatever copies of its
\* intents and requests are still under way, does not keep the vehicle in motion:
\* once the published intent stays stale, so does every phase that acts on it end.
DeadTaskStopsMotion ==
    <>[](~Fresh(intent)) => <>[](exec.phase \notin MotionPhases)

-----------------------------------------------------------------------------
(* The process with two history variables: whether the task has seen a new *)
(* value of the command parameter since its authority was last revoked,    *)
(* and for which intents the vehicle has been at the target while the      *)
(* executor was flying to it.                                              *)

VARIABLES commanded, reached

RecorderInit == Init /\ commanded = FALSE /\ reached = {}

Record ==
    /\ commanded' = CASE exec'.lost /\ ~exec.lost -> FALSE
                      [] task'.command # task.command -> TRUE
                      [] OTHER -> commanded
    /\ reached' = IF feedback'.sensors.near /\ feedback'.phase = "GUIDING"
                  THEN reached \cup {feedback'.id}
                  ELSE reached

RecorderNext == Next /\ Record
recorderVars == <<vars, commanded, reached>>
RecorderSpec == RecorderInit /\ [][RecorderNext]_recorderVars

\* No point of a mission is passed by: the task counts a point, or holds at the
\* last one, only when the vehicle has been there on the intent for that point,
\* although the feedback it reads may be about an earlier intent, and is read
\* twice when a mission arrives in between (offboard_node.cpp:531).
PointsAreFlown ==
    [][task.phase = "GUIDING" /\ (task'.index > task.index \/ task'.phase = "HOLDING")
        => task.intent.id \in reached]_recorderVars

\* "Neither the recovered task nor a new one resumes the flight: the operator
\* first gives 0, then 2" (README of the package): a flight to a target that
\* was revoked goes on to another target only after a new command.
ResumeNeedsCommand ==
    [][exec.lost /\ exec.accepted.kind = "TRACK" /\ exec'.phase = "GUIDING"
        => commanded]_recorderVars
=============================================================================
