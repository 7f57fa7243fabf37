--------------------------- MODULE FlightExecutor ---------------------------
(***************************************************************************)
(* FlightExecutor (execution.cpp): the half of the controller that owns    *)
(* the setpoint stream and every MAVROS service request.  It is called by  *)
(* the 20 Hz execution loop with a sensor summary and the task's latest    *)
(* intent, and keeps the vehicle safe whatever that task does: this module *)
(* lets the caller pass any sensors and any intent of two constant sets.   *)
(***************************************************************************)
EXTENDS ExecutorStages

CONSTANTS Sensors, Intents      \* what the caller may pass to a tick

ASSUME CallerAssumption ==
    /\ Sensors \subseteq SensorStates
    /\ Intents \subseteq IntentStates

VARIABLE exec       \* the private members of FlightExecutor

Init == exec = InitialExec

ExecutorTick(s, i, id) ==
    /\ exec.exit = 0            \* the loop returns once should_exit is set
    /\ exec' = TickOf(exec, s, i, id)

AcceptActionResult(id, ok) == exec' = AnswerOf(exec, id, ok)

Elapse == exec' = ElapsedExec(exec)

Next ==
    \/ \E s \in Sensors, i \in Intents, id \in ActionIds : ExecutorTick(s, i, id)
    \/ \E id \in ActionIds, ok \in BOOLEAN : AcceptActionResult(id, ok)
    \/ Elapse

Spec == Init /\ [][Next]_exec

\* The execution loop ticks at a fixed rate until should_exit, and the clock
\* goes on.  Nobody has to answer a request.  A tick waits for nothing, so that
\* there is always another is weak fairness of ticks, said without ENABLED.
Fairness == []<>(exec.ticked \/ exec.exit # 0) /\ WF_exec(Elapse)

FairSpec == Spec /\ Fairness

-----------------------------------------------------------------------------
(* Properties. *)

\* The members of FlightExecutor keep their types; in particular no phase
\* sends more than max_attempts service requests (requestAction).
TypeOK == exec \in ExecStates

\* Every phase is entered on the command that asks for it and left when that
\* command is superseded, so phase_ and accepted_ never disagree: the vehicle
\* only takes off on the TAKEOFF it accepted, only follows the target of the
\* TRACK it accepted, and only lands on a LAND.
PhaseMatchesGrant == MatchesGrant(exec)

\* A revoked grant is dead: while authority_lost_ the executor only waits,
\* hovers or has failed, and the identifier that lost its lease can never be
\* the accepted one again without authority_lost_ (blocked_through_).
RevokedStaysRevoked == Revoked(exec)

\* The takeoff reference exists exactly where task targets are resolved with
\* it: from the OFFBOARD request on, and never across a landing.
ReferenceTracksFlight == Referenced(exec)

\* No tick ends in a phase that moves the vehicle, or asks to arm it, on a
\* command whose heartbeat is older than task_timeout, or on a revoked one.
MotionUnderLease == exec.ticked => Leased(exec)

\* "An identifier cannot mutate an accepted command" (execution.cpp:104), and
\* identifiers and generations only grow; ERROR is left only by an explicit
\* landing, and a landing in progress ends on the ground or in ERROR: no task
\* command diverts it.
CommandsAreOneWay == [][MonotoneGrant(exec, exec') /\ OneWay(exec, exec')]_exec

\* No stage that waits for the flight controller waits for ever, although no
\* call may ever return and no confirmation come: a request, a takeoff and a
\* landing each end by confirmation, by the last attempt or by a timeout.
WaitsEnd ==
    /\ exec.pending ~> ~exec.pending
    /\ exec.phase \in MotionPhases \ {"GUIDING"} ~> exec.phase \notin MotionPhases \ {"GUIDING"}
    /\ Landing(exec) ~> ~Landing(exec)

-----------------------------------------------------------------------------
(* The executor seen from outside: history variables record what the       *)
(* landing detector has reported, apart from the timers the executor keeps *)
(* for itself, and the request that a tick has returned, of which the      *)
(* executor itself keeps no more than its name.                            *)

VARIABLES landed,   \* how long every tick has seen the vehicle on the ground
          asked     \* the request whose answer or effect is awaited

RecorderInit == Init /\ landed = None /\ asked = NoRequest

\* What is awaited after a call of the executor, if a was before it.
Awaited(a) == IF exec'.pending \/ exec'.waiting THEN a ELSE NoRequest

RecordedTick(s, i, id) ==
    /\ ExecutorTick(s, i, id)
    /\ landed' = CASE ~s.grounded -> None
                   [] s.grounded /\ landed = None -> 0
                   [] OTHER -> landed
    /\ asked' = Awaited(IF exec'.action # "NONE" THEN RequestOf(exec') ELSE asked)

RecordedResult(id, ok) ==
    AcceptActionResult(id, ok) /\ asked' = Awaited(asked) /\ UNCHANGED landed

RecordedElapse ==
    Elapse /\ landed' = Older(landed, GroundDisarmDelay) /\ UNCHANGED asked

RecorderNext ==
    \/ \E s \in Sensors, i \in Intents, id \in ActionIds : RecordedTick(s, i, id)
    \/ \E id \in ActionIds, ok \in BOOLEAN : RecordedResult(id, ok)
    \/ RecordedElapse

recorderVars == <<exec, landed, asked>>
RecorderSpec == RecorderInit /\ [][RecorderNext]_recorderVars

\* A service request never outlives the phase that issued it: as long as its
\* answer or its effect is awaited, the executor is in the phase that returns
\* requests of that kind, on the command it was returned for.  Whatever moves
\* the phase on (a command, a fault, a confirmation, the lease) cancels it, so
\* no phase takes the late answer to another phase's request for its own.
RequestBelongsToPhase == Belongs(exec, asked)

\* Disarm is requested only when every tick of the last ground_disarm_delay
\* has seen the vehicle on the ground.
DisarmOnlyAfterLanding ==
    [][exec'.action = "DISARM" => landed' >= GroundDisarmDelay]_recorderVars
=============================================================================
