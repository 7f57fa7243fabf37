--------------------------- MODULE ExecutorStages ---------------------------
(***************************************************************************)
(* What FlightExecutor computes (execution.cpp): one call of tick is a     *)
(* fixed sequence of stages, each an operator from an executor record to   *)
(* the next.  It has no state of its own: FlightExecutor ticks it on any   *)
(* input, Offboard from the loop of the process.                           *)
(***************************************************************************)
EXTENDS OffboardTypes

CONSTANTS PrestreamDuration,    \* prestream_duration
          RetryInterval,        \* retry_interval
          FeedbackTimeout,      \* feedback_timeout
          ServiceTimeout,       \* service_timeout
          MaxAttempts,          \* max_attempts
          TakeoffTimeout,       \* takeoff_timeout
          LandingTimeout,       \* landing_timeout
          GroundDisarmDelay,    \* ground_disarm_delay
          ActionIds             \* names for service requests, 0 for none

ASSUME ExecutorAssumption ==
    /\ \A limit \in {PrestreamDuration, RetryInterval, FeedbackTimeout,
                     ServiceTimeout, TakeoffTimeout, LandingTimeout,
                     GroundDisarmDelay} : limit \in Nat
    /\ MaxAttempts \in Nat \ {0}
    /\ ActionIds \subseteq Nat \ {0}

ExecPhases == Phases \ {"BOOT_WAIT_ZERO"}    \* the executor never has it
LandingPhases == {"LAND_REQUEST", "LANDING", "WAIT_DISARM"}
ServicePhases == {"OFFBOARD_REQUEST", "ARMING", "LAND_REQUEST", "WAIT_DISARM"}
AirPhases == {"TAKEOFF", "GUIDING", "HOLDING", "PAUSED"}
\* The phases in which the executor acts on a task's authority.
MotionPhases == {"OFFBOARD_REQUEST", "ARMING", "TAKEOFF", "GUIDING"}

PhaseLimit == IF TakeoffTimeout > LandingTimeout THEN TakeoffTimeout
                                                 ELSE LandingTimeout

Landing(e) == e.phase \in LandingPhases

-----------------------------------------------------------------------------
(* Helpers of the handler. *)

CancelAction(e) == [e EXCEPT !.pending = FALSE, !.waiting = FALSE,
                             !.actionId = 0]

\* exit: the exit_code the process ends with, 0 when it goes on.
Fail(e, exit) == [CancelAction(e) EXCEPT !.phase = "ERROR", !.exit = exit,
                                         !.takeoffPending = FALSE]

\* Mutant of ActionPhase: the request of the last phase goes on.
ActionPhaseKeepsRequest(e, p) == [e EXCEPT !.phase = p, !.since = 0,
                                           !.attempts = 0, !.retryLeft = 0]

ActionPhase(e, p) == [CancelAction(e) EXCEPT !.phase = p, !.since = 0,
                                             !.attempts = 0, !.retryLeft = 0]

\* The pose in the sensor cache is always finite, so it is always captured.
Hold(e, p) == [CancelAction(e) EXCEPT !.phase = p, !.takeoffPending = FALSE,
                                      !.target = Here, !.arrival = None]

\* Mutant of Settle: a waiting intent means the ground.
SettleOnGround(e, s) ==
    [Hold(e, IF s.armed /\ e.accepted.kind # "HOLD" THEN "PAUSED" ELSE "IDLE_GROUND")
        EXCEPT !.originValid = @ /\ s.armed]

\* hold() with the phase the armed flag selects; the reference is dropped on
\* the ground.
Settle(e, s) ==
    [Hold(e, IF s.armed THEN "PAUSED" ELSE "IDLE_GROUND")
        EXCEPT !.originValid = @ /\ s.armed]

StopWaiting(e) == [e EXCEPT !.waiting = FALSE]

SendAction(e, kind, id) ==
    [e EXCEPT !.action = kind, !.actionId = id, !.pending = TRUE,
              !.waiting = FALSE, !.actionAge = 0, !.attempts = @ + 1,
              !.retryLeft = RetryInterval]

\* Nothing is in flight, and the effect of the last request is not awaited.
MayRequest(e) == ~e.pending /\ (e.waiting => e.feedbackLeft = 0)

\* Mutant of RequestAction: one attempt too many.
RequestActionOnceMore(e, kind, exit, id) ==
    CASE e.pending /\ e.actionAge > ServiceTimeout -> Fail(e, 0)
      [] MayRequest(e) /\ e.retryLeft > 0 -> StopWaiting(e)
      [] MayRequest(e) /\ e.retryLeft = 0 ->
            IF e.attempts > MaxAttempts THEN Fail(e, exit)
                                        ELSE SendAction(e, kind, id)
      [] OTHER -> e

\* Mutant of RequestAction: an unanswered request is awaited for ever.
RequestActionPatiently(e, kind, exit, id) ==
    CASE MayRequest(e) /\ e.retryLeft > 0 -> StopWaiting(e)
      [] MayRequest(e) /\ e.retryLeft = 0 ->
            IF e.attempts >= MaxAttempts THEN Fail(e, exit)
                                         ELSE SendAction(e, kind, id)
      [] OTHER -> e

\* requestAction: at most one request in flight, spaced by retry_interval,
\* and max_attempts of them in one phase.
RequestAction(e, kind, exit, id) ==
    CASE e.pending /\ e.actionAge > ServiceTimeout -> Fail(e, 0)
      [] MayRequest(e) /\ e.retryLeft > 0 -> StopWaiting(e)
      [] MayRequest(e) /\ e.retryLeft = 0 ->
            IF e.attempts >= MaxAttempts THEN Fail(e, exit)
                                         ELSE SendAction(e, kind, id)
      [] OTHER -> e

-----------------------------------------------------------------------------
(* The stages of tick, in the order of the code. *)

Prestream(e, s) ==
    CASE e.phase # "IDLE_GROUND" -> e
      [] e.phase = "IDLE_GROUND" /\ Healthy(s) /\ s.grounded /\ ~s.armed ->
            [e EXCEPT !.prestream = IF @ = None THEN 0 ELSE @, !.target = Here]
      [] OTHER -> [e EXCEPT !.prestream = None]

\* The watermarks of line 101: a revoked or superseded intent is not read.
Current(e, i) ==
    /\ Fresh(i)
    /\ i.id > e.blocked
    /\ i.id >= e.accepted.id
    /\ i.generation >= e.accepted.generation

SameCommand(e, i) ==
    /\ i.kind = e.accepted.kind
    /\ i.generation = e.accepted.generation
    /\ i.target = e.accepted.target

\* Mutants of Admissible: a takeoff is accepted during a takeoff; a hold is
\* accepted after an error.
AdmissibleTakeoffTwice(e, s, i) ==
    CASE i.kind = "LAND" -> StateFresh(s) /\ s.armed
      [] i.kind = "TAKEOFF" -> e.phase # "ERROR" /\ ~s.armed
      [] OTHER -> e.phase # "ERROR" /\ i.kind # "TRACK"
AdmissibleAfterError(e, s, i) ==
    CASE i.kind = "LAND" -> StateFresh(s) /\ s.armed
      [] i.kind = "TAKEOFF" -> e.phase = "IDLE_GROUND" /\ ~s.armed
      [] OTHER -> i.kind # "TRACK"

Admissible(e, s, i) ==
    CASE i.kind = "LAND" -> StateFresh(s) /\ s.armed
      [] i.kind = "TRACK" ->
            /\ e.originValid
            /\ i.generation = e.accepted.generation
            /\ s.armed /\ s.mode = "OFFBOARD"
            /\ e.phase \in {"HOLDING", "PAUSED", "GUIDING"}
      [] i.kind = "TAKEOFF" -> e.phase = "IDLE_GROUND" /\ ~s.armed
      [] OTHER -> e.phase # "ERROR"

Adopt(e, s, i) ==
    LET a == [CancelAction(e) EXCEPT !.accepted = i, !.lost = FALSE]
    IN CASE i.kind = "TAKEOFF" -> [a EXCEPT !.takeoffPending = TRUE]
         [] i.kind = "TRACK" -> [a EXCEPT !.takeoffPending = FALSE,
                                          !.phase = "GUIDING",
                                          !.target = i.target]
         [] i.kind = "LAND" -> ActionPhase([a EXCEPT !.takeoffPending = FALSE,
                                                     !.target = Here,
                                                     !.ground = None],
                                           "LAND_REQUEST")
         [] OTHER -> Settle(a, s)

\* An equal identifier only renews the lease; a larger one is a new command.
Consider(e, s, i) ==
    CASE Current(e, i) /\ i.id = e.accepted.id /\ SameCommand(e, i) ->
            [e EXCEPT !.accepted.age = i.age]
      [] Current(e, i) /\ i.id > e.accepted.id /\ ~Landing(e)
                       /\ Admissible(e, s, i) -> Adopt(e, s, i)
      [] OTHER -> e

\* Mutant of LeaseExpired: a flight under way is not interrupted.
LeaseExpiredNotInFlight(e) ==
    /\ ~Landing(e) /\ e.phase \notin {"ERROR", "GUIDING"}
    /\ e.accepted.id > 0 /\ ~Fresh(e.accepted) /\ ~e.lost

LeaseExpired(e) ==
    /\ ~Landing(e) /\ e.phase # "ERROR"
    /\ e.accepted.id > 0
    /\ ~Fresh(e.accepted)
    /\ ~e.lost

\* Mutant of RevokeLease: the watermark is not moved.
RevokeLeaseUnmarked(e, s) ==
    IF LeaseExpired(e) THEN Settle([e EXCEPT !.lost = TRUE], s) ELSE e

RevokeLease(e, s) ==
    IF LeaseExpired(e)
    THEN Settle([e EXCEPT !.lost = TRUE, !.blocked = e.accepted.id], s)
    ELSE e


\* An arm request already sent may be confirmed after the lease is gone.
CatchLateArm(e, s) ==
    IF e.lost /\ e.phase = "IDLE_GROUND" /\ s.armed /\ Healthy(s)
              /\ s.mode = "OFFBOARD"
    THEN Hold(e, "PAUSED")
    ELSE e

Unsafe(e, s) ==
    \/ e.phase \in AirPhases /\ ~s.armed
    \/ e.phase \notin {"IDLE_GROUND", "ERROR"} /\ ~Landing(e) /\ ~Healthy(s)
    \/ e.phase \in AirPhases /\ s.mode # "OFFBOARD"

CutOnFault(e, s) == IF Unsafe(e, s) THEN Fail(e, 0) ELSE e

BeginTakeoff(e, s) ==
    IF /\ e.phase = "IDLE_GROUND" /\ e.takeoffPending
       /\ Fresh(e.accepted) /\ Healthy(s) /\ s.grounded /\ ~s.armed
       /\ e.prestream # None /\ e.prestream >= PrestreamDuration
    THEN [ActionPhase(e, "OFFBOARD_REQUEST")
            EXCEPT !.originValid = TRUE, !.originGeneration = e.accepted.generation,
                   !.target = Here, !.takeoffPending = FALSE]
    ELSE e

TakeOver(e, s, id) ==
    CASE e.phase # "OFFBOARD_REQUEST" -> e
      [] e.phase = "OFFBOARD_REQUEST" /\ s.mode = "OFFBOARD" ->
            ActionPhase(e, "ARMING")
      [] OTHER -> RequestAction(e, "SET_OFFBOARD", 2, id)

Arm(e, s, id) ==
    CASE e.phase # "ARMING" -> e
      [] e.phase = "ARMING" /\ s.mode # "OFFBOARD" -> Fail(e, 0)
      [] e.phase = "ARMING" /\ s.mode = "OFFBOARD" /\ s.armed ->
            [CancelAction(e) EXCEPT !.phase = "TAKEOFF", !.since = 0,
                                    !.arrival = None, !.target = Climb]
      [] OTHER -> RequestAction(e, "ARM", 0, id)

\* arrival_dwell of uninterrupted arrival.
Dwell(e, s) ==
    CASE ~WithinArrival(s) -> [e EXCEPT !.arrival = None]
      [] WithinArrival(s) /\ e.arrival = None -> [e EXCEPT !.arrival = 0]
      [] WithinArrival(s) /\ e.arrival # None /\ e.arrival >= ArrivalDwell ->
            Hold(e, "HOLDING")
      [] OTHER -> e

Climbing(e, s) ==
    CASE e.phase = "TAKEOFF" /\ e.since > TakeoffTimeout -> Hold(e, "PAUSED")
      [] e.phase = "TAKEOFF" /\ e.since <= TakeoffTimeout -> Dwell(e, s)
      [] OTHER -> e

RequestLanding(e, s, id) ==
    CASE ~StateFresh(s) -> Fail(e, 0)
      [] StateFresh(s) /\ s.mode = "AUTO.LAND" ->
            [CancelAction(e) EXCEPT !.phase = "LANDING", !.since = 0,
                                    !.ground = None]
      [] OTHER -> RequestAction(e, "SET_LAND", 0, id)

\* Mutant of Touchdown: the reference survives the landing.
TouchdownKeepsOrigin(e) == [CancelAction(e) EXCEPT !.phase = "IDLE_GROUND",
                                                   !.prestream = None]

Touchdown(e) == [CancelAction(e) EXCEPT !.phase = "IDLE_GROUND",
                                        !.originValid = FALSE,
                                        !.prestream = None]

\* Mutant of Descend: a bounce does not restart the ground delay.
DescendThroughBounce(e, s, id) ==
    CASE e.since > LandingTimeout -> Fail(e, 0)
      [] e.since <= LandingTimeout /\ e.ground = None ->
            IF s.grounded THEN [e EXCEPT !.ground = 0] ELSE e
      [] e.since <= LandingTimeout /\ e.ground # None /\ s.grounded
                                   /\ e.ground >= GroundDisarmDelay ->
            RequestAction(ActionPhase(e, "WAIT_DISARM"), "DISARM", 0, id)
      [] OTHER -> e

\* While armed: descend, then disarm after ground_disarm_delay on the ground.
Descend(e, s, id) ==
    CASE e.since > LandingTimeout -> Fail(e, 0)
      [] e.since <= LandingTimeout /\ ~s.grounded -> [e EXCEPT !.ground = None]
      [] e.since <= LandingTimeout /\ s.grounded /\ e.ground = None ->
            [e EXCEPT !.ground = 0]
      [] e.since <= LandingTimeout /\ s.grounded /\ e.ground # None
                                   /\ e.ground >= GroundDisarmDelay ->
            RequestAction(ActionPhase(e, "WAIT_DISARM"), "DISARM", 0, id)
      [] OTHER -> e

AwaitDisarm(e, s, id) ==
    IF s.grounded THEN RequestAction(e, "DISARM", 0, id) ELSE Fail(e, 0)

LandingStep(e, s, id) ==
    CASE e.phase = "LAND_REQUEST" -> RequestLanding(e, s, id)
      [] e.phase \in {"LANDING", "WAIT_DISARM"} /\ ~StateFresh(s) -> Fail(e, 0)
      [] e.phase \in {"LANDING", "WAIT_DISARM"} /\ StateFresh(s) /\ ~s.armed ->
            Touchdown(e)
      [] e.phase = "LANDING" /\ StateFresh(s) /\ s.armed -> Descend(e, s, id)
      [] e.phase = "WAIT_DISARM" /\ StateFresh(s) /\ s.armed ->
            AwaitDisarm(e, s, id)
      [] OTHER -> e

\* The whole of tick but its feedback.
AuthorityStage(e, s, i) ==
    LET fresh == [e EXCEPT !.action = "NONE", !.ticked = TRUE]
    IN RevokeLease(Consider(Prestream(fresh, s), s, i), s)
SafetyStage(e, s) == BeginTakeoff(CutOnFault(CatchLateArm(e, s), s), s)
FlightStage(e, s, id) ==
    LandingStep(Climbing(Arm(TakeOver(e, s, id), s, id), s), s, id)

TickOf(e, s, i, id) == FlightStage(SafetyStage(AuthorityStage(e, s, i), s), s, id)

PublishSetpoint(e, s) ==
    /\ Healthy(s)
    /\ e.phase \notin {"ERROR", "LANDING", "WAIT_DISARM"}
    /\ e.phase = "IDLE_GROUND" => ~s.armed /\ s.grounded

\* acceptActionResult: only the request in flight may be answered, and only
\* within service_timeout.
AnswerOf(e, id, ok) ==
    CASE ~e.pending \/ id # e.actionId -> e
      [] e.pending /\ id = e.actionId /\ e.actionAge > ServiceTimeout ->
            Fail(e, 0)
      [] OTHER -> [e EXCEPT !.pending = FALSE, !.actionId = 0, !.waiting = ok,
                            !.feedbackLeft = FeedbackTimeout]

\* Mutant of ActionAllowed: the latest intent is not looked at.
ActionAllowedUnleased(e, a, s, latest) ==
    /\ e.pending /\ a.id = e.actionId
    /\ a.request = e.accepted.id /\ a.generation = e.accepted.generation
    /\ e.actionAge <= ServiceTimeout
    /\ s.fcu = "up"
    /\ CASE a.kind = "SET_OFFBOARD" -> /\ e.phase = "OFFBOARD_REQUEST"
                                       /\ Healthy(s) /\ ~s.armed
         [] a.kind = "ARM" -> /\ e.phase = "ARMING" /\ Healthy(s)
                              /\ s.grounded /\ ~s.armed /\ s.mode = "OFFBOARD"
         [] a.kind = "SET_LAND" -> e.phase = "LAND_REQUEST" /\ s.armed
         [] a.kind = "DISARM" -> /\ e.phase = "WAIT_DISARM"
                                 /\ s.grounded /\ s.armed

\* actionAllowed: the last check before the service worker calls MAVROS, with
\* the intent the task has published by then.
ActionAllowed(e, a, s, latest) ==
    /\ e.pending /\ a.id = e.actionId
    /\ a.request = e.accepted.id /\ a.generation = e.accepted.generation
    /\ e.actionAge <= ServiceTimeout
    /\ s.fcu = "up"
    /\ Landing(e) \/ /\ Fresh(latest) /\ ~e.lost
                     /\ latest.id = e.accepted.id
                     /\ latest.generation = e.accepted.generation
    /\ CASE a.kind = "SET_OFFBOARD" -> /\ e.phase = "OFFBOARD_REQUEST"
                                       /\ Healthy(s) /\ ~s.armed
         [] a.kind = "ARM" -> /\ e.phase = "ARMING" /\ Healthy(s)
                              /\ s.grounded /\ ~s.armed /\ s.mode = "OFFBOARD"
         [] a.kind = "SET_LAND" -> e.phase = "LAND_REQUEST" /\ s.armed
         [] a.kind = "DISARM" -> /\ e.phase = "WAIT_DISARM"
                                 /\ s.grounded /\ s.armed

NoRequest == [kind |-> "NONE", id |-> 0, generation |-> 0, request |-> 0]

\* The request that tick returns.
RequestOf(e) == [kind |-> e.action, id |-> e.actionId,
                 generation |-> e.accepted.generation, request |-> e.accepted.id]

\* Time passes for every stamp the executor keeps.  ticked: last_tick_ is now.
ElapsedExec(e) ==
    [e EXCEPT !.ticked = FALSE,
              !.accepted.age = Older(@, TaskTimeout),
              !.prestream = Older(@, PrestreamDuration),
              !.since = Older(@, PhaseLimit),
              !.arrival = Older(@, ArrivalDwell),
              !.ground = Older(@, GroundDisarmDelay),
              !.actionAge = Older(@, ServiceTimeout),
              !.feedbackLeft = Closer(@),
              !.retryLeft = Closer(@)]

-----------------------------------------------------------------------------
InitialExec ==
    [phase |-> "IDLE_GROUND", accepted |-> NoIntent, lost |-> FALSE,
     blocked |-> 0, takeoffPending |-> FALSE, originValid |-> FALSE,
     originGeneration |-> 0, target |-> Zero, action |-> "NONE",
     actionId |-> 0, pending |-> FALSE, waiting |-> FALSE, attempts |-> 0,
     prestream |-> None, since |-> 0, arrival |-> None, ground |-> None,
     actionAge |-> 0, feedbackLeft |-> 0, retryLeft |-> 0, exit |-> 0,
     ticked |-> FALSE]

ExecStates ==
    [phase : ExecPhases, accepted : IntentStates,
     lost : BOOLEAN, blocked : Nat, takeoffPending : BOOLEAN,
     originValid : BOOLEAN, originGeneration : Nat, target : Poses,
     action : ActionKinds \cup {"NONE"}, actionId : ActionIds \cup {0},
     pending : BOOLEAN, waiting : BOOLEAN, attempts : 0..MaxAttempts,
     prestream : Age(PrestreamDuration), since : Age(PhaseLimit),
     arrival : Age(ArrivalDwell), ground : Age(GroundDisarmDelay),
     actionAge : Age(ServiceTimeout), feedbackLeft : 0..FeedbackTimeout,
     retryLeft : 0..RetryInterval, exit : {0, 2},
     ticked : BOOLEAN]

-----------------------------------------------------------------------------
(* What holds of an executor record, between the stages of a tick as well  *)
(* as after it, and from one record to the next.                           *)

\* The phase and the accepted command agree.
MatchesGrant(e) ==
    /\ e.takeoffPending =>
            e.phase = "IDLE_GROUND" /\ e.accepted.kind = "TAKEOFF"
    /\ e.phase \in {"OFFBOARD_REQUEST", "ARMING", "TAKEOFF", "HOLDING"} =>
            e.accepted.kind = "TAKEOFF"
    /\ e.phase = "GUIDING" =>
            e.accepted.kind = "TRACK" /\ e.target = e.accepted.target
    /\ Landing(e) => e.accepted.kind = "LAND"
    /\ e.accepted.kind # "WAIT" => e.accepted.id > 0

\* A revoked grant is marked, and nothing moves on it.
Revoked(e) ==
    /\ e.lost => /\ e.phase \in {"IDLE_GROUND", "PAUSED", "ERROR"}
                 /\ ~e.takeoffPending
                 /\ e.blocked = e.accepted.id
    /\ ~e.lost /\ e.accepted.id > 0 => e.accepted.id > e.blocked

\* The request that each phase issues.
RequestKind == [OFFBOARD_REQUEST |-> "SET_OFFBOARD", ARMING |-> "ARM",
                LAND_REQUEST |-> "SET_LAND", WAIT_DISARM |-> "DISARM"]

\* r, the last request returned by a tick, is one of the present phase and of
\* the accepted command, while its answer or its effect is awaited.
Belongs(e, r) ==
    e.pending \/ e.waiting =>
        /\ r.kind = RequestKind[e.phase]
        /\ r.request = e.accepted.id /\ r.generation = e.accepted.generation
        /\ e.pending => r.id = e.actionId

\* A request has a phase that awaits it, and a name while it is in flight.
RequestOfPhase(e) ==
    /\ e.pending \/ e.waiting => e.phase \in ServicePhases
    /\ e.pending <=> e.actionId # 0

\* The takeoff reference is there in flight, and not on the ground.
Referenced(e) ==
    /\ e.phase = "IDLE_GROUND" => ~e.originValid
    /\ e.phase \in MotionPhases \cup {"HOLDING"} => e.originValid

\* What moves the vehicle is under a lease.
Leased(e) == e.phase \in MotionPhases => Fresh(e.accepted) /\ ~e.lost

\* Identifiers and generations only grow, and an identifier is one command.
MonotoneGrant(e, f) ==
    /\ f.accepted.id >= e.accepted.id
    /\ f.accepted.generation >= e.accepted.generation
    /\ f.accepted.id = e.accepted.id => SameCommand(e, f.accepted)
    /\ f.blocked >= e.blocked

\* ERROR and a landing are left one way only.
OneWay(e, f) ==
    /\ e.phase = "ERROR" => f.phase \in {"ERROR", "LAND_REQUEST", "LANDING"}
    /\ Landing(e) => f.phase \in LandingPhases \cup {"ERROR", "IDLE_GROUND"}
    /\ Landing(e) => SameCommand(e, f.accepted)
=============================================================================
