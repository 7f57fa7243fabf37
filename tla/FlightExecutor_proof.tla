------------------------ MODULE FlightExecutor_proof ------------------------
(***************************************************************************)
(* Theorems about FlightExecutor and its recorder, under any caller.       *)
(*                                                                         *)
(* The inductive invariant of the executor is Good(exec).  That the motors *)
(* are asked to stop only after ground_disarm_delay on the ground needs    *)
(* more: the executor's own ground timer never runs ahead of the recorded  *)
(* one while it descends, and whoever waits for the disarm has earned it.  *)
(* That a request belongs to its phase is followed through the stages of a *)
(* tick: each keeps what the record says, drops the request, or sends one. *)
(***************************************************************************)
EXTENDS FlightExecutor, ExecutorStages_proof

\* A new executor satisfies the invariant.
LEMMA InitGood == Init => Good(exec)
BY InitialGood DEF Init

\* The invariant is inductive.
LEMMA NextGood == Good(exec) /\ [Next]_exec => Good(exec)'
<1> SUFFICES ASSUME Good(exec), [Next]_exec PROVE Good(exec)'
  OBVIOUS
<1>1. ASSUME NEW s \in Sensors, NEW i \in Intents, NEW id \in ActionIds,
             ExecutorTick(s, i, id)
      PROVE  Good(exec)'
  <2>1. s \in SensorStates /\ i \in IntentStates BY CallerAssumption
  <2> QED BY <1>1, <2>1, TickGood DEF ExecutorTick
<1>2. ASSUME NEW id \in ActionIds, NEW ok \in BOOLEAN, AcceptActionResult(id, ok)
      PROVE  Good(exec)'
  BY <1>2, AnswerGood DEF AcceptActionResult
<1>3. CASE Elapse BY <1>3, ElapsedGood DEF Elapse
<1>4. CASE UNCHANGED exec BY <1>4
<1> QED BY <1>1, <1>2, <1>3, <1>4 DEF Next

\* The invariant holds in every reachable state.
LEMMA GoodAlways == Spec => []Good(exec)
BY InitGood, NextGood, PTL DEF Spec

\* The members of FlightExecutor keep their types under any caller; no phase
\* ever sends more than MaxAttempts service requests.
THEOREM TypeCorrect == Spec => []TypeOK
<1>1. Good(exec) => TypeOK BY DEF Good, TypeOK
<1> QED BY <1>1, GoodAlways, PTL

\* Whatever the task does, the executor's phase is the one its accepted
\* command asks for.
THEOREM PhaseGrant == Spec => []PhaseMatchesGrant
<1>1. Good(exec) => PhaseMatchesGrant BY DEF Good, PhaseMatchesGrant
<1> QED BY <1>1, GoodAlways, PTL

\* A command that lost its lease never regains authority.
THEOREM Revocation == Spec => []RevokedStaysRevoked
<1>1. Good(exec) => RevokedStaysRevoked BY DEF Good, RevokedStaysRevoked
<1> QED BY <1>1, GoodAlways, PTL

\* The takeoff reference is there in every phase that uses it, and gone on
\* the ground.
THEOREM ReferenceScope == Spec => []ReferenceTracksFlight
<1>1. Good(exec) => ReferenceTracksFlight BY DEF Good, ReferenceTracksFlight
<1> QED BY <1>1, GoodAlways, PTL

\* No tick ends with the vehicle moving, or about to be armed, on a command
\* whose heartbeat has expired, whatever the task thread does or stops doing.
THEOREM MotionLease == Spec => []MotionUnderLease
<1>1. Init => MotionUnderLease
  BY DEF Init, InitialExec, MotionUnderLease
<1>2. Good(exec) /\ MotionUnderLease /\ [Next]_exec => MotionUnderLease'
  <2> SUFFICES ASSUME Good(exec), MotionUnderLease, [Next]_exec PROVE MotionUnderLease'
    OBVIOUS
  <2>1. ASSUME NEW s \in Sensors, NEW i \in Intents, NEW id \in ActionIds,
               ExecutorTick(s, i, id)
        PROVE  MotionUnderLease'
    <3>1. s \in SensorStates /\ i \in IntentStates BY CallerAssumption
    <3>2. Leased(exec') BY <2>1, <3>1, TickLeased DEF ExecutorTick
    <3> QED BY <3>2 DEF MotionUnderLease
  <2>2. ASSUME NEW id \in ActionIds, NEW ok \in BOOLEAN, AcceptActionResult(id, ok)
        PROVE  MotionUnderLease'
    BY <2>2 DEF AcceptActionResult, AnswerOf, Fail, CancelAction, Good,
       ExecStates, MotionUnderLease, Leased, MotionPhases
  <2>3. CASE Elapse
    BY <2>3 DEF Elapse, ElapsedExec, Good, ExecStates, MotionUnderLease
  <2>4. CASE UNCHANGED exec BY <2>4 DEF MotionUnderLease
  <2> QED BY <2>1, <2>2, <2>3, <2>4 DEF Next
<1> QED BY <1>1, <1>2, GoodAlways, PTL DEF Spec

\* An accepted command is never altered and never superseded by an older one;
\* ERROR is left only by a landing, and nothing diverts a landing.
THEOREM OneWayCommands == Spec => CommandsAreOneWay
<1>1. ASSUME NEW e, NEW f, Good(e), f.accepted.id = e.accepted.id,
             f.accepted.generation = e.accepted.generation,
             f.accepted.kind = e.accepted.kind, f.accepted.target = e.accepted.target,
             f.blocked = e.blocked, f.phase \in {e.phase, "ERROR"}
      PROVE  TickMayDo(e, f)
  BY <1>1 DEF Good, TickMayDo, MonotoneGrant, OneWay, SameCommand, Landing, LandingPhases,
     ExecStates, IntentStates
<1>2. Good(exec) /\ [Next]_exec => [TickMayDo(exec, exec')]_exec
  <2> SUFFICES ASSUME Good(exec), [Next]_exec PROVE TickMayDo(exec, exec') \/ UNCHANGED exec
    OBVIOUS
  <2>1. ASSUME NEW s \in Sensors, NEW i \in Intents, NEW id \in ActionIds,
               ExecutorTick(s, i, id)
        PROVE  TickMayDo(exec, exec')
    <3>1. s \in SensorStates /\ i \in IntentStates BY CallerAssumption
    <3> QED BY <2>1, <3>1, TickOneWay DEF ExecutorTick
  <2>2. ASSUME NEW id \in ActionIds, NEW ok \in BOOLEAN, AcceptActionResult(id, ok)
        PROVE  TickMayDo(exec, exec')
    <3>1. /\ exec'.accepted = exec.accepted /\ exec'.blocked = exec.blocked
          /\ exec'.phase \in {exec.phase, "ERROR"}
      BY <2>2, FailKeeps DEF AcceptActionResult, AnswerOf, Good, ExecStates
    <3> QED BY <1>1, <3>1
  <2>3. CASE Elapse
    <3>1. /\ exec'.accepted.id = exec.accepted.id
          /\ exec'.accepted.generation = exec.accepted.generation
          /\ exec'.accepted.kind = exec.accepted.kind
          /\ exec'.accepted.target = exec.accepted.target
          /\ exec'.blocked = exec.blocked /\ exec'.phase = exec.phase
      BY <2>3 DEF Elapse, ElapsedExec, Good, ExecStates, IntentStates
    <3> QED BY <1>1, <3>1
  <2> QED BY <2>1, <2>2, <2>3 DEF Next
<1> QED BY <1>2, GoodAlways, PTL DEF Spec, CommandsAreOneWay, TickMayDo
-----------------------------------------------------------------------------
(* The disarm after the landing. *)

\* The ground timer is backed by the record, and a disarm phase or request by
\* the whole delay.
Earned(e, l) ==
    /\ l \in Age(GroundDisarmDelay)
    /\ e.phase = "LANDING" => e.ground <= l
    /\ e.phase = "WAIT_DISARM" => l >= GroundDisarmDelay
    /\ e.action = "DISARM" => l >= GroundDisarmDelay

\* The record after a tick that sees s.
Seen(s, l) == CASE ~s.grounded -> None
                [] s.grounded /\ l = None -> 0
                [] OTHER -> l

\* A stage that asks for no disarm, and enters no descent.
Quiet(e, f) ==
    /\ f.action = "DISARM" => e.action = "DISARM"
    /\ f.phase \in {"LANDING", "WAIT_DISARM"} => f.phase = e.phase /\ f.ground = e.ground

\* hold() and fail() ask for nothing and leave every descent.
LEMMA HoldQuiet ==
    ASSUME NEW e \in ExecStates, NEW s \in SensorStates, NEW exit,
           NEW p \in {"PAUSED", "HOLDING", "IDLE_GROUND"}
    PROVE  Quiet(e, Hold(e, p)) /\ Quiet(e, Settle(e, s)) /\ Quiet(e, Fail(e, exit))
BY DEF Quiet, Hold, Settle, Fail, CancelAction, ExecStates

\* A request other than DISARM is quiet.
LEMMA RequestQuiet ==
    ASSUME NEW e \in ExecStates, NEW kind \in ActionKinds \ {"DISARM"},
           NEW exit \in {0, 2}, NEW id \in ActionIds
    PROVE  Quiet(e, RequestAction(e, kind, exit, id))
<1>1. Quiet(e, StopWaiting(e)) /\ Quiet(e, SendAction(e, kind, id)) /\ Quiet(e, e)
  BY DEF Quiet, StopWaiting, SendAction, ExecStates
<1>2. Quiet(e, Fail(e, 0)) /\ Quiet(e, Fail(e, exit))
  BY DEF Quiet, Fail, CancelAction, ExecStates
<1> QED BY <1>1, <1>2, RequestCases

\* Reading the intent and expiring the lease are quiet: a command enters a
\* landing at its request, never in the descent.
LEMMA AuthorityQuiet ==
    ASSUME NEW e, Good(e), NEW s \in SensorStates, NEW i \in IntentStates
    PROVE  /\ AuthorityStage(e, s, i).action # "DISARM"
           /\ Quiet(e, AuthorityStage(e, s, i))
<1> DEFINE fresh == [e EXCEPT !.action = "NONE", !.ticked = TRUE]
           p == Prestream(fresh, s)
           c == Consider(p, s, i)
<1>0. /\ fresh \in ExecStates /\ fresh.action = "NONE"
      /\ fresh.phase = e.phase /\ fresh.ground = e.ground
  BY DEF Good, ExecStates
<1>1. Good(fresh)
  BY <1>0 DEF Good, ExecStates, MatchesGrant, Revoked, RequestOfPhase,
     Referenced, Landing
<1> HIDE DEF fresh
<1>2. Good(p) BY <1>1, PrestreamGood
<1>3. p.action = "NONE" /\ p.phase = e.phase /\ p.ground = e.ground
  BY <1>0, <1>1 DEF Prestream, Good, ExecStates
<1> HIDE DEF p
<1>4. Good(c) BY <1>2, ConsiderGood
<1>5. p \in ExecStates /\ c \in ExecStates BY <1>2, <1>4 DEF Good
<1>6. Quiet(p, c)
  <2> DEFINE renewed == [p EXCEPT !.accepted.age = i.age]
             a == [CancelAction(p) EXCEPT !.accepted = i, !.lost = FALSE]
             takeoff == [a EXCEPT !.takeoffPending = TRUE]
             track == [a EXCEPT !.takeoffPending = FALSE, !.phase = "GUIDING",
                                !.target = i.target]
             land == ActionPhase([a EXCEPT !.takeoffPending = FALSE, !.target = Here,
                                           !.ground = None], "LAND_REQUEST")
  <2>1. Quiet(p, renewed) /\ Quiet(p, takeoff) /\ Quiet(p, track)
    BY <1>5 DEF Quiet, CancelAction, ExecStates
  <2>2. Quiet(p, land)
    BY <1>5 DEF Quiet, ActionPhase, CancelAction, ExecStates
  <2>3. a \in ExecStates /\ a.action = p.action
    BY <1>5 DEF CancelAction, ExecStates
  <2>4. Settle(a, s).action = a.action /\ Settle(a, s).phase \in {"PAUSED", "IDLE_GROUND"}
    BY <2>3 DEF Settle, Hold, CancelAction, ExecStates
  <2>5. Adopt(p, s, i) \in {takeoff, track, land, Settle(a, s)}
    BY DEF Adopt
  <2> HIDE DEF renewed, takeoff, track, land, a
  <2>6. c \in {p, renewed, Adopt(p, s, i)} BY DEF Consider, renewed
  <2>7. Quiet(p, Settle(a, s)) BY <2>3, <2>4 DEF Quiet
  <2> QED BY <2>1, <2>2, <2>5, <2>6, <2>7 DEF Quiet
<1> HIDE DEF c
<1>7. Quiet(c, RevokeLease(c, s))
  <2> DEFINE r == [c EXCEPT !.lost = TRUE, !.blocked = c.accepted.id]
  <2>1. r \in ExecStates /\ r.action = c.action
    BY <1>5 DEF ExecStates, IntentStates
  <2>2. Settle(r, s).action = r.action /\ Settle(r, s).phase \in {"PAUSED", "IDLE_GROUND"}
    BY <2>1 DEF Settle, Hold, CancelAction, ExecStates
  <2> HIDE DEF r
  <2> QED BY <2>1, <2>2 DEF RevokeLease, Quiet, r
<1> QED BY <1>3, <1>6, <1>7 DEF Quiet, AuthorityStage, fresh, p, c

\* The stages before the landing are quiet.
LEMMA SafetyQuiet ==
    ASSUME NEW e, Good(e), NEW s \in SensorStates
    PROVE  Quiet(e, SafetyStage(e, s))
<1> DEFINE c == CatchLateArm(e, s)
           d == CutOnFault(c, s)
           r == [ActionPhase(d, "OFFBOARD_REQUEST")
                    EXCEPT !.originValid = TRUE,
                           !.originGeneration = d.accepted.generation,
                           !.target = Here, !.takeoffPending = FALSE]
<1>1. Good(c) /\ Good(d) BY SafetyGood
<1>2. Quiet(e, c) BY HoldQuiet DEF Good, CatchLateArm, Quiet
<1> HIDE DEF c
<1>3. Quiet(c, d) BY <1>1, HoldQuiet DEF Good, CutOnFault, Quiet, d
<1> HIDE DEF d
<1>4. Quiet(d, r) BY <1>1 DEF Good, Quiet, ActionPhase, CancelAction, ExecStates
<1> HIDE DEF r
<1>5. Quiet(d, BeginTakeoff(d, s)) BY <1>4 DEF Quiet, BeginTakeoff, r
<1> QED BY <1>2, <1>3, <1>5 DEF Quiet, SafetyStage, c, d

\* Nor do the stages of a flight.
LEMMA FlightQuiet ==
    ASSUME NEW e, Good(e), NEW s \in SensorStates, NEW id \in ActionIds
    PROVE  Quiet(e, TakeOver(e, s, id)) /\ Quiet(e, Arm(e, s, id)) /\ Quiet(e, Climbing(e, s))
<1>0. e \in ExecStates BY DEF Good
<1> DEFINE arming == ActionPhase(e, "ARMING")
           flying == [CancelAction(e) EXCEPT !.phase = "TAKEOFF", !.since = 0,
                                             !.arrival = None, !.target = Climb]
           out == [e EXCEPT !.arrival = None]
           in == [e EXCEPT !.arrival = 0]
<1>1. /\ Quiet(e, arming) /\ Quiet(e, flying) /\ Quiet(e, out) /\ Quiet(e, in)
      /\ Quiet(e, e)
  BY <1>0 DEF Quiet, ActionPhase, CancelAction, ExecStates
<1>2. /\ Quiet(e, RequestAction(e, "SET_OFFBOARD", 2, id))
      /\ Quiet(e, RequestAction(e, "ARM", 0, id))
  BY <1>0, RequestQuiet DEF ActionKinds
<1>3. Quiet(e, Fail(e, 0)) /\ Quiet(e, Hold(e, "PAUSED")) /\ Quiet(e, Hold(e, "HOLDING"))
  BY <1>0, HoldQuiet
<1> HIDE DEF arming, flying, out, in
<1>4. TakeOver(e, s, id) \in {e, arming, RequestAction(e, "SET_OFFBOARD", 2, id)}
  BY DEF TakeOver, arming
<1>5. Arm(e, s, id) \in {e, Fail(e, 0), flying, RequestAction(e, "ARM", 0, id)}
  BY DEF Arm, flying
<1>6. Dwell(e, s) \in {out, in, Hold(e, "HOLDING"), e} BY DEF Dwell, out, in
<1>7. Climbing(e, s) \in {Hold(e, "PAUSED"), e, Dwell(e, s)} BY DEF Climbing
<1> QED BY <1>1, <1>2, <1>3, <1>4, <1>5, <1>6, <1>7

\* The landing stages enter the disarm phase, and ask to disarm, only with the
\* whole delay behind them, and drop the timer with every bounce.
LEMMA LandingStepEarned ==
    ASSUME NEW e, Good(e), e.action # "DISARM", NEW l, Earned(e, l),
           NEW s \in SensorStates, NEW id \in ActionIds
    PROVE  Earned(LandingStep(e, s, id), Seen(s, l))
<1> DEFINE confirmed == [CancelAction(e) EXCEPT !.phase = "LANDING", !.since = 0,
                                                !.ground = None]
           w == ActionPhase(e, "WAIT_DISARM")
           bounced == [e EXCEPT !.ground = None]
           touched == [e EXCEPT !.ground = 0]
           f == LandingStep(e, s, id)
           m == Seen(s, l)
           \* What a record needs to be fine with any recorded time.
           Calm(x) == /\ x.action # "DISARM" /\ x.phase # "WAIT_DISARM"
                      /\ x.phase = "LANDING" => x.ground = None
<1>0. e \in ExecStates /\ GroundDisarmDelay \in Nat /\ l \in Age(GroundDisarmDelay)
  BY Limits DEF Good, Earned
<1>1. m \in Age(GroundDisarmDelay) /\ m \in Int /\ m >= None
  BY <1>0 DEF Seen, Age, None
<1>2. s.grounded => m >= 0 /\ m >= l
  BY <1>0 DEF Seen, Age, None
<1> HIDE DEF m
<1>3. \A x : Calm(x) => Earned(x, m)
  BY <1>1 DEF Earned
<1>4. /\ Calm(Fail(e, 0)) /\ Calm(Touchdown(e)) /\ Calm(confirmed)
      /\ e.phase # "WAIT_DISARM" => Calm(bounced)
  BY <1>0 DEF Fail, Touchdown, CancelAction, ExecStates
<1> HIDE DEF confirmed, w, bounced, touched
<1>5. CASE e.phase \notin LandingPhases
  BY <1>3, <1>5 DEF LandingStep, LandingPhases, m
<1>6. CASE e.phase = "LAND_REQUEST"
  <2>1. Calm(RequestAction(e, "SET_LAND", 0, id))
    <3>1. Quiet(e, RequestAction(e, "SET_LAND", 0, id))
      BY <1>0, RequestQuiet DEF ActionKinds
    <3> QED BY <1>6, <3>1 DEF Quiet
  <2>2. f \in {Fail(e, 0), confirmed, RequestAction(e, "SET_LAND", 0, id)}
    BY <1>6 DEF LandingStep, RequestLanding, confirmed
  <2> HIDE DEF f
  <2> QED BY <1>3, <1>4, <2>1, <2>2 DEF f, m
<1>7. CASE e.phase = "LANDING"
  <2>1. touched.phase = "LANDING" /\ touched.ground = 0 /\ touched.action = e.action
    BY <1>0, <1>7 DEF touched, ExecStates
  <2>2. s.grounded => Earned(touched, m) /\ Earned(e, m)
    <3>1. e.ground \in Int BY <1>0 DEF ExecStates, Age, None
    <3>2. l \in Int BY <1>0 DEF Age, None
    <3> QED BY <1>1, <1>2, <1>7, <2>1, <3>1, <3>2 DEF Earned
  <2>3. s.grounded /\ e.ground # None /\ e.ground >= GroundDisarmDelay
            => m >= GroundDisarmDelay
    <3>1. e.ground \in Int BY <1>0 DEF ExecStates, Age, None
    <3>2. l \in Int BY <1>0 DEF Age, None
    <3> QED BY <1>0, <1>1, <1>2, <1>7, <3>1, <3>2 DEF Earned
  <2>4. w \in ExecStates /\ w.phase = "WAIT_DISARM"
    BY <1>0, ActionPhaseType DEF w, ActionPhase, CancelAction, ExecStates, ServicePhases
  <2>5. RequestAction(w, "DISARM", 0, id).phase \in {"WAIT_DISARM", "ERROR"}
    BY <2>4, RequestKeeps DEF ActionKinds
  <2>6. m >= GroundDisarmDelay => Earned(RequestAction(w, "DISARM", 0, id), m)
    BY <1>1, <2>5 DEF Earned
  <2>7. \/ f \in {Fail(e, 0), Touchdown(e), bounced}
        \/ s.grounded /\ f \in {e, touched}
        \/ /\ s.grounded /\ e.ground # None /\ e.ground >= GroundDisarmDelay
           /\ f = RequestAction(w, "DISARM", 0, id)
    <3>1. f \in {Fail(e, 0), Touchdown(e), Descend(e, s, id)}
      BY <1>7 DEF LandingStep
    <3>2. \/ Descend(e, s, id) \in {Fail(e, 0), bounced}
          \/ s.grounded /\ Descend(e, s, id) \in {e, touched}
          \/ /\ s.grounded /\ e.ground # None /\ e.ground >= GroundDisarmDelay
             /\ Descend(e, s, id) = RequestAction(w, "DISARM", 0, id)
      <4>1. e.since > LandingTimeout \/ e.since <= LandingTimeout
        BY <1>0, Limits DEF ExecStates, Age, None
      <4> QED BY <4>1 DEF Descend, w, bounced, touched
    <3> HIDE DEF f
    <3> QED BY <3>1, <3>2
  <2> HIDE DEF f
  <2> QED BY <1>3, <1>4, <1>7, <2>2, <2>3, <2>6, <2>7 DEF f, m
<1>8. CASE e.phase = "WAIT_DISARM"
  <2>1. s.grounded => m >= GroundDisarmDelay
    <3>1. l \in Int BY <1>0 DEF Age, None
    <3> QED BY <1>0, <1>1, <1>2, <1>8, <3>1 DEF Earned
  <2>2. RequestAction(e, "DISARM", 0, id).phase \in {"WAIT_DISARM", "ERROR"}
    BY <1>0, <1>8, RequestKeeps DEF ActionKinds
  <2>3. s.grounded => Earned(RequestAction(e, "DISARM", 0, id), m)
    BY <1>1, <2>1, <2>2 DEF Earned
  <2>4. \/ f \in {Fail(e, 0), Touchdown(e)}
        \/ s.grounded /\ f = RequestAction(e, "DISARM", 0, id)
    BY <1>8 DEF LandingStep, AwaitDisarm
  <2> HIDE DEF f
  <2> QED BY <1>3, <1>4, <2>3, <2>4 DEF f, m
<1> QED BY <1>5, <1>6, <1>7, <1>8 DEF LandingPhases

\* A whole tick keeps the record ahead of the timer.
LEMMA TickEarned ==
    ASSUME NEW e, Good(e), NEW l, Earned(e, l), NEW s \in SensorStates,
           NEW i \in IntentStates, NEW id \in ActionIds
    PROVE  Earned(TickOf(e, s, i, id), Seen(s, l))
<1> DEFINE fresh == [e EXCEPT !.action = "NONE", !.ticked = TRUE]
           a == AuthorityStage(e, s, i)
           b == SafetyStage(a, s)
           o == TakeOver(b, s, id)
           r == Arm(o, s, id)
           c == Climbing(r, s)
<1>0. fresh \in ExecStates BY DEF Good, ExecStates
<1>1. Good(fresh)
  BY <1>0 DEF Good, ExecStates, MatchesGrant, Revoked, RequestOfPhase,
     Referenced, Landing
<1> HIDE DEF fresh
<1>2. Good(a) /\ Quiet(e, a) /\ a.action # "DISARM"
  BY <1>1, PrestreamGood, ConsiderGood, RevokeGood, AuthorityQuiet
  DEF AuthorityStage, fresh
<1> HIDE DEF a
<1>3. Good(b) /\ Quiet(a, b)
  BY <1>2, SafetyGood, BeginTakeoffGood, SafetyQuiet DEF SafetyStage
<1> HIDE DEF b
<1>4. Good(o) /\ Quiet(b, o) BY <1>3, TakeOverGood, FlightQuiet
<1> HIDE DEF o
<1>5. Good(r) /\ Quiet(o, r) BY <1>4, ArmGood, FlightQuiet
<1> HIDE DEF r
<1>6. Good(c) /\ Quiet(r, c) BY <1>5, ClimbingGood, FlightQuiet
<1> HIDE DEF c
<1>7. Quiet(e, c) /\ c.action # "DISARM"
  BY <1>2, <1>3, <1>4, <1>5, <1>6 DEF Quiet
<1>8. Earned(c, l) BY <1>7 DEF Quiet, Earned
<1>9. Earned(LandingStep(c, s, id), Seen(s, l)) BY <1>6, <1>7, <1>8, LandingStepEarned
<1> QED BY <1>9 DEF TickOf, FlightStage, a, b, o, r, c

\* Time passes for both timers alike.
LEMMA ElapsedEarned ==
    ASSUME NEW e, Good(e), NEW l, Earned(e, l)
    PROVE  Earned(ElapsedExec(e), Older(l, GroundDisarmDelay))
<1> DEFINE f == ElapsedExec(e)
           m == Older(l, GroundDisarmDelay)
<1>1. /\ f.phase = e.phase /\ f.action = e.action
      /\ f.ground = Older(e.ground, GroundDisarmDelay)
  BY DEF Good, ExecStates, ElapsedExec
<1>2. GroundDisarmDelay \in Nat /\ e.ground \in Age(GroundDisarmDelay)
  BY Limits DEF Good, ExecStates
<1>3. m \in Age(GroundDisarmDelay) /\ (l >= GroundDisarmDelay => m >= GroundDisarmDelay)
  BY <1>2 DEF Earned, Older, Age, None
<1>4. e.ground <= l => Older(e.ground, GroundDisarmDelay) <= m
  BY <1>2 DEF Earned, Older, Age, None
<1> HIDE DEF f, m
<1>5. Earned(f, m) BY <1>1, <1>3, <1>4 DEF Earned
<1> QED BY <1>5 DEF f, m

\* The inductive invariant holds in every reachable state.
LEMMA EarnedAlways == RecorderSpec => [](Good(exec) /\ Earned(exec, landed))
<1>1. RecorderInit => Good(exec) /\ Earned(exec, landed)
  <2>1. Init /\ landed = None => Earned(exec, landed)
    BY Domains, Limits DEF Init, InitialExec, Earned
  <2> QED BY <2>1, InitGood DEF RecorderInit
<1>2. Good(exec) /\ Earned(exec, landed) /\ [RecorderNext]_recorderVars
        => (Good(exec) /\ Earned(exec, landed))'
  <2> SUFFICES ASSUME Good(exec), Earned(exec, landed), [RecorderNext]_recorderVars
               PROVE  Good(exec)' /\ Earned(exec', landed')
    OBVIOUS
  <2>1. Good(exec)'
    <3>1. [Next]_exec
      BY DEF RecorderNext, recorderVars, RecordedTick, RecordedResult, RecordedElapse, Next
    <3> QED BY <3>1, NextGood
  <2>2. ASSUME NEW s \in Sensors, NEW i \in Intents, NEW id \in ActionIds,
               RecordedTick(s, i, id)
        PROVE  Earned(exec', landed')
    <3>1. s \in SensorStates /\ i \in IntentStates BY CallerAssumption
    <3>2. exec' = TickOf(exec, s, i, id) /\ landed' = Seen(s, landed)
      BY <2>2 DEF RecordedTick, ExecutorTick, Seen
    <3> QED BY <3>1, <3>2, TickEarned
  <2>3. ASSUME NEW id \in ActionIds, NEW ok \in BOOLEAN, RecordedResult(id, ok)
        PROVE  Earned(exec', landed')
    <3> DEFINE r == [exec EXCEPT !.pending = FALSE, !.actionId = 0, !.waiting = ok,
                                 !.feedbackLeft = FeedbackTimeout]
    <3>1. exec \in ExecStates BY DEF Good
    <3>2. Quiet(exec, r) /\ Quiet(exec, Fail(exec, 0)) /\ Quiet(exec, exec)
      BY <3>1 DEF Quiet, Fail, CancelAction, ExecStates
    <3> HIDE DEF r
    <3>3. exec' \in {exec, Fail(exec, 0), r} /\ landed' = landed
      BY <2>3 DEF RecordedResult, AcceptActionResult, AnswerOf, r
    <3>4. Quiet(exec, exec') BY <3>2, <3>3
    <3> QED BY <3>3, <3>4 DEF Quiet, Earned
  <2>4. CASE RecordedElapse
    BY <2>1, <2>4, ElapsedEarned DEF RecordedElapse, Elapse
  <2>5. CASE UNCHANGED recorderVars
    BY <2>5 DEF recorderVars
  <2> QED BY <2>1, <2>2, <2>3, <2>4, <2>5 DEF RecorderNext
<1> QED BY <1>1, <1>2, PTL DEF RecorderSpec

\* Whatever the task and the sensors do, no motor is asked to stop before every
\* tick of the last ground_disarm_delay has seen the vehicle on the ground.
THEOREM DisarmAfterLanding == RecorderSpec => DisarmOnlyAfterLanding
<1>1. (Good(exec) /\ Earned(exec, landed))'
        => [exec'.action = "DISARM" => landed' >= GroundDisarmDelay]_recorderVars
  BY DEF Earned
<1> QED BY <1>1, EarnedAlways, PTL DEF RecorderSpec, DisarmOnlyAfterLanding

-----------------------------------------------------------------------------
(* A request belongs to the phase that issued it. *)

\* The record is right between the stages of a tick, when it is the request
\* the tick is about to return that counts, if there is one.
Asked(e, a) == Belongs(e, IF e.action # "NONE" THEN RequestOf(e) ELSE a)

\* A stage that awaits nothing, or awaits what was awaited before it.
Dropped(e) == ~e.pending /\ ~e.waiting
Same(e, f) ==
    /\ f.pending = e.pending /\ f.waiting = e.waiting /\ f.actionId = e.actionId
    /\ f.action = e.action /\ f.phase = e.phase
    /\ f.accepted.id = e.accepted.id /\ f.accepted.generation = e.accepted.generation

\* Either way the record stays right.
LEMMA KeptAsked ==
    ASSUME NEW e, NEW a, Asked(e, a), NEW f, Dropped(f) \/ Same(e, f)
    PROVE  Asked(f, a)
<1>1. CASE Dropped(f) BY <1>1 DEF Dropped, Asked, Belongs
<1>2. CASE Same(e, f) BY <1>2 DEF Same, Asked, Belongs, RequestOf
<1> QED BY <1>1, <1>2

\* hold(), fail() and a new phase drop the request.
LEMMA CancelDrops ==
    ASSUME NEW e \in ExecStates, NEW s \in SensorStates, NEW p, NEW exit
    PROVE  /\ Dropped(CancelAction(e)) /\ Dropped(Fail(e, exit))
           /\ Dropped(Hold(e, p)) /\ Dropped(ActionPhase(e, p))
           /\ Dropped(Settle(e, s)) /\ Dropped(Touchdown(e))
BY DEF Dropped, CancelAction, Fail, Hold, ActionPhase, Settle, Touchdown, ExecStates

\* requestAction sends the kind of its phase, and otherwise sends nothing.
LEMMA RequestAsked ==
    ASSUME NEW e \in ExecStates, NEW a, Asked(e, a),
           NEW kind \in ActionKinds, kind = RequestKind[e.phase],
           NEW exit \in {0, 2}, NEW id \in ActionIds
    PROVE  Asked(RequestAction(e, kind, exit, id), a)
<1> DEFINE sent == SendAction(e, kind, id)
           stopped == StopWaiting(e)
<1>1. Asked(sent, a)
  <2>1. /\ sent.action = kind /\ sent.actionId = id /\ sent.phase = e.phase
        /\ sent.accepted = e.accepted
    BY DEF SendAction, ExecStates
  <2>2. kind # "NONE" BY DEF ActionKinds
  <2> HIDE DEF sent
  <2> QED BY <2>1, <2>2 DEF Asked, Belongs, RequestOf
<1>2. Asked(stopped, a)
  <2>1. /\ stopped.action = e.action /\ stopped.actionId = e.actionId
        /\ stopped.phase = e.phase /\ stopped.accepted = e.accepted
        /\ stopped.pending = e.pending /\ stopped.waiting = FALSE
    BY DEF StopWaiting, ExecStates
  <2> HIDE DEF stopped
  <2> QED BY <2>1 DEF Asked, Belongs, RequestOf
<1>3. Asked(Fail(e, 0), a) /\ Asked(Fail(e, exit), a)
  <2>1. Dropped(Fail(e, 0)) /\ Dropped(Fail(e, exit))
    BY DEF Dropped, CancelAction, Fail, ExecStates
  <2> QED BY <2>1, KeptAsked
<1> HIDE DEF sent, stopped
<1> QED BY <1>1, <1>2, <1>3, RequestCases DEF sent, stopped

\* Reading the intent and expiring the lease: a renewal changes only the age of
\* what was accepted, and a new command or a revocation drops the request.
LEMMA AuthorityAsked ==
    ASSUME NEW e, Good(e), NEW a, Belongs(e, a), NEW s \in SensorStates,
           NEW i \in IntentStates
    PROVE  Asked(AuthorityStage(e, s, i), a)
<1> DEFINE fresh == [e EXCEPT !.action = "NONE", !.ticked = TRUE]
           p == Prestream(fresh, s)
           c == Consider(p, s, i)
<1>0. /\ fresh \in ExecStates /\ fresh.action = "NONE" /\ fresh.pending = e.pending
      /\ fresh.waiting = e.waiting /\ fresh.actionId = e.actionId
      /\ fresh.phase = e.phase /\ fresh.accepted = e.accepted
  BY DEF Good, ExecStates
<1>1. Good(fresh)
  BY <1>0 DEF Good, ExecStates, MatchesGrant, Revoked, RequestOfPhase,
     Referenced, Landing
<1> HIDE DEF fresh
<1>2. Asked(fresh, a) BY <1>0 DEF Asked, Belongs
<1>3. Good(p) BY <1>1, PrestreamGood
<1>4. Same(fresh, p)
  BY <1>0 DEF Prestream, ExecStates, Same
<1>5. Asked(p, a) BY <1>2, <1>4, KeptAsked
<1> HIDE DEF p
<1>6. Good(c) BY <1>3, ConsiderGood
<1>7. p \in ExecStates /\ c \in ExecStates BY <1>3, <1>6 DEF Good
<1>8. Dropped(c) \/ Same(p, c)
  <2> DEFINE renewed == [p EXCEPT !.accepted.age = i.age]
             g == [CancelAction(p) EXCEPT !.accepted = i, !.lost = FALSE]
             takeoff == [g EXCEPT !.takeoffPending = TRUE]
             track == [g EXCEPT !.takeoffPending = FALSE, !.phase = "GUIDING",
                                !.target = i.target]
             over == [g EXCEPT !.takeoffPending = FALSE, !.target = Here,
                               !.ground = None]
  <2>1. Same(p, renewed) BY <1>7 DEF Same, ExecStates, IntentStates
  <2>2. g \in ExecStates BY <1>7 DEF CancelAction, ExecStates
  <2>3. /\ Dropped(takeoff) /\ Dropped(track)
        /\ Dropped(ActionPhase(over, "LAND_REQUEST"))
    BY <1>7 DEF Dropped, ActionPhase, CancelAction, ExecStates
  <2>4. Dropped(Settle(g, s)) BY <2>2, CancelDrops
  <2>5. Adopt(p, s, i) \in {takeoff, track, ActionPhase(over, "LAND_REQUEST"), Settle(g, s)}
    BY DEF Adopt
  <2> HIDE DEF renewed, takeoff, track, over, g
  <2>6. c \in {p, renewed, Adopt(p, s, i)} BY DEF Consider, renewed
  <2>7. Same(p, p) BY DEF Same
  <2> QED BY <2>1, <2>3, <2>4, <2>5, <2>6, <2>7
<1>9. Asked(c, a) BY <1>5, <1>8, KeptAsked
<1> HIDE DEF c
<1>10. Dropped(RevokeLease(c, s)) \/ Same(c, RevokeLease(c, s))
  <2> DEFINE r == [c EXCEPT !.lost = TRUE, !.blocked = c.accepted.id]
  <2>1. r \in ExecStates BY <1>7 DEF ExecStates, IntentStates
  <2>2. Dropped(Settle(r, s)) BY <2>1, CancelDrops
  <2>3. RevokeLease(c, s) \in {c, Settle(r, s)} BY DEF RevokeLease
  <2> HIDE DEF r
  <2> QED BY <2>2, <2>3 DEF Same
<1> QED BY <1>9, <1>10, KeptAsked DEF AuthorityStage, fresh, p, c

\* A fault and the start of a takeoff drop it.
LEMMA SafetyAsked ==
    ASSUME NEW e, Good(e), NEW a, Asked(e, a), NEW s \in SensorStates
    PROVE  Asked(SafetyStage(e, s), a)
<1> DEFINE c == CatchLateArm(e, s)
           d == CutOnFault(c, s)
           b == BeginTakeoff(d, s)
           w == ActionPhase(d, "OFFBOARD_REQUEST")
           r == [w EXCEPT !.originValid = TRUE,
                          !.originGeneration = d.accepted.generation,
                          !.target = Here, !.takeoffPending = FALSE]
<1>1. Good(c) /\ Good(d) BY SafetyGood
<1>2. Dropped(c) \/ Same(e, c) BY CancelDrops DEF Good, CatchLateArm, Same
<1>3. Asked(c, a) BY <1>2, KeptAsked
<1> HIDE DEF c
<1>4. Dropped(d) \/ Same(c, d) BY <1>1, CancelDrops DEF Good, CutOnFault, Same
<1>5. Asked(d, a) BY <1>3, <1>4, KeptAsked
<1> HIDE DEF d
<1>6. Dropped(r)
  <2>1. d \in ExecStates BY <1>1 DEF Good
  <2> QED BY <2>1 DEF Dropped, ActionPhase, CancelAction, ExecStates
<1> HIDE DEF r, w
<1>7. b \in {d, r} BY DEF BeginTakeoff, r, w
<1>8. Dropped(b) \/ Same(d, b) BY <1>6, <1>7 DEF Same
<1> HIDE DEF b
<1>9. Asked(b, a) BY <1>5, <1>8, KeptAsked
<1> QED BY <1>9 DEF SafetyStage, b, d, c

\* The stages of a flight move the phase on without the request, or send the
\* request of the phase they are in.
LEMMA FlightAsked ==
    ASSUME NEW e, Good(e), NEW a, Asked(e, a), NEW s \in SensorStates,
           NEW id \in ActionIds
    PROVE  /\ Asked(TakeOver(e, s, id), a) /\ Asked(Arm(e, s, id), a)
           /\ Asked(Climbing(e, s), a)
<1> DEFINE arming == ActionPhase(e, "ARMING")
           flying == [CancelAction(e) EXCEPT !.phase = "TAKEOFF", !.since = 0,
                                             !.arrival = None, !.target = Climb]
           out == [e EXCEPT !.arrival = None]
           in == [e EXCEPT !.arrival = 0]
<1>0. e \in ExecStates BY DEF Good
<1>1. Dropped(arming) /\ Dropped(flying)
  BY <1>0 DEF Dropped, ActionPhase, CancelAction, ExecStates
<1>2. Same(e, out) /\ Same(e, in) BY <1>0 DEF Same, ExecStates
<1>3. Dropped(Fail(e, 0)) /\ Dropped(Hold(e, "PAUSED")) /\ Dropped(Hold(e, "HOLDING"))
  BY <1>0, CancelDrops
<1> HIDE DEF arming, flying, out, in
<1>4. Asked(TakeOver(e, s, id), a)
  <2>1. CASE e.phase = "OFFBOARD_REQUEST"
    <3>1. Asked(RequestAction(e, "SET_OFFBOARD", 2, id), a)
      BY <1>0, <2>1, RequestAsked DEF ActionKinds, RequestKind
    <3>2. TakeOver(e, s, id) \in {arming, RequestAction(e, "SET_OFFBOARD", 2, id)}
      BY <2>1 DEF TakeOver, arming
    <3> QED BY <1>1, <3>1, <3>2, KeptAsked
  <2> QED BY <2>1 DEF TakeOver
<1>5. Asked(Arm(e, s, id), a)
  <2>1. CASE e.phase = "ARMING"
    <3>1. Asked(RequestAction(e, "ARM", 0, id), a)
      BY <1>0, <2>1, RequestAsked DEF ActionKinds, RequestKind
    <3>2. Arm(e, s, id) \in {Fail(e, 0), flying, RequestAction(e, "ARM", 0, id)}
      BY <2>1 DEF Arm, flying
    <3> QED BY <1>1, <1>3, <3>1, <3>2, KeptAsked
  <2> QED BY <2>1 DEF Arm
<1>6. Dwell(e, s) \in {out, in, Hold(e, "HOLDING"), e} BY DEF Dwell, out, in
<1>7. Climbing(e, s) \in {Hold(e, "PAUSED"), e, Dwell(e, s)} BY DEF Climbing
<1>8. Asked(Climbing(e, s), a) BY <1>2, <1>3, <1>6, <1>7, KeptAsked
<1> QED BY <1>4, <1>5, <1>8

\* So do the stages of a landing; the one that descends enters WAIT_DISARM and
\* sends in one step.
LEMMA LandingAsked ==
    ASSUME NEW e, Good(e), NEW a, Asked(e, a), NEW s \in SensorStates,
           NEW id \in ActionIds
    PROVE  Asked(LandingStep(e, s, id), a)
<1> DEFINE confirmed == [CancelAction(e) EXCEPT !.phase = "LANDING", !.since = 0,
                                                !.ground = None]
           w == ActionPhase(e, "WAIT_DISARM")
           bounced == [e EXCEPT !.ground = None]
           touched == [e EXCEPT !.ground = 0]
<1>0. e \in ExecStates BY DEF Good
<1>1. /\ Dropped(confirmed) /\ Dropped(Fail(e, 0)) /\ Dropped(Touchdown(e))
      /\ Dropped(w) /\ Same(e, bounced) /\ Same(e, touched)
  BY <1>0 DEF Dropped, Same, Fail, Touchdown, ActionPhase, CancelAction, ExecStates
<1>2. w \in ExecStates /\ w.phase = "WAIT_DISARM"
  BY <1>0, ActionPhaseType DEF w, ActionPhase, CancelAction, ExecStates, ServicePhases
<1>3. Asked(w, a) BY <1>1, KeptAsked
<1> HIDE DEF confirmed, w, bounced, touched
<1>4. CASE e.phase = "LAND_REQUEST"
  <2>1. Asked(RequestAction(e, "SET_LAND", 0, id), a)
    BY <1>0, <1>4, RequestAsked DEF ActionKinds, RequestKind
  <2>2. LandingStep(e, s, id) \in {Fail(e, 0), confirmed, RequestAction(e, "SET_LAND", 0, id)}
    BY <1>4 DEF LandingStep, RequestLanding, confirmed
  <2> QED BY <1>1, <2>1, <2>2, KeptAsked
<1>5. CASE e.phase = "LANDING"
  <2>1. Asked(RequestAction(w, "DISARM", 0, id), a)
    BY <1>2, <1>3, RequestAsked DEF ActionKinds, RequestKind
  <2>2. LandingStep(e, s, id) \in {Fail(e, 0), Touchdown(e), Descend(e, s, id)}
    BY <1>5 DEF LandingStep
  <2>3. Descend(e, s, id) \in {Fail(e, 0), bounced, touched, e, RequestAction(w, "DISARM", 0, id)}
    BY DEF Descend, w, bounced, touched
  <2> QED BY <1>1, <2>1, <2>2, <2>3, KeptAsked
<1>6. CASE e.phase = "WAIT_DISARM"
  <2>1. Asked(RequestAction(e, "DISARM", 0, id), a)
    BY <1>0, <1>6, RequestAsked DEF ActionKinds, RequestKind
  <2>2. LandingStep(e, s, id) \in {Fail(e, 0), Touchdown(e), RequestAction(e, "DISARM", 0, id)}
    BY <1>6 DEF LandingStep, AwaitDisarm
  <2> QED BY <1>1, <2>1, <2>2, KeptAsked
<1> QED BY <1>4, <1>5, <1>6 DEF LandingStep

\* A whole tick keeps the record right.
LEMMA TickAsked ==
    ASSUME NEW e, Good(e), NEW a, Belongs(e, a), NEW s \in SensorStates,
           NEW i \in IntentStates, NEW id \in ActionIds
    PROVE  Asked(TickOf(e, s, i, id), a)
<1> DEFINE fresh == [e EXCEPT !.action = "NONE", !.ticked = TRUE]
           h == AuthorityStage(e, s, i)
           b == SafetyStage(h, s)
           o == TakeOver(b, s, id)
           r == Arm(o, s, id)
           c == Climbing(r, s)
<1>0. fresh \in ExecStates BY DEF Good, ExecStates
<1>1. Good(fresh)
  BY <1>0 DEF Good, ExecStates, MatchesGrant, Revoked, RequestOfPhase,
     Referenced, Landing
<1> HIDE DEF fresh
<1>2. Good(h) /\ Asked(h, a)
  BY <1>1, PrestreamGood, ConsiderGood, RevokeGood, AuthorityAsked
  DEF AuthorityStage, fresh
<1> HIDE DEF h
<1>3. Good(b) /\ Asked(b, a)
  BY <1>2, SafetyGood, BeginTakeoffGood, SafetyAsked DEF SafetyStage
<1> HIDE DEF b
<1>4. Good(o) /\ Asked(o, a) BY <1>3, TakeOverGood, FlightAsked
<1> HIDE DEF o
<1>5. Good(r) /\ Asked(r, a) BY <1>4, ArmGood, FlightAsked
<1> HIDE DEF r
<1>6. Good(c) /\ Asked(c, a) BY <1>5, ClimbingGood, FlightAsked
<1> HIDE DEF c
<1>7. Asked(LandingStep(c, s, id), a) BY <1>6, LandingAsked
<1> QED BY <1>7 DEF TickOf, FlightStage, h, b, o, r, c

\* Whatever the task, the sensors and the worker do, the answer or the effect
\* that the executor awaits is that of the request its present phase issued,
\* on the command it has accepted.
THEOREM RequestScope == RecorderSpec => []RequestBelongsToPhase
<1>1. RecorderInit => Good(exec) /\ Belongs(exec, asked)
  <2>1. RecorderInit => ~exec.pending /\ ~exec.waiting
    BY DEF RecorderInit, Init, InitialExec
  <2> QED BY <2>1, InitGood DEF RecorderInit, Belongs
<1>2. Good(exec) /\ Belongs(exec, asked) /\ [RecorderNext]_recorderVars
        => (Good(exec) /\ Belongs(exec, asked))'
  <2> SUFFICES ASSUME Good(exec), Belongs(exec, asked), [RecorderNext]_recorderVars
               PROVE  Good(exec)' /\ Belongs(exec', asked')
    BY DEF Belongs
  <2>1. Good(exec)'
    <3>1. [Next]_exec
      BY DEF RecorderNext, recorderVars, RecordedTick, RecordedResult, RecordedElapse, Next
    <3> QED BY <3>1, NextGood
  <2>2. ASSUME NEW s \in Sensors, NEW i \in Intents, NEW id \in ActionIds,
               RecordedTick(s, i, id)
        PROVE  Belongs(exec', asked')
    <3>1. s \in SensorStates /\ i \in IntentStates BY CallerAssumption
    <3>2. /\ exec' = TickOf(exec, s, i, id)
          /\ asked' = Awaited(IF exec'.action # "NONE" THEN RequestOf(exec') ELSE asked)
      BY <2>2 DEF RecordedTick, ExecutorTick
    <3>3. Asked(exec', asked) BY <3>1, <3>2, TickAsked
    <3> QED BY <3>2, <3>3 DEF Asked, Belongs, Awaited
  <2>3. ASSUME NEW id \in ActionIds, NEW ok \in BOOLEAN, RecordedResult(id, ok)
        PROVE  Belongs(exec', asked')
    <3> DEFINE r == [exec EXCEPT !.pending = FALSE, !.actionId = 0, !.waiting = ok,
                                 !.feedbackLeft = FeedbackTimeout]
    <3>1. exec \in ExecStates BY DEF Good
    <3>2. Dropped(Fail(exec, 0))
      BY <3>1 DEF Dropped, Fail, CancelAction, ExecStates
    <3>3. r.pending = FALSE /\ r.phase = exec.phase /\ r.accepted = exec.accepted
      BY <3>1 DEF ExecStates
    <3> HIDE DEF r
    <3>4. asked' = Awaited(asked) BY <2>3 DEF RecordedResult
    <3>5. CASE exec.pending /\ exec' = r
      BY <3>3, <3>4, <3>5 DEF Belongs, Awaited
    <3>6. \/ exec' = exec
          \/ exec' = Fail(exec, 0)
          \/ exec.pending /\ exec' = r
      BY <2>3 DEF RecordedResult, AcceptActionResult, AnswerOf, r
    <3> QED BY <3>2, <3>4, <3>5, <3>6 DEF Belongs, Awaited, Dropped
  <2>4. CASE RecordedElapse
    <3>0. exec \in ExecStates /\ exec' = ElapsedExec(exec)
      BY <2>4 DEF Good, RecordedElapse, Elapse
    <3>1. /\ exec'.pending = exec.pending /\ exec'.waiting = exec.waiting
          /\ exec'.phase = exec.phase /\ exec'.actionId = exec.actionId
          /\ exec'.accepted.id = exec.accepted.id
          /\ exec'.accepted.generation = exec.accepted.generation
      <4>1. /\ exec'.pending = exec.pending /\ exec'.waiting = exec.waiting
            /\ exec'.phase = exec.phase /\ exec'.actionId = exec.actionId
            /\ exec'.accepted = [exec.accepted EXCEPT !.age = Older(@, TaskTimeout)]
        BY <3>0 DEF ElapsedExec, ExecStates
      <4> QED BY <3>0, <4>1 DEF ExecStates, IntentStates
    <3>2. asked' = asked BY <2>4 DEF RecordedElapse
    <3> QED BY <2>1, <3>1, <3>2 DEF Belongs
  <2>5. CASE UNCHANGED recorderVars
    BY <2>5 DEF recorderVars
  <2> QED BY <2>1, <2>2, <2>3, <2>4, <2>5 DEF RecorderNext
<1> QED BY <1>1, <1>2, PTL DEF RecorderSpec, RequestBelongsToPhase
=============================================================================
