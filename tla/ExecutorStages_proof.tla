------------------------ MODULE ExecutorStages_proof ------------------------
(***************************************************************************)
(* Lemmas about one call of the executor, for every value of its constants *)
(* and every input.  Good is what a call preserves: the type of the record *)
(* and the four relations between phase, grant, service request and        *)
(* reference.  It holds between the stages of a tick as well as after it,  *)
(* so there is one lemma per helper and one per stage.                     *)
(***************************************************************************)
EXTENDS ExecutorStages, TLAPS

Good(e) == /\ e \in ExecStates
           /\ MatchesGrant(e)
           /\ Revoked(e)
           /\ RequestOfPhase(e)
           /\ Referenced(e)

\* What Good asks of a record apart from its phase: enough for the helpers
\* that choose a phase of their own.
Granted(e) == /\ e \in ExecStates
              /\ e.accepted.kind # "WAIT" => e.accepted.id > 0
              /\ e.lost => e.blocked = e.accepted.id
              /\ ~e.lost /\ e.accepted.id > 0 => e.accepted.id > e.blocked

\* What the proofs use of the phases, the pose names and the age type.
LEMMA Domains ==
    /\ "IDLE_GROUND" \in ExecPhases /\ "OFFBOARD_REQUEST" \in ExecPhases
    /\ "ARMING" \in ExecPhases /\ "TAKEOFF" \in ExecPhases
    /\ "GUIDING" \in ExecPhases /\ "PAUSED" \in ExecPhases
    /\ "HOLDING" \in ExecPhases /\ "LAND_REQUEST" \in ExecPhases
    /\ "LANDING" \in ExecPhases /\ "WAIT_DISARM" \in ExecPhases
    /\ "ERROR" \in ExecPhases
    /\ Here \in Poses /\ Climb \in Poses
    /\ \A limit \in Nat : None \in Age(limit) /\ 0 \in Age(limit)
BY DEF ExecPhases, Phases, Poses, Age, None

\* Every limit is a natural number, and ages start and stop within their type.
LEMMA Limits ==
    /\ TaskTimeout \in Nat /\ ArrivalDwell \in Nat
    /\ PrestreamDuration \in Nat /\ RetryInterval \in Nat
    /\ FeedbackTimeout \in Nat /\ ServiceTimeout \in Nat
    /\ TakeoffTimeout \in Nat /\ LandingTimeout \in Nat
    /\ GroundDisarmDelay \in Nat /\ MaxAttempts \in Nat \ {0}
    /\ PhaseLimit \in Nat
BY LeaseAssumption, ExecutorAssumption DEF PhaseLimit

\* fail() keeps the type of the executor record.
LEMMA FailType ==
    ASSUME NEW e \in ExecStates, NEW exit \in {0, 2}
    PROVE  Fail(e, exit) \in ExecStates
BY Domains DEF ExecStates, CancelAction, Fail

\* Sending one more request, below max_attempts, keeps the type.
LEMMA SendType ==
    ASSUME NEW e \in ExecStates, NEW kind \in ActionKinds, NEW id \in ActionIds,
           e.attempts < MaxAttempts
    PROVE  SendAction(e, kind, id) \in ExecStates
<1>1. e.attempts \in Nat /\ e.attempts + 1 \in 0..MaxAttempts
   BY Limits DEF ExecStates
<1>2. RetryInterval \in 0..RetryInterval /\ 0 \in Age(ServiceTimeout)
   BY Limits, Domains
<1> QED BY <1>1, <1>2 DEF ExecStates, SendAction

\* requestAction leaves the record alone, stops waiting, sends or fails.
LEMMA RequestCases ==
    ASSUME NEW e \in ExecStates, NEW kind \in ActionKinds, NEW exit \in {0, 2}, NEW id \in ActionIds
    PROVE \/ RequestAction(e, kind, exit, id) = e
          \/ RequestAction(e, kind, exit, id) = StopWaiting(e)
          \/ RequestAction(e, kind, exit, id) = Fail(e, 0)
          \/ RequestAction(e, kind, exit, id) = Fail(e, exit)
          \/ /\ e.attempts < MaxAttempts
             /\ RequestAction(e, kind, exit, id) = SendAction(e, kind, id)
<1>1. e.attempts \in Nat /\ MaxAttempts \in Nat BY Limits DEF ExecStates
<1> QED BY <1>1 DEF RequestAction, MayRequest

\* fail() ends in a state that satisfies the invariant.
LEMMA FailGood ==
    ASSUME NEW e, Good(e), NEW exit \in {0, 2}
    PROVE  Good(Fail(e, exit))
<1>1. Fail(e, exit) \in ExecStates BY FailType DEF Good
<1> QED BY <1>1 DEF Good, ExecStates, Fail, CancelAction, MatchesGrant, Revoked,
           RequestOfPhase, Referenced, Landing, LandingPhases, MotionPhases,
           ServicePhases

\* requestAction preserves the invariant in a phase that may request.
LEMMA RequestGood ==
    ASSUME NEW e, Good(e), e.phase \in ServicePhases, NEW kind \in ActionKinds,
           NEW exit \in {0, 2}, NEW id \in ActionIds
    PROVE  Good(RequestAction(e, kind, exit, id))
<1>1. Good(StopWaiting(e))
  BY DEF Good, ExecStates, StopWaiting, MatchesGrant, Revoked, RequestOfPhase,
         Referenced, Landing
<1>2. ASSUME e.attempts < MaxAttempts PROVE Good(SendAction(e, kind, id))
  <2>1. SendAction(e, kind, id) \in ExecStates BY <1>2, SendType DEF Good
  <2>2. id # 0 BY ExecutorAssumption
  <2> QED BY <2>1, <2>2 DEF Good, ExecStates, SendAction, MatchesGrant, Revoked,
             RequestOfPhase, Referenced, Landing
<1>3. Good(Fail(e, 0)) /\ Good(Fail(e, exit)) BY FailGood
<1> QED BY <1>1, <1>2, <1>3, RequestCases DEF Good

\* hold() keeps the type of the executor record.
LEMMA HoldType ==
    ASSUME NEW e \in ExecStates, NEW p \in {"IDLE_GROUND", "PAUSED", "HOLDING"}
    PROVE  Hold(e, p) \in ExecStates
BY Domains, Limits DEF ExecStates, Hold, CancelAction

\* hold() ends in a state that satisfies the invariant.
LEMMA HoldGood ==
    ASSUME NEW e, Good(e), NEW p \in {"PAUSED", "HOLDING"},
           p = "HOLDING" => e.phase = "TAKEOFF"
    PROVE  Good(Hold(e, p))
<1>1. Hold(e, p) \in ExecStates BY HoldType DEF Good
<1> QED BY <1>1 DEF Good, ExecStates, Hold, CancelAction, MatchesGrant, Revoked,
           RequestOfPhase, Referenced, Landing, LandingPhases, MotionPhases,
           ServicePhases

\* hold(), with the phase the armed flag selects, ends in a state that satisfies
\* the invariant.
LEMMA SettleGood ==
    ASSUME NEW e, Granted(e), NEW s \in SensorStates
    PROVE  Good(Settle(e, s))
<1> DEFINE p == IF s.armed THEN "PAUSED" ELSE "IDLE_GROUND"
<1>1. Hold(e, p) \in ExecStates BY HoldType DEF Granted
<1>2. s.armed \in BOOLEAN BY DEF SensorStates
<1>3. Settle(e, s) \in ExecStates BY <1>1, <1>2 DEF ExecStates, Settle
<1> QED BY <1>1, <1>2, <1>3 DEF Good, Granted, ExecStates, Settle, Hold, CancelAction,
           MatchesGrant, Revoked, RequestOfPhase, Referenced, Landing,
           LandingPhases, MotionPhases, ServicePhases

\* actionPhase() keeps the type of the executor record.
LEMMA ActionPhaseType ==
    ASSUME NEW e \in ExecStates, NEW p \in ServicePhases
    PROVE  ActionPhase(e, p) \in ExecStates
<1>1. p \in ExecPhases BY Domains DEF ServicePhases
<1>2. 0 \in Age(PhaseLimit) /\ 0 \in 0..RetryInterval /\ 0 \in 0..MaxAttempts
  BY Domains, Limits
<1> QED BY <1>1, <1>2 DEF ExecStates, ActionPhase, CancelAction

-----------------------------------------------------------------------------
(* The stages of a tick. *)

\* The prestream bookkeeping of tick preserves the invariant.
LEMMA PrestreamGood ==
    ASSUME NEW e, Good(e), NEW s \in SensorStates
    PROVE  Good(Prestream(e, s))
<1> DEFINE counting == [e EXCEPT !.prestream = IF @ = None THEN 0 ELSE @,
                                 !.target = Here]
           reset == [e EXCEPT !.prestream = None]
<1>1. 0 \in Age(PrestreamDuration) /\ None \in Age(PrestreamDuration)
  BY Domains, Limits
<1>2. counting \in ExecStates /\ counting.phase = e.phase
  BY <1>1, Domains DEF Good, ExecStates
<1>3. ASSUME e.phase = "IDLE_GROUND" PROVE Good(counting)
  BY <1>2, <1>3 DEF Good, ExecStates, MatchesGrant, Revoked, RequestOfPhase,
     Referenced, Landing
<1>4. Good(reset)
  BY <1>1 DEF Good, ExecStates, MatchesGrant, Revoked, RequestOfPhase,
     Referenced, Landing
<1> HIDE DEF counting, reset
<1>5. \/ Prestream(e, s) = e \/ Prestream(e, s) = reset
      \/ e.phase = "IDLE_GROUND" /\ Prestream(e, s) = counting
  BY DEF Prestream, counting, reset
<1> QED BY <1>3, <1>4, <1>5

\* Adopting an admissible new command preserves the invariant.
LEMMA AdoptGood ==
    ASSUME NEW e, Good(e), NEW s \in SensorStates, NEW i \in IntentStates,
           i.id > e.accepted.id, i.id > e.blocked, ~Landing(e),
           Admissible(e, s, i)
    PROVE  Good(Adopt(e, s, i))
<1> DEFINE a == [CancelAction(e) EXCEPT !.accepted = i, !.lost = FALSE]
<1>1. a \in ExecStates /\ i.id \in Nat /\ e.accepted.id \in Nat /\ e.blocked \in Nat
  BY DEF Good, ExecStates, IntentStates, CancelAction
<1>2. a.accepted = i /\ a.lost = FALSE /\ a.blocked = e.blocked
      /\ a.phase = e.phase /\ ~a.pending /\ ~a.waiting /\ a.actionId = 0
      /\ a.originValid = e.originValid /\ a.takeoffPending = e.takeoffPending
  BY DEF Good, ExecStates, CancelAction
<1>3. Granted(a) BY <1>1, <1>2 DEF Granted
<1>4. CASE i.kind = "TAKEOFF"
  <2> DEFINE r == [a EXCEPT !.takeoffPending = TRUE]
  <2>1. e.phase = "IDLE_GROUND" BY <1>4 DEF Admissible
  <2>2. r \in ExecStates BY <1>1 DEF ExecStates
  <2>3. Good(r)
    BY <1>1, <1>2, <1>4, <2>1, <2>2 DEF Good, ExecStates, MatchesGrant, Revoked,
       RequestOfPhase, Referenced, Landing, LandingPhases, MotionPhases
  <2> QED BY <1>4, <2>3 DEF Adopt
<1>5. CASE i.kind = "TRACK"
  <2> DEFINE r == [a EXCEPT !.takeoffPending = FALSE, !.phase = "GUIDING",
                            !.target = i.target]
  <2>1. e.originValid BY <1>5 DEF Admissible
  <2>2. r \in ExecStates BY <1>1, Domains DEF ExecStates, IntentStates
  <2>3. r.phase = "GUIDING" /\ r.takeoffPending = FALSE /\ r.target = i.target
        /\ r.accepted = i /\ r.lost = FALSE /\ r.blocked = e.blocked
        /\ ~r.pending /\ ~r.waiting /\ r.actionId = 0 /\ r.originValid
    <3> HIDE DEF a
    <3> QED BY <1>1, <1>2, <2>1 DEF ExecStates
  <2> HIDE DEF r
  <2>4. Good(r)
    BY <1>1, <1>5, <2>2, <2>3 DEF Good, MatchesGrant, Revoked,
       RequestOfPhase, Referenced, Landing, LandingPhases
  <2> QED BY <1>5, <2>4 DEF Adopt, r
<1>6. CASE i.kind = "LAND"
  <2> DEFINE b == [a EXCEPT !.takeoffPending = FALSE, !.target = Here,
                            !.ground = None]
  <2>1. b \in ExecStates BY <1>1, Domains, Limits DEF ExecStates
  <2>2. b.accepted = i /\ b.lost = FALSE /\ b.blocked = e.blocked
        /\ b.takeoffPending = FALSE /\ b.originValid = e.originValid
    BY <1>1, <1>2 DEF ExecStates
  <2> HIDE DEF b
  <2>3. ActionPhase(b, "LAND_REQUEST") \in ExecStates
    BY <2>1, ActionPhaseType DEF ServicePhases
  <2>4. Good(ActionPhase(b, "LAND_REQUEST"))
    BY <1>1, <1>6, <2>1, <2>2, <2>3 DEF Good, ExecStates, ActionPhase, CancelAction,
       MatchesGrant, Revoked, RequestOfPhase, Referenced, Landing, LandingPhases,
       MotionPhases, ServicePhases
  <2> QED BY <1>6, <2>4 DEF Adopt, b
<1>7. CASE i.kind \notin {"TAKEOFF", "TRACK", "LAND"}
  <2> HIDE DEF a
  <2>1. Good(Settle(a, s)) BY <1>3, SettleGood
  <2> QED BY <1>7, <2>1 DEF Adopt, a
<1> QED BY <1>4, <1>5, <1>6, <1>7

\* Reading the incoming intent, whatever it is, preserves the invariant.
LEMMA ConsiderGood ==
    ASSUME NEW e, Good(e), NEW s \in SensorStates, NEW i \in IntentStates
    PROVE  Good(Consider(e, s, i))
<1> DEFINE renewed == [e EXCEPT !.accepted.age = i.age]
<1>1. renewed \in ExecStates
  BY DEF Good, ExecStates, IntentStates
<1>2. /\ renewed.accepted.kind = e.accepted.kind
      /\ renewed.accepted.id = e.accepted.id
      /\ renewed.accepted.target = e.accepted.target
  BY DEF Good, ExecStates, IntentStates
<1>3. Good(renewed)
  BY <1>1, <1>2 DEF Good, ExecStates, MatchesGrant, Revoked, RequestOfPhase,
     Referenced, Landing
<1>4. ASSUME Current(e, i), i.id > e.accepted.id, ~Landing(e), Admissible(e, s, i)
      PROVE  Good(Adopt(e, s, i))
  BY <1>4, AdoptGood DEF Current
<1> HIDE DEF renewed
<1>5. \/ Consider(e, s, i) = e \/ Consider(e, s, i) = renewed
      \/ /\ Current(e, i) /\ i.id > e.accepted.id /\ ~Landing(e)
         /\ Admissible(e, s, i) /\ Consider(e, s, i) = Adopt(e, s, i)
  BY DEF Consider, renewed
<1> QED BY <1>3, <1>4, <1>5

\* The expiry of the lease preserves the invariant.
LEMMA RevokeGood ==
    ASSUME NEW e, Good(e), NEW s \in SensorStates
    PROVE  Good(RevokeLease(e, s))
<1> DEFINE r == [e EXCEPT !.lost = TRUE, !.blocked = e.accepted.id]
<1>1. r \in ExecStates BY DEF Good, ExecStates, IntentStates
<1>2. Granted(r) BY <1>1 DEF Good, Granted, ExecStates, MatchesGrant
<1> HIDE DEF r
<1>3. Good(Settle(r, s)) BY <1>2, SettleGood
<1> QED BY <1>3 DEF RevokeLease, r

\* The late-arm hover and the fault cut-off preserve the invariant.
LEMMA SafetyGood ==
    ASSUME NEW e, Good(e), NEW s \in SensorStates
    PROVE  Good(CatchLateArm(e, s)) /\ Good(CutOnFault(e, s))
BY HoldGood, FailGood DEF CatchLateArm, CutOnFault

\* Locking the takeoff point and asking for OFFBOARD preserves the invariant.
LEMMA BeginTakeoffGood ==
    ASSUME NEW e, Good(e), NEW s \in SensorStates
    PROVE  Good(BeginTakeoff(e, s))
<1> DEFINE a == ActionPhase(e, "OFFBOARD_REQUEST")
           r == [a EXCEPT !.originValid = TRUE,
                          !.originGeneration = e.accepted.generation,
                          !.target = Here, !.takeoffPending = FALSE]
<1>1. a \in ExecStates BY ActionPhaseType DEF Good, ServicePhases
<1>2. e.accepted.generation \in Nat BY DEF Good, ExecStates, IntentStates
<1>3. r \in ExecStates BY <1>1, <1>2, Domains DEF ExecStates
<1>4. ASSUME e.phase = "IDLE_GROUND", e.takeoffPending PROVE Good(r)
  BY <1>3, <1>4 DEF Good, ExecStates, ActionPhase, CancelAction, MatchesGrant,
     Revoked, RequestOfPhase, Referenced, Landing, LandingPhases, MotionPhases,
     ServicePhases
<1> QED BY <1>4 DEF BeginTakeoff

\* The OFFBOARD_REQUEST stage preserves the invariant.
LEMMA TakeOverGood ==
    ASSUME NEW e, Good(e), NEW s \in SensorStates, NEW id \in ActionIds
    PROVE  Good(TakeOver(e, s, id))
<1>1. ASSUME e.phase = "OFFBOARD_REQUEST" PROVE Good(ActionPhase(e, "ARMING"))
  <2>1. ActionPhase(e, "ARMING") \in ExecStates
    BY ActionPhaseType DEF Good, ServicePhases
  <2> QED BY <1>1, <2>1 DEF Good, ExecStates, ActionPhase, CancelAction,
             MatchesGrant, Revoked, RequestOfPhase, Referenced, Landing,
             LandingPhases, MotionPhases, ServicePhases
<1>2. ASSUME e.phase = "OFFBOARD_REQUEST"
      PROVE  Good(RequestAction(e, "SET_OFFBOARD", 2, id))
  BY <1>2, RequestGood DEF ServicePhases, ActionKinds
<1> QED BY <1>1, <1>2 DEF TakeOver

\* The ARMING stage preserves the invariant.
LEMMA ArmGood ==
    ASSUME NEW e, Good(e), NEW s \in SensorStates, NEW id \in ActionIds
    PROVE  Good(Arm(e, s, id))
<1> DEFINE r == [CancelAction(e) EXCEPT !.phase = "TAKEOFF", !.since = 0,
                                        !.arrival = None, !.target = Climb]
<1>1. r \in ExecStates
  BY Domains, Limits DEF Good, ExecStates, CancelAction
<1>2. ASSUME e.phase = "ARMING" PROVE Good(r)
  BY <1>1, <1>2 DEF Good, ExecStates, CancelAction, MatchesGrant, Revoked,
     RequestOfPhase, Referenced, Landing, LandingPhases, MotionPhases
<1>3. ASSUME e.phase = "ARMING" PROVE Good(RequestAction(e, "ARM", 0, id))
  BY <1>3, RequestGood DEF ServicePhases, ActionKinds
<1>4. Good(Fail(e, 0)) BY FailGood
<1> HIDE DEF r
<1>5. \/ Arm(e, s, id) = e \/ Arm(e, s, id) = Fail(e, 0)
      \/ e.phase = "ARMING" /\ Arm(e, s, id) = r
      \/ e.phase = "ARMING" /\ Arm(e, s, id) = RequestAction(e, "ARM", 0, id)
  BY DEF Arm, r
<1> QED BY <1>2, <1>3, <1>4, <1>5

\* The TAKEOFF stage preserves the invariant.
LEMMA ClimbingGood ==
    ASSUME NEW e, Good(e), NEW s \in SensorStates
    PROVE  Good(Climbing(e, s))
<1>1. ASSUME NEW x \in {0, None} PROVE Good([e EXCEPT !.arrival = x])
  <2>1. x \in Age(ArrivalDwell) BY <1>1, Domains, Limits
  <2> QED BY <2>1 DEF Good, ExecStates, MatchesGrant, Revoked, RequestOfPhase,
             Referenced, Landing
<1>2. Good(Hold(e, "PAUSED")) BY HoldGood
<1>3. ASSUME e.phase = "TAKEOFF" PROVE Good(Hold(e, "HOLDING"))
  BY <1>3, HoldGood
<1>4. Good([e EXCEPT !.arrival = 0]) /\ Good([e EXCEPT !.arrival = None])
  BY <1>1
<1> DEFINE out == [e EXCEPT !.arrival = None]
           in == [e EXCEPT !.arrival = 0]
<1> HIDE DEF out, in
<1>5. Dwell(e, s) \in {out, in, Hold(e, "HOLDING"), e} BY DEF Dwell, out, in
<1>6. \/ Climbing(e, s) \in {Hold(e, "PAUSED"), e}
      \/ e.phase = "TAKEOFF" /\ Climbing(e, s) = Dwell(e, s)
  BY DEF Climbing
<1> QED BY <1>2, <1>3, <1>4, <1>5, <1>6 DEF out, in

\* The LANDING stage preserves the invariant.
LEMMA DescendGood ==
    ASSUME NEW e, Good(e), e.phase = "LANDING", NEW s \in SensorStates,
           NEW id \in ActionIds
    PROVE  Good(Descend(e, s, id))
<1> DEFINE w == ActionPhase(e, "WAIT_DISARM")
<1>1. ASSUME NEW x \in {0, None} PROVE Good([e EXCEPT !.ground = x])
  <2>1. x \in Age(GroundDisarmDelay) BY <1>1, Domains, Limits
  <2> QED BY <2>1 DEF Good, ExecStates, MatchesGrant, Revoked, RequestOfPhase,
             Referenced, Landing
<1>2. Good([e EXCEPT !.ground = 0]) /\ Good([e EXCEPT !.ground = None]) BY <1>1
<1>3. w \in ExecStates /\ w.phase = "WAIT_DISARM"
  BY ActionPhaseType DEF Good, ServicePhases, ExecStates, ActionPhase, CancelAction
<1>4. Good(w)
  BY <1>3 DEF Good, ExecStates, ActionPhase, CancelAction, MatchesGrant, Revoked,
     RequestOfPhase, Referenced, Landing, LandingPhases, MotionPhases
<1> HIDE DEF w
<1>5. Good(RequestAction(w, "DISARM", 0, id))
  BY <1>3, <1>4, RequestGood DEF ServicePhases, ActionKinds
<1>6. Good(Fail(e, 0)) BY FailGood
<1> DEFINE bounced == [e EXCEPT !.ground = None]
           touched == [e EXCEPT !.ground = 0]
<1> HIDE DEF bounced, touched
<1>7. Descend(e, s, id) \in
        {e, Fail(e, 0), bounced, touched, RequestAction(w, "DISARM", 0, id)}
  BY DEF Descend, w, bounced, touched
<1> QED BY <1>2, <1>5, <1>6, <1>7 DEF bounced, touched

\* All landing stages preserve the invariant.
LEMMA LandingStepGood ==
    ASSUME NEW e, Good(e), NEW s \in SensorStates, NEW id \in ActionIds
    PROVE  Good(LandingStep(e, s, id))
<1> DEFINE confirmed == [CancelAction(e) EXCEPT !.phase = "LANDING", !.since = 0,
                                                !.ground = None]
<1>1. Good(Fail(e, 0)) BY FailGood
<1>2. CASE e.phase = "LAND_REQUEST"
  <2>1. confirmed \in ExecStates
    BY Domains, Limits DEF Good, ExecStates, CancelAction
  <2>2. Good(confirmed)
    BY <1>2, <2>1 DEF Good, ExecStates, CancelAction, MatchesGrant, Revoked,
       RequestOfPhase, Referenced, Landing, LandingPhases, MotionPhases
  <2>3. Good(RequestAction(e, "SET_LAND", 0, id))
    BY <1>2, RequestGood DEF ServicePhases, ActionKinds
  <2> HIDE DEF confirmed
  <2>4. RequestLanding(e, s, id) \in
            {Fail(e, 0), confirmed, RequestAction(e, "SET_LAND", 0, id)}
    BY DEF RequestLanding, confirmed
  <2> QED BY <1>1, <1>2, <2>2, <2>3, <2>4 DEF LandingStep
<1>3. CASE e.phase \in {"LANDING", "WAIT_DISARM"}
  <2>1. Good(Touchdown(e))
    <3>1. Touchdown(e) \in ExecStates
      BY Domains, Limits DEF Good, ExecStates, CancelAction, Touchdown
    <3> QED BY <1>3, <3>1 DEF Good, ExecStates, Touchdown, CancelAction,
               MatchesGrant, Revoked, RequestOfPhase, Referenced, Landing,
               LandingPhases, MotionPhases
  <2>2. CASE e.phase = "WAIT_DISARM"
    <3>1. Good(RequestAction(e, "DISARM", 0, id))
      BY <2>2, RequestGood DEF ServicePhases, ActionKinds
    <3>2. LandingStep(e, s, id) \in
            {Fail(e, 0), Touchdown(e), RequestAction(e, "DISARM", 0, id)}
      BY <2>2 DEF LandingStep, AwaitDisarm
    <3> QED BY <1>1, <2>1, <3>1, <3>2
  <2>3. CASE e.phase = "LANDING"
    <3>1. Good(Descend(e, s, id)) BY <2>3, <1>1, DescendGood
    <3>2. LandingStep(e, s, id) \in {Fail(e, 0), Touchdown(e), Descend(e, s, id)}
      BY <2>3 DEF LandingStep
    <3> QED BY <1>1, <2>1, <3>1, <3>2
  <2> QED BY <1>3, <2>2, <2>3
<1>4. CASE e.phase \notin LandingPhases BY <1>4 DEF LandingStep, LandingPhases
<1> QED BY <1>2, <1>3, <1>4 DEF LandingPhases

\* A whole tick, with any sensors and any intent, preserves the invariant.
LEMMA TickGood ==
    ASSUME NEW e, Good(e), NEW s \in SensorStates, NEW i \in IntentStates,
           NEW id \in ActionIds
    PROVE  Good(TickOf(e, s, i, id))
<1> DEFINE fresh == [e EXCEPT !.action = "NONE", !.ticked = TRUE]
<1>0. fresh \in ExecStates BY DEF Good, ExecStates
<1>1. Good(fresh)
  BY <1>0 DEF Good, ExecStates, MatchesGrant, Revoked, RequestOfPhase,
     Referenced, Landing
<1> HIDE DEF fresh
<1>2. Good(AuthorityStage(e, s, i))
  BY <1>1, PrestreamGood, ConsiderGood, RevokeGood DEF AuthorityStage, fresh
<1>3. Good(SafetyStage(AuthorityStage(e, s, i), s))
  BY <1>2, SafetyGood, BeginTakeoffGood DEF SafetyStage
<1> QED BY <1>3, TakeOverGood, ArmGood, ClimbingGood, LandingStepGood
        DEF TickOf, FlightStage

\* A service answer, in time, late or mismatched, preserves the invariant.
LEMMA AnswerGood ==
    ASSUME NEW e, Good(e), NEW id, NEW ok \in BOOLEAN
    PROVE  Good(AnswerOf(e, id, ok))
<1> DEFINE r == [e EXCEPT !.pending = FALSE, !.actionId = 0, !.waiting = ok,
                          !.feedbackLeft = FeedbackTimeout]
<1>0. FeedbackTimeout \in 0..FeedbackTimeout BY Limits
<1>1. r \in ExecStates BY <1>0 DEF Good, ExecStates
<1>2. ASSUME e.pending PROVE Good(r)
  BY <1>1, <1>2 DEF Good, ExecStates, MatchesGrant, Revoked, RequestOfPhase,
     Referenced, Landing
<1>3. Good(Fail(e, 0)) BY FailGood
<1> HIDE DEF r
<1>4. CASE ~e.pending \/ id # e.actionId BY <1>4 DEF AnswerOf
<1>5. CASE e.pending /\ id = e.actionId
  <2>1. AnswerOf(e, id, ok) \in {Fail(e, 0), r} BY <1>5 DEF AnswerOf, r
  <2> QED BY <1>2, <1>3, <1>5, <2>1
<1> QED BY <1>4, <1>5

\* The passing of time preserves the invariant.
LEMMA ElapsedGood ==
    ASSUME NEW e, Good(e)
    PROVE  Good(ElapsedExec(e))
<1>1. \A limit \in Nat : \A age \in Age(limit) : Older(age, limit) \in Age(limit)
  BY DEF Age, Older, None
<1>2. \A limit \in Nat : \A left \in 0..limit : Closer(left) \in 0..limit
  BY DEF Closer
<1>3. /\ Older(e.accepted.age, TaskTimeout) \in Age(TaskTimeout)
      /\ Older(e.prestream, PrestreamDuration) \in Age(PrestreamDuration)
      /\ Older(e.since, PhaseLimit) \in Age(PhaseLimit)
      /\ Older(e.arrival, ArrivalDwell) \in Age(ArrivalDwell)
      /\ Older(e.ground, GroundDisarmDelay) \in Age(GroundDisarmDelay)
      /\ Older(e.actionAge, ServiceTimeout) \in Age(ServiceTimeout)
      /\ Closer(e.feedbackLeft) \in 0..FeedbackTimeout
      /\ Closer(e.retryLeft) \in 0..RetryInterval
  BY <1>1, <1>2, Limits DEF Good, ExecStates, IntentStates
<1>4. ElapsedExec(e) \in ExecStates
  BY <1>3 DEF Good, ExecStates, IntentStates, ElapsedExec
<1>5. /\ ElapsedExec(e).accepted.kind = e.accepted.kind
      /\ ElapsedExec(e).accepted.id = e.accepted.id
      /\ ElapsedExec(e).accepted.target = e.accepted.target
      /\ ElapsedExec(e).phase = e.phase /\ ElapsedExec(e).lost = e.lost
      /\ ElapsedExec(e).blocked = e.blocked /\ ElapsedExec(e).target = e.target
      /\ ElapsedExec(e).takeoffPending = e.takeoffPending
      /\ ElapsedExec(e).pending = e.pending /\ ElapsedExec(e).waiting = e.waiting
      /\ ElapsedExec(e).actionId = e.actionId
      /\ ElapsedExec(e).originValid = e.originValid
  BY DEF Good, ExecStates, IntentStates, ElapsedExec
<1> QED BY <1>4, <1>5 DEF Good, MatchesGrant, Revoked, RequestOfPhase, Referenced,
           Landing

\* A new executor satisfies the invariant.
LEMMA InitialGood == Good(InitialExec)
<1>1. /\ 0 \in 0..MaxAttempts /\ 0 \in 0..FeedbackTimeout /\ 0 \in 0..RetryInterval
      /\ NoIntent \in IntentStates /\ Zero \in Poses
  BY Limits, Domains DEF NoIntent, IntentStates, IntentKinds, Poses
<1>2. InitialExec \in ExecStates
  BY <1>1, Limits, Domains DEF InitialExec, ExecStates
<1> QED BY <1>2 DEF Good, InitialExec, NoIntent, MatchesGrant, Revoked, RequestOfPhase,
           Referenced, Landing, LandingPhases, MotionPhases

-----------------------------------------------------------------------------
(* Motion under a lease: from the stage that revokes it on, every stage of a *)
(* tick keeps the lease and enters a moving phase only from one.             *)

\* The stage that revokes the lease leaves none of its motion behind.
LEMMA RevokeLeased ==
    ASSUME NEW e, Good(e), NEW s \in SensorStates
    PROVE  Leased(RevokeLease(e, s))
<1> DEFINE r == [e EXCEPT !.lost = TRUE, !.blocked = e.accepted.id]
<1>1. r \in ExecStates BY DEF Good, ExecStates, IntentStates
<1>2. Settle(r, s).phase \in {"PAUSED", "IDLE_GROUND"}
  BY <1>1 DEF Settle, Hold, CancelAction, ExecStates
<1>3. CASE LeaseExpired(e)
  BY <1>2, <1>3 DEF RevokeLease, Leased, MotionPhases
<1>4. CASE ~LeaseExpired(e)
  BY <1>4 DEF RevokeLease, LeaseExpired, Leased, Good, MatchesGrant, Revoked,
     MotionPhases, LandingPhases, Landing, ExecStates, IntentStates
<1> QED BY <1>3, <1>4

\* requestAction keeps the lease.
LEMMA RequestLeased ==
    ASSUME NEW e \in ExecStates, Leased(e), NEW kind \in ActionKinds,
           NEW exit \in {0, 2}, NEW id \in ActionIds
    PROVE  Leased(RequestAction(e, kind, exit, id))
<1>1. Leased(StopWaiting(e)) BY DEF Leased, StopWaiting, ExecStates
<1>2. Leased(SendAction(e, kind, id)) BY DEF Leased, SendAction, ExecStates
<1>3. \A x : Leased(Fail(e, x))
  BY DEF Leased, Fail, CancelAction, ExecStates, MotionPhases
<1> QED BY <1>1, <1>2, <1>3, RequestCases

\* The safety stages keep the lease, and a takeoff begins under one.
LEMMA SafetyLeased ==
    ASSUME NEW e, Good(e), Leased(e), NEW s \in SensorStates
    PROVE  Leased(SafetyStage(e, s))
<1>1. Leased(Hold(e, "PAUSED"))
  BY DEF Good, Leased, Hold, CancelAction, ExecStates, MotionPhases
<1> DEFINE c == CatchLateArm(e, s)
           d == CutOnFault(c, s)
<1>2. Good(c) /\ Leased(c) BY <1>1, SafetyGood DEF CatchLateArm
<1> HIDE DEF c
<1>3. Leased(Fail(c, 0))
  BY <1>2 DEF Good, Leased, Fail, CancelAction, ExecStates, MotionPhases
<1>4. Good(d) /\ Leased(d) BY <1>2, <1>3, SafetyGood DEF CutOnFault
<1> HIDE DEF d
<1> DEFINE r == [ActionPhase(d, "OFFBOARD_REQUEST")
                    EXCEPT !.originValid = TRUE,
                           !.originGeneration = d.accepted.generation,
                           !.target = Here, !.takeoffPending = FALSE]
<1>5. r.accepted = d.accepted /\ r.lost = d.lost
  BY <1>4 DEF Good, ActionPhase, CancelAction, ExecStates
<1>6. ASSUME d.takeoffPending, Fresh(d.accepted) PROVE Leased(r)
  BY <1>4, <1>5, <1>6 DEF Good, Revoked, Leased
<1> HIDE DEF r
<1>7. \/ BeginTakeoff(d, s) = d
      \/ d.takeoffPending /\ Fresh(d.accepted) /\ BeginTakeoff(d, s) = r
  BY DEF BeginTakeoff, r
<1> QED BY <1>4, <1>6, <1>7 DEF SafetyStage, c, d

\* The OFFBOARD_REQUEST stage keeps the lease.
LEMMA TakeOverLeased ==
    ASSUME NEW e, Good(e), Leased(e), NEW s \in SensorStates, NEW id \in ActionIds
    PROVE  Leased(TakeOver(e, s, id))
<1>1. ASSUME e.phase = "OFFBOARD_REQUEST" PROVE Leased(ActionPhase(e, "ARMING"))
  BY <1>1 DEF Good, Leased, ActionPhase, CancelAction, ExecStates, MotionPhases
<1>2. Leased(RequestAction(e, "SET_OFFBOARD", 2, id))
  BY RequestLeased DEF Good, ActionKinds
<1> QED BY <1>1, <1>2 DEF TakeOver

\* The ARMING stage keeps the lease.
LEMMA ArmLeased ==
    ASSUME NEW e, Good(e), Leased(e), NEW s \in SensorStates, NEW id \in ActionIds
    PROVE  Leased(Arm(e, s, id))
<1> DEFINE r == [CancelAction(e) EXCEPT !.phase = "TAKEOFF", !.since = 0,
                                        !.arrival = None, !.target = Climb]
<1>1. ASSUME e.phase = "ARMING" PROVE Leased(r)
  BY <1>1 DEF Good, Leased, CancelAction, ExecStates, MotionPhases
<1>2. Leased(RequestAction(e, "ARM", 0, id))
  BY RequestLeased DEF Good, ActionKinds
<1>3. Leased(Fail(e, 0))
  BY DEF Good, Leased, Fail, CancelAction, ExecStates, MotionPhases
<1> HIDE DEF r
<1>4. \/ Arm(e, s, id) \in {e, Fail(e, 0), RequestAction(e, "ARM", 0, id)}
      \/ e.phase = "ARMING" /\ Arm(e, s, id) = r
  BY DEF Arm, r
<1> QED BY <1>1, <1>2, <1>3, <1>4

\* The TAKEOFF stage keeps the lease.
LEMMA ClimbingLeased ==
    ASSUME NEW e, Good(e), Leased(e), NEW s \in SensorStates
    PROVE  Leased(Climbing(e, s))
<1> DEFINE out == [e EXCEPT !.arrival = None]
           in == [e EXCEPT !.arrival = 0]
<1>1. Leased(out) /\ Leased(in) BY DEF Good, Leased, ExecStates
<1>2. \A p \in {"PAUSED", "HOLDING"} : Leased(Hold(e, p))
  BY DEF Good, Leased, Hold, CancelAction, ExecStates, MotionPhases
<1> HIDE DEF out, in
<1>3. Dwell(e, s) \in {out, in, Hold(e, "HOLDING"), e} BY DEF Dwell, out, in
<1>4. Climbing(e, s) \in {Hold(e, "PAUSED"), e, Dwell(e, s)} BY DEF Climbing
<1> QED BY <1>1, <1>2, <1>3, <1>4

\* The landing stages keep the lease.
LEMMA LandingStepLeased ==
    ASSUME NEW e, Good(e), Leased(e), NEW s \in SensorStates, NEW id \in ActionIds
    PROVE  Leased(LandingStep(e, s, id))
<1>0. e \in ExecStates BY DEF Good
<1> DEFINE confirmed == [CancelAction(e) EXCEPT !.phase = "LANDING", !.since = 0,
                                                !.ground = None]
           w == ActionPhase(e, "WAIT_DISARM")
           bounced == [e EXCEPT !.ground = None]
           touched == [e EXCEPT !.ground = 0]
<1>1. /\ Leased(Fail(e, 0)) /\ Leased(Touchdown(e)) /\ Leased(confirmed)
      /\ Leased(w) /\ Leased(bounced) /\ Leased(touched)
  BY <1>0 DEF Leased, Fail, Touchdown, ActionPhase, CancelAction, ExecStates,
     MotionPhases
<1>2. w \in ExecStates BY <1>0, ActionPhaseType DEF ServicePhases
<1> HIDE DEF confirmed, w, bounced, touched
<1>3. /\ Leased(RequestAction(e, "SET_LAND", 0, id))
      /\ Leased(RequestAction(e, "DISARM", 0, id))
      /\ Leased(RequestAction(w, "DISARM", 0, id))
  BY <1>0, <1>1, <1>2, RequestLeased DEF ActionKinds
<1>4. RequestLanding(e, s, id) \in
        {Fail(e, 0), confirmed, RequestAction(e, "SET_LAND", 0, id)}
  BY DEF RequestLanding, confirmed
<1>5. Descend(e, s, id) \in
        {e, Fail(e, 0), bounced, touched, RequestAction(w, "DISARM", 0, id)}
  BY DEF Descend, w, bounced, touched
<1>6. LandingStep(e, s, id) \in
        {e, RequestLanding(e, s, id), Descend(e, s, id), Fail(e, 0),
         Touchdown(e), RequestAction(e, "DISARM", 0, id)}
  BY DEF LandingStep, AwaitDisarm
<1> QED BY <1>1, <1>3, <1>4, <1>5, <1>6

\* No tick ends in motion without a lease.
LEMMA TickLeased ==
    ASSUME NEW e, Good(e), NEW s \in SensorStates, NEW i \in IntentStates,
           NEW id \in ActionIds
    PROVE  Leased(TickOf(e, s, i, id))
<1> DEFINE fresh == [e EXCEPT !.action = "NONE", !.ticked = TRUE]
           a == AuthorityStage(e, s, i)
           b == SafetyStage(a, s)
<1>0. fresh \in ExecStates BY DEF Good, ExecStates
<1>1. Good(fresh)
  BY <1>0 DEF Good, ExecStates, MatchesGrant, Revoked, RequestOfPhase,
     Referenced, Landing
<1> HIDE DEF fresh
<1>2. Good(a) /\ Leased(a)
  BY <1>1, PrestreamGood, ConsiderGood, RevokeGood, RevokeLeased
  DEF AuthorityStage, fresh
<1> HIDE DEF a
<1>3. Good(b) /\ Leased(b)
  BY <1>2, SafetyGood, BeginTakeoffGood, SafetyLeased DEF SafetyStage
<1> HIDE DEF b
<1>4. Good(TakeOver(b, s, id)) /\ Leased(TakeOver(b, s, id))
  BY <1>3, TakeOverGood, TakeOverLeased
<1>5. Good(Arm(TakeOver(b, s, id), s, id)) /\ Leased(Arm(TakeOver(b, s, id), s, id))
  BY <1>4, ArmGood, ArmLeased
<1> QED BY <1>5, ClimbingGood, ClimbingLeased, LandingStepLeased
        DEF TickOf, FlightStage, a, b

-----------------------------------------------------------------------------
(* One way commands.  A stage of a tick other than the one that reads the    *)
(* intent keeps the grant, and only the landing stages move a landing or     *)
(* an error on.                                                              *)

Keeps(e, f) == /\ f.accepted = e.accepted /\ f.blocked = e.blocked
               /\ Landing(e) \/ e.phase = "ERROR" => f.phase = e.phase

\* What a tick may do to the grant and the phase, as a whole and up to the
\* stage that reads the intent.
TickMayDo(e, f) == MonotoneGrant(e, f) /\ OneWay(e, f)
AuthorityMayDo(e, f) ==
    /\ MonotoneGrant(e, f)
    /\ e.phase = "ERROR" => f.phase \in {"ERROR", "LAND_REQUEST"}
    /\ Landing(e) => f.phase = e.phase /\ SameCommand(e, f.accepted)

\* What is accepted was accepted before, or is the intent that was passed.
Takes(e, i, f) == f.accepted.id = e.accepted.id \/ f.accepted = i

\* hold() keeps the grant, and whatever it is asked to do next.
LEMMA HoldKeeps ==
    ASSUME NEW e \in ExecStates, NEW p, NEW s \in SensorStates
    PROVE  /\ Hold(e, p).accepted = e.accepted /\ Hold(e, p).blocked = e.blocked
           /\ Settle(e, s).accepted = e.accepted /\ Settle(e, s).blocked = e.blocked
BY DEF Hold, Settle, CancelAction, ExecStates

\* fail() keeps the grant.
LEMMA FailKeeps ==
    ASSUME NEW e \in ExecStates, NEW exit
    PROVE  /\ Fail(e, exit).accepted = e.accepted /\ Fail(e, exit).blocked = e.blocked
           /\ Fail(e, exit).phase = "ERROR"
BY DEF Fail, CancelAction, ExecStates

\* requestAction keeps the grant, and the phase unless it fails.
LEMMA RequestKeeps ==
    ASSUME NEW e \in ExecStates, NEW kind \in ActionKinds, NEW exit \in {0, 2},
           NEW id \in ActionIds
    PROVE  LET r == RequestAction(e, kind, exit, id)
           IN  /\ r.accepted = e.accepted /\ r.blocked = e.blocked
               /\ r.phase \in {e.phase, "ERROR"}
<1>1. /\ StopWaiting(e).accepted = e.accepted /\ StopWaiting(e).blocked = e.blocked
      /\ StopWaiting(e).phase = e.phase
  BY DEF StopWaiting, ExecStates
<1>2. /\ SendAction(e, kind, id).accepted = e.accepted
      /\ SendAction(e, kind, id).blocked = e.blocked
      /\ SendAction(e, kind, id).phase = e.phase
  BY DEF SendAction, ExecStates
<1> QED BY <1>1, <1>2, RequestCases, FailKeeps

\* The stages between the lease and the flight keep the grant, and neither an
\* error nor a landing is theirs to end.
LEMMA SafetyKeeps ==
    ASSUME NEW e, Good(e), NEW s \in SensorStates
    PROVE  Keeps(e, SafetyStage(e, s))
<1> DEFINE c == CatchLateArm(e, s)
           d == CutOnFault(c, s)
           r == [ActionPhase(d, "OFFBOARD_REQUEST")
                    EXCEPT !.originValid = TRUE,
                           !.originGeneration = d.accepted.generation,
                           !.target = Here, !.takeoffPending = FALSE]
<1>1. Good(c) /\ Good(d) BY SafetyGood
<1>2. Keeps(e, c)
  BY HoldKeeps DEF Good, CatchLateArm, Keeps, Landing, LandingPhases
<1> HIDE DEF c
<1>3. Unsafe(c, s) => ~Landing(c)
  BY DEF Unsafe, Landing, LandingPhases, AirPhases
<1>4. Keeps(c, d)
  BY <1>1, <1>3, FailKeeps DEF Good, CutOnFault, Keeps, d
<1> HIDE DEF d
<1>5. r.accepted = d.accepted /\ r.blocked = d.blocked
  BY <1>1 DEF Good, ActionPhase, CancelAction, ExecStates
<1> HIDE DEF r
<1>6. \/ BeginTakeoff(d, s) = d
      \/ d.phase = "IDLE_GROUND" /\ BeginTakeoff(d, s) = r
  BY DEF BeginTakeoff, r
<1>7. Keeps(d, BeginTakeoff(d, s))
  BY <1>5, <1>6 DEF Keeps, Landing, LandingPhases
<1> QED BY <1>2, <1>4, <1>7 DEF Keeps, Landing, SafetyStage, c, d

\* The takeoff and climb stages keep the grant, and leave errors and landings
\* alone.
LEMMA FlightKeeps ==
    ASSUME NEW e, Good(e), NEW s \in SensorStates, NEW id \in ActionIds
    PROVE  Keeps(e, TakeOver(e, s, id)) /\ Keeps(e, Arm(e, s, id)) /\ Keeps(e, Climbing(e, s))
<1>0. e \in ExecStates BY DEF Good
<1> DEFINE arming == ActionPhase(e, "ARMING")
           flying == [CancelAction(e) EXCEPT !.phase = "TAKEOFF", !.since = 0,
                                             !.arrival = None, !.target = Climb]
           out == [e EXCEPT !.arrival = None]
           in == [e EXCEPT !.arrival = 0]
           SameGrant(f) == f.accepted = e.accepted /\ f.blocked = e.blocked
<1>1. SameGrant(arming) /\ SameGrant(flying) /\ SameGrant(out) /\ SameGrant(in)
  BY <1>0 DEF ActionPhase, CancelAction, ExecStates
<1>2. SameGrant(RequestAction(e, "SET_OFFBOARD", 2, id)) /\ SameGrant(RequestAction(e, "ARM", 0, id))
  BY <1>0, RequestKeeps DEF ActionKinds
<1>3. SameGrant(Fail(e, 0)) /\ SameGrant(Hold(e, "PAUSED")) /\ SameGrant(Hold(e, "HOLDING"))
  BY <1>0, FailKeeps, HoldKeeps DEF Hold, CancelAction, ExecStates
<1> HIDE DEF arming, flying, out, in
<1>4. /\ e.phase = "OFFBOARD_REQUEST" => SameGrant(TakeOver(e, s, id))
      /\ e.phase # "OFFBOARD_REQUEST" => TakeOver(e, s, id) = e
  BY <1>1, <1>2 DEF TakeOver, arming
<1>5. /\ e.phase = "ARMING" => SameGrant(Arm(e, s, id))
      /\ e.phase # "ARMING" => Arm(e, s, id) = e
  <2>1. CASE e.phase # "ARMING" BY <2>1 DEF Arm
  <2>2. CASE e.phase = "ARMING"
    <3>1. Arm(e, s, id) \in {Fail(e, 0), flying, RequestAction(e, "ARM", 0, id)}
      BY <2>2 DEF Arm, flying
    <3> QED BY <2>2, <3>1, <1>1, <1>2, <1>3
  <2> QED BY <2>1, <2>2
<1>6. Dwell(e, s) \in {out, in, Hold(e, "HOLDING"), e} BY DEF Dwell, out, in
<1>7. /\ Climbing(e, s) \in {Hold(e, "PAUSED"), e, Dwell(e, s)}
      /\ e.phase # "TAKEOFF" => Climbing(e, s) = e
  BY DEF Climbing
<1>8. SameGrant(Climbing(e, s)) BY <1>1, <1>3, <1>6, <1>7
<1> QED BY <1>4, <1>5, <1>7, <1>8 DEF Keeps, Landing, LandingPhases

\* A landing goes from the request to the descent to the disarm request, and
\* ends on the ground or in ERROR; every other phase is left alone.
LEMMA LandingStepKeeps ==
    ASSUME NEW e, Good(e), NEW s \in SensorStates, NEW id \in ActionIds
    PROVE  LET f == LandingStep(e, s, id)
           IN  /\ f.accepted = e.accepted /\ f.blocked = e.blocked
               /\ ~Landing(e) => f = e
               /\ e.phase = "LAND_REQUEST" =>
                    f.phase \in {"LAND_REQUEST", "LANDING", "ERROR"}
               /\ Landing(e) => f.phase \in LandingPhases \cup {"ERROR", "IDLE_GROUND"}
<1>0. e \in ExecStates BY DEF Good
<1> DEFINE confirmed == [CancelAction(e) EXCEPT !.phase = "LANDING", !.since = 0,
                                                !.ground = None]
           w == ActionPhase(e, "WAIT_DISARM")
           bounced == [e EXCEPT !.ground = None]
           touched == [e EXCEPT !.ground = 0]
           Ends(f) == /\ f.accepted = e.accepted /\ f.blocked = e.blocked
                      /\ f.phase \in LandingPhases \cup {"ERROR", "IDLE_GROUND"}
<1>1. CASE e.phase \notin LandingPhases
  BY <1>1 DEF LandingStep, Landing, LandingPhases
<1>2. CASE e.phase \in LandingPhases
  <2>1. /\ Ends(Touchdown(e)) /\ Ends(confirmed) /\ Ends(bounced) /\ Ends(touched)
        /\ confirmed.phase = "LANDING"
    BY <1>0, <1>2 DEF Touchdown, CancelAction, ExecStates, LandingPhases
  <2>2. Ends(w) /\ w \in ExecStates
    BY <1>0, ActionPhaseType DEF ActionPhase, CancelAction, ExecStates, LandingPhases,
       ServicePhases
  <2>3. Ends(Fail(e, 0)) /\ Ends(e) /\ Fail(e, 0).phase = "ERROR"
    BY <1>0, <1>2, FailKeeps
  <2> HIDE DEF confirmed, w, bounced, touched
  <2>4. /\ Ends(RequestAction(e, "SET_LAND", 0, id))
        /\ Ends(RequestAction(e, "DISARM", 0, id))
        /\ RequestAction(e, "SET_LAND", 0, id).phase \in {e.phase, "ERROR"}
    BY <1>0, <1>2, RequestKeeps DEF ActionKinds
  <2>5. Ends(RequestAction(w, "DISARM", 0, id))
    BY <2>2, RequestKeeps DEF ActionKinds
  <2>6. RequestLanding(e, s, id) \in
          {Fail(e, 0), confirmed, RequestAction(e, "SET_LAND", 0, id)}
    BY DEF RequestLanding, confirmed
  <2>7. Descend(e, s, id) \in
          {e, Fail(e, 0), bounced, touched, RequestAction(w, "DISARM", 0, id)}
    BY DEF Descend, w, bounced, touched
  <2>8. /\ LandingStep(e, s, id) \in
            {e, RequestLanding(e, s, id), Descend(e, s, id), Fail(e, 0),
             Touchdown(e), RequestAction(e, "DISARM", 0, id)}
        /\ e.phase = "LAND_REQUEST" => LandingStep(e, s, id) = RequestLanding(e, s, id)
    BY DEF LandingStep, AwaitDisarm
  <2>9. Ends(LandingStep(e, s, id))
    BY <2>1, <2>3, <2>4, <2>5, <2>6, <2>7, <2>8
  <2>10. e.phase = "LAND_REQUEST" =>
            LandingStep(e, s, id).phase \in {"LAND_REQUEST", "LANDING", "ERROR"}
    BY <2>1, <2>3, <2>4, <2>6, <2>8
  <2> QED BY <1>2, <2>9, <2>10 DEF Landing
<1> QED BY <1>1, <1>2

\* The intent is read in the authority stage alone: a larger identifier of the
\* same or a later generation replaces the grant, but never during a landing,
\* and out of ERROR only to land; an equal identifier changes nothing but the
\* age; an expired lease moves the watermark up to the grant.
LEMMA AuthorityKeeps ==
    ASSUME NEW e, Good(e), NEW s \in SensorStates, NEW i \in IntentStates
    PROVE  /\ AuthorityMayDo(e, AuthorityStage(e, s, i))
           /\ Takes(e, i, AuthorityStage(e, s, i))
<1> DEFINE fresh == [e EXCEPT !.action = "NONE", !.ticked = TRUE]
           p == Prestream(fresh, s)
           c == Consider(p, s, i)
           g == RevokeLease(c, s)
<1>0. fresh \in ExecStates /\ fresh.phase = e.phase /\ fresh.accepted = e.accepted
      /\ fresh.blocked = e.blocked
  BY DEF Good, ExecStates
<1>1. Good(fresh)
  BY <1>0 DEF Good, ExecStates, MatchesGrant, Revoked, RequestOfPhase,
     Referenced, Landing
<1> HIDE DEF fresh
<1>2. Good(p) BY <1>1, PrestreamGood
<1>3. p.phase = e.phase /\ p.accepted = e.accepted /\ p.blocked = e.blocked
  BY <1>0, <1>1 DEF Prestream, Good, ExecStates
<1> HIDE DEF p
<1>4. Good(c) BY <1>2, ConsiderGood
<1>5. /\ p.accepted \in IntentStates /\ p.blocked \in Nat /\ p \in ExecStates
      /\ c.accepted \in IntentStates /\ c.blocked \in Nat /\ c \in ExecStates
  BY <1>2, <1>4 DEF Good, ExecStates
<1>6. AuthorityMayDo(p, c) /\ Takes(p, i, c)
  <2> DEFINE renewed == [p EXCEPT !.accepted.age = i.age]
             a == [CancelAction(p) EXCEPT !.accepted = i, !.lost = FALSE]
  <2>1. /\ renewed.phase = p.phase /\ renewed.blocked = p.blocked
        /\ renewed.accepted = [p.accepted EXCEPT !.age = i.age]
    BY <1>5 DEF ExecStates
  <2>2. CASE c = p
    BY <1>5, <2>2 DEF AuthorityMayDo, MonotoneGrant, SameCommand, IntentStates, ExecStates, Takes
  <2>3. CASE c = renewed
    BY <1>5, <2>1, <2>3 DEF AuthorityMayDo, MonotoneGrant, SameCommand, IntentStates, Takes
  <2>4. CASE /\ Current(p, i) /\ i.id > p.accepted.id /\ ~Landing(p)
             /\ Admissible(p, s, i) /\ c = Adopt(p, s, i)
    <3>1. a \in ExecStates /\ a.accepted = i /\ a.blocked = p.blocked /\ a.phase = p.phase
      BY <1>5 DEF ExecStates, CancelAction
    <3>2. c.accepted = i /\ c.blocked = p.blocked
      <4>1. Settle(a, s).accepted = i /\ Settle(a, s).blocked = p.blocked
        BY <3>1, HoldKeeps
      <4>2. i.kind = "LAND" =>
                /\ Adopt(p, s, i).accepted = i /\ Adopt(p, s, i).blocked = p.blocked
        BY <1>5 DEF Adopt, ActionPhase, CancelAction, ExecStates
      <4>3. i.kind \in {"TAKEOFF", "TRACK"} =>
                /\ Adopt(p, s, i).accepted = i /\ Adopt(p, s, i).blocked = p.blocked
        BY <1>5 DEF Adopt, CancelAction, ExecStates
      <4>4. i.kind \notin {"TAKEOFF", "TRACK", "LAND"} => Adopt(p, s, i) = Settle(a, s)
        BY DEF Adopt
      <4> QED BY <2>4, <4>1, <4>2, <4>3, <4>4
    <3>3. p.phase = "ERROR" => i.kind = "LAND"
      BY <2>4 DEF Admissible
    <3>4. p.phase = "ERROR" => c.phase = "LAND_REQUEST"
      BY <1>5, <2>4, <3>3 DEF Adopt, ActionPhase, CancelAction, ExecStates
    <3> QED BY <1>5, <2>4, <3>2, <3>4
            DEF AuthorityMayDo, MonotoneGrant, Current, IntentStates, Takes
  <2> HIDE DEF renewed, a
  <2>5. \/ c = p \/ c = renewed
        \/ /\ Current(p, i) /\ i.id > p.accepted.id /\ ~Landing(p)
           /\ Admissible(p, s, i) /\ c = Adopt(p, s, i)
    BY DEF Consider, renewed, c
  <2> QED BY <2>2, <2>3, <2>4, <2>5
<1> HIDE DEF c
<1>7. AuthorityMayDo(c, g) /\ g.accepted = c.accepted
  <2> DEFINE r == [c EXCEPT !.lost = TRUE, !.blocked = c.accepted.id]
  <2>1. CASE ~LeaseExpired(c)
    BY <1>5, <2>1 DEF RevokeLease, AuthorityMayDo, MonotoneGrant, SameCommand, IntentStates
  <2>2. CASE LeaseExpired(c)
    <3>1. r \in ExecStates /\ r.accepted = c.accepted /\ r.blocked = c.accepted.id
      BY <1>5 DEF ExecStates, IntentStates
    <3> HIDE DEF r
    <3>2. g.accepted = c.accepted /\ g.blocked = c.accepted.id
      BY <2>2, <3>1, HoldKeeps DEF RevokeLease, r
    <3>3. c.accepted.id >= c.blocked
      BY <1>4, <1>5, <2>2 DEF Good, Revoked, LeaseExpired, IntentStates
    <3> QED BY <1>5, <2>2, <3>2, <3>3 DEF AuthorityMayDo, MonotoneGrant, SameCommand,
               LeaseExpired, IntentStates
  <2> QED BY <2>1, <2>2
<1>8. g.accepted \in IntentStates /\ g.blocked \in Nat
  BY <1>4, RevokeGood DEF Good, ExecStates
<1> HIDE DEF g
<1>9. AuthorityMayDo(p, g) /\ Takes(p, i, g)
  BY <1>5, <1>6, <1>7, <1>8 DEF AuthorityMayDo, MonotoneGrant, SameCommand, Landing,
     LandingPhases, IntentStates, Takes
<1> QED BY <1>3, <1>9 DEF AuthorityMayDo, MonotoneGrant, SameCommand, Landing, Takes,
           AuthorityStage, fresh, p, c, g

\* A whole tick, with any sensors and any intent, is one way, and accepts nothing
\* but that intent.
LEMMA TickOneWay ==
    ASSUME NEW e, Good(e), NEW s \in SensorStates, NEW i \in IntentStates,
           NEW id \in ActionIds
    PROVE  /\ TickMayDo(e, TickOf(e, s, i, id))
           /\ Takes(e, i, TickOf(e, s, i, id))
<1> DEFINE fresh == [e EXCEPT !.action = "NONE", !.ticked = TRUE]
           a == AuthorityStage(e, s, i)
           b == SafetyStage(a, s)
           o == TakeOver(b, s, id)
           r == Arm(o, s, id)
           c == Climbing(r, s)
           l == LandingStep(c, s, id)
<1>0. fresh \in ExecStates BY DEF Good, ExecStates
<1>1. Good(fresh)
  BY <1>0 DEF Good, ExecStates, MatchesGrant, Revoked, RequestOfPhase,
     Referenced, Landing
<1> HIDE DEF fresh
<1>2. Good(a) /\ AuthorityMayDo(e, a) /\ Takes(e, i, a)
  BY <1>1, PrestreamGood, ConsiderGood, RevokeGood, AuthorityKeeps
  DEF AuthorityStage, fresh
<1> HIDE DEF a
<1>3. Good(b) /\ Keeps(a, b)
  BY <1>2, SafetyGood, BeginTakeoffGood, SafetyKeeps DEF SafetyStage
<1> HIDE DEF b
<1>4. Good(o) /\ Keeps(b, o) BY <1>3, TakeOverGood, FlightKeeps
<1> HIDE DEF o
<1>5. Good(r) /\ Keeps(o, r) BY <1>4, ArmGood, FlightKeeps
<1> HIDE DEF r
<1>6. Good(c) /\ Keeps(r, c) BY <1>5, ClimbingGood, FlightKeeps
<1> HIDE DEF c
<1>7. Keeps(a, c) BY <1>3, <1>4, <1>5, <1>6 DEF Keeps, Landing
<1>8. /\ l.accepted = a.accepted /\ l.blocked = a.blocked
      /\ a.phase = "ERROR" => l.phase = "ERROR"
      /\ a.phase = "LAND_REQUEST" => l.phase \in {"LAND_REQUEST", "LANDING", "ERROR"}
      /\ Landing(a) => l.phase \in LandingPhases \cup {"ERROR", "IDLE_GROUND"}
  BY <1>6, <1>7, LandingStepKeeps DEF Keeps, Landing, LandingPhases
<1> HIDE DEF l
<1>9. TickMayDo(e, l) /\ Takes(e, i, l)
  BY <1>2, <1>8 DEF TickMayDo, AuthorityMayDo, MonotoneGrant, OneWay, SameCommand,
     Landing, LandingPhases, Takes
<1> QED BY <1>9 DEF TickOf, FlightStage, a, b, o, r, c, l

-----------------------------------------------------------------------------
(* The request that a tick returns.  *)

\* The request in flight after a stage was so before, or is the one to return.
Sends(e, f) ==
    f.pending => \/ f.action # "NONE"
                 \/ e.pending /\ f.actionId = e.actionId /\ f.action = e.action

\* hold(), fail() and actionPhase() leave none in flight.
LEMMA HoldSends ==
    ASSUME NEW e \in ExecStates, NEW s \in SensorStates, NEW exit, NEW p
    PROVE  /\ ~Hold(e, p).pending /\ ~Settle(e, s).pending /\ ~Fail(e, exit).pending
           /\ ~ActionPhase(e, p).pending
BY DEF Hold, Settle, Fail, ActionPhase, CancelAction, ExecStates

\* requestAction returns what it sends.
LEMMA RequestSends ==
    ASSUME NEW e \in ExecStates, NEW kind \in ActionKinds, NEW exit \in {0, 2},
           NEW id \in ActionIds
    PROVE  Sends(e, RequestAction(e, kind, exit, id))
<1>1. Sends(e, e) /\ Sends(e, StopWaiting(e)) /\ Sends(e, Fail(e, 0)) /\ Sends(e, Fail(e, exit))
  BY DEF Sends, StopWaiting, Fail, CancelAction, ExecStates
<1>2. SendAction(e, kind, id).action = kind /\ kind # "NONE"
  BY DEF SendAction, ExecStates, ActionKinds
<1> QED BY <1>1, <1>2, RequestCases DEF Sends

\* Neither reading the intent nor the lease sends anything.
LEMMA AuthoritySends ==
    ASSUME NEW e, Good(e), NEW s \in SensorStates, NEW i \in IntentStates
    PROVE  LET f == AuthorityStage(e, s, i)
           IN f.pending => e.pending /\ f.actionId = e.actionId
<1> DEFINE fresh == [e EXCEPT !.action = "NONE", !.ticked = TRUE]
           p == Prestream(fresh, s)
           c == Consider(p, s, i)
           g == RevokeLease(c, s)
           Left(f) == f.pending => e.pending /\ f.actionId = e.actionId
<1>0. fresh \in ExecStates /\ Left(fresh)
  BY DEF Good, ExecStates
<1>1. Good(fresh)
  BY <1>0 DEF Good, ExecStates, MatchesGrant, Revoked, RequestOfPhase, Referenced, Landing
<1> HIDE DEF fresh
<1>2. Good(p) /\ p \in ExecStates BY <1>1, PrestreamGood DEF Good
<1>3. Left(p) BY <1>0 DEF Prestream, ExecStates
<1> HIDE DEF p
<1>4. Good(c) /\ c \in ExecStates BY <1>2, ConsiderGood DEF Good
<1>5. Left(c)
  <2> DEFINE renewed == [p EXCEPT !.accepted.age = i.age]
             a == [CancelAction(p) EXCEPT !.accepted = i, !.lost = FALSE]
  <2>1. Left(renewed) BY <1>2, <1>3 DEF ExecStates
  <2>2. a \in ExecStates /\ ~a.pending BY <1>2 DEF ExecStates, CancelAction
  <2>3. ~Adopt(p, s, i).pending
    <3> DEFINE b == [a EXCEPT !.takeoffPending = FALSE, !.target = Here, !.ground = None]
               t == [a EXCEPT !.takeoffPending = TRUE]
               track == [a EXCEPT !.takeoffPending = FALSE, !.phase = "GUIDING",
                              !.target = i.target]
    <3>1. Adopt(p, s, i) \in {t, track, ActionPhase(b, "LAND_REQUEST"), Settle(a, s)}
      BY DEF Adopt
    <3> HIDE DEF a
    <3>2. ~t.pending /\ ~track.pending BY <2>2 DEF ExecStates
    <3>3. b \in ExecStates BY <2>2, Domains, Limits DEF ExecStates
    <3> HIDE DEF b
    <3>4. ~ActionPhase(b, "LAND_REQUEST").pending /\ ~Settle(a, s).pending
      BY <2>2, <3>3, HoldSends
    <3> QED BY <3>1, <3>2, <3>4
  <2> HIDE DEF renewed
  <2>4. c \in {p, renewed, Adopt(p, s, i)} BY DEF Consider, renewed, c
  <2> QED BY <1>3, <2>1, <2>3, <2>4
<1> HIDE DEF c
<1>6. Left(g)
  <2> DEFINE r == [c EXCEPT !.lost = TRUE, !.blocked = c.accepted.id]
  <2>1. r \in ExecStates BY <1>4 DEF ExecStates, IntentStates
  <2>2. g \in {c, Settle(r, s)} BY DEF RevokeLease
  <2> HIDE DEF r
  <2> QED BY <1>5, <2>1, <2>2, HoldSends
<1> QED BY <1>6 DEF AuthorityStage, fresh, p, c, g

\* Nor do the safety stages.
LEMMA SafetySends ==
    ASSUME NEW e, Good(e), NEW s \in SensorStates
    PROVE  Sends(e, SafetyStage(e, s))
<1> DEFINE c == CatchLateArm(e, s)
           d == CutOnFault(c, s)
           a == ActionPhase(d, "OFFBOARD_REQUEST")
           r == [a EXCEPT !.originValid = TRUE, !.originGeneration = d.accepted.generation,
                          !.target = Here, !.takeoffPending = FALSE]
<1>1. Good(c) /\ Good(d) BY SafetyGood
<1>2. Sends(e, c) BY HoldSends DEF Good, CatchLateArm, Sends
<1> HIDE DEF c
<1>3. Sends(c, d) BY <1>1, HoldSends DEF Good, CutOnFault, Sends
<1> HIDE DEF d
<1>4. a \in ExecStates /\ ~a.pending
  BY <1>1, ActionPhaseType, HoldSends DEF Good, ServicePhases
<1> HIDE DEF a
<1>5. ~r.pending BY <1>4 DEF ExecStates
<1>6. BeginTakeoff(d, s) \in {d, r} BY DEF BeginTakeoff, a
<1> HIDE DEF r
<1>7. Sends(d, BeginTakeoff(d, s)) BY <1>5, <1>6 DEF Sends
<1> QED BY <1>2, <1>3, <1>7 DEF Sends, SafetyStage, c, d

\* The takeoff and climb stages return what they send.
LEMMA FlightSends ==
    ASSUME NEW e, Good(e), NEW s \in SensorStates, NEW id \in ActionIds
    PROVE  Sends(e, TakeOver(e, s, id)) /\ Sends(e, Arm(e, s, id)) /\ Sends(e, Climbing(e, s))
<1>0. e \in ExecStates BY DEF Good
<1> DEFINE flying == [CancelAction(e) EXCEPT !.phase = "TAKEOFF", !.since = 0,
                                             !.arrival = None, !.target = Climb]
           out == [e EXCEPT !.arrival = None]
           in == [e EXCEPT !.arrival = 0]
<1>1. /\ Sends(e, e) /\ Sends(e, flying) /\ Sends(e, out) /\ Sends(e, in)
      /\ Sends(e, ActionPhase(e, "ARMING")) /\ Sends(e, Fail(e, 0))
      /\ Sends(e, Hold(e, "PAUSED")) /\ Sends(e, Hold(e, "HOLDING"))
  BY <1>0, HoldSends DEF Sends, CancelAction, ExecStates
<1>2. /\ Sends(e, RequestAction(e, "SET_OFFBOARD", 2, id))
      /\ Sends(e, RequestAction(e, "ARM", 0, id))
  BY <1>0, RequestSends DEF ActionKinds
<1> HIDE DEF flying, out, in
<1>3. TakeOver(e, s, id) \in
        {e, ActionPhase(e, "ARMING"), RequestAction(e, "SET_OFFBOARD", 2, id)}
  BY DEF TakeOver
<1>4. Arm(e, s, id) \in {e, Fail(e, 0), flying, RequestAction(e, "ARM", 0, id)}
  BY DEF Arm, flying
<1>5. Dwell(e, s) \in {out, in, Hold(e, "HOLDING"), e} BY DEF Dwell, out, in
<1>6. Climbing(e, s) \in {Hold(e, "PAUSED"), e, Dwell(e, s)} BY DEF Climbing
<1> QED BY <1>1, <1>2, <1>3, <1>4, <1>5, <1>6

\* So do the landing stages.
LEMMA LandingStepSends ==
    ASSUME NEW e, Good(e), NEW s \in SensorStates, NEW id \in ActionIds
    PROVE  Sends(e, LandingStep(e, s, id))
<1>0. e \in ExecStates BY DEF Good
<1> DEFINE confirmed == [CancelAction(e) EXCEPT !.phase = "LANDING", !.since = 0,
                                                !.ground = None]
           w == ActionPhase(e, "WAIT_DISARM")
           bounced == [e EXCEPT !.ground = None]
           touched == [e EXCEPT !.ground = 0]
<1>1. /\ Sends(e, e) /\ Sends(e, confirmed) /\ Sends(e, bounced) /\ Sends(e, touched)
      /\ Sends(e, Touchdown(e)) /\ Sends(e, Fail(e, 0))
  BY <1>0, HoldSends DEF Sends, Touchdown, CancelAction, ExecStates
<1>2. w \in ExecStates /\ ~w.pending
  BY <1>0, ActionPhaseType, HoldSends DEF ServicePhases
<1> HIDE DEF confirmed, w, bounced, touched
<1>3. /\ Sends(e, RequestAction(e, "SET_LAND", 0, id))
      /\ Sends(e, RequestAction(e, "DISARM", 0, id))
      /\ Sends(w, RequestAction(w, "DISARM", 0, id))
  BY <1>0, <1>2, RequestSends DEF ActionKinds
<1>4. Sends(e, RequestAction(w, "DISARM", 0, id)) BY <1>2, <1>3 DEF Sends
<1>5. RequestLanding(e, s, id) \in
        {Fail(e, 0), confirmed, RequestAction(e, "SET_LAND", 0, id)}
  BY DEF RequestLanding, confirmed
<1>6. Descend(e, s, id) \in
        {e, Fail(e, 0), bounced, touched, RequestAction(w, "DISARM", 0, id)}
  BY DEF Descend, w, bounced, touched
<1>7. LandingStep(e, s, id) \in
        {e, RequestLanding(e, s, id), Descend(e, s, id), Fail(e, 0),
         Touchdown(e), RequestAction(e, "DISARM", 0, id)}
  BY DEF LandingStep, AwaitDisarm
<1> QED BY <1>1, <1>3, <1>4, <1>5, <1>6, <1>7

\* A request that a tick leaves in flight was in flight, or is the one it returns.
LEMMA TickSends ==
    ASSUME NEW e, Good(e), NEW s \in SensorStates, NEW i \in IntentStates,
           NEW id \in ActionIds
    PROVE  LET f == TickOf(e, s, i, id)
           IN f.pending => f.action # "NONE" \/ (e.pending /\ f.actionId = e.actionId)
<1> DEFINE a == AuthorityStage(e, s, i)
           b == SafetyStage(a, s)
           o == TakeOver(b, s, id)
           r == Arm(o, s, id)
           c == Climbing(r, s)
           l == LandingStep(c, s, id)
           fresh == [e EXCEPT !.action = "NONE", !.ticked = TRUE]
<1>0. fresh \in ExecStates BY DEF Good, ExecStates
<1>1. Good(fresh)
  BY <1>0 DEF Good, ExecStates, MatchesGrant, Revoked, RequestOfPhase, Referenced, Landing
<1> HIDE DEF fresh
<1>2. Good(a) /\ (a.pending => e.pending /\ a.actionId = e.actionId)
  BY <1>1, PrestreamGood, ConsiderGood, RevokeGood, AuthoritySends DEF AuthorityStage, fresh
<1> HIDE DEF a
<1>3. Good(b) /\ Sends(a, b)
  BY <1>2, SafetyGood, BeginTakeoffGood, SafetySends DEF SafetyStage
<1> HIDE DEF b
<1>4. Good(o) /\ Sends(b, o) BY <1>3, TakeOverGood, FlightSends
<1> HIDE DEF o
<1>5. Good(r) /\ Sends(o, r) BY <1>4, ArmGood, FlightSends
<1> HIDE DEF r
<1>6. Good(c) /\ Sends(r, c) BY <1>5, ClimbingGood, FlightSends
<1> HIDE DEF c
<1>7. Sends(c, l) BY <1>6, LandingStepSends
<1> HIDE DEF l
<1>8. l.pending => l.action # "NONE" \/ (e.pending /\ l.actionId = e.actionId)
  BY <1>2, <1>3, <1>4, <1>5, <1>6, <1>7 DEF Sends
<1> QED BY <1>8 DEF TickOf, FlightStage, a, b, o, r, c, l

\* An answer to the request in flight leaves none in flight; any other changes
\* nothing.
LEMMA AnswerIs ==
    ASSUME NEW e, Good(e), NEW id, NEW ok \in BOOLEAN
    PROVE  LET f == AnswerOf(e, id, ok)
           IN /\ f.accepted = e.accepted
              /\ f = e \/ ~f.pending
              /\ id = e.actionId => ~f.pending
<1>1. e \in ExecStates BY DEF Good
<1>5. ~Fail(e, 0).pending BY <1>1 DEF Fail, CancelAction, ExecStates
<1>2. AnswerOf(e, id, ok) = e \/ ~AnswerOf(e, id, ok).pending
  BY <1>1, <1>5 DEF AnswerOf, ExecStates
<1>3. id = e.actionId => ~AnswerOf(e, id, ok).pending
  BY <1>1, <1>5 DEF AnswerOf, ExecStates
<1>4. AnswerOf(e, id, ok).accepted = e.accepted
  BY <1>1, FailKeeps DEF AnswerOf, ExecStates
<1> QED BY <1>2, <1>3, <1>4

-----------------------------------------------------------------------------
(* Waiting on the ground.  *)

\* A stage takes no armed vehicle for one that waits on the ground.
Grounds(e, s, f) == f.phase = "IDLE_GROUND" => e.phase = "IDLE_GROUND" \/ ~s.armed

\* Nor does reading the intent, or revoking the lease.
LEMMA AuthorityGrounds ==
    ASSUME NEW e, Good(e), NEW s \in SensorStates, NEW i \in IntentStates
    PROVE  Grounds(e, s, AuthorityStage(e, s, i))
<1> DEFINE fresh == [e EXCEPT !.action = "NONE", !.ticked = TRUE]
           p == Prestream(fresh, s)
           c == Consider(p, s, i)
<1>0. fresh \in ExecStates /\ fresh.phase = e.phase BY DEF Good, ExecStates
<1>1. Good(fresh)
  BY <1>0 DEF Good, ExecStates, MatchesGrant, Revoked, RequestOfPhase, Referenced, Landing
<1> HIDE DEF fresh
<1>2. Good(p) /\ p \in ExecStates BY <1>1, PrestreamGood DEF Good
<1>3. p.phase = e.phase BY <1>0 DEF Prestream, ExecStates
<1> HIDE DEF p
<1>4. Good(c) /\ c \in ExecStates BY <1>2, ConsiderGood DEF Good
<1>5. ASSUME NEW r \in ExecStates
      PROVE  Settle(r, s).phase = IF s.armed THEN "PAUSED" ELSE "IDLE_GROUND"
  BY DEF Settle, Hold, CancelAction, ExecStates
<1>6. Grounds(p, s, c)
  <2> DEFINE renewed == [p EXCEPT !.accepted.age = i.age]
             a == [CancelAction(p) EXCEPT !.accepted = i, !.lost = FALSE]
             takeoff == [a EXCEPT !.takeoffPending = TRUE]
             track == [a EXCEPT !.takeoffPending = FALSE, !.phase = "GUIDING",
                                !.target = i.target]
             land == ActionPhase([a EXCEPT !.takeoffPending = FALSE, !.target = Here,
                                           !.ground = None], "LAND_REQUEST")
  <2>1. renewed.phase = p.phase /\ takeoff.phase = p.phase /\ track.phase = "GUIDING"
    BY <1>2 DEF CancelAction, ExecStates
  <2>2. land.phase = "LAND_REQUEST" BY <1>2 DEF ActionPhase, CancelAction, ExecStates
  <2>3. a \in ExecStates BY <1>2 DEF CancelAction, ExecStates
  <2>4. Adopt(p, s, i) \in {takeoff, track, land, Settle(a, s)} BY DEF Adopt
  <2> HIDE DEF renewed, takeoff, track, land, a
  <2>5. c \in {p, renewed, Adopt(p, s, i)} BY DEF Consider, renewed
  <2> HIDE DEF c
  <2>6. CASE c \in {p, renewed, takeoff, track, land}
    BY <2>1, <2>2, <2>6 DEF Grounds
  <2>7. CASE c = Settle(a, s)
    BY <1>5, <2>3, <2>7 DEF Grounds
  <2> QED BY <2>4, <2>5, <2>6, <2>7
<1> HIDE DEF c
<1>7. Grounds(c, s, RevokeLease(c, s))
  <2> DEFINE r == [c EXCEPT !.lost = TRUE, !.blocked = c.accepted.id]
  <2>1. r \in ExecStates BY <1>4 DEF ExecStates, IntentStates
  <2>2. RevokeLease(c, s) \in {c, Settle(r, s)} BY DEF RevokeLease
  <2> HIDE DEF r
  <2> QED BY <1>5, <2>1, <2>2 DEF Grounds
<1> QED BY <1>3, <1>6, <1>7 DEF Grounds, AuthorityStage, fresh, p, c

\* Only an observed disarm ends a landing on the ground.
LEMMA LandingStepGrounds ==
    ASSUME NEW e, Good(e), NEW s \in SensorStates, NEW id \in ActionIds
    PROVE  Grounds(e, s, LandingStep(e, s, id))
<1>0. e \in ExecStates BY DEF Good
<1> DEFINE confirmed == [CancelAction(e) EXCEPT !.phase = "LANDING", !.since = 0,
                                                !.ground = None]
           w == ActionPhase(e, "WAIT_DISARM")
           bounced == [e EXCEPT !.ground = None]
           touched == [e EXCEPT !.ground = 0]
<1>1. /\ confirmed.phase = "LANDING" /\ bounced.phase = e.phase /\ touched.phase = e.phase
      /\ w.phase = "WAIT_DISARM" /\ Fail(e, 0).phase = "ERROR"
  BY <1>0 DEF Fail, ActionPhase, CancelAction, ExecStates
<1>2. w \in ExecStates BY <1>0, ActionPhaseType DEF ServicePhases
<1> HIDE DEF confirmed, w, bounced, touched
<1>3. /\ RequestAction(e, "SET_LAND", 0, id).phase \in {e.phase, "ERROR"}
      /\ RequestAction(e, "DISARM", 0, id).phase \in {e.phase, "ERROR"}
      /\ RequestAction(w, "DISARM", 0, id).phase \in {"WAIT_DISARM", "ERROR"}
  BY <1>0, <1>1, <1>2, RequestKeeps DEF ActionKinds
<1>4. RequestLanding(e, s, id) \in
        {Fail(e, 0), confirmed, RequestAction(e, "SET_LAND", 0, id)}
  BY DEF RequestLanding, confirmed
<1>5. Descend(e, s, id) \in
        {e, Fail(e, 0), bounced, touched, RequestAction(w, "DISARM", 0, id)}
  BY DEF Descend, w, bounced, touched
<1>6. \/ ~s.armed
      \/ LandingStep(e, s, id) \in
            {e, RequestLanding(e, s, id), Descend(e, s, id), Fail(e, 0),
             RequestAction(e, "DISARM", 0, id)}
  BY DEF LandingStep, AwaitDisarm
<1> QED BY <1>1, <1>3, <1>4, <1>5, <1>6 DEF Grounds

\* A tick that ends with a vehicle that waits on the ground found it so, or
\* sees it disarmed.
LEMMA TickGrounds ==
    ASSUME NEW e, Good(e), NEW s \in SensorStates, NEW i \in IntentStates,
           NEW id \in ActionIds
    PROVE  Grounds(e, s, TickOf(e, s, i, id))
<1> DEFINE a == AuthorityStage(e, s, i)
           b == SafetyStage(a, s)
           o == TakeOver(b, s, id)
           r == Arm(o, s, id)
           c == Climbing(r, s)
           l == LandingStep(c, s, id)
           fresh == [e EXCEPT !.action = "NONE", !.ticked = TRUE]
<1>0. fresh \in ExecStates BY DEF Good, ExecStates
<1>1. Good(fresh)
  BY <1>0 DEF Good, ExecStates, MatchesGrant, Revoked, RequestOfPhase, Referenced, Landing
<1> HIDE DEF fresh
<1>2. Good(a) /\ Grounds(e, s, a)
  BY <1>1, PrestreamGood, ConsiderGood, RevokeGood, AuthorityGrounds DEF AuthorityStage, fresh
<1> HIDE DEF a
<1>3. Good(b) /\ Grounds(a, s, b)
  <2> DEFINE h == CatchLateArm(a, s)
             d == CutOnFault(h, s)
  <2>1. Good(h) /\ Good(d) /\ Good(b)
    BY <1>2, SafetyGood, BeginTakeoffGood DEF SafetyStage
  <2>2. h.phase \in {a.phase, "PAUSED"}
    BY <1>2 DEF Good, CatchLateArm, Hold, CancelAction, ExecStates
  <2> HIDE DEF h
  <2>3. d.phase \in {h.phase, "ERROR"}
    BY <2>1 DEF Good, CutOnFault, Fail, CancelAction, ExecStates
  <2> HIDE DEF d
  <2>4. BeginTakeoff(d, s).phase \in {d.phase, "OFFBOARD_REQUEST"}
    BY <2>1 DEF Good, BeginTakeoff, ActionPhase, CancelAction, ExecStates
  <2> QED BY <2>1, <2>2, <2>3, <2>4 DEF Grounds, SafetyStage, h, d
<1> HIDE DEF b
<1>4. Good(o) /\ o.phase \in {b.phase, "ARMING", "ERROR"}
  <2>1. b \in ExecStates BY <1>3 DEF Good
  <2>2. ActionPhase(b, "ARMING").phase = "ARMING"
    BY <2>1 DEF ActionPhase, CancelAction, ExecStates
  <2>3. RequestAction(b, "SET_OFFBOARD", 2, id).phase \in {b.phase, "ERROR"}
    BY <2>1, RequestKeeps DEF ActionKinds
  <2>4. o \in {b, ActionPhase(b, "ARMING"), RequestAction(b, "SET_OFFBOARD", 2, id)}
    BY DEF TakeOver
  <2> HIDE DEF o
  <2> QED BY <1>3, <2>2, <2>3, <2>4, TakeOverGood DEF o
<1> HIDE DEF o
<1>5. Good(r) /\ r.phase \in {o.phase, "TAKEOFF", "ERROR"}
  <2> DEFINE flying == [CancelAction(o) EXCEPT !.phase = "TAKEOFF", !.since = 0,
                                               !.arrival = None, !.target = Climb]
  <2>1. o \in ExecStates BY <1>4 DEF Good
  <2>2. flying.phase = "TAKEOFF" /\ Fail(o, 0).phase = "ERROR"
    BY <2>1 DEF Fail, CancelAction, ExecStates
  <2>3. RequestAction(o, "ARM", 0, id).phase \in {o.phase, "ERROR"}
    BY <2>1, RequestKeeps DEF ActionKinds
  <2>4. r \in {o, Fail(o, 0), flying, RequestAction(o, "ARM", 0, id)}
    BY DEF Arm, flying
  <2> HIDE DEF r, flying
  <2> QED BY <1>4, <2>2, <2>3, <2>4, ArmGood DEF r
<1> HIDE DEF r
<1>6. Good(c) /\ c.phase \in {r.phase, "PAUSED", "HOLDING"}
  <2>1. r \in ExecStates BY <1>5 DEF Good
  <2>2. /\ Hold(r, "PAUSED").phase = "PAUSED" /\ Hold(r, "HOLDING").phase = "HOLDING"
        /\ [r EXCEPT !.arrival = None].phase = r.phase
        /\ [r EXCEPT !.arrival = 0].phase = r.phase
    BY <2>1 DEF Hold, CancelAction, ExecStates
  <2>3. c \in {r, Hold(r, "PAUSED"), Hold(r, "HOLDING"), [r EXCEPT !.arrival = None],
               [r EXCEPT !.arrival = 0]}
    BY DEF Climbing, Dwell
  <2> HIDE DEF c
  <2> QED BY <1>5, <2>2, <2>3, ClimbingGood DEF c
<1> HIDE DEF c
<1>7. Grounds(c, s, l) BY <1>6, LandingStepGrounds
<1> HIDE DEF l
<1>8. Grounds(e, s, l) BY <1>2, <1>3, <1>4, <1>5, <1>6, <1>7 DEF Grounds
<1> QED BY <1>8 DEF TickOf, FlightStage, a, b, o, r, c, l
=============================================================================
