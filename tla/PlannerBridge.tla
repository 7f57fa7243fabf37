----------------------------- MODULE PlannerBridge -----------------------------
(***************************************************************************)
(* PlannerBridge (planner_bridge.cpp) between the EgoController and the    *)
(* navigation node: its event queue, its one call in flight and the        *)
(* handshake that sends a goal only to a planner that has acknowledged the *)
(* request.  poll, tick and update are called in this order by one thread  *)
(* (the comment in planner_bridge.hpp); the call returns in another.       *)
(* The navigation node and the vehicle are not modelled: what they send    *)
(* may be late, lost or out of order, and any sensors may be seen.         *)
(***************************************************************************)
EXTENDS EgoController, SequencesExt

CONSTANTS Waypoints,      \* of the missions and the single targets
          Missions,       \* sequences of waypoints that are loaded
          Singles,        \* waypoints that come as single targets
          CommandValues,  \* values of the command parameter
          MaxGenerations, \* bound on the requests begun
          MaxEvents       \* limit of the event queue

BridgeAssumption ==
    /\ Missions \subseteq Seq(Waypoints) /\ Singles \subseteq Waypoints
    /\ {MaxGenerations, MaxEvents} \subseteq Nat \ {0} /\ CommandValues \subseteq 0 .. 3

VARIABLES ctl,      \* the controller
          bridge,   \* Impl, under its mutex
          events,   \* its queue
          known,    \* requests whose context the navigation node has received
          goals,    \* goals it has accepted
          calls     \* every goal the client has sent

vars == <<ctl, bridge, events, known, goals, calls>>

NoGoal == [id |-> 0, goal |-> None]

Refused(id) == [kind |-> "response", id |-> id, accepted |-> FALSE]

\* enqueue
Enqueued(e) == IF Len(events) >= MaxEvents THEN <<Refused(bridge.desired), e>>
               ELSE Append(events, e)

InitWith(c) ==
    /\ ctl = c /\ events = <<>> /\ known = {} /\ goals = {} /\ calls = <<>>
    /\ bridge = [desired |-> 0, permitted |-> FALSE, acknowledged |-> 0, dispatched |-> 0,
                 queued |-> FALSE, request |-> NoGoal, working |-> NoGoal, timedOut |-> FALSE]

Init == InitWith(InitController)
-----------------------------------------------------------------------------
Well == [ready |-> TRUE, fresh |-> TRUE, armed |-> TRUE, ground |-> FALSE,
         mode |-> "OFFBOARD", aligned |-> TRUE, reached |-> FALSE]

\* What the phase looks at; in flight one thing fails at a time.
Sensors(c) ==
    IF c.phase \in {"TAKEOFF", "GUIDING", "ERROR"} \cup Holds
    THEN {[Well EXCEPT !.reached = r] : r \in BOOLEAN}
         \cup {[Well EXCEPT !.ready = FALSE, !.mode = "OTHER"], [Well EXCEPT !.armed = FALSE],
               [Well EXCEPT !.aligned = FALSE]}
    ELSE {[Well EXCEPT !.ready = r, !.fresh = r, !.armed = a, !.ground = g, !.mode = m] :
            r \in BOOLEAN, a \in BOOLEAN, g \in BOOLEAN,
            m \in {"OFFBOARD", "AUTO.LAND", "OTHER"}}

Flying(s) == s.ready /\ s.armed /\ s.aligned /\ s.mode = "OFFBOARD"

\* Nothing is timed in a hover or an error; in GUIDING, "wait" is the dwell at the
\* waypoint, and the other limits end the flight wherever the vehicle is.
Elapsed(c, s) ==
    IF c.phase \in Holds \cup {"BOOT_WAIT_ZERO", "ERROR"} THEN {{}}
    ELSE IF c.phase # "GUIDING" THEN {{}, {"wait"}, {"limit"}}
    ELSE IF ~Flying(s) THEN {{}}
    ELSE IF s.reached THEN {{}, {"wait"}} ELSE {{}, {"limit"}, {"stale"}}

Handled(c, e) ==
    CASE e.kind = "target" -> AcceptTarget(c, e)
      [] e.kind = "status" -> AcceptStatus(c, e)
      [] OTHER -> AcceptResponse(c, e)

\* poll.  over: the call has been out for longer than its timeout.
Polled(over) ==
    FoldLeft(Handled, ctl,
             IF over THEN Append(events, Refused(bridge.working.id)) ELSE events)

\* A current status of the desired request that announces the context
Acknowledges(e) ==
    e.kind = "status" /\ e.state = "IDLE" /\ e.id = bridge.desired /\ ~e.old

\* The condition of update to submit the goal
Dispatches(b) ==
    /\ b.permitted /\ b.desired # 0 /\ b.acknowledged = b.desired
    /\ b.dispatched # b.desired /\ b.working = NoGoal /\ ~b.queued

\* update, after a tick that left the controller at c
Updated(c, ready, b) ==
    LET changed == b.desired # c.id
        d == [b EXCEPT !.desired = c.id, !.permitted = ready,
                       !.acknowledged = IF changed THEN 0 ELSE @,
                       !.dispatched = IF changed THEN 0 ELSE @,
                       !.queued = @ /\ ~changed /\ ready]
    IN IF Dispatches(d)
       THEN [d EXCEPT !.request = [id |-> c.id, goal |-> c.final], !.dispatched = c.id,
                      !.queued = TRUE]
       ELSE d

Control(s, elapsed, over) ==
    /\ over => bridge.working # NoGoal /\ ~bridge.timedOut /\ Flying(s)
    /\ LET c == Tick(Polled(over), s, elapsed)
           b == [bridge EXCEPT !.timedOut = @ \/ over,
                    !.acknowledged = IF \E i \in DOMAIN events : Acknowledges(events[i])
                                     THEN bridge.desired ELSE @]
       IN /\ c.generation <= MaxGenerations
          /\ ctl' = c /\ bridge' = Updated(c, PlannerReady(c, s), b)
    /\ events' = <<>>
    /\ UNCHANGED <<known, goals, calls>>

\* The worker takes the request and calls the navigation service.
StartCall ==
    /\ bridge.queued /\ bridge.working = NoGoal
    /\ IF bridge.permitted /\ bridge.request.id = bridge.desired
       THEN /\ bridge' = [bridge EXCEPT !.queued = FALSE, !.working = bridge.request,
                                        !.timedOut = FALSE]
            /\ calls' = Append(calls, bridge.request)
       ELSE bridge' = [bridge EXCEPT !.queued = FALSE] /\ UNCHANGED calls
    /\ UNCHANGED <<ctl, events, known, goals>>

\* taken: the service has accepted the goal; intime: its answer came so.
CallReturns(taken, intime) ==
    /\ bridge.working # NoGoal
    /\ taken => bridge.working.id \in known
    /\ intime => ~bridge.timedOut
    /\ goals' = IF taken THEN goals \cup {bridge.working} ELSE goals
    /\ bridge' = [bridge EXCEPT !.working = NoGoal]
    /\ events' = Append(events, [Refused(bridge.working.id) EXCEPT !.accepted = taken /\ intime])
    /\ UNCHANGED <<ctl, known, calls>>

ContextArrives ==
    /\ bridge.permitted /\ bridge.desired \notin known
    /\ known' = known \cup {bridge.desired}
    /\ UNCHANGED <<ctl, bridge, events, goals, calls>>

\* Targets and statuses of any request ever known may come in any order.  A
\* status of trouble has the effect of an old one, whatever that says, one of progress
\* that of an idle one, and what comes outside GUIDING is drained without effect.
TargetArrives(g, old) ==
    /\ ctl.phase = "GUIDING"
    /\ events' = Enqueued([kind |-> "target", id |-> g.id, goal |-> g.goal, old |-> old])
    /\ UNCHANGED <<ctl, bridge, known, goals, calls>>

StatusArrives(id, state, old) ==
    /\ ctl.phase = "GUIDING"
    /\ events' = Enqueued([kind |-> "status", id |-> id, state |-> state, old |-> old])
    /\ UNCHANGED <<ctl, bridge, known, goals, calls>>

CommandArrives(command) ==
    /\ ctl' = ObserveCommand(ctl, command) /\ ctl' # ctl
    /\ UNCHANGED <<bridge, events, known, goals, calls>>

MissionArrives(mission) ==
    /\ ctl' = ReplaceSequence(ctl, mission) /\ ctl' # ctl
    /\ UNCHANGED <<bridge, events, known, goals, calls>>

SingleArrives(waypoint) ==
    /\ ctl.generation < MaxGenerations
    /\ ctl' = ReplaceSingle(ctl, waypoint) /\ ctl' # ctl
    /\ UNCHANGED <<bridge, events, known, goals, calls>>

ResultArrives ==
    /\ ctl.action # None
    /\ ctl' = AcceptResult(ctl)
    /\ UNCHANGED <<bridge, events, known, goals, calls>>

Next ==
    \/ \E s \in Sensors(ctl) : \E elapsed \in Elapsed(ctl, s), over \in BOOLEAN :
        Control(s, elapsed, over)
    \/ StartCall
    \/ \E taken, intime \in BOOLEAN : CallReturns(taken, intime)
    \/ ContextArrives
    \/ \E g \in goals, old \in BOOLEAN : TargetArrives(g, old)
    \/ \E id \in known, state \in {"IDLE", "GOAL_REACHED"}, old \in BOOLEAN :
        (old => state = "IDLE") /\ StatusArrives(id, state, old)
    \/ \E command \in CommandValues : CommandArrives(command)
    \/ \E mission \in Missions : MissionArrives(mission)
    \/ \E waypoint \in Singles : SingleArrives(waypoint)
    \/ ResultArrives

Spec == Init /\ [][Next]_vars
-----------------------------------------------------------------------------
\* While the vehicle is guided, a setpoint that the planner gave leads to the
\* waypoint the mission is at, however late the planner's messages come; a
\* target that was just replaced is dropped before the next output.
TargetsLeadToWaypoint ==
    (ctl.phase = "GUIDING" /\ ctl.setpoint.id # 0 /\ ~ctl.capture) =>
        ctl.setpoint.kind = ctl.final /\ ctl.setpoint.id = ctl.id

\* A goal is sent to the navigation node once, and only with the context that
\* the node has acknowledged.
GoalsAreSentOnce ==
    /\ \A i, j \in DOMAIN calls : calls[i].id = calls[j].id => i = j
    /\ \A i \in DOMAIN calls : calls[i].id \in known
=============================================================================
