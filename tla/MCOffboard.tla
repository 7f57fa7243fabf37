----------------------------- MODULE MCOffboard -----------------------------
(***************************************************************************)
(* Instances of Offboard for TLC.  Init starts the process; Hover is the   *)
(* state Init leads to when 0 and 1 have been commanded and the first      *)
(* takeoff went well, with the mission loaded: what follows a takeoff is   *)
(* checked from there.                                                     *)
(***************************************************************************)
EXTENDS Offboard

CONSTANT HoverPlans     \* plans for what follows a takeoff

NoPlans == {}
Quiet == [mission |-> <<>>, command |-> 0, script |-> <<>>, arrivals |-> <<>>,
          faults |-> {}, limit |-> 0]
Guided == [Quiet EXCEPT !.mission = <<"A", "B">>, !.script = <<2>>]
SingleB == <<[points |-> <<"B">>, sequence |-> FALSE]>>

\* A takeoff, and one that the operator cancels
Takeoff == [Quiet EXCEPT !.script = <<1>>]
Cancel == [Quiet EXCEPT !.script = <<1, 0>>]
\* A mission resumed after a pause; one that a single target replaces; a flight to
\* a point of a topic that the link, the position estimate or the pilot fails
Resume == [Guided EXCEPT !.script = <<2, 0, 2>>]
Replace == [Guided EXCEPT !.arrivals = SingleB]
Failing == [Quiet EXCEPT !.script = <<2>>, !.arrivals = SingleB,
                         !.faults = {"link", "position", "pilot"}, !.limit = 1]
Descent == [Quiet EXCEPT !.script = <<3>>]
TakenOver == [Descent EXCEPT !.mission = <<"A">>, !.faults = {"pilot"}, !.limit = 1]
\* A flight to a point that a topic gives, and a pause
Single == [Quiet EXCEPT !.script = <<2, 0>>, !.arrivals = SingleB]

TakeoffPlans == {Takeoff}
CancelPlans == {Cancel}
MissionPlans == {Resume, Replace}
LandingPlans == {Descent, Failing}
GuidedPlans == {Guided}
TakeoverPlans == {TakenOver}
LandPlans == {Descent}
SinglePlans == {Single}

Hover(plan) ==
    LET takeoff == [kind |-> "TAKEOFF", generation |-> 1, id |-> 2,
                    target |-> Zero, age |-> 0]
        hovering == [fcu |-> "up", motion |-> TRUE, grounded |-> FALSE,
                     armed |-> TRUE, mode |-> "OFFBOARD", near |-> TRUE]
    IN /\ exec = [InitialExec EXCEPT
                    !.phase = "HOLDING", !.accepted = takeoff, !.target = Here,
                    !.originValid = TRUE, !.originGeneration = 1,
                    !.attempts = 1, !.prestream = 0, !.ticked = TRUE]
       /\ task = [InitialTask EXCEPT
                    !.phase = "HOLDING", !.intent = takeoff, !.command = 1,
                    !.zeroSeen = TRUE, !.originValid = TRUE, !.origin = 1,
                    !.mission = plan.mission, !.sequence = TRUE]
       /\ intent = takeoff
       /\ feedback = [age |-> 0, phase |-> "HOLDING", originValid |-> TRUE,
                      originGeneration |-> 1, generation |-> 1, id |-> 2,
                      lost |-> FALSE, sensors |-> hovering]
       /\ taskLoop = [at |-> "read", seen |-> NoFeedback, command |-> None]
       /\ execLoop = [at |-> "load", seen |-> NoIntent, request |-> NoRequest]
       /\ worker = [slot |-> NoRequest, stage |-> "waiting",
                    request |-> NoRequest, ok |-> FALSE]
       /\ results = <<>>
       /\ vehicle = [link |-> "up", motion |-> TRUE, grounded |-> FALSE,
                     armed |-> TRUE, mode |-> "OFFBOARD", todo |-> "NONE"]
       /\ input = [plan |-> plan, command |-> 1, written |-> 0, pending |-> <<>>,
                   arrived |-> 0, faults |-> 0]

FlightInit ==
    /\ Init \/ (\E plan \in HoverPlans : Hover(plan))
    /\ commanded = FALSE /\ reached = {}

\* The history variables stay where no property of a run is about them.
FlightSpec ==
    FlightInit /\ [][Next /\ UNCHANGED <<commanded, reached>>]_recorderVars
FlightRecorderSpec == FlightInit /\ [][RecorderNext]_recorderVars

\* The task thread may stop for good wherever it is: nothing is assumed of it.
DeadTaskSpec == FlightSpec /\ ExecutionFairness
=============================================================================
