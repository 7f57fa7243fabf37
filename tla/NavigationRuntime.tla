-------------------------- MODULE NavigationRuntime --------------------------
(***************************************************************************)
(* NavigationRuntime (runtime.py): which inputs are usable, which goal is  *)
(* active, and whether a plan made from an earlier snapshot may still be   *)
(* published.  Each operator is one call, atomic under the runtime's lock. *)
(*                                                                         *)
(* A source is fresh or it is not: stamps that do not grow, wrong frames   *)
(* and malformed values all revoke it, and time may do so at any moment.   *)
(* Clouds keep their stamps, 1, 2, ...; those up to "old" have expired.    *)
(***************************************************************************)
EXTENDS Naturals

CONSTANTS Sources,          \* required_sources without the cloud
          Requests,         \* request identifiers
          RequireContext    \* require_planner_context

ASSUME RuntimeAssumption ==
    "controller" \in Sources /\ "cloud" \notin Sources /\ RequireContext \in BOOLEAN

Nobody == "nobody"
NoGoal == [request |-> Nobody, stamp |-> 0]

InitialRuntime ==
    [fresh |-> [s \in Sources |-> FALSE], valid |-> FALSE, cloud |-> 0, old |-> 0,
     context |-> Nobody, active |-> NoGoal, pending |-> NoGoal, seen |-> 0,
     snapshot |-> "gone"]   \* the planner's: usable, moved away from, or gone

CloudFresh(r) == r.valid /\ r.cloud > r.old
AllFresh(r) == CloudFresh(r) /\ \A s \in Sources : r.fresh[s]
ContextAllows(r, request) ==
    RequireContext => r.context = request /\ r.fresh["controller"]

\* _generation grows: no snapshot taken before will ever validate.
Bumped(r) == [r EXCEPT !.snapshot = "gone"]

\* _accept of a source other than the cloud
Accepted(r, s, good) ==
    [(IF good THEN r ELSE Bumped(r)) EXCEPT !.fresh[s] = good]

\* near: the vehicle is within the margins of the snapshot's pose and ground.
AcceptedOdom(r, good, near) ==
    [Accepted(r, "odom", good) EXCEPT !.snapshot =
        IF @ = "gone" THEN @ ELSE IF near THEN "usable" ELSE "moved"]

AcceptedCloud(r, good) ==
    [Bumped(r) EXCEPT !.valid = good, !.cloud = IF good THEN @ + 1 ELSE @]

GoalDropped(r) ==
    [Bumped(r) EXCEPT !.active = NoGoal, !.pending = NoGoal]

\* accept_context.  moved: the reference height is another one.
AcceptedContext(r, request, good, moved) ==
    LET id == IF good THEN request ELSE Nobody
        q == Accepted(r, "controller", good)
    IN [(IF id # r.context \/ ~good \/ moved THEN GoalDropped(q) ELSE q)
            EXCEPT !.context = id]

GoalBegins(r, request) == ContextAllows(r, request)
GoalBegun(r, request) ==
    [GoalDropped(r) EXCEPT !.seen = @ + 1,
                           !.pending = [request |-> request, stamp |-> r.seen + 1]]

\* Mutant of GoalCompletes: whoever comes last wins.
GoalCompletesAnyway(r, token) == ContextAllows(r, token.request)

\* complete_goal, for a token whose stamp is not too old
GoalCompletes(r, token) ==
    ContextAllows(r, token.request) /\ token = r.pending
GoalCompleted(r, token) == [GoalDropped(r) EXCEPT !.active = token]

\* abort_goal
GoalAborted(r, token) ==
    IF token = r.pending THEN [Bumped(r) EXCEPT !.pending = NoGoal] ELSE r

\* cancel: accepted for the active or reserved request, or when there is none
Cancels(r, request) == request \in {r.active.request, r.pending.request}
CancelAccepted(r, request) ==
    Cancels(r, request) \/ (r.active = NoGoal /\ r.pending = NoGoal)
Cancelled(r, request) == IF Cancels(r, request) THEN GoalDropped(r) ELSE r

\* snapshot, but for its choice of samples
SnapshotPossible(r) ==
    /\ r.active # NoGoal /\ ContextAllows(r, r.active.request) /\ AllFresh(r)
Snapped(r) == [r EXCEPT !.snapshot = "usable"]

\* Mutant of Revalidate: the generation is not compared.
RevalidateFreshness(r, token) ==
    ContextAllows(r, token.goal.request) /\ AllFresh(r)

\* token: the goal and the cloud of a snapshot
Revalidate(r, token) ==
    /\ ContextAllows(r, token.goal.request) /\ r.snapshot = "usable"
    /\ token.goal.request = r.active.request
    /\ AllFresh(r) /\ token.cloud = r.cloud
=============================================================================
