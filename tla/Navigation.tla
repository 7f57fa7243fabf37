------------------------------ MODULE Navigation ------------------------------
(***************************************************************************)
(* ducted_navigation_node.py around NavigationRuntime: the planning thread *)
(* with its planner lock, the EgoReferenceWorker and its one request in    *)
(* flight through BoundedRPC, the threads that serve the command service,  *)
(* the watchdog and the callbacks.                                         *)
(***************************************************************************)
EXTENDS NavigationRuntime, FiniteSets

CONSTANTS Callers,      \* threads of the command service
          MaxClouds,    \* bound on the clouds accepted
          MaxGoals,     \* bound on the goals reserved
          MaxTries,     \* attempts to check one reference
          MaxIssued     \* references a worker remembers

ASSUME NavigationAssumption ==
    {MaxClouds, MaxGoals, MaxTries, MaxIssued} \subseteq Nat \ {0}

VARIABLES rt,       \* NavigationRuntime
          plan,     \* the planning thread; it has the planner lock while it works
          history,  \* the planner's _previous_stamp, 0 after reset_context
          ego,      \* EgoReferenceWorker, under its lock
          job,      \* the request its thread executes
          rpcStuck, \* BoundedRPC: a call that was given up has not returned
          event,    \* _plan_event
          caller,   \* per caller: the goal it transforms, or a reset it owes
          cloudOwes,\* the cloud callback waits to reset the planner
          out       \* _last_planned_stamp and _last_publish_stamp

vars == <<rt, plan, history, ego, job, rpcStuck, event, caller, cloudOwes, out>>

NoRef == 0
NoToken == [goal |-> NoGoal, cloud |-> 0]
Planning == [at |-> "waiting", token |-> NoToken, ref |-> NoRef, error |-> FALSE,
             tries |-> 0, saved |-> 0]
Idle == [at |-> "idle", goal |-> NoGoal]
\* key: the goal asked for; last: last_stamp; ref: the stamp of result; issued:
\* the stamps of the references it remembers, each with the goal it was made for
FreshEgo == [key |-> NoGoal, busy |-> FALSE, last |-> 0, ref |-> NoRef,
             error |-> FALSE, issued |-> {}]
NoJob == [key |-> NoGoal, stamp |-> 0, at |-> "none"]

\* The rest of an attempt, when only the clean-up is left
Leaving == [Planning EXCEPT !.at = "leaving", !.saved = plan.saved]

LockFree == plan.at \in {"waiting", "snapshot"}

\* EgoReferenceWorker.reset; a request in flight stays in flight.
EgoReset(e) == [FreshEgo EXCEPT !.busy = e.busy]

\* _reset_planner and _try_reset_planner, once they have the lock
ResetPlanner == history' = 0 /\ ego' = EgoReset(ego)

-----------------------------------------------------------------------------
(* The planning thread: _planning_loop and _plan_once. *)

PlanWakes ==
    /\ plan.at = "waiting" /\ event
    /\ event' = FALSE /\ plan' = [plan EXCEPT !.at = "snapshot"]
    /\ UNCHANGED <<rt, history, ego, job, rpcStuck, caller, cloudOwes, out>>

\* samples: those "matched" to the cloud, too far apart ("skewed"), or older than
\* a motion beyond the margin ("moved").  Any refusal but a skew resets the planner.
PlanSnapshot(samples) ==
    /\ plan.at = "snapshot"
    /\ IF SnapshotPossible(rt) /\ samples = "matched"
       THEN /\ rt' = Snapped(rt)
            /\ plan' = [Planning EXCEPT !.at = "polling", !.saved = history,
                            !.token = [goal |-> rt.active, cloud |-> rt.cloud]]
            /\ UNCHANGED <<history, ego>>
       ELSE /\ plan' = Planning /\ UNCHANGED rt
            /\ IF SnapshotPossible(rt) /\ samples = "skewed"
               THEN UNCHANGED <<history, ego>> ELSE ResetPlanner
    /\ UNCHANGED <<job, rpcStuck, event, caller, cloudOwes, out>>

\* _current, for a worker without an error
Current(e) == IF e.ref > rt.old THEN e.ref ELSE NoRef

\* What poll returns: an error, nothing, or a reference to check.
Polled(e) ==
    IF e.error \/ Current(e) # NoRef
    THEN [plan EXCEPT !.at = "checking", !.error = e.error,
                      !.ref = IF e.error THEN NoRef ELSE Current(e)]
    ELSE Leaving

\* Stamps of planned clouds only grow: what is published is what was planned.
PlanPoll ==
    /\ plan.at = "polling"
    /\ LET stamp == plan.token.cloud
           e == IF ego.key = plan.token.goal THEN ego
                ELSE [EgoReset(ego) EXCEPT !.key = plan.token.goal]
       IN IF stamp <= out \/ ~Revalidate(rt, plan.token)
          THEN plan' = Leaving /\ UNCHANGED ego
          ELSE IF e.error \/ e.busy \/ stamp <= e.last
          THEN plan' = Polled(e) /\ ego' = e
          ELSE /\ ego' = [e EXCEPT !.busy = TRUE, !.last = stamp]
               /\ plan' = [plan EXCEPT !.at = "preparing"]
    /\ UNCHANGED <<rt, history, job, rpcStuck, event, caller, cloudOwes, out>>

\* prepare, which may fail, and the start of the thread
PlanPrepare(ok) ==
    /\ plan.at = "preparing"
    /\ IF ok
       THEN /\ job' = [key |-> plan.token.goal, stamp |-> plan.token.cloud, at |-> "executing"]
            /\ plan' = Polled(ego) /\ UNCHANGED ego
       ELSE /\ ego' = [ego EXCEPT !.busy = FALSE, !.error = TRUE, !.ref = NoRef]
            /\ plan' = Polled(ego') /\ UNCHANGED job
    /\ UNCHANGED <<rt, history, rpcStuck, event, caller, cloudOwes, out>>

\* The check of the reference on the latest snapshot, which advances the
\* planner's history.  safe: plan_reference returns a target to publish.
PlanCheck(safe) ==
    /\ plan.at = "checking"
    /\ LET token == [goal |-> rt.active, cloud |-> rt.cloud]
       IN IF /\ plan.tries < MaxTries /\ SnapshotPossible(rt)
             /\ token.goal = plan.token.goal
             /\ (IF plan.error THEN plan.token.cloud ELSE plan.ref) > rt.old
             /\ token.cloud > out
          THEN /\ rt' = Snapped(rt) /\ history' = token.cloud
               /\ plan' = IF safe /\ ~plan.error /\ token.cloud > plan.saved
                          THEN [plan EXCEPT !.token = token, !.tries = @ + 1,
                                            !.at = "publishing"]
                          ELSE Leaving
          ELSE plan' = Leaving /\ UNCHANGED <<rt, history>>
    /\ UNCHANGED <<ego, job, rpcStuck, event, caller, cloudOwes, out>>

Issued(ref) == \E i \in ego.issued : i.stamp = ref

\* commit_reference, before it calls publish
ReferenceStands ==
    /\ ego.key = plan.token.goal /\ ~ego.error
    /\ Issued(plan.ref) /\ plan.ref > rt.old

\* commit_reference and commit_publish, under both their locks
PlanPublish ==
    /\ plan.at = "publishing"
    /\ IF ReferenceStands /\ Revalidate(rt, plan.token)
       THEN /\ out' = plan.token.cloud
            /\ plan' = Planning /\ rt' = Bumped(rt) /\ UNCHANGED history
       ELSE /\ plan' = [plan EXCEPT !.at = "checking"] /\ history' = plan.saved
            /\ UNCHANGED <<rt, out>>
    /\ UNCHANGED <<ego, job, rpcStuck, event, caller, cloudOwes>>

\* Mutant of PlanLeave: the history is not restored.
PlanLeaveAdvanced ==
    /\ plan.at = "leaving"
    /\ plan' = Planning /\ rt' = Bumped(rt)
    /\ UNCHANGED <<history, ego, job, rpcStuck, event, caller, cloudOwes, out>>

\* The finally clause: what was not published leaves no trace.  The snapshot goes
\* out of use, which only says that nobody has it any more.
PlanLeave ==
    /\ plan.at = "leaving"
    /\ history' = plan.saved /\ plan' = Planning /\ rt' = Bumped(rt)
    /\ UNCHANGED <<ego, job, rpcStuck, event, caller, cloudOwes, out>>

-----------------------------------------------------------------------------
(* The thread of EgoReferenceWorker, and BoundedRPC. *)

\* What is remembered with one more: the newest MaxIssued, one of each stamp
Remembered(issued) ==
    LET others == {i \in issued : i.stamp # job.stamp}
        all == others \cup {[stamp |-> job.stamp, goal |-> job.key]}
    IN {i \in all : Cardinality({j \in all : j.stamp > i.stamp}) < MaxIssued}

\* work, after execute.  result: "ok", "expired" (the snapshot was too old), or
\* "error".  A result for a key that is gone is dropped.
Finished(e, result) ==
    CASE e.key # job.key \/ result = "expired" -> [e EXCEPT !.busy = FALSE]
      [] e.key = job.key /\ result = "ok" ->
            [e EXCEPT !.busy = FALSE, !.ref = job.stamp, !.issued = Remembered(@)]
      [] e.key = job.key /\ result = "error" ->
            [e EXCEPT !.busy = FALSE, !.error = TRUE, !.ref = NoRef]

\* The response, or the deadline: the call is then given up, and until it
\* returns the next request fails.
JobFinishes(result, timeout) ==
    /\ job.at = "executing"
    /\ (rpcStuck \/ timeout) => result = "error"
    /\ rpcStuck' = (rpcStuck \/ timeout)
    /\ ego' = Finished(ego, result)
    /\ job' = [NoJob EXCEPT !.at = "waking"]
    /\ UNCHANGED <<rt, plan, history, event, caller, cloudOwes, out>>

\* wake.  A request started meanwhile has a thread of its own and is waited for.
JobWakes ==
    /\ job.at = "waking"
    /\ job' = NoJob /\ event' = TRUE
    /\ UNCHANGED <<rt, plan, history, ego, rpcStuck, caller, cloudOwes, out>>

RpcReturns ==
    /\ rpcStuck /\ rpcStuck' = FALSE
    /\ UNCHANGED <<rt, plan, history, ego, job, event, caller, cloudOwes, out>>

-----------------------------------------------------------------------------
(* The command service: _command. *)

CommandGoal(c, request) ==
    /\ caller[c].at = "idle" /\ rt.seen < MaxGoals /\ GoalBegins(rt, request)
    /\ rt' = GoalBegun(rt, request)
    /\ caller' = [caller EXCEPT ![c] = [at |-> "transforming", goal |-> rt'.pending]]
    /\ UNCHANGED <<plan, history, ego, job, rpcStuck, event, cloudOwes, out>>

\* The transform is found, or not, or too late.
CommandTransformed(c, ok) ==
    /\ caller[c].at = "transforming"
    /\ LET done == ok /\ GoalCompletes(rt, caller[c].goal)
       IN /\ rt' = IF done THEN GoalCompleted(rt, caller[c].goal)
                   ELSE IF ok THEN rt ELSE GoalAborted(rt, caller[c].goal)
          /\ caller' = [caller EXCEPT ![c] = [Idle EXCEPT !.at =
                            IF done THEN "resetting" ELSE "idle"]]
    /\ UNCHANGED <<plan, history, ego, job, rpcStuck, event, cloudOwes, out>>

CommandCancel(c, request) ==
    /\ caller[c].at = "idle" /\ CancelAccepted(rt, request)
    /\ rt' = Cancelled(rt, request)
    /\ caller' = [caller EXCEPT ![c] = [Idle EXCEPT !.at = "resetting"]]
    /\ UNCHANGED <<plan, history, ego, job, rpcStuck, event, cloudOwes, out>>

CommandResets(c) ==
    /\ caller[c].at = "resetting" /\ LockFree
    /\ ResetPlanner /\ event' = TRUE
    /\ caller' = [caller EXCEPT ![c] = Idle]
    /\ UNCHANGED <<rt, plan, job, rpcStuck, cloudOwes, out>>

-----------------------------------------------------------------------------
(* Callbacks, the watchdog and time. *)

CloudArrives(good) ==
    /\ ~cloudOwes /\ rt.cloud < MaxClouds
    /\ rt' = AcceptedCloud(rt, good)
    /\ event' = (event \/ good) /\ cloudOwes' = ~good
    /\ UNCHANGED <<plan, history, ego, job, rpcStuck, caller, out>>

CloudResets ==
    /\ cloudOwes /\ LockFree
    /\ ResetPlanner /\ cloudOwes' = FALSE
    /\ UNCHANGED <<rt, plan, job, rpcStuck, event, caller, out>>

InputArrives(s, good, near) ==
    /\ rt' = IF s = "odom" THEN AcceptedOdom(rt, good, near) ELSE Accepted(rt, s, good)
    /\ event' = TRUE
    /\ UNCHANGED <<plan, history, ego, job, rpcStuck, caller, cloudOwes, out>>

\* A context that changes resets the planner if nobody is using it.
ContextArrives(request, good, moved) ==
    /\ rt' = AcceptedContext(rt, request, good, moved) /\ event' = TRUE
    /\ IF rt'.context # rt.context /\ LockFree THEN ResetPlanner
                                               ELSE UNCHANGED <<history, ego>>
    /\ UNCHANGED <<plan, job, rpcStuck, caller, cloudOwes, out>>

Watchdog ==
    /\ ~SnapshotPossible(rt) /\ LockFree
    /\ ResetPlanner
    /\ UNCHANGED <<rt, plan, job, rpcStuck, event, caller, cloudOwes, out>>

\* A source, or the oldest cloud and the references made from it, expires.
Expire ==
    /\ \/ \E s \in Sources : rt.fresh[s] /\ rt' = [rt EXCEPT !.fresh[s] = FALSE]
       \/ rt.old < rt.cloud /\ rt' = [rt EXCEPT !.old = @ + 1]
    /\ UNCHANGED <<plan, history, ego, job, rpcStuck, event, caller, cloudOwes, out>>

-----------------------------------------------------------------------------
Init ==
    /\ rt = InitialRuntime /\ plan = Planning /\ history = 0 /\ ego = FreshEgo
    /\ job = NoJob /\ rpcStuck = FALSE /\ event = FALSE /\ cloudOwes = FALSE
    /\ caller = [c \in Callers |-> Idle]
    /\ out = 0

PlanStep ==
    \/ PlanWakes \/ PlanPoll
    \/ \E samples \in {"matched", "skewed", "moved"} : PlanSnapshot(samples)
    \/ (\E ok \in BOOLEAN : PlanPrepare(ok)) \/ (\E safe \in BOOLEAN : PlanCheck(safe))
    \/ PlanPublish \/ PlanLeave
JobStep ==
    \/ \E result \in {"ok", "expired", "error"} : JobFinishes(result, FALSE)
    \/ JobFinishes("error", TRUE)
    \/ JobWakes \/ RpcReturns
CallerStep == \E c \in Callers :
    \/ \E request \in Requests : CommandGoal(c, request) \/ CommandCancel(c, request)
    \/ \E ok \in BOOLEAN : CommandTransformed(c, ok)
    \/ CommandResets(c)
InputStep ==
    \/ \E good \in BOOLEAN : CloudArrives(good)
    \/ CloudResets \/ Watchdog \/ Expire
    \/ \E s \in Sources, good, near \in BOOLEAN :
           /\ s = "controller" => ~RequireContext
           /\ near => good /\ s = "odom"
           /\ InputArrives(s, good, near)
    \/ RequireContext /\ ContextArrives(Nobody, FALSE, FALSE)
    \/ \E request \in Requests, moved \in BOOLEAN :
           RequireContext /\ ContextArrives(request, TRUE, moved)

Next == PlanStep \/ JobStep \/ CallerStep \/ InputStep

Spec == Init /\ [][Next]_vars

-----------------------------------------------------------------------------
(* Properties. *)

\* A goal in force is the newest one ever reserved, whatever older transforms
\* complete later, and it belongs to the context the controller holds.
ActiveIsNewest ==
    rt.active # NoGoal =>
        /\ rt.active.stamp = rt.seen
        /\ RequireContext => rt.active.request = rt.context

\* The planner's history is that of a target it published: an unpublished one
\* never counts as a command, whichever way the attempt ended.
HistoryIsPublished ==
    plan.at \in {"waiting", "snapshot"} => history \in {0, out}

\* A target leaves the node for the goal in force, checked on the latest cloud
\* while every input is fresh; no target for a cloud follows one for a newer cloud.
\* Cancellations, new goals, contexts and clouds may come at any point of the planning.
\* "A failure/new generation arriving during the last cloud check cannot race a
\* cached reference back onto the target stream" (ego_worker.py:70): the reference it
\* follows was computed for this very goal, has not expired, and no planning error
\* has revoked it since.
PublishesForGoalInForce ==
    [][out' # out => /\ plan.token.goal = rt.active /\ AllFresh(rt)
                     /\ out' = rt.cloud /\ out' > out
                     /\ ~ego.error /\ plan.ref > rt.old
                     /\ [stamp |-> plan.ref, goal |-> rt.active] \in ego.issued]_vars
=============================================================================
