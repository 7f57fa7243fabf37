-------------------------- MODULE Navigation_proof --------------------------
(***************************************************************************)
(* Proofs about Navigation for every value of its constants: any number of *)
(* command threads, goals, clouds and remembered references.               *)
(*                                                                         *)
(* The inductive invariant has one part for each owner of state: the       *)
(* runtime's goal is the newest (RuntimeGood), the planning attempt is for *)
(* that goal as long as its snapshot is in use (AttemptOnGoal), the        *)
(* planner's history is what the attempt has to restore (HistoryFollows),  *)
(* and the reference worker remembers references of one goal (EgoGood).    *)
(***************************************************************************)
EXTENDS Navigation, TLAPS

GoalStates == [request : Requests \cup {Nobody}, stamp : Nat]
TokenStates == [goal : GoalStates, cloud : Nat]
Snapshots == {"usable", "moved", "gone"}
RuntimeStates ==
    [fresh : [Sources -> BOOLEAN], valid : BOOLEAN, cloud : Nat, old : Nat,
     context : Requests \cup {Nobody}, active : GoalStates, pending : GoalStates,
     seen : Nat, snapshot : Snapshots]
Attempting == {"polling", "preparing", "checking", "publishing"}
PlanStates ==
    [at : {"waiting", "snapshot", "leaving"} \cup Attempting, token : TokenStates,
     ref : Nat, error : BOOLEAN, tries : Nat, saved : Nat]
References == [stamp : Nat, goal : GoalStates]
EgoStates ==
    [key : GoalStates, busy : BOOLEAN, last : Nat, ref : Nat, error : BOOLEAN,
     issued : SUBSET References]
JobStates == [key : GoalStates, stamp : Nat, at : {"none", "executing", "waking"}]
CallerStates == [at : {"idle", "transforming", "resetting"}, goal : GoalStates]

-----------------------------------------------------------------------------
(* The runtime: each of its calls keeps the newest goal, and none leaves a    *)
(* snapshot in use for another goal.                                          *)

RuntimeGood(r) ==
    /\ r \in RuntimeStates
    /\ r.active # NoGoal => /\ r.active.stamp = r.seen
                            /\ RequireContext => r.active.request = r.context
    /\ r.pending # NoGoal => r.pending.stamp = r.seen

\* A snapshot that is still in use after a call was in use before it, for the
\* same goal.
Outlives(r, q) == q.snapshot # "gone" => r.snapshot # "gone" /\ q.active = r.active

\* No goal is a goal.
LEMMA NoGoalType == NoGoal \in GoalStates /\ NoToken \in TokenStates
BY DEF NoGoal, NoToken, GoalStates, TokenStates

\* _bump keeps the goals and ends the snapshot.
LEMMA BumpedGood ==
    ASSUME NEW r, RuntimeGood(r)
    PROVE  RuntimeGood(Bumped(r)) /\ Outlives(r, Bumped(r))
BY DEF RuntimeGood, RuntimeStates, Snapshots, Bumped, Outlives

\* Taking a snapshot keeps the goals.
LEMMA SnappedGood ==
    ASSUME NEW r, RuntimeGood(r)
    PROVE  /\ RuntimeGood(Snapped(r)) /\ Snapped(r).active = r.active
           /\ Snapped(r).snapshot = "usable" /\ Snapped(r).cloud = r.cloud
BY DEF RuntimeGood, RuntimeStates, Snapshots, Snapped

\* Dropping both goals is always consistent, and ends the snapshot.
LEMMA GoalDroppedGood ==
    ASSUME NEW r, RuntimeGood(r)
    PROVE  /\ RuntimeGood(GoalDropped(r)) /\ Outlives(r, GoalDropped(r))
           /\ GoalDropped(r).active = NoGoal /\ GoalDropped(r).pending = NoGoal
           /\ GoalDropped(r).seen = r.seen /\ GoalDropped(r).context = r.context
           /\ GoalDropped(r).snapshot = "gone"
BY NoGoalType DEF RuntimeGood, RuntimeStates, Snapshots, GoalDropped, Bumped, Outlives

\* An input of any source keeps the goals, and odometry never brings a
\* snapshot back.
LEMMA AcceptedGood ==
    ASSUME NEW r, RuntimeGood(r), NEW s \in Sources, NEW good \in BOOLEAN,
           NEW near \in BOOLEAN
    PROVE  /\ RuntimeGood(Accepted(r, s, good)) /\ Outlives(r, Accepted(r, s, good))
           /\ Accepted(r, s, good).active = r.active
           /\ Accepted(r, s, good).pending = r.pending
           /\ Accepted(r, s, good).context = r.context
           /\ RuntimeGood(AcceptedOdom(r, good, near)) /\ Outlives(r, AcceptedOdom(r, good, near))
<1> DEFINE b == IF good THEN r ELSE Bumped(r)
           a == [b EXCEPT !.fresh[s] = good]
<1>1. RuntimeGood(b) /\ Outlives(r, b) /\ b.active = r.active /\ b.pending = r.pending
      /\ b.context = r.context
  BY BumpedGood DEF Outlives, Bumped, RuntimeGood, RuntimeStates
<1> HIDE DEF b
<1>2. /\ RuntimeGood(a) /\ Outlives(b, a) /\ a.active = b.active /\ a.pending = b.pending
      /\ a.context = b.context
  BY <1>1 DEF RuntimeGood, RuntimeStates, Outlives
<1>3. RuntimeGood(Accepted(r, s, good)) /\ Outlives(r, Accepted(r, s, good))
      /\ Accepted(r, s, good).active = r.active
      /\ Accepted(r, s, good).pending = r.pending
      /\ Accepted(r, s, good).context = r.context
  BY <1>1, <1>2 DEF Accepted, Outlives, b
<1> HIDE DEF a
<1> DEFINE odom == [b EXCEPT !.fresh["odom"] = good]
           o == [odom EXCEPT !.snapshot =
                    IF @ = "gone" THEN @ ELSE IF near THEN "usable" ELSE "moved"]
<1>4. RuntimeGood(odom) /\ Outlives(b, odom)
  BY <1>1 DEF RuntimeGood, RuntimeStates, Outlives
<1>5. Accepted(r, "odom", good) = odom BY DEF Accepted, b
<1> HIDE DEF odom
<1>6. RuntimeGood(o) /\ Outlives(odom, o)
  BY <1>4 DEF RuntimeGood, RuntimeStates, Snapshots, Outlives
<1> QED BY <1>1, <1>3, <1>4, <1>5, <1>6 DEF AcceptedOdom, Outlives

\* A cloud keeps the goals and ends the snapshot.
LEMMA AcceptedCloudGood ==
    ASSUME NEW r, RuntimeGood(r), NEW good \in BOOLEAN
    PROVE  RuntimeGood(AcceptedCloud(r, good)) /\ Outlives(r, AcceptedCloud(r, good))
<1> DEFINE b == Bumped(r)
           stamp == IF good THEN r.cloud + 1 ELSE r.cloud
           q == [b EXCEPT !.valid = good, !.cloud = stamp]
<1>1. RuntimeGood(b) /\ Outlives(r, b) /\ b.cloud = r.cloud
  BY BumpedGood DEF Bumped, RuntimeGood, RuntimeStates
<1>2. stamp \in Nat BY DEF RuntimeGood, RuntimeStates
<1> HIDE DEF b, stamp
<1>3. RuntimeGood(q) /\ Outlives(b, q)
  BY <1>1, <1>2 DEF RuntimeGood, RuntimeStates, Outlives
<1>4. AcceptedCloud(r, good) = q
  BY <1>1 DEF AcceptedCloud, RuntimeGood, RuntimeStates, b, stamp
<1> QED BY <1>1, <1>3, <1>4 DEF Outlives

\* A context of another request, or with another reference height, drops the
\* goals, so the goal in force always belongs to the context.
LEMMA AcceptedContextGood ==
    ASSUME NEW r, RuntimeGood(r), NEW request \in Requests \cup {Nobody},
           NEW good \in BOOLEAN, NEW moved \in BOOLEAN
    PROVE  LET q == AcceptedContext(r, request, good, moved)
           IN  RuntimeGood(q) /\ Outlives(r, q)
<1> DEFINE id == IF good THEN request ELSE Nobody
           a == Accepted(r, "controller", good)
           d == IF id # r.context \/ ~good \/ moved THEN GoalDropped(a) ELSE a
           q == [d EXCEPT !.context = id]
<1>1. /\ RuntimeGood(a) /\ Outlives(r, a) /\ a.active = r.active /\ a.context = r.context
      /\ id \in Requests \cup {Nobody}
  BY AcceptedGood, RuntimeAssumption
<1> HIDE DEF a
<1>2. /\ RuntimeGood(d) /\ Outlives(a, d)
      /\ id # r.context => d.active = NoGoal
      /\ id = r.context => d.context = id
  BY <1>1, GoalDroppedGood DEF Outlives
<1> HIDE DEF d, id
<1>3. RuntimeGood(q) /\ Outlives(d, q)
  BY <1>1, <1>2 DEF RuntimeGood, RuntimeStates, Outlives
<1> QED BY <1>1, <1>2, <1>3 DEF AcceptedContext, Outlives, a, d, id

\* Reserving, completing, aborting and cancelling a goal: only the newest
\* reservation is ever completed, and in the context it was made for.
LEMMA GoalCallsGood ==
    ASSUME NEW r, RuntimeGood(r), NEW request \in Requests \cup {Nobody},
           NEW token \in GoalStates
    PROVE  /\ RuntimeGood(GoalBegun(r, request)) /\ Outlives(r, GoalBegun(r, request))
           /\ GoalBegun(r, request).pending \in GoalStates
           /\ GoalCompletes(r, token) =>
                /\ RuntimeGood(GoalCompleted(r, token))
                /\ Outlives(r, GoalCompleted(r, token))
           /\ RuntimeGood(GoalAborted(r, token)) /\ Outlives(r, GoalAborted(r, token))
           /\ RuntimeGood(Cancelled(r, request)) /\ Outlives(r, Cancelled(r, request))
<1> DEFINE d == GoalDropped(r)
           g == [request |-> request, stamp |-> r.seen + 1]
           begun == [d EXCEPT !.seen = @ + 1, !.pending = g]
           done == [d EXCEPT !.active = token]
           b == Bumped(r)
           aborted == [b EXCEPT !.pending = NoGoal]
<1>1. /\ RuntimeGood(d) /\ Outlives(r, d) /\ d.active = NoGoal /\ d.pending = NoGoal
      /\ d.seen = r.seen /\ d.context = r.context /\ d.snapshot = "gone"
  BY GoalDroppedGood
<1>2. g \in GoalStates /\ r.seen \in Nat
  BY DEF RuntimeGood, RuntimeStates, GoalStates
<1> HIDE DEF d
<1>3. RuntimeGood(begun) /\ Outlives(d, begun) /\ begun.pending = g
  <2>1. r.seen + 1 \in Nat /\ g.stamp = r.seen + 1 BY <1>2
  <2> HIDE DEF g
  <2>2. begun \in RuntimeStates
    BY <1>1, <1>2, <2>1 DEF RuntimeGood, RuntimeStates
  <2>3. /\ begun.active = NoGoal /\ begun.pending = g /\ begun.seen = r.seen + 1
        /\ begun.snapshot = "gone"
    BY <1>1 DEF RuntimeGood, RuntimeStates
  <2> QED BY <2>1, <2>2, <2>3 DEF RuntimeGood, Outlives
<1>4. GoalCompletes(r, token) => RuntimeGood(done) /\ Outlives(d, done)
  BY <1>1 DEF RuntimeGood, RuntimeStates, Outlives, GoalCompletes, ContextAllows
<1>5. RuntimeGood(b) /\ Outlives(r, b) BY BumpedGood
<1> HIDE DEF b
<1>6. RuntimeGood(aborted) /\ Outlives(b, aborted)
  BY <1>5, NoGoalType DEF RuntimeGood, RuntimeStates, Outlives
<1>7. RuntimeGood(GoalBegun(r, request)) /\ Outlives(r, GoalBegun(r, request))
      /\ GoalBegun(r, request).pending \in GoalStates
  BY <1>1, <1>2, <1>3 DEF GoalBegun, Outlives, d
<1>8. GoalCompletes(r, token) => /\ RuntimeGood(GoalCompleted(r, token))
                                 /\ Outlives(r, GoalCompleted(r, token))
  BY <1>1, <1>4 DEF GoalCompleted, Outlives, d
<1>9. RuntimeGood(GoalAborted(r, token)) /\ Outlives(r, GoalAborted(r, token))
  BY <1>5, <1>6 DEF GoalAborted, Outlives, b
<1>10. RuntimeGood(Cancelled(r, request)) /\ Outlives(r, Cancelled(r, request))
  BY <1>1 DEF Cancelled, Outlives, d
<1> QED BY <1>7, <1>8, <1>9, <1>10

\* An expiry, of a source or of the oldest cloud, keeps the goals.
LEMMA ExpiredGood ==
    ASSUME NEW r, RuntimeGood(r), NEW s \in Sources
    PROVE  /\ RuntimeGood([r EXCEPT !.fresh[s] = FALSE])
           /\ Outlives(r, [r EXCEPT !.fresh[s] = FALSE])
           /\ RuntimeGood([r EXCEPT !.old = @ + 1]) /\ Outlives(r, [r EXCEPT !.old = @ + 1])
<1> DEFINE stale == [r EXCEPT !.fresh[s] = FALSE]
           aged == [r EXCEPT !.old = @ + 1]
<1>1. RuntimeGood(stale) /\ Outlives(r, stale)
  BY DEF RuntimeGood, RuntimeStates, Outlives
<1>2. RuntimeGood(aged) /\ Outlives(r, aged)
  <2>1. r.old + 1 \in Nat BY DEF RuntimeGood, RuntimeStates
  <2> QED BY <2>1 DEF RuntimeGood, RuntimeStates, Outlives
<1> QED BY <1>1, <1>2

-----------------------------------------------------------------------------
(* The planning attempt and the reference worker. *)

\* As long as the snapshot is in use, the attempt is for the goal in force.
AttemptOnGoal ==
    plan.at \in Attempting /\ rt.snapshot # "gone" => plan.token.goal = rt.active

\* Whoever leaves the planner restores what was published, and what waits to be
\* published is newer and already in the planner's history.
HistoryFollows ==
    /\ IF LockFree THEN history \in {0, out} ELSE plan.saved \in {0, out}
    /\ plan.at = "publishing" => history = plan.token.cloud /\ plan.token.cloud > out

\* All the references the worker remembers were computed for its goal.
EgoGood(e) == e \in EgoStates /\ \A i \in e.issued : i.goal = e.key

TypesRight ==
    /\ plan \in PlanStates /\ history \in Nat /\ out \in Nat /\ job \in JobStates
    /\ caller \in [Callers -> CallerStates]

Consistent ==
    /\ RuntimeGood(rt) /\ EgoGood(ego) /\ TypesRight
    /\ AttemptOnGoal /\ HistoryFollows

\* reset forgets the references along with the goal.
LEMMA EgoResetGood ==
    ASSUME NEW e, EgoGood(e), NEW goal \in GoalStates
    PROVE  EgoGood(EgoReset(e)) /\ EgoGood([EgoReset(e) EXCEPT !.key = goal])
<1> DEFINE r == EgoReset(e)
<1>1. r \in EgoStates /\ r.issued = {}
  <2>1. e.busy \in BOOLEAN BY DEF EgoGood, EgoStates
  <2>2. FreshEgo \in EgoStates /\ FreshEgo.issued = {}
    BY NoGoalType DEF EgoStates, FreshEgo, NoRef
  <2> QED BY <2>1, <2>2 DEF EgoStates, EgoReset
<1> HIDE DEF r
<1>2. EgoGood(r) BY <1>1 DEF EgoGood
<1>3. EgoGood([r EXCEPT !.key = goal]) BY <1>1 DEF EgoGood, EgoStates
<1> QED BY <1>2, <1>3 DEF r

\* A result is remembered only for the goal the worker still has.
LEMMA FinishedGood ==
    ASSUME NEW e, EgoGood(e), job \in JobStates,
           NEW result \in {"ok", "expired", "error"}
    PROVE  EgoGood(Finished(e, result))
<1> DEFINE all == {i \in e.issued : i.stamp # job.stamp} \cup {[stamp |-> job.stamp, goal |-> job.key]}
           kept == Remembered(e.issued)
           dropped == [e EXCEPT !.busy = FALSE]
           ok == [e EXCEPT !.busy = FALSE, !.ref = job.stamp, !.issued = kept]
           failed == [e EXCEPT !.busy = FALSE, !.error = TRUE, !.ref = NoRef]
<1>1. kept \subseteq all BY DEF Remembered
<1>2. [stamp |-> job.stamp, goal |-> job.key] \in References
  BY DEF JobStates, References
<1>3. all \subseteq References /\ (e.key = job.key => \A i \in all : i.goal = e.key)
  BY <1>2 DEF EgoGood, EgoStates
<1> HIDE DEF kept, all
<1>4. EgoGood(dropped) /\ EgoGood(failed)
  BY DEF EgoGood, EgoStates, NoRef
<1>5. e.key = job.key => EgoGood(ok)
  BY <1>1, <1>3 DEF EgoGood, EgoStates, JobStates
<1> HIDE DEF dropped, failed
<1>6. CASE e.key # job.key BY <1>4, <1>6 DEF Finished, dropped
<1>7. CASE e.key = job.key /\ result = "ok"
  <2>1. Finished(e, result) = ok
    BY <1>7 DEF Finished, kept
  <2> QED BY <1>5, <1>7, <2>1
<1>8. CASE e.key = job.key /\ result = "error"
  BY <1>4, <1>8 DEF Finished, failed
<1>9. CASE e.key = job.key /\ result = "expired"
  BY <1>4, <1>9 DEF Finished, dropped
<1> QED BY <1>6, <1>7, <1>8, <1>9

-----------------------------------------------------------------------------
(* Every step of the node keeps the invariant. *)

\* A step of a callback, a caller, the watchdog or the clock: it changes the
\* runtime by a call that no snapshot of another goal outlives, and the
\* planner only when nobody is using it.
LEMMA OutsideStep ==
    /\ Consistent
    /\ RuntimeGood(rt') /\ Outlives(rt, rt')
    /\ plan' = plan /\ out' = out /\ job' = job
    /\ caller' \in [Callers -> CallerStates]
    /\ (history' = history /\ ego' = ego) \/ (LockFree /\ ResetPlanner)
    => Consistent'
<1> SUFFICES ASSUME Consistent, RuntimeGood(rt'), Outlives(rt, rt'),
                    plan' = plan, out' = out, job' = job,
                    caller' \in [Callers -> CallerStates],
                    (history' = history /\ ego' = ego) \/ (LockFree /\ ResetPlanner)
             PROVE  Consistent'
  OBVIOUS
<1>1. EgoGood(ego')
  BY EgoResetGood, NoGoalType DEF Consistent, ResetPlanner
<1>2. TypesRight' BY DEF Consistent, TypesRight, ResetPlanner
<1>3. AttemptOnGoal' BY DEF Consistent, AttemptOnGoal, Outlives
<1>4. HistoryFollows'
  BY DEF Consistent, HistoryFollows, ResetPlanner, LockFree
<1> QED BY <1>1, <1>2, <1>3, <1>4 DEF Consistent

\* What a caller or a callback may do to the runtime, the planner and the caller.
LEMMA CallerGood == Consistent /\ CallerStep => Consistent'
<1> SUFFICES ASSUME Consistent, NEW c \in Callers,
                    \/ \E request \in Requests : CommandGoal(c, request) \/ CommandCancel(c, request)
                    \/ \E ok \in BOOLEAN : CommandTransformed(c, ok)
                    \/ CommandResets(c)
             PROVE  Consistent'
  BY DEF CallerStep
<1>0. /\ RuntimeGood(rt) /\ caller \in [Callers -> CallerStates] /\ caller[c].goal \in GoalStates
      /\ Outlives(rt, rt)
  BY DEF Consistent, TypesRight, CallerStates, Outlives
<1>1. Idle \in CallerStates /\ [Idle EXCEPT !.at = "resetting"] \in CallerStates
  BY NoGoalType DEF CallerStates, Idle
<1>2. ASSUME NEW request \in Requests, CommandGoal(c, request) PROVE Consistent'
  <2>1. rt' = GoalBegun(rt, request) BY <1>2 DEF CommandGoal
  <2>2. RuntimeGood(rt') /\ Outlives(rt, rt') /\ rt'.pending \in GoalStates
    BY <1>0, <2>1, GoalCallsGood
  <2>3. [at |-> "transforming", goal |-> rt'.pending] \in CallerStates
    BY <2>2 DEF CallerStates
  <2>4. caller' \in [Callers -> CallerStates] BY <1>0, <1>2, <2>3 DEF CommandGoal
  <2> QED BY <1>2, <2>2, <2>4, OutsideStep DEF CommandGoal
<1>3. ASSUME NEW request \in Requests, CommandCancel(c, request) PROVE Consistent'
  <2>1. RuntimeGood(rt') /\ Outlives(rt, rt')
    BY <1>0, <1>3, GoalCallsGood DEF CommandCancel
  <2>2. caller' \in [Callers -> CallerStates] BY <1>0, <1>1, <1>3 DEF CommandCancel
  <2> QED BY <1>3, <2>1, <2>2, OutsideStep DEF CommandCancel
<1>4. ASSUME NEW ok \in BOOLEAN, CommandTransformed(c, ok) PROVE Consistent'
  <2> DEFINE g == caller[c].goal
             done == ok /\ GoalCompletes(rt, g)
  <2>1. RuntimeGood(rt') /\ Outlives(rt, rt')
    <3>1. \/ rt' = rt \/ rt' = GoalAborted(rt, g)
          \/ GoalCompletes(rt, g) /\ rt' = GoalCompleted(rt, g)
      BY <1>4 DEF CommandTransformed
    <3> QED BY <1>0, <3>1, GoalCallsGood
  <2>2. [Idle EXCEPT !.at = IF done THEN "resetting" ELSE "idle"] \in CallerStates
    BY NoGoalType DEF CallerStates, Idle
  <2>3. caller' = [caller EXCEPT ![c] = [Idle EXCEPT !.at = IF done THEN "resetting" ELSE "idle"]]
    BY <1>4 DEF CommandTransformed
  <2>4. caller' \in [Callers -> CallerStates] BY <1>0, <2>2, <2>3
  <2> QED BY <1>4, <2>1, <2>4, OutsideStep DEF CommandTransformed
<1>5. CASE CommandResets(c)
  <2>1. caller' \in [Callers -> CallerStates] BY <1>0, <1>1, <1>5 DEF CommandResets
  <2> QED BY <1>0, <1>5, <2>1, OutsideStep DEF CommandResets
<1> QED BY <1>2, <1>3, <1>4, <1>5

\* Inputs, contexts, clouds, the watchdog and time keep the invariant.
LEMMA InputGood == Consistent /\ InputStep => Consistent'
<1> SUFFICES ASSUME Consistent, InputStep PROVE Consistent'
  OBVIOUS
<1>0. RuntimeGood(rt) /\ caller \in [Callers -> CallerStates] /\ Outlives(rt, rt)
  BY DEF Consistent, TypesRight, Outlives
<1>1. ASSUME NEW good \in BOOLEAN, CloudArrives(good) PROVE Consistent'
  BY <1>0, <1>1, AcceptedCloudGood, OutsideStep DEF CloudArrives
<1>2. CASE CloudResets
  BY <1>0, <1>2, OutsideStep DEF CloudResets
<1>3. ASSUME NEW s \in Sources, NEW good \in BOOLEAN, NEW near \in BOOLEAN,
             InputArrives(s, good, near)
      PROVE  Consistent'
  <2>1. rt' \in {AcceptedOdom(rt, good, near), Accepted(rt, s, good)}
    BY <1>3 DEF InputArrives
  <2>2. RuntimeGood(rt') /\ Outlives(rt, rt') BY <1>0, <2>1, AcceptedGood
  <2> QED BY <1>0, <1>3, <2>2, OutsideStep DEF InputArrives
<1>4. ASSUME NEW request \in Requests \cup {Nobody}, NEW good \in BOOLEAN,
             NEW moved \in BOOLEAN, ContextArrives(request, good, moved)
      PROVE  Consistent'
  <2>1. RuntimeGood(rt') /\ Outlives(rt, rt')
    BY <1>0, <1>4, AcceptedContextGood DEF ContextArrives
  <2>2. (history' = history /\ ego' = ego) \/ (LockFree /\ ResetPlanner)
    BY <1>4 DEF ContextArrives
  <2> QED BY <1>0, <1>4, <2>1, <2>2, OutsideStep DEF ContextArrives
<1>5. CASE Watchdog
  BY <1>0, <1>5, OutsideStep DEF Watchdog
<1>6. CASE Expire
  <2>1. RuntimeGood(rt') /\ Outlives(rt, rt')
    <3>1. CASE \E s \in Sources : rt.fresh[s] /\ rt' = [rt EXCEPT !.fresh[s] = FALSE]
      BY <1>0, <3>1, ExpiredGood
    <3>2. CASE rt.old < rt.cloud /\ rt' = [rt EXCEPT !.old = @ + 1]
      BY <1>0, <3>2, ExpiredGood, RuntimeAssumption
    <3> QED BY <1>6, <3>1, <3>2 DEF Expire
  <2> QED BY <1>0, <1>6, <2>1, OutsideStep DEF Expire
<1>7. CASE RequireContext /\ ContextArrives(Nobody, FALSE, FALSE) BY <1>4, <1>7
<1>8. CASE \E request \in Requests, moved \in BOOLEAN :
              RequireContext /\ ContextArrives(request, TRUE, moved)
  BY <1>4, <1>8
<1> QED BY <1>1, <1>2, <1>3, <1>5, <1>6, <1>7, <1>8 DEF InputStep

\* What the invariant says of a moment at which the planner is not in use, and
\* of one at which it is.
LEMMA AttemptTypes ==
    Consistent =>
        /\ Planning \in PlanStates /\ Leaving \in PlanStates
        /\ Leaving.saved = plan.saved /\ Leaving.at = "leaving"
        /\ [goal |-> rt.active, cloud |-> rt.cloud] \in TokenStates
        /\ [ego EXCEPT !.busy = FALSE, !.error = TRUE, !.ref = NoRef] \in EgoStates
BY NoGoalType DEF Consistent, TypesRight, RuntimeGood, RuntimeStates, PlanStates,
   TokenStates, Planning, Leaving, NoRef, EgoGood, EgoStates

\* What poll returns leaves the attempt for the same snapshot, or only the
\* clean-up.
LEMMA PolledGood ==
    ASSUME NEW e, EgoGood(e), Consistent, plan.at \in {"polling", "preparing"}
    PROVE  /\ Polled(e) \in PlanStates /\ Polled(e).saved = plan.saved
           /\ Polled(e).at \in {"checking", "leaving"}
           /\ Polled(e).at = "checking" => Polled(e).token = plan.token
<1> DEFINE ref == IF e.error THEN NoRef ELSE Current(e)
           checking == [plan EXCEPT !.at = "checking", !.error = e.error, !.ref = ref]
<1>1. plan \in PlanStates BY DEF Consistent, TypesRight
<1>2. e.error \in BOOLEAN /\ ref \in Nat
  BY DEF EgoGood, EgoStates, Current, NoRef
<1> HIDE DEF ref
<1>3. /\ checking \in PlanStates /\ checking.saved = plan.saved
      /\ checking.at = "checking" /\ checking.token = plan.token
  BY <1>1, <1>2 DEF PlanStates, Attempting
<1> HIDE DEF checking
<1>4. Polled(e) \in {checking, Leaving} BY DEF Polled, checking, ref
<1> QED BY <1>3, <1>4, AttemptTypes

\* Every step of the planning thread keeps the invariant.
LEMMA PlanGood == Consistent /\ PlanStep => Consistent'
<1> SUFFICES ASSUME Consistent, PlanStep PROVE Consistent'
  OBVIOUS
<1>0. /\ plan \in PlanStates /\ history \in Nat /\ out \in Nat /\ job \in JobStates
      /\ caller \in [Callers -> CallerStates] /\ RuntimeGood(rt) /\ EgoGood(ego)
  BY DEF Consistent, TypesRight
<1>1. CASE PlanWakes
  <2>1. plan' \in PlanStates /\ plan'.at = "snapshot"
    BY <1>0, <1>1 DEF PlanWakes, PlanStates
  <2> QED BY <1>0, <1>1, <2>1 DEF PlanWakes, Consistent, TypesRight, AttemptOnGoal,
             HistoryFollows, LockFree, Attempting
<1>2. ASSUME NEW samples, PlanSnapshot(samples) PROVE Consistent'
  <2> DEFINE token == [goal |-> rt.active, cloud |-> rt.cloud]
             polling == [Planning EXCEPT !.at = "polling", !.saved = history,
                                         !.token = token]
  <2>1. CASE SnapshotPossible(rt) /\ samples = "matched"
    <3>1. rt' = Snapped(rt) /\ plan' = polling /\ UNCHANGED <<history, ego, job, caller, out>>
      BY <1>2, <2>1 DEF PlanSnapshot
    <3>2. /\ polling \in PlanStates /\ polling.at = "polling" /\ polling.saved = history
          /\ polling.token.goal = rt.active
      BY <1>0, AttemptTypes DEF PlanStates, Planning, Attempting
    <3> HIDE DEF polling, token
    <3>3. history \in {0, out}
      BY <1>2 DEF PlanSnapshot, Consistent, HistoryFollows, LockFree
    <3> QED BY <1>0, <3>1, <3>2, <3>3, SnappedGood DEF Consistent, TypesRight,
               AttemptOnGoal, HistoryFollows, LockFree
  <2>2. CASE ~(SnapshotPossible(rt) /\ samples = "matched")
    <3>1. /\ plan' = Planning /\ rt' = rt /\ UNCHANGED <<job, caller, out>>
          /\ UNCHANGED <<history, ego>> \/ ResetPlanner
      BY <1>2, <2>2 DEF PlanSnapshot
    <3>2. Planning \in PlanStates /\ Planning.at = "waiting"
      BY AttemptTypes DEF Planning
    <3>3. EgoGood(ego') /\ history' \in {0, out}
      BY <1>0, <1>2, <3>1, EgoResetGood, NoGoalType
      DEF PlanSnapshot, ResetPlanner, Consistent, HistoryFollows, LockFree
    <3> QED BY <1>0, <3>1, <3>2, <3>3 DEF Consistent, TypesRight, AttemptOnGoal,
               HistoryFollows, LockFree, Attempting
  <2> QED BY <2>1, <2>2
<1>3. CASE PlanPoll
  <2> DEFINE stamp == plan.token.cloud
             fresh == [EgoReset(ego) EXCEPT !.key = plan.token.goal]
             e == IF ego.key = plan.token.goal THEN ego ELSE fresh
             asked == [e EXCEPT !.busy = TRUE, !.last = stamp]
             preparing == [plan EXCEPT !.at = "preparing"]
  <2>1. plan.token.goal \in GoalStates /\ stamp \in Nat
    BY <1>0 DEF PlanStates, TokenStates
  <2>2. EgoGood(e) BY <1>0, <2>1, EgoResetGood
  <2> HIDE DEF e
  <2>3. EgoGood(asked) BY <2>1, <2>2 DEF EgoGood, EgoStates
  <2>4. /\ preparing \in PlanStates /\ preparing.saved = plan.saved
        /\ preparing.token = plan.token /\ preparing.at = "preparing"
    BY <1>0 DEF PlanStates, Attempting
  <2>5. /\ UNCHANGED <<rt, history, job, caller, out>>
        /\ \/ plan' = Leaving /\ ego' = ego
           \/ plan' = Polled(e) /\ ego' = e
           \/ plan' = preparing /\ ego' = asked
    BY <1>3 DEF PlanPoll, e
  <2>6. plan.at = "polling" BY <1>3 DEF PlanPoll
  <2> HIDE DEF asked, preparing
  <2>7. /\ plan' \in PlanStates /\ plan'.saved = plan.saved /\ EgoGood(ego')
        /\ plan'.at \in {"checking", "preparing", "leaving"}
        /\ plan'.at \in Attempting => plan'.token = plan.token
    BY <1>0, <2>2, <2>3, <2>4, <2>5, <2>6, PolledGood, AttemptTypes DEF Attempting
  <2> QED BY <1>0, <2>5, <2>6, <2>7 DEF Consistent, TypesRight, AttemptOnGoal,
             HistoryFollows, LockFree, Attempting
<1>4. ASSUME NEW ok \in BOOLEAN, PlanPrepare(ok) PROVE Consistent'
  <2> DEFINE failed == [ego EXCEPT !.busy = FALSE, !.error = TRUE, !.ref = NoRef]
  <2>1. plan.at = "preparing" /\ UNCHANGED <<rt, history, caller, out>>
    BY <1>4 DEF PlanPrepare
  <2>2. EgoGood(failed) BY <1>0 DEF EgoGood, EgoStates, NoRef
  <2>3. EgoGood(ego') /\ plan' \in {Polled(ego), Polled(ego')}
    BY <1>0, <1>4, <2>2 DEF PlanPrepare
  <2>4. job' \in JobStates
    BY <1>0, <1>4 DEF PlanPrepare, JobStates, PlanStates, TokenStates
  <2>5. /\ plan' \in PlanStates /\ plan'.saved = plan.saved
        /\ plan'.at \in {"checking", "leaving"}
        /\ plan'.at = "checking" => plan'.token = plan.token
    BY <1>0, <2>1, <2>3, PolledGood
  <2> QED BY <1>0, <2>1, <2>3, <2>4, <2>5 DEF Consistent, TypesRight, AttemptOnGoal,
             HistoryFollows, LockFree, Attempting
<1>5. ASSUME NEW safe \in BOOLEAN, PlanCheck(safe) PROVE Consistent'
  <2> DEFINE token == [goal |-> rt.active, cloud |-> rt.cloud]
             publishing == [plan EXCEPT !.token = token, !.tries = @ + 1,
                                        !.at = "publishing"]
  <2>1. plan.at = "checking" /\ UNCHANGED <<ego, job, caller, out>>
    BY <1>5 DEF PlanCheck
  <2>2. /\ publishing \in PlanStates /\ publishing.saved = plan.saved
        /\ publishing.token = token /\ publishing.at = "publishing"
    <3>1. token \in TokenStates BY <1>0, AttemptTypes
    <3>2. plan \in PlanStates /\ plan.tries + 1 \in Nat BY <1>0 DEF PlanStates
    <3> HIDE DEF token
    <3> QED BY <3>1, <3>2 DEF PlanStates, Attempting
  <2>3. token.goal = rt.active /\ token.cloud = rt.cloud /\ token.cloud \in Nat
    BY <1>0 DEF RuntimeGood, RuntimeStates
  <2> HIDE DEF publishing, token
  <2>4. \/ /\ rt' = Snapped(rt) /\ history' = token.cloud /\ token.cloud > out
           /\ plan' \in {publishing, Leaving}
        \/ plan' = Leaving /\ rt' = rt /\ history' = history
    BY <1>5 DEF PlanCheck, token, publishing
  <2>5. RuntimeGood(rt') /\ rt'.active = rt.active
    BY <1>0, <2>4, SnappedGood
  <2>6. plan' \in PlanStates /\ plan'.saved = plan.saved
    BY <2>2, <2>4, AttemptTypes
  <2>7. TypesRight' /\ EgoGood(ego')
    BY <1>0, <2>1, <2>3, <2>4, <2>6 DEF TypesRight
  <2>8. AttemptOnGoal' /\ HistoryFollows'
    BY <2>1, <2>2, <2>3, <2>4, <2>5, <2>6, AttemptTypes
    DEF Consistent, AttemptOnGoal, HistoryFollows, LockFree, Attempting
  <2> QED BY <2>5, <2>7, <2>8 DEF Consistent
<1>6. CASE PlanPublish
  <2>1. plan.at = "publishing" /\ UNCHANGED <<ego, job, caller>>
    BY <1>6 DEF PlanPublish
  <2>2. CASE ReferenceStands /\ Revalidate(rt, plan.token)
    <3>1. /\ out' = plan.token.cloud /\ plan' = Planning /\ rt' = Bumped(rt)
          /\ history' = history
      BY <1>6, <2>2 DEF PlanPublish
    <3>2. Planning \in PlanStates /\ Planning.at = "waiting"
      BY AttemptTypes DEF Planning
    <3>3. plan.token.cloud \in Nat /\ history = plan.token.cloud
      BY <1>0, <2>1 DEF PlanStates, TokenStates, Consistent, HistoryFollows
    <3> QED BY <1>0, <2>1, <3>1, <3>2, <3>3, BumpedGood DEF Consistent, TypesRight,
               AttemptOnGoal, HistoryFollows, LockFree, Attempting
  <2>3. CASE ~(ReferenceStands /\ Revalidate(rt, plan.token))
    <3>1. /\ plan' = [plan EXCEPT !.at = "checking"] /\ history' = plan.saved
          /\ UNCHANGED <<rt, out>>
      BY <1>6, <2>3 DEF PlanPublish
    <3>2. /\ plan' \in PlanStates /\ plan'.at = "checking" /\ plan'.saved = plan.saved
          /\ plan'.token = plan.token /\ plan.saved \in Nat
      BY <1>0, <3>1 DEF PlanStates, Attempting
    <3> QED BY <1>0, <2>1, <3>1, <3>2 DEF Consistent, TypesRight,
               AttemptOnGoal, HistoryFollows, LockFree, Attempting
  <2> QED BY <2>2, <2>3
<1>7. CASE PlanLeave
  <2>1. /\ plan.at = "leaving" /\ history' = plan.saved /\ plan' = Planning
        /\ rt' = Bumped(rt) /\ UNCHANGED <<ego, job, caller, out>>
    BY <1>7 DEF PlanLeave
  <2>2. Planning \in PlanStates /\ Planning.at = "waiting" /\ plan.saved \in Nat
    BY <1>0, AttemptTypes DEF Planning, PlanStates
  <2> QED BY <1>0, <2>1, <2>2, BumpedGood DEF Consistent, TypesRight,
             AttemptOnGoal, HistoryFollows, LockFree, Attempting
<1> QED BY <1>1, <1>2, <1>3, <1>4, <1>5, <1>6, <1>7 DEF PlanStep

\* Every step of the worker's thread keeps the invariant.
LEMMA JobGood == Consistent /\ JobStep => Consistent'
<1> SUFFICES ASSUME Consistent, JobStep PROVE Consistent'
  OBVIOUS
<1>0. EgoGood(ego) /\ job \in JobStates BY DEF Consistent, TypesRight
<1>1. /\ UNCHANGED <<rt, plan, history, caller, out>>
      /\ \/ ego' = ego
         \/ \E result \in {"ok", "expired", "error"} : ego' = Finished(ego, result)
      /\ job' \in {job, NoJob, [NoJob EXCEPT !.at = "waking"]}
  BY DEF JobStep, JobFinishes, JobWakes, RpcReturns
<1>2. EgoGood(ego') BY <1>0, <1>1, FinishedGood
<1>3. NoJob \in JobStates /\ [NoJob EXCEPT !.at = "waking"] \in JobStates
  BY NoGoalType DEF JobStates, NoJob
<1>4. job' \in JobStates BY <1>0, <1>1, <1>3
<1> QED BY <1>1, <1>2, <1>4 DEF Consistent, TypesRight, AttemptOnGoal, HistoryFollows,
           LockFree

\* The invariant holds in every reachable state.
LEMMA ConsistentAlways == Spec => []Consistent
<1>1. Init => Consistent
  <2> SUFFICES ASSUME Init PROVE Consistent
    OBVIOUS
  <2>1. RuntimeGood(rt)
    BY NoGoalType DEF Init, InitialRuntime, RuntimeGood, RuntimeStates, Snapshots
  <2>2. EgoGood(ego)
    BY NoGoalType DEF Init, FreshEgo, EgoGood, EgoStates, NoRef
  <2>3. TypesRight
    BY NoGoalType DEF Init, TypesRight, Planning, PlanStates, NoJob, JobStates, Idle,
       CallerStates, NoRef
  <2>4. AttemptOnGoal /\ HistoryFollows
    BY DEF Init, Planning, AttemptOnGoal, HistoryFollows, LockFree, Attempting
  <2> QED BY <2>1, <2>2, <2>3, <2>4 DEF Consistent
<1>2. Consistent /\ [Next]_vars => Consistent'
  <2>1. Consistent /\ UNCHANGED vars => Consistent'
    BY DEF vars, Consistent, TypesRight, AttemptOnGoal, HistoryFollows, LockFree
  <2> QED BY <2>1, PlanGood, JobGood, CallerGood, InputGood DEF Next
<1> QED BY <1>1, <1>2, PTL DEF Spec

-----------------------------------------------------------------------------
(* The theorems. *)

\* However many transforms are under way, and in whichever order they complete,
\* the goal in force is the newest one reserved and belongs to the context.
THEOREM NewestGoal == Spec => []ActiveIsNewest
<1>1. Consistent => ActiveIsNewest
  BY DEF Consistent, RuntimeGood, ActiveIsNewest
<1> QED BY <1>1, ConsistentAlways, PTL

\* Whichever way an attempt ends, the planner's history is that of the last
\* published target, or empty.
THEOREM PublishedHistory == Spec => []HistoryIsPublished
<1>1. Consistent => HistoryIsPublished
  BY DEF Consistent, HistoryFollows, LockFree, HistoryIsPublished
<1> QED BY <1>1, ConsistentAlways, PTL

\* Only one step publishes, and only what still stands.
LEMMA OnlyPublishPublishes ==
    [Next]_vars /\ out' # out =>
        /\ plan.at = "publishing" /\ out' = plan.token.cloud
        /\ ReferenceStands /\ Revalidate(rt, plan.token)
<1> SUFFICES ASSUME [Next]_vars, out' # out PROVE PlanPublish
  BY DEF PlanPublish
<1>1. ~JobStep BY DEF JobStep, JobFinishes, JobWakes, RpcReturns
<1>2. ~CallerStep
  BY DEF CallerStep, CommandGoal, CommandTransformed, CommandCancel, CommandResets
<1>3. ~InputStep
  BY DEF InputStep, CloudArrives, CloudResets, InputArrives, ContextArrives, Watchdog, Expire
<1>4. PlanStep => PlanPublish
  BY DEF PlanStep, PlanWakes, PlanSnapshot, PlanPoll, PlanPrepare, PlanCheck, PlanLeave
<1> QED BY <1>1, <1>2, <1>3, <1>4 DEF Next, vars

\* Cancellations, new goals, contexts, clouds and expiries may come at any
\* point of an attempt: what is published is for the goal in force and the
\* latest cloud, with every input fresh, and follows a reference that was made for
\* this goal, has not expired and was not revoked by a planning error.
THEOREM PublishGoal == Spec => PublishesForGoalInForce
<1>1. Consistent /\ [Next]_vars =>
        [out' # out => /\ plan.token.goal = rt.active /\ AllFresh(rt)
                       /\ out' = rt.cloud /\ out' > out
                       /\ ~ego.error /\ plan.ref > rt.old
                       /\ [stamp |-> plan.ref, goal |-> rt.active] \in ego.issued]_vars
  <2> SUFFICES ASSUME Consistent, [Next]_vars, out' # out
               PROVE  /\ plan.token.goal = rt.active /\ AllFresh(rt)
                      /\ out' = rt.cloud /\ out' > out
                      /\ ~ego.error /\ plan.ref > rt.old
                      /\ [stamp |-> plan.ref, goal |-> rt.active] \in ego.issued
    OBVIOUS
  <2>1. /\ ReferenceStands /\ plan.token.goal = rt.active /\ AllFresh(rt)
        /\ out' = rt.cloud /\ out' > out
    BY OnlyPublishPublishes DEF Consistent, AttemptOnGoal, HistoryFollows, Revalidate,
       Attempting
  <2>2. PICK i \in ego.issued : i.stamp = plan.ref BY <2>1 DEF ReferenceStands, Issued
  <2>3. i \in References /\ i.goal = rt.active
    BY <2>1, <2>2 DEF Consistent, EgoGood, EgoStates, ReferenceStands
  <2>4. i = [stamp |-> plan.ref, goal |-> rt.active] BY <2>2, <2>3 DEF References
  <2> QED BY <2>1, <2>2, <2>4 DEF ReferenceStands
<1> QED BY <1>1, ConsistentAlways, PTL DEF Spec, PublishesForGoalInForce
=============================================================================
