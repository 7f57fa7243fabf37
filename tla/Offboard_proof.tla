--------------------------- MODULE Offboard_proof ---------------------------
(***************************************************************************)
(* Theorems about the process: three threads, their snapshots and queues,  *)
(* an operator and a flight controller, for every plan and every value of  *)
(* the constants.                                                          *)
(*                                                                         *)
(* The inductive invariant says what is under way between the threads.     *)
(* Handed bounds the requests that are, so that a new one gets a name no   *)
(* other has; Agreeing says that copies of intents, however old, are       *)
(* copies of what the task issued; Observed says what the vehicle does     *)
(* while the executor takes it to wait on the ground.                      *)
(***************************************************************************)
EXTENDS Offboard, ExecutorStages_proof, TaskStages_proof

Requests == [kind : ActionKinds \cup {"NONE"}, id : ActionIds \cup {0},
             generation : Nat, request : Nat]
Answers == [id : ActionIds \cup {0}, ok : BOOLEAN]
Messages == [points : Seq(Waypoints), sequence : BOOLEAN]

TaskLoops == [at : {"read", "tick", "load", "store"}, seen : FeedbackStates,
              command : Int]
ExecLoops == [at : {"load", "tick", "dispatch", "returned"}, seen : IntentStates,
              request : Requests]
Workers == [slot : Requests, stage : {"waiting", "calling", "skipping", "reporting"},
            request : Requests, ok : BOOLEAN]
Vehicles == [link : {"up", "lost", "stale"}, motion : BOOLEAN, grounded : BOOLEAN,
             armed : BOOLEAN, mode : Modes, todo : ActionKinds \cup {"NONE"}]
Inputs == [plan : Plans, command : Int, written : Nat, pending : Seq(Messages),
           arrived : Nat, faults : Nat]

Typed ==
    /\ Good(exec) /\ GoodTask(task)
    /\ intent \in IntentStates /\ feedback \in FeedbackStates
    /\ taskLoop \in TaskLoops /\ execLoop \in ExecLoops
    /\ worker \in Workers /\ results \in Seq(Answers)
    /\ vehicle \in Vehicles /\ input \in Inputs

\* Each request under way is in one place, and there are at most three.
One(p) == IF p THEN 1 ELSE 0
UnderWay == One(worker.slot # NoRequest) + One(worker.stage # "waiting") + Len(results)

Handed ==
    /\ execLoop.at # "dispatch" => execLoop.request = NoRequest
    /\ worker.stage = "waiting" => worker.request = NoRequest
    /\ UnderWay <= 3
    /\ execLoop.at = "dispatch" => UnderWay <= 2
    /\ taskLoop.at = "load" => input.pending # <<>>

\* Copies of one intent, stamps apart.
Like(i, j) == /\ i.id = j.id /\ i.kind = j.kind /\ i.target = j.target
              /\ i.generation = j.generation

\* Of a set of intents none is later than c, and those with one name are alike.
Agreeing(c, S) ==
    \A i, j \in S : /\ i.id <= c.id /\ i.generation <= c.generation
                    /\ i.id = j.id => Like(i, j)

\* NoIntent is where every loop starts.
Copies == {task.intent, intent, execLoop.seen, exec.accepted, NoIntent}

\* A disarmed vehicle is on the ground, none is armed in a landing mode but
\* under a landing or an error, and none in the air waits on the ground.
Observed ==
    /\ ~vehicle.armed => vehicle.grounded
    /\ vehicle.todo = "ARM" => vehicle.mode # "AUTO.LAND"
    /\ vehicle.armed /\ (vehicle.mode = "AUTO.LAND" \/ vehicle.todo = "SET_LAND")
            => Landing(exec) \/ exec.phase = "ERROR"
    /\ IdleIsNotAirborne

Inv == Typed /\ Handed /\ RequestIsOnItsWay /\ Agreeing(task.intent, Copies) /\ Observed

\* What the executor reports about being near a target is on record.
Reported ==
    \A f \in {feedback, taskLoop.seen} :
        /\ f.phase = "GUIDING" /\ f.sensors.near => f.id \in reached
        /\ f.id <= task.intent.id

-----------------------------------------------------------------------------
(* Copies of intents. *)

\* Intents that agree go on agreeing when the task issues a later one and the
\* copies are taken from it or from one another.
LEMMA AgreeingStep ==
    ASSUME NEW c, NEW d, NEW S, NEW T, Agreeing(c, S), c \in S,
           \A i \in S \cup {d} : i.id \in Nat /\ i.generation \in Nat,
           Succeeds(c, d), \A i \in T : Like(i, d) \/ \E j \in S : Like(i, j)
    PROVE  Agreeing(d, T)
<1> SUFFICES ASSUME NEW i \in T, NEW j \in T
             PROVE  /\ i.id <= d.id /\ i.generation <= d.generation
                    /\ i.id = j.id => Like(i, j)
  BY DEF Agreeing
<1>1. \A k \in S : /\ k.id <= d.id /\ k.generation <= d.generation
                   /\ k.id = d.id => Like(k, d)
  BY DEF Agreeing, Succeeds, Like
<1>2. i.id <= d.id /\ i.generation <= d.generation
  BY <1>1 DEF Like
<1>3. ASSUME i.id = j.id PROVE Like(i, j)
  <2>1. CASE Like(i, d) /\ Like(j, d) BY <2>1 DEF Like
  <2>2. CASE Like(i, d) /\ \E k \in S : Like(j, k)
    BY <1>1, <1>3, <2>2 DEF Like
  <2>3. CASE Like(j, d) /\ \E k \in S : Like(i, k)
    BY <1>1, <1>3, <2>3 DEF Like
  <2>4. CASE (\E k \in S : Like(i, k)) /\ (\E k \in S : Like(j, k))
    <3>1. PICK k \in S, l \in S : Like(i, k) /\ Like(j, l) BY <2>4
    <3>2. k.id = l.id BY <1>3, <3>1 DEF Like
    <3>3. Like(k, l) BY <3>2 DEF Agreeing
    <3> QED BY <3>1, <3>3 DEF Like
  <2> QED BY <2>1, <2>2, <2>3, <2>4
<1> QED BY <1>2, <1>3

\* An intent and its copies have their types, and the clock does not tell a
\* copy from another.
LEMMA CopyTypes ==
    Typed => /\ task.intent \in IntentStates /\ execLoop.seen \in IntentStates
             /\ exec.accepted \in IntentStates /\ NoIntent \in IntentStates
             /\ exec \in ExecStates
             /\ \A i \in Copies : i.id \in Nat /\ i.generation \in Nat
<1> SUFFICES ASSUME Typed
             PROVE  /\ task.intent \in IntentStates /\ execLoop.seen \in IntentStates
                    /\ exec.accepted \in IntentStates /\ NoIntent \in IntentStates
                    /\ exec \in ExecStates
                    /\ \A i \in Copies : i.id \in Nat /\ i.generation \in Nat
  OBVIOUS
<1>1. /\ task.intent \in IntentStates /\ execLoop.seen \in IntentStates
      /\ exec.accepted \in IntentStates /\ intent \in IntentStates /\ exec \in ExecStates
  BY DEF Typed, GoodTask, TaskStates, Good, ExecStates, ExecLoops
<1>2. NoIntent \in IntentStates
  BY TaskDomains DEF NoIntent, IntentStates, IntentKinds
<1>3. \A i \in Copies : i \in IntentStates BY <1>1, <1>2 DEF Copies
<1> QED BY <1>1, <1>2, <1>3 DEF IntentStates

\* What a step has to show of the copies it makes.
LEMMA CopiesStep ==
    /\ Typed /\ Typed' /\ Agreeing(task.intent, Copies)
    /\ Succeeds(task.intent, task'.intent)
    /\ \A i \in {intent', execLoop'.seen, exec'.accepted} :
            Like(i, task'.intent) \/ \E j \in Copies : Like(i, j)
    => Agreeing(task.intent, Copies)'
<1> SUFFICES ASSUME Typed, Typed', Agreeing(task.intent, Copies),
                    Succeeds(task.intent, task'.intent),
                    \A i \in {intent', execLoop'.seen, exec'.accepted} :
                        Like(i, task'.intent) \/ \E j \in Copies : Like(i, j)
             PROVE  Agreeing(task'.intent, Copies')
  OBVIOUS
<1>1. \A i \in Copies \cup {task'.intent} : i.id \in Nat /\ i.generation \in Nat
  <2>1. task'.intent \in IntentStates BY DEF Typed, GoodTask, TaskStates
  <2> QED BY <2>1, CopyTypes DEF IntentStates
<1>2. task.intent \in Copies /\ NoIntent \in Copies BY DEF Copies
<1>3. \A i \in Copies' : Like(i, task'.intent) \/ \E j \in Copies : Like(i, j)
  <2>1. Like(task'.intent, task'.intent) /\ Like(NoIntent, NoIntent) BY DEF Like
  <2>2. Copies' = {task'.intent, intent', execLoop'.seen, exec'.accepted, NoIntent}
    BY DEF Copies
  <2> QED BY <1>2, <2>1, <2>2
<1> HIDE DEF Copies
<1> QED BY <1>1, <1>2, <1>3, AgreeingStep

\* Copies that only grow older go on agreeing.
LEMMA CopiesKept ==
    /\ Typed /\ Typed' /\ Agreeing(task.intent, Copies)
    /\ Like(task'.intent, task.intent) /\ Like(intent', intent)
    /\ Like(execLoop'.seen, execLoop.seen) \/ Like(execLoop'.seen, NoIntent)
    /\ Like(exec'.accepted, exec.accepted)
    => Agreeing(task.intent, Copies)'
<1> SUFFICES ASSUME Typed, Typed', Agreeing(task.intent, Copies),
                    Like(task'.intent, task.intent), Like(intent', intent),
                    Like(execLoop'.seen, execLoop.seen) \/ Like(execLoop'.seen, NoIntent),
                    Like(exec'.accepted, exec.accepted)
             PROVE  Agreeing(task.intent, Copies)'
  OBVIOUS
<1>1. Succeeds(task.intent, task'.intent)
  <2>1. task.intent.id \in Nat /\ task.intent.generation \in Nat
    BY CopyTypes DEF IntentStates
  <2> QED BY <2>1 DEF Like, Succeeds
<1>2. /\ intent \in Copies /\ execLoop.seen \in Copies /\ exec.accepted \in Copies
      /\ NoIntent \in Copies
  BY DEF Copies
<1> QED BY <1>1, <1>2, CopiesStep

\* An intent is a copy of itself.
LEMMA LikeItself == \A i : Like(i, i)
BY DEF Like

-----------------------------------------------------------------------------
(* The invariant holds when the process starts. *)

\* The values that stand for nothing have the types of the things.
LEMMA NothingTypes ==
    NoRequest \in Requests /\ NoFeedback \in FeedbackStates /\ NoIntent \in IntentStates
<1>1. NoRequest \in Requests BY DEF NoRequest, Requests
<1>2. NoIntent \in IntentStates BY TaskDomains DEF NoIntent, IntentStates, IntentKinds
<1>3. NoFeedback \in FeedbackStates
  BY TaskDomains DEF NoFeedback, FeedbackStates, SensorStates, Phases, Modes
<1> QED BY <1>1, <1>2, <1>3

\* Whatever the plan, the process starts with no request and no intent.
LEMMA InitInv == Init => Inv
<1> SUFFICES ASSUME NEW plan \in Plans, Boot(plan) PROVE Inv
  BY DEF Init
<1>0. plan.mission \in Seq(Waypoints) /\ plan.command \in Int
  BY OffboardAssumption
<1>1. GoodTask(task) /\ SameIntent(InitialTask, task)
  <2>1. InitialTask.phase # "GUIDING" BY DEF InitialTask
  <2>2. task = LoadOf(InitialTask, plan.mission, TRUE) BY DEF Boot
  <2> QED BY <1>0, <2>1, <2>2, InitialTaskGood, LoadKeeps
<1>2. Typed
  <2>1. Good(exec) /\ exec = InitialExec BY InitialGood DEF Boot
  <2>2. taskLoop \in TaskLoops /\ execLoop \in ExecLoops /\ worker \in Workers
    BY NothingTypes DEF Boot, TaskLoops, ExecLoops, Workers, None
  <2>3. vehicle \in Vehicles BY DEF Boot, Vehicles, Modes
  <2>4. input \in Inputs
    <3>1. input = [plan |-> plan, command |-> plan.command, written |-> 0,
                   pending |-> <<>>, arrived |-> 0, faults |-> 0]
      BY DEF Boot
    <3>2. <<>> \in Seq(Messages) OBVIOUS
    <3> QED BY <1>0, <3>1, <3>2 DEF Inputs
  <2>5. results \in Seq(Answers) /\ intent \in IntentStates /\ feedback \in FeedbackStates
    BY NothingTypes DEF Boot
  <2> QED BY <1>1, <2>1, <2>2, <2>3, <2>4, <2>5 DEF Typed
<1>3. Handed BY DEF Boot, Handed, UnderWay, One
<1>4. RequestIsOnItsWay BY DEF Boot, InitialExec, RequestIsOnItsWay
<1>5. Agreeing(task.intent, Copies)
  <2>1. /\ intent = NoIntent /\ execLoop.seen = NoIntent /\ exec.accepted = NoIntent
        /\ InitialTask.intent = NoIntent
    BY DEF Boot, InitialExec, InitialTask
  <2>2. Like(task.intent, NoIntent) BY <1>1, <2>1 DEF SameIntent, Like
  <2>3. \A i \in Copies : Like(i, NoIntent) BY <2>1, <2>2 DEF Copies, Like
  <2>4. NoIntent.id = 0 /\ NoIntent.generation = 0 BY DEF NoIntent
  <2> HIDE DEF Copies
  <2> QED BY <2>2, <2>3, <2>4 DEF Agreeing, Like
<1>6. Observed BY DEF Boot, InitialExec, Observed, IdleIsNotAirborne
<1> QED BY <1>2, <1>3, <1>4, <1>5, <1>6 DEF Inv

-----------------------------------------------------------------------------
(* The task thread. *)

\* Reading the feedback and the parameter keeps the invariant.
LEMMA TaskReadInv == Inv /\ TaskRead => Inv'
<1> SUFFICES ASSUME Inv, TaskRead PROVE Inv'
  OBVIOUS
<1>1. Typed'
  <2>1. taskLoop' \in TaskLoops
    BY DEF Inv, Typed, TaskRead, TaskLoops, Inputs
  <2> QED BY <2>1 DEF Inv, Typed, TaskRead
<1>2. Handed' BY DEF Inv, Handed, TaskRead, UnderWay
<1>3. RequestIsOnItsWay' BY DEF Inv, TaskRead, RequestIsOnItsWay
<1>4. Agreeing(task.intent, Copies)' BY DEF Inv, TaskRead, Copies
<1>5. Observed' BY DEF Inv, TaskRead, Observed, IdleIsNotAirborne
<1> QED BY <1>1, <1>2, <1>3, <1>4, <1>5 DEF Inv

\* The task computes on its own.
LEMMA TaskComputeInv == Inv /\ TaskCompute => Inv'
<1> SUFFICES ASSUME Inv, TaskCompute PROVE Inv'
  OBVIOUS
<1>1. GoodTask(task) /\ taskLoop.seen \in FeedbackStates /\ taskLoop \in TaskLoops
  BY DEF Inv, Typed, TaskLoops
<1>2. GoodTask(task') /\ Succeeds(task.intent, task'.intent)
  BY <1>1, TickMay, TickSucceeds DEF TaskCompute
<1>3. Typed'
  <2>1. taskLoop' \in TaskLoops BY <1>1 DEF TaskCompute, TaskLoops
  <2> QED BY <1>2, <2>1 DEF Inv, Typed, TaskCompute
<1>4. Handed' BY <1>1 DEF Inv, Handed, TaskCompute, UnderWay, TaskLoops
<1>5. RequestIsOnItsWay' BY DEF Inv, TaskCompute, RequestIsOnItsWay
<1>6. Agreeing(task.intent, Copies)'
  <2>1. /\ intent' \in Copies /\ execLoop'.seen \in Copies /\ exec'.accepted \in Copies
    BY DEF TaskCompute, Copies
  <2> QED BY <1>2, <1>3, <2>1, LikeItself, CopiesStep DEF Inv
<1>7. Observed' BY DEF Inv, TaskCompute, Observed, IdleIsNotAirborne
<1> QED BY <1>3, <1>4, <1>5, <1>6, <1>7 DEF Inv

\* A mission taken from the slot is loaded before the tick: what the tick
\* starts with is no further on, and has the same intent or a new one.
LEMMA TaskLoadIs ==
    ASSUME NEW fresh \in BOOLEAN
    PROVE  Inv /\ TaskLoad(fresh) =>
             \E t : /\ GoodTask(t) /\ t.index <= task.index /\ t.phase = task.phase
                    /\ Succeeds(task.intent, t.intent) /\ t.intent.id >= task.intent.id
                    /\ Like(t.intent, task.intent) \/ t.intent.id = task.intent.id + 1
                    /\ task' = TaskTickOf(t, taskLoop.command, taskLoop.seen)
<1> SUFFICES ASSUME Inv, TaskLoad(fresh)
             PROVE  \E t : /\ GoodTask(t) /\ t.index <= task.index /\ t.phase = task.phase
                           /\ Succeeds(task.intent, t.intent) /\ t.intent.id >= task.intent.id
                           /\ Like(t.intent, task.intent) \/ t.intent.id = task.intent.id + 1
                           /\ task' = TaskTickOf(t, taskLoop.command, taskLoop.seen)
  OBVIOUS
<1> DEFINE m == Head(input.pending)
           t == IF fresh THEN LoadOf(task, m.points, m.sequence) ELSE task
<1>1. GoodTask(task) /\ input \in Inputs /\ task.index \in Nat /\ task.intent.id \in Nat
  BY DEF Inv, Typed, GoodTask, TaskStates, IntentStates
<1>2. m.points \in Seq(Waypoints) /\ m.sequence \in BOOLEAN
  <2>1. input.pending \in Seq(Messages) /\ input.pending # <<>>
    BY <1>1 DEF Inputs, Inv, Handed, TaskLoad
  <2>2. m \in Messages BY <2>1
  <2> QED BY <2>2 DEF Messages
<1>3. task' = TaskTickOf(t, taskLoop.command, taskLoop.seen) BY DEF TaskLoad
<1> HIDE DEF m
<1>4. /\ GoodTask(t) /\ t.index <= task.index /\ t.phase = task.phase
      /\ SameIntent(task, t) \/ NewIntent(task, t, "TRACK")
  <2>1. CASE fresh
    <3>1. t = LoadOf(task, m.points, m.sequence) BY <2>1
    <3> QED BY <1>1, <1>2, <3>1, LoadKeeps, LoadRewinds
  <2>2. CASE ~fresh BY <1>1, <2>2 DEF SameIntent
  <2> QED BY <2>1, <2>2
<1> HIDE DEF t
<1>5. Succeeds(task.intent, t.intent) BY <1>1, <1>4, IntentSucceeds
<1>6. t.intent.id >= task.intent.id BY <1>5 DEF Succeeds
<1>7. Like(t.intent, task.intent) \/ t.intent.id = task.intent.id + 1
  BY <1>4 DEF SameIntent, NewIntent, Like
<1> QED BY <1>3, <1>4, <1>5, <1>6, <1>7

\* Loading it keeps the invariant.
LEMMA TaskLoadInv ==
    ASSUME NEW fresh \in BOOLEAN
    PROVE  Inv /\ TaskLoad(fresh) => Inv'
<1> SUFFICES ASSUME Inv, TaskLoad(fresh) PROVE Inv'
  OBVIOUS
<1>1. /\ GoodTask(task) /\ taskLoop.seen \in FeedbackStates /\ taskLoop \in TaskLoops
      /\ input \in Inputs
  BY DEF Inv, Typed, TaskLoops
<1>2. PICK t : /\ GoodTask(t) /\ Succeeds(task.intent, t.intent)
               /\ task' = TaskTickOf(t, taskLoop.command, taskLoop.seen)
  BY TaskLoadIs
<1>3. GoodTask(task') /\ Succeeds(task.intent, task'.intent)
  <2>1. GoodTask(task') /\ Succeeds(t.intent, task'.intent)
    BY <1>1, <1>2, TickMay, TickSucceeds
  <2>2. \A x \in {task, t, task'} : x.intent.id \in Nat /\ x.intent.generation \in Nat
    BY <1>1, <1>2, <2>1 DEF GoodTask, TaskStates, IntentStates
  <2> QED BY <1>2, <2>1, <2>2 DEF Succeeds
<1>4. Typed'
  <2>1. taskLoop' \in TaskLoops BY <1>1 DEF TaskLoad, TaskLoops
  <2>2. input' \in Inputs
    <3>1. <<>> \in Seq(Messages) OBVIOUS
    <3> QED BY <1>1, <3>1 DEF TaskLoad, Inputs
  <2> QED BY <1>3, <2>1, <2>2 DEF Inv, Typed, TaskLoad
<1>5. Handed' BY <1>1 DEF Inv, Handed, TaskLoad, UnderWay, TaskLoops
<1>6. RequestIsOnItsWay' BY DEF Inv, TaskLoad, RequestIsOnItsWay
<1>7. Agreeing(task.intent, Copies)'
  <2>1. /\ intent' \in Copies /\ execLoop'.seen \in Copies /\ exec'.accepted \in Copies
    BY DEF TaskLoad, Copies
  <2> QED BY <1>3, <1>4, <2>1, LikeItself, CopiesStep DEF Inv
<1>8. Observed' BY DEF Inv, TaskLoad, Observed, IdleIsNotAirborne
<1> QED BY <1>4, <1>5, <1>6, <1>7, <1>8 DEF Inv

\* The intent is published.
LEMMA TaskStoreInv == Inv /\ TaskStore => Inv'
<1> SUFFICES ASSUME Inv, TaskStore PROVE Inv'
  OBVIOUS
<1>1. Typed'
  <2>1. taskLoop' \in TaskLoops BY NothingTypes DEF TaskStore, TaskLoops, None
  <2>2. intent' \in IntentStates BY CopyTypes DEF Inv, TaskStore
  <2> QED BY <2>1, <2>2 DEF Inv, Typed, TaskStore
<1>2. Handed' BY DEF Inv, Handed, TaskStore, UnderWay
<1>3. RequestIsOnItsWay' BY DEF Inv, TaskStore, RequestIsOnItsWay
<1>4. Agreeing(task.intent, Copies)'
  <2>1. Copies' \subseteq Copies /\ task' = task BY DEF TaskStore, Copies
  <2> QED BY <2>1 DEF Inv, Agreeing
<1>5. Observed' BY DEF Inv, TaskStore, Observed, IdleIsNotAirborne
<1> QED BY <1>1, <1>2, <1>3, <1>4, <1>5 DEF Inv

-----------------------------------------------------------------------------
(* The execution thread. *)

\* Copying the intent keeps the invariant.
LEMMA ExecLoadInv == Inv /\ ExecLoad => Inv'
<1> SUFFICES ASSUME Inv, ExecLoad PROVE Inv'
  OBVIOUS
<1>1. Typed'
  <2>1. execLoop' \in ExecLoops BY DEF Inv, Typed, ExecLoad, ExecLoops
  <2> QED BY <2>1 DEF Inv, Typed, ExecLoad
<1>2. execLoop'.seen = intent /\ execLoop'.request = execLoop.request /\ execLoop'.at = "tick"
  BY DEF Inv, Typed, ExecLoad, ExecLoops
<1>3. Handed' BY <1>2 DEF Inv, Handed, ExecLoad, UnderWay
<1>4. RequestIsOnItsWay' BY <1>2 DEF Inv, ExecLoad, RequestIsOnItsWay
<1>5. Agreeing(task.intent, Copies)'
  <2>1. Copies' \subseteq Copies /\ task' = task BY <1>2 DEF ExecLoad, Copies
  <2> QED BY <2>1 DEF Inv, Agreeing
<1>6. Observed' BY DEF Inv, ExecLoad, Observed, IdleIsNotAirborne
<1> QED BY <1>1, <1>3, <1>4, <1>5, <1>6 DEF Inv

\* A tick finds a name that no request under way has.
LEMMA FreshName == Inv /\ execLoop.at = "tick" => FreshId \in ActionIds
<1> SUFFICES ASSUME Inv, execLoop.at = "tick" PROVE FreshId \in ActionIds
  OBVIOUS
<1> DEFINE Names == ActionIds \cup {0}
           a == worker.slot.id
           b == worker.request.id
<1>1. /\ worker \in Workers /\ results \in Seq(Answers) /\ exec \in ExecStates
      /\ RequestOfPhase(exec)
  BY DEF Inv, Typed, Good
<1>2. /\ a \in Names /\ b \in Names
      /\ \A n \in 1..Len(results) : results[n].id \in Names
  <2>1. a \in Names /\ b \in Names BY <1>1 DEF Workers, Requests
  <2>2. \A n \in 1..Len(results) : results[n] \in Answers BY <1>1
  <2> QED BY <2>1, <2>2 DEF Answers
<1>3. /\ worker.slot = NoRequest => a = 0
      /\ worker.stage = "waiting" => b = 0
  BY DEF Inv, Handed, NoRequest
<1>4. execLoop.request.id = 0 BY DEF Inv, Handed, NoRequest
<1>5. Len(results) \in Nat /\ UnderWay <= 3 BY <1>1 DEF Inv, Handed
<1>6. Len(results) <= 3 /\ (a # 0 /\ b # 0 => Len(results) <= 1)
        /\ (a # 0 \/ b # 0 => Len(results) <= 2)
  BY <1>3, <1>5 DEF UnderWay, One
<1>7. \A x \in InUse : x \in {0, a, b} \cup {results[n].id : n \in 1..Len(results)}
  BY <1>1, <1>4 DEF Inv, RequestIsOnItsWay, RequestOfPhase, InUse
<1> HIDE DEF a, b
<1>8. \E x, y, z \in Names : InUse \subseteq {0, x, y, z}
  <2>1. CASE Len(results) = 0
    <3>1. InUse \subseteq {0, a, b, 0} BY <1>7, <2>1
    <3> QED BY <1>2, <3>1
  <2>2. CASE Len(results) = 1
    <3>1. InUse \subseteq {0, a, b, results[1].id} BY <1>7, <2>2
    <3>2. results[1].id \in Names BY <1>2, <2>2
    <3> QED BY <1>2, <3>1, <3>2
  <2>3. CASE Len(results) = 2
    <3>1. results[1].id \in Names /\ results[2].id \in Names BY <1>2, <2>3
    <3>2. PICK c \in Names : {0, a, b} = {0, c}
      <4>1. a = 0 \/ b = 0 BY <1>6, <2>3
      <4> QED BY <1>2, <4>1
    <3>3. InUse \subseteq {0, c, results[1].id, results[2].id} BY <1>7, <2>3, <3>2
    <3> QED BY <3>1, <3>2, <3>3
  <2>4. CASE Len(results) = 3
    <3>1. results[1].id \in Names /\ results[2].id \in Names /\ results[3].id \in Names
      BY <1>2, <2>4
    <3>2. a = 0 /\ b = 0 BY <1>6, <2>4
    <3>3. InUse \subseteq {0, results[1].id, results[2].id, results[3].id}
      BY <1>7, <2>4, <3>2
    <3> QED BY <3>1, <3>3
  <2>5. Len(results) \in {0, 1, 2, 3}
    <3>1. \A n \in Nat : n <= 3 => n \in {0, 1, 2, 3} OBVIOUS
    <3> QED BY <1>5, <1>6, <3>1, Zenon
  <2> HIDE DEF Names
  <2> QED BY <2>1, <2>2, <2>3, <2>4, <2>5
<1>9. PICK x \in Names, y \in Names, z \in Names : InUse \subseteq {0, x, y, z} BY <1>8
<1>10. ActionIds \ {x, y, z} # {} BY NamesAssumption
<1>11. \E id \in ActionIds : id \notin InUse
  BY <1>9, <1>10, ExecutorAssumption
<1> QED BY <1>11 DEF FreshId

\* The results a tick drains answer the request in flight, or leave it in flight.
LEMMA DrainedIs ==
    ASSUME NEW e, Good(e), NEW queue \in Seq(Answers)
    PROVE  LET d == Drained(e, queue)
           IN /\ Good(d) /\ d.accepted = e.accepted /\ d.blocked = e.blocked
              /\ d.phase \in {e.phase, "ERROR"}
              /\ d.pending => /\ d = e
                              /\ \A n \in 1..Len(queue) : queue[n].id # e.actionId
<1> DEFINE mine == {n \in 1..Len(queue) : queue[n].id = e.actionId}
           k == CHOOSE n \in mine : TRUE
           ok == queue[k].ok
<1>1. CASE mine = {}
  <2>1. Drained(e, queue) = e BY <1>1 DEF Drained
  <2> QED BY <1>1, <2>1
<1>2. CASE mine # {}
  <2>1. k \in mine BY <1>2
  <2>2. ok \in BOOLEAN
    <3>1. k \in 1..Len(queue) BY <2>1
    <3>2. queue[k] \in Answers BY <3>1
    <3> QED BY <3>2 DEF Answers
  <2>3. Drained(e, queue) = AnswerOf(e, e.actionId, ok) BY <1>2 DEF Drained
  <2> HIDE DEF ok
  <2>4. /\ AnswerOf(e, e.actionId, ok).phase \in {e.phase, "ERROR"}
        /\ AnswerOf(e, e.actionId, ok).blocked = e.blocked
    BY DEF AnswerOf, Fail, CancelAction, Good, ExecStates
  <2> QED BY <2>2, <2>3, <2>4, AnswerGood, AnswerIs
<1> QED BY <1>1, <1>2

\* What the executor reports is feedback, and the request it returns a request.
LEMMA ReportTypes ==
    ASSUME NEW e \in ExecStates, NEW s \in SensorStates
    PROVE  FeedbackOf(e, s) \in FeedbackStates /\ RequestOf(e) \in Requests
<1>1. e.accepted \in IntentStates /\ e.phase \in Phases
  BY DEF ExecStates, ExecPhases
<1>2. FeedbackOf(e, s) \in FeedbackStates
  BY <1>1, TaskDomains DEF FeedbackOf, FeedbackStates, ExecStates, IntentStates
<1>3. RequestOf(e) \in Requests
  BY <1>1 DEF RequestOf, Requests, ExecStates, IntentStates
<1> QED BY <1>2, <1>3

\* A tick is one with what it drains, on any snapshot of the sensors.
LEMMA ExecTickIs ==
    ASSUME NEW near \in BOOLEAN
    PROVE  Inv /\ ExecTick(near) =>
             LET s == Snapshot(near)
             IN /\ s \in SensorStates /\ Good(exec') /\ feedback' = FeedbackOf(exec', s)
                /\ MonotoneGrant(exec, exec') /\ Takes(exec, execLoop.seen, exec')
                /\ Grounds(exec, vehicle, exec')
                /\ exec.phase = "ERROR" \/ Landing(exec) =>
                     Landing(exec') \/ exec'.phase = "ERROR" \/ ~vehicle.armed
                /\ exec'.pending =>
                     \/ exec'.action # "NONE"
                     \/ /\ exec.pending /\ exec'.actionId = exec.actionId
                        /\ \A n \in 1..Len(results) : results[n].id # exec.actionId
<1> SUFFICES ASSUME Inv, ExecTick(near)
             PROVE  LET s == Snapshot(near)
                    IN /\ s \in SensorStates /\ Good(exec') /\ feedback' = FeedbackOf(exec', s)
                       /\ MonotoneGrant(exec, exec') /\ Takes(exec, execLoop.seen, exec')
                       /\ Grounds(exec, vehicle, exec')
                       /\ exec.phase = "ERROR" \/ Landing(exec) =>
                            Landing(exec') \/ exec'.phase = "ERROR" \/ ~vehicle.armed
                       /\ exec'.pending =>
                            \/ exec'.action # "NONE"
                            \/ /\ exec.pending /\ exec'.actionId = exec.actionId
                               /\ \A n \in 1..Len(results) : results[n].id # exec.actionId
  OBVIOUS
<1> DEFINE s == Snapshot(near)
           d == Drained(exec, results)
<1>1. /\ s \in SensorStates /\ s.armed = vehicle.armed
  BY DEF Inv, Typed, Vehicles, Snapshot, SensorStates
<1>2. /\ Good(d) /\ d.accepted = exec.accepted /\ d.blocked = exec.blocked
      /\ d.phase \in {exec.phase, "ERROR"}
      /\ d.pending => /\ d = exec
                      /\ \A n \in 1..Len(results) : results[n].id # exec.actionId
  BY DrainedIs DEF Inv, Typed
<1>3. /\ exec' = TickOf(d, s, execLoop.seen, FreshId) /\ feedback' = FeedbackOf(exec', s)
      /\ execLoop.at = "tick"
  BY DEF ExecTick
<1>4. FreshId \in ActionIds BY <1>3, FreshName
<1>5. execLoop.seen \in IntentStates BY CopyTypes DEF Inv
<1> HIDE DEF s, d
<1>6. /\ Good(exec') /\ TickMayDo(d, exec') /\ Takes(d, execLoop.seen, exec')
      /\ Grounds(d, s, exec')
  BY <1>1, <1>2, <1>3, <1>4, <1>5, TickGood, TickOneWay, TickGrounds
<1>7. exec'.pending => exec'.action # "NONE" \/ (d.pending /\ exec'.actionId = d.actionId)
  BY <1>1, <1>2, <1>3, <1>4, <1>5, TickSends
<1>8. Takes(exec, execLoop.seen, exec') BY <1>2, <1>6 DEF Takes
<1>9. Grounds(exec, vehicle, exec') BY <1>1, <1>2, <1>6 DEF Grounds
<1>10. MonotoneGrant(exec, exec')
  BY <1>2, <1>6 DEF TickMayDo, MonotoneGrant, SameCommand
<1>11. exec.phase = "ERROR" \/ Landing(exec) =>
          Landing(exec') \/ exec'.phase = "ERROR" \/ ~vehicle.armed
  BY <1>2, <1>6, <1>9 DEF TickMayDo, OneWay, Landing, LandingPhases, Grounds
<1> QED BY <1>1, <1>2, <1>3, <1>6, <1>7, <1>8, <1>9, <1>10, <1>11 DEF s

\* A tick hands over what it sends, and accepts only what it has read.
LEMMA ExecTickInv ==
    ASSUME NEW near \in BOOLEAN
    PROVE  Inv /\ ExecTick(near) => Inv'
<1> SUFFICES ASSUME Inv, ExecTick(near) PROVE Inv'
  OBVIOUS
<1> DEFINE s == Snapshot(near)
           sent == exec'.action # "NONE"
<1>1. /\ s \in SensorStates /\ Good(exec') /\ feedback' = FeedbackOf(exec', s)
      /\ MonotoneGrant(exec, exec') /\ Takes(exec, execLoop.seen, exec')
      /\ Grounds(exec, vehicle, exec')
      /\ exec.phase = "ERROR" \/ Landing(exec) =>
           Landing(exec') \/ exec'.phase = "ERROR" \/ ~vehicle.armed
      /\ exec'.pending =>
           \/ exec'.action # "NONE"
           \/ /\ exec.pending /\ exec'.actionId = exec.actionId
              /\ \A n \in 1..Len(results) : results[n].id # exec.actionId
  BY ExecTickIs
<1>2. exec' \in ExecStates /\ exec \in ExecStates /\ RequestOfPhase(exec)
  BY <1>1 DEF Good, Inv, Typed
<1>3. /\ execLoop' = [at |-> IF sent THEN "dispatch"
                             ELSE IF exec'.exit # 0 THEN "returned" ELSE "load",
                      seen |-> NoIntent,
                      request |-> IF sent THEN RequestOf(exec') ELSE NoRequest]
      /\ results' = <<>> /\ worker' = worker /\ vehicle' = vehicle /\ input' = input
      /\ taskLoop' = taskLoop /\ task' = task /\ intent' = intent
      /\ execLoop.at = "tick"
  BY DEF ExecTick
<1> HIDE DEF s, sent
<1>4. Typed'
  <2>1. feedback' \in FeedbackStates /\ RequestOf(exec') \in Requests
    BY <1>1, <1>2, ReportTypes
  <2>2. execLoop' \in ExecLoops
    BY <1>3, <2>1, NothingTypes DEF ExecLoops
  <2>3. results' \in Seq(Answers)
    <3>1. <<>> \in Seq(Answers) OBVIOUS
    <3> QED BY <1>3, <3>1
  <2> QED BY <1>1, <1>3, <2>1, <2>2, <2>3 DEF Inv, Typed
<1>5. Handed'
  <2>1. Len(results') = 0 BY <1>3
  <2>2. UnderWay' <= 2 /\ UnderWay' <= 3 BY <1>3, <2>1 DEF UnderWay, One
  <2>3. execLoop'.at # "dispatch" => execLoop'.request = NoRequest BY <1>3
  <2> QED BY <1>3, <2>2, <2>3 DEF Inv, Handed
<1>6. RequestIsOnItsWay'
  <2> SUFFICES ASSUME exec'.pending
               PROVE  exec'.actionId \in {execLoop'.request.id, worker'.slot.id,
                                          worker'.request.id}
    BY DEF RequestIsOnItsWay
  <2>1. CASE sent
    <3>1. execLoop'.request.id = exec'.actionId BY <1>3, <2>1 DEF RequestOf
    <3> QED BY <3>1
  <2>2. CASE ~sent
    <3>1. /\ exec.pending /\ exec'.actionId = exec.actionId
          /\ \A n \in 1..Len(results) : results[n].id # exec.actionId
      BY <1>1, <2>2 DEF sent
    <3>2. exec.actionId # 0 BY <1>2, <3>1 DEF RequestOfPhase
    <3>3. execLoop.request.id = 0 BY <1>3 DEF Inv, Handed, NoRequest
    <3>4. exec.actionId \in {worker.slot.id, worker.request.id}
      BY <3>1, <3>2, <3>3 DEF Inv, RequestIsOnItsWay
    <3> QED BY <1>3, <3>1, <3>4
  <2> QED BY <2>1, <2>2
<1>7. Agreeing(task.intent, Copies)'
  <2>1. intent' \in Copies /\ execLoop'.seen \in Copies BY <1>3 DEF Copies
  <2>2. Like(exec'.accepted, exec.accepted) \/ exec'.accepted = execLoop.seen
    BY <1>1 DEF MonotoneGrant, SameCommand, Takes, Like
  <2>3. exec.accepted \in Copies /\ execLoop.seen \in Copies BY DEF Copies
  <2>4. Succeeds(task.intent, task'.intent)
    <3>1. task.intent.id \in Nat /\ task.intent.generation \in Nat
      BY CopyTypes DEF Inv, IntentStates
    <3> QED BY <1>3, <3>1 DEF Succeeds
  <2> QED BY <1>4, <2>1, <2>2, <2>3, <2>4, LikeItself, CopiesStep DEF Inv
<1>8. Observed'
  BY <1>1, <1>3 DEF Inv, Observed, IdleIsNotAirborne, Grounds
<1> QED BY <1>4, <1>5, <1>6, <1>7, <1>8 DEF Inv

\* A request is handed to the worker, or refused and answered.
LEMMA ExecDispatchInv == Inv /\ ExecDispatch => Inv'
<1> SUFFICES ASSUME Inv, ExecDispatch PROVE Inv'
  OBVIOUS
<1>1. /\ Good(exec) /\ exec \in ExecStates /\ execLoop \in ExecLoops
      /\ worker \in Workers /\ execLoop.at = "dispatch"
  BY DEF Inv, Typed, Good, ExecDispatch
<1>2. execLoop' \in ExecLoops /\ execLoop'.at = "load" /\ execLoop'.request = NoRequest
      /\ execLoop'.seen = execLoop.seen
  BY <1>1, NothingTypes DEF ExecDispatch, ExecLoops
<1>3. /\ task' = task /\ intent' = intent /\ feedback' = feedback /\ taskLoop' = taskLoop
      /\ results' = results /\ vehicle' = vehicle /\ input' = input
  BY DEF ExecDispatch
<1>4. CASE worker.slot # NoRequest \/ worker.stage \in {"calling", "skipping"}
  <2>1. exec' = AnswerOf(exec, execLoop.request.id, FALSE) /\ worker' = worker
    BY <1>4 DEF ExecDispatch
  <2>2. /\ Good(exec') /\ exec'.accepted = exec.accepted
        /\ exec'.pending => exec' = exec /\ execLoop.request.id # exec.actionId
    BY <1>1, <2>1, AnswerGood, AnswerIs
  <2>3. exec'.phase \in {exec.phase, "ERROR"}
    BY <1>1, <2>1 DEF AnswerOf, Fail, CancelAction, ExecStates
  <2>4. Typed' BY <1>2, <1>3, <2>1, <2>2 DEF Inv, Typed
  <2>5. Handed'
    BY <1>1, <1>2, <1>3, <2>1 DEF Inv, Handed, UnderWay
  <2>6. RequestIsOnItsWay'
    BY <1>3, <2>1, <2>2 DEF Inv, RequestIsOnItsWay
  <2>7. Agreeing(task.intent, Copies)'
    BY <1>2, <1>3, <2>2 DEF Inv, Copies
  <2>8. Observed' BY <1>3, <2>3 DEF Inv, Observed, IdleIsNotAirborne, Landing
  <2> QED BY <2>4, <2>5, <2>6, <2>7, <2>8 DEF Inv
<1>5. CASE ~(worker.slot # NoRequest \/ worker.stage \in {"calling", "skipping"})
  <2>1. worker' = [worker EXCEPT !.slot = execLoop.request] /\ exec' = exec
    BY <1>5 DEF ExecDispatch
  <2>2. /\ worker' \in Workers /\ worker'.slot = execLoop.request
        /\ worker'.stage = worker.stage /\ worker'.request = worker.request
    BY <1>1, <2>1 DEF Workers, ExecLoops
  <2>3. Typed' BY <1>2, <1>3, <2>1, <2>2 DEF Inv, Typed
  <2>4. Handed'
    <3>1. Len(results) \in Nat BY DEF Inv, Typed
    <3>2. UnderWay' <= UnderWay + 1
      BY <1>3, <1>5, <2>2, <3>1 DEF UnderWay, One
    <3>3. UnderWay <= 2 BY <1>1 DEF Inv, Handed
    <3>4. UnderWay \in Int /\ UnderWay' \in Int BY <1>3, <3>1 DEF UnderWay, One
    <3>5. UnderWay' <= 3 BY <3>2, <3>3, <3>4
    <3> QED BY <1>1, <1>2, <1>3, <2>2, <3>5 DEF Inv, Handed
  <2>5. RequestIsOnItsWay'
    <3>1. exec.pending => exec.actionId # 0 BY <1>1 DEF Good, RequestOfPhase
    <3>2. worker.slot.id = 0 BY <1>5 DEF NoRequest
    <3> QED BY <1>3, <2>1, <2>2, <3>1, <3>2 DEF Inv, RequestIsOnItsWay
  <2>6. Agreeing(task.intent, Copies)'
    BY <1>2, <1>3, <2>1 DEF Inv, Copies
  <2>7. Observed' BY <1>3, <2>1 DEF Inv, Observed, IdleIsNotAirborne
  <2> QED BY <2>3, <2>4, <2>5, <2>6, <2>7 DEF Inv
<1> QED BY <1>4, <1>5

-----------------------------------------------------------------------------
(* The service worker. *)

\* A request is taken, and the call starts if it is still wanted.
LEMMA WorkerTakeInv == Inv /\ WorkerTake => Inv'
<1> SUFFICES ASSUME Inv, WorkerTake PROVE Inv'
  OBVIOUS
<1> DEFINE allowed == ActionAllowed(exec, worker.slot, Snapshot(FALSE), intent)
<1>1. /\ Good(exec) /\ worker \in Workers /\ vehicle \in Vehicles
      /\ worker.stage = "waiting" /\ worker.slot # NoRequest
  BY DEF Inv, Typed, WorkerTake
<1>2. /\ worker' = [worker EXCEPT !.request = worker.slot, !.slot = NoRequest,
                                  !.stage = IF allowed THEN "calling" ELSE "skipping"]
      /\ vehicle' = [vehicle EXCEPT !.todo = IF allowed THEN worker.slot.kind ELSE @]
      /\ exec' = exec /\ task' = task /\ intent' = intent /\ feedback' = feedback
      /\ taskLoop' = taskLoop /\ execLoop' = execLoop /\ results' = results
      /\ input' = input
  BY DEF WorkerTake
<1>3. /\ allowed /\ worker.slot.kind = "ARM" => vehicle.mode = "OFFBOARD"
      /\ allowed /\ worker.slot.kind = "SET_LAND" => exec.phase = "LAND_REQUEST"
  BY <1>1 DEF ActionAllowed, Snapshot
<1> HIDE DEF allowed
<1>4. /\ worker' \in Workers /\ worker'.request = worker.slot /\ worker'.slot = NoRequest
      /\ worker'.stage # "waiting"
  BY <1>1, <1>2, NothingTypes DEF Workers
<1>5. /\ vehicle' \in Vehicles /\ vehicle'.armed = vehicle.armed
      /\ vehicle'.grounded = vehicle.grounded /\ vehicle'.mode = vehicle.mode
      /\ vehicle'.todo = IF allowed THEN worker.slot.kind ELSE vehicle.todo
  BY <1>1, <1>2 DEF Vehicles, Workers, Requests
<1>6. Typed' BY <1>2, <1>4, <1>5 DEF Inv, Typed
<1>7. Handed'
  <2>1. Len(results) \in Nat BY DEF Inv, Typed
  <2>2. UnderWay' = UnderWay BY <1>1, <1>2, <1>4, <2>1 DEF UnderWay, One
  <2> QED BY <1>2, <1>4, <2>2 DEF Inv, Handed
<1>8. RequestIsOnItsWay'
  <2>1. exec.pending => exec.actionId # 0 BY <1>1 DEF Good, RequestOfPhase
  <2>2. worker.request.id = 0 BY <1>1 DEF Inv, Handed, NoRequest
  <2> QED BY <1>2, <1>4, <2>1, <2>2 DEF Inv, RequestIsOnItsWay
<1>9. Agreeing(task.intent, Copies)' BY <1>2 DEF Inv, Copies
<1>10. Observed'
  BY <1>2, <1>3, <1>5 DEF Inv, Observed, IdleIsNotAirborne, Landing, LandingPhases
<1> QED BY <1>6, <1>7, <1>8, <1>9, <1>10 DEF Inv

\* A call returns, or a stale request is skipped.
LEMMA WorkerFinishInv ==
    ASSUME NEW ok \in BOOLEAN
    PROVE  Inv /\ WorkerFinish(ok) => Inv'
<1> SUFFICES ASSUME Inv, WorkerFinish(ok) PROVE Inv'
  OBVIOUS
<1>1. worker \in Workers /\ worker.stage # "waiting"
  BY DEF Inv, Typed, WorkerFinish
<1>2. /\ worker' \in Workers /\ worker'.request = worker.request
      /\ worker'.slot = worker.slot /\ worker'.stage # "waiting"
  BY <1>1 DEF WorkerFinish, Workers
<1>3. Typed' BY <1>2 DEF Inv, Typed, WorkerFinish
<1>4. Handed' BY <1>1, <1>2 DEF Inv, Handed, WorkerFinish, UnderWay
<1>5. RequestIsOnItsWay' BY <1>2 DEF Inv, WorkerFinish, RequestIsOnItsWay
<1>6. Agreeing(task.intent, Copies)' BY DEF Inv, WorkerFinish, Copies
<1>7. Observed' BY DEF Inv, WorkerFinish, Observed, IdleIsNotAirborne
<1> QED BY <1>3, <1>4, <1>5, <1>6, <1>7 DEF Inv

\* A result is queued.
LEMMA WorkerReportInv == Inv /\ WorkerReport => Inv'
<1> SUFFICES ASSUME Inv, WorkerReport PROVE Inv'
  OBVIOUS
<1> DEFINE answer == [id |-> worker.request.id, ok |-> worker.ok]
<1>1. worker \in Workers /\ worker.stage = "reporting" /\ results \in Seq(Answers)
  BY DEF Inv, Typed, WorkerReport
<1>2. /\ worker' \in Workers /\ worker'.request = NoRequest
      /\ worker'.slot = worker.slot /\ worker'.stage = "waiting"
  BY <1>1, NothingTypes DEF WorkerReport, Workers
<1>3. answer \in Answers /\ answer.id = worker.request.id
  BY <1>1 DEF Workers, Requests, Answers
<1>4. results' = Append(results, answer) BY DEF WorkerReport
<1> HIDE DEF answer
<1>5. /\ results' \in Seq(Answers) /\ Len(results') = Len(results) + 1
      /\ Len(results) \in Nat
      /\ results'[Len(results) + 1] = answer
      /\ \A n \in 1..Len(results) : results'[n] = results[n]
  BY <1>1, <1>3, <1>4
<1>6. Typed' BY <1>2, <1>5 DEF Inv, Typed, WorkerReport
<1>7. Handed'
  <2>1. UnderWay' = UnderWay BY <1>1, <1>2, <1>5 DEF UnderWay, One
  <2> QED BY <1>2, <2>1 DEF Inv, Handed, WorkerReport
<1>8. RequestIsOnItsWay'
  <2>1. {results[n].id : n \in 1..Len(results)} \cup {worker.request.id}
            \subseteq {results'[n].id : n \in 1..Len(results')}
    BY <1>3, <1>5
  <2> QED BY <1>2, <2>1 DEF Inv, WorkerReport, RequestIsOnItsWay
<1>9. Agreeing(task.intent, Copies)' BY DEF Inv, WorkerReport, Copies
<1>10. Observed' BY DEF Inv, WorkerReport, Observed, IdleIsNotAirborne
<1> QED BY <1>6, <1>7, <1>8, <1>9, <1>10 DEF Inv

-----------------------------------------------------------------------------
(* The flight controller, the operator and time. *)

\* What the vehicle, the operator and the mission topics do leaves the threads
\* alone: what is left to show is about the vehicle.
LEMMA OutsideInv ==
    /\ Inv /\ UNCHANGED <<exec, task, intent, feedback, taskLoop, execLoop, worker, results>>
    /\ vehicle' \in Vehicles /\ input' \in Inputs
    /\ taskLoop.at = "load" => input'.pending # <<>>
    /\ Observed'
    => Inv'
<1> SUFFICES ASSUME Inv, vehicle' \in Vehicles, input' \in Inputs, Observed',
                    UNCHANGED <<exec, task, intent, feedback, taskLoop, execLoop,
                                worker, results>>,
                    taskLoop.at = "load" => input'.pending # <<>>
             PROVE  Inv'
  OBVIOUS
<1>1. Typed' BY DEF Inv, Typed
<1>2. Handed' BY DEF Inv, Handed, UnderWay
<1>3. RequestIsOnItsWay' BY DEF Inv, RequestIsOnItsWay
<1>4. Agreeing(task.intent, Copies)' BY DEF Inv, Copies
<1> QED BY <1>1, <1>2, <1>3, <1>4 DEF Inv

\* The vehicle takes off only under a phase of the air, and lands, bounces and
\* disarms only in a landing mode.
LEMMA VehicleInv == Inv /\ VehicleStep => Inv'
<1> SUFFICES ASSUME Inv, VehicleStep PROVE Inv'
  OBVIOUS
<1>1. vehicle \in Vehicles /\ input \in Inputs /\ exec \in ExecStates
  BY DEF Inv, Typed, Good
<1>2. taskLoop.at = "load" => input.pending # <<>> BY DEF Inv, Handed
<1>3. CASE VehicleObeys
  <2> DEFINE mode == CASE vehicle.todo = "SET_OFFBOARD" -> "OFFBOARD"
                       [] vehicle.todo = "SET_LAND" -> "AUTO.LAND"
                       [] OTHER -> vehicle.mode
             armed == CASE vehicle.todo = "ARM" -> TRUE
                        [] vehicle.todo = "DISARM" -> vehicle.armed /\ ~vehicle.grounded
                        [] OTHER -> vehicle.armed
  <2>1. mode \in Modes /\ armed \in BOOLEAN BY <1>1 DEF Vehicles, Modes
  <2>2. /\ vehicle.todo = "SET_OFFBOARD" => mode = "OFFBOARD"
        /\ vehicle.todo = "SET_LAND" => mode = "AUTO.LAND"
        /\ vehicle.todo \notin {"SET_OFFBOARD", "SET_LAND"} => mode = vehicle.mode
        /\ vehicle.todo = "ARM" => armed = TRUE
        /\ vehicle.todo = "DISARM" => armed = (vehicle.armed /\ ~vehicle.grounded)
        /\ vehicle.todo \notin {"ARM", "DISARM"} => armed = vehicle.armed
    OBVIOUS
  <2>3. vehicle' = [vehicle EXCEPT !.todo = "NONE", !.mode = mode, !.armed = armed]
    BY <1>3 DEF VehicleObeys
  <2> HIDE DEF mode, armed
  <2>4. /\ vehicle' \in Vehicles /\ vehicle'.todo = "NONE" /\ vehicle'.mode = mode
        /\ vehicle'.armed = armed /\ vehicle'.grounded = vehicle.grounded
    BY <1>1, <2>1, <2>3 DEF Vehicles
  <2>5. vehicle.armed \in BOOLEAN /\ vehicle.grounded \in BOOLEAN BY <1>1 DEF Vehicles
  <2>6. Observed'
    <3>1. exec' = exec BY <1>3 DEF VehicleObeys
    <3>2. ~armed => vehicle.grounded BY <2>1, <2>2, <2>5 DEF Inv, Observed
    <3>3. armed /\ mode = "AUTO.LAND" => Landing(exec) \/ exec.phase = "ERROR"
      BY <2>1, <2>2, <2>5 DEF Inv, Observed
    <3> QED BY <2>4, <3>1, <3>2, <3>3 DEF Inv, Observed, IdleIsNotAirborne
  <2> QED BY <1>1, <1>2, <1>3, <2>4, <2>6, OutsideInv DEF VehicleObeys
<1>4. CASE LiftOff
  <2>1. /\ vehicle' \in Vehicles /\ vehicle'.grounded = FALSE /\ vehicle'.armed
        /\ vehicle'.mode = vehicle.mode /\ vehicle'.todo = vehicle.todo
        /\ exec' = exec /\ exec.phase # "IDLE_GROUND"
    BY <1>1, <1>4 DEF LiftOff, Vehicles, AirPhases
  <2>2. Observed' BY <1>4, <2>1 DEF LiftOff, Inv, Observed, IdleIsNotAirborne
  <2> QED BY <1>1, <1>2, <1>4, <2>1, <2>2, OutsideInv DEF LiftOff
<1>5. CASE TouchGround
  <2>1. /\ vehicle' \in Vehicles /\ vehicle'.grounded = ~vehicle.grounded
        /\ vehicle'.armed = vehicle.armed
        /\ vehicle'.mode = vehicle.mode /\ vehicle'.todo = vehicle.todo /\ exec' = exec
    BY <1>1, <1>5 DEF TouchGround, Vehicles
  <2>2. vehicle.armed => Landing(exec) \/ exec.phase = "ERROR"
    BY <1>5 DEF TouchGround, Inv, Observed
  <2>3. exec.phase = "IDLE_GROUND" => ~vehicle.armed
    BY <2>2 DEF Landing, LandingPhases
  <2>4. Observed'
    BY <1>5, <2>1, <2>3 DEF TouchGround, Inv, Observed, IdleIsNotAirborne
  <2> QED BY <1>1, <1>2, <1>5, <2>1, <2>4, OutsideInv DEF TouchGround
<1>6. CASE AutoDisarm
  <2>1. /\ vehicle' \in Vehicles /\ vehicle'.grounded /\ vehicle'.armed = FALSE
        /\ vehicle'.mode = vehicle.mode /\ vehicle'.todo = vehicle.todo
        /\ exec' = exec
    BY <1>1, <1>6 DEF AutoDisarm, Vehicles
  <2>2. Observed' BY <2>1 DEF Inv, Observed, IdleIsNotAirborne
  <2> QED BY <1>1, <1>2, <1>6, <2>1, <2>2, OutsideInv DEF AutoDisarm
<1>7. CASE Fault
  <2>1. input' \in Inputs /\ input'.pending = input.pending
    BY <1>1, <1>7 DEF Fault, Inputs
  <2>2. /\ vehicle' \in Vehicles /\ vehicle'.grounded = vehicle.grounded
        /\ vehicle'.armed = vehicle.armed /\ vehicle'.todo = vehicle.todo
        /\ vehicle'.mode \in {vehicle.mode, "OTHER"} /\ exec' = exec
    BY <1>1, <1>7 DEF Fault, Vehicles, Modes
  <2>3. Observed' BY <2>2 DEF Inv, Observed, IdleIsNotAirborne
  <2> QED BY <1>2, <1>7, <2>1, <2>2, <2>3, OutsideInv DEF Fault
<1>8. CASE Recover
  <2>1. /\ vehicle' \in Vehicles /\ vehicle'.grounded = vehicle.grounded
        /\ vehicle'.armed = vehicle.armed /\ vehicle'.todo = vehicle.todo
        /\ vehicle'.mode = vehicle.mode /\ exec' = exec
    BY <1>1, <1>8 DEF Recover, Vehicles
  <2>2. Observed' BY <2>1 DEF Inv, Observed, IdleIsNotAirborne
  <2> QED BY <1>1, <1>2, <1>8, <2>1, <2>2, OutsideInv DEF Recover
<1> QED BY <1>3, <1>4, <1>5, <1>6, <1>7, <1>8 DEF VehicleStep

\* The operator writes the parameter, and a message fills the slot.
LEMMA InputInv == Inv /\ InputStep => Inv'
<1> SUFFICES ASSUME Inv, InputStep PROVE Inv'
  OBVIOUS
<1>1. vehicle \in Vehicles /\ input \in Inputs BY DEF Inv, Typed
<1>2. /\ input.plan.script \in Seq(0..3) /\ input.plan.arrivals \in Seq(Messages)
      /\ input.written \in Nat /\ input.arrived \in Nat
  <2>1. input.plan \in Plans /\ input.written \in Nat /\ input.arrived \in Nat
    BY <1>1 DEF Inputs
  <2> QED BY <2>1, OffboardAssumption DEF Messages
<1>3. Observed /\ (taskLoop.at = "load" => input.pending # <<>>)
  BY DEF Inv, Handed
<1>4. CASE OperatorWrites
  <2>1. input.plan.script[input.written + 1] \in Int
    BY <1>2, <1>4 DEF OperatorWrites
  <2> DEFINE c == input.plan.script[input.written + 1]
             n == input.written + 1
  <2>2. input' = [input EXCEPT !.written = n, !.command = c] /\ n \in Nat
    BY <1>2, <1>4 DEF OperatorWrites
  <2> HIDE DEF c, n
  <2>3. c \in Int BY <2>1 DEF c
  <2>4. input' \in Inputs /\ input'.pending = input.pending
    BY <1>1, <2>2, <2>3 DEF Inputs
  <2>5. Observed' BY <1>3, <1>4 DEF OperatorWrites, Observed, IdleIsNotAirborne
  <2> QED BY <1>1, <1>3, <1>4, <2>4, <2>5, OutsideInv DEF OperatorWrites
<1>5. CASE MissionArrives
  <2> DEFINE m == input.plan.arrivals[input.arrived + 1]
             n == input.arrived + 1
  <2>1. m \in Messages BY <1>2, <1>5 DEF MissionArrives
  <2>2. input' = [input EXCEPT !.arrived = n, !.pending = <<m>>] /\ n \in Nat
    BY <1>2, <1>5 DEF MissionArrives
  <2> HIDE DEF m, n
  <2>3. <<m>> \in Seq(Messages) /\ <<m>> # <<>> BY <2>1
  <2>4. input' \in Inputs /\ input'.pending = <<m>>
    BY <1>1, <2>2, <2>3 DEF Inputs
  <2>5. Observed' BY <1>3, <1>5 DEF MissionArrives, Observed, IdleIsNotAirborne
  <2> QED BY <1>1, <1>5, <2>3, <2>4, <2>5, OutsideInv DEF MissionArrives
<1> QED BY <1>4, <1>5 DEF InputStep

\* Time makes every copy older.
LEMMA ElapseInv == Inv /\ Elapse => Inv'
<1> SUFFICES ASSUME Inv, Elapse PROVE Inv'
  OBVIOUS
<1>1. /\ Good(exec) /\ exec \in ExecStates /\ GoodTask(task) /\ intent \in IntentStates
      /\ feedback \in FeedbackStates /\ taskLoop \in TaskLoops /\ execLoop \in ExecLoops
      /\ vehicle \in Vehicles
  BY DEF Inv, Typed, Good
<1>2. \A age \in Age(TaskTimeout) : Older(age, TaskTimeout) \in Age(TaskTimeout)
  BY LeaseAssumption DEF Age, Older, None
<1>3. /\ Good(exec') /\ exec'.phase = exec.phase /\ exec'.pending = exec.pending
      /\ exec'.actionId = exec.actionId /\ Like(exec'.accepted, exec.accepted)
  BY <1>1, ElapsedGood DEF Elapse, ElapsedExec, ExecStates, IntentStates, Like
<1>4. GoodTask(task') /\ Like(task'.intent, task.intent)
  BY <1>1, ElapsedIs DEF Elapse, SameIntent, Like
<1>5. intent' \in IntentStates /\ Like(intent', intent)
  BY <1>1, <1>2 DEF Elapse, IntentStates, Like
<1>6. feedback' \in FeedbackStates
  BY <1>1, <1>2 DEF Elapse, FeedbackStates
<1>7. taskLoop' \in TaskLoops /\ taskLoop'.at = taskLoop.at
  <2> DEFINE seen == [taskLoop.seen EXCEPT !.age = Older(@, TaskTimeout)]
  <2>1. seen \in FeedbackStates BY <1>1, <1>2 DEF FeedbackStates, TaskLoops
  <2>2. taskLoop' = [taskLoop EXCEPT !.seen = seen] BY <1>1 DEF Elapse, TaskLoops
  <2> HIDE DEF seen
  <2> QED BY <1>1, <2>1, <2>2 DEF TaskLoops
<1>8. /\ execLoop' \in ExecLoops /\ execLoop'.at = execLoop.at
      /\ execLoop'.request = execLoop.request /\ Like(execLoop'.seen, execLoop.seen)
  <2> DEFINE seen == [execLoop.seen EXCEPT !.age = Older(@, TaskTimeout)]
  <2>1. seen \in IntentStates /\ Like(seen, execLoop.seen)
    BY <1>1, <1>2 DEF IntentStates, ExecLoops, Like
  <2>2. execLoop' = [execLoop EXCEPT !.seen = seen] BY <1>1 DEF Elapse, ExecLoops
  <2> HIDE DEF seen
  <2> QED BY <1>1, <2>1, <2>2 DEF ExecLoops
<1>9. /\ vehicle' \in Vehicles /\ vehicle'.todo \in {vehicle.todo, "NONE"}
      /\ vehicle'.armed = vehicle.armed /\ vehicle'.grounded = vehicle.grounded
      /\ vehicle'.mode = vehicle.mode
  BY <1>1 DEF Elapse, Vehicles
<1>10. worker' = worker /\ results' = results /\ input' = input BY DEF Elapse
<1>11. Typed' BY <1>3, <1>4, <1>5, <1>6, <1>7, <1>8, <1>9, <1>10 DEF Inv, Typed
<1>12. Handed' BY <1>7, <1>8, <1>10 DEF Inv, Handed, UnderWay
<1>13. RequestIsOnItsWay' BY <1>3, <1>8, <1>10 DEF Inv, RequestIsOnItsWay
<1>14. Agreeing(task.intent, Copies)'
  BY <1>3, <1>4, <1>5, <1>8, <1>11, CopiesKept DEF Inv
<1>15. Observed' BY <1>3, <1>9 DEF Inv, Observed, IdleIsNotAirborne, Landing
<1> QED BY <1>11, <1>12, <1>13, <1>14, <1>15 DEF Inv

-----------------------------------------------------------------------------
(* The theorems. *)

\* The invariant is inductive.
LEMMA NextInv == Inv /\ [Next]_vars => Inv'
<1> SUFFICES ASSUME Inv, [Next]_vars PROVE Inv'
  OBVIOUS
<1>1. CASE TaskStep
  BY <1>1, TaskReadInv, TaskComputeInv, TaskLoadInv, TaskStoreInv DEF TaskStep
<1>2. CASE ExecStep
  BY <1>2, ExecLoadInv, ExecTickInv, ExecDispatchInv DEF ExecStep
<1>3. CASE WorkerStep
  BY <1>3, WorkerTakeInv, WorkerFinishInv, WorkerReportInv DEF WorkerStep
<1>4. CASE VehicleStep BY <1>4, VehicleInv
<1>5. CASE InputStep BY <1>5, InputInv
<1>6. CASE Elapse BY <1>6, ElapseInv
<1>7. CASE UNCHANGED vars
  <2>1. Typed' BY <1>7 DEF vars, Inv, Typed
  <2>2. Handed' BY <1>7 DEF vars, Inv, Handed, UnderWay
  <2>3. RequestIsOnItsWay' BY <1>7 DEF vars, Inv, RequestIsOnItsWay
  <2>4. Agreeing(task.intent, Copies)' BY <1>7 DEF vars, Inv, Copies
  <2>5. Observed' BY <1>7 DEF vars, Inv, Observed, IdleIsNotAirborne
  <2> QED BY <2>1, <2>2, <2>3, <2>4, <2>5 DEF Inv
<1> QED BY <1>1, <1>2, <1>3, <1>4, <1>5, <1>6, <1>7 DEF Next

\* It holds in every reachable state of the process.
LEMMA InvAlways == Spec => []Inv
BY InitInv, NextInv, PTL DEF Spec

\* Two copies of an intent with one identifier are one command, however stale
\* the copies are that the threads hold, and none is of the future.
THEOREM OneCommandPerName == Spec => []CopiesOfIntentAgree
<1>1. Inv => CopiesOfIntentAgree
  BY DEF Inv, Agreeing, Copies, Like, CopiesOfIntentAgree
<1> QED BY <1>1, InvAlways, PTL

\* The request the executor waits for is always with one of the threads: none
\* is lost in a hand-over, whatever is refused, skipped or late.
THEOREM RequestsTravel == Spec => []RequestIsOnItsWay
<1>1. Inv => RequestIsOnItsWay BY DEF Inv
<1> QED BY <1>1, InvAlways, PTL

\* The executor never takes a flying vehicle for one that waits on the ground,
\* whatever revokes, replaces or fails the flight.
THEOREM GroundIsGround == Spec => []IdleIsNotAirborne
<1>1. Inv => IdleIsNotAirborne BY DEF Inv, Observed
<1> QED BY <1>1, InvAlways, PTL

\* However long a request has been queued, a call to MAVROS starts only if the
\* task still asks for it, or the landing in progress does.
THEOREM CallsStartCurrent == Spec => CallsAreCurrent
<1> DEFINE kind == worker'.request.kind
           Current0 == worker.stage = "waiting" /\ worker'.stage = "calling" =>
              /\ kind \in {"SET_OFFBOARD", "ARM"} =>
                    intent.kind = "TAKEOFF" /\ Fresh(intent) /\ ~exec.lost
              /\ kind = "SET_LAND" => exec.accepted.kind = "LAND"
              /\ kind \in {"ARM", "DISARM"} => vehicle.grounded
<1>1. Inv /\ [Next]_vars => [Current0]_vars
  <2> SUFFICES ASSUME Inv, [Next]_vars, worker.stage = "waiting", worker'.stage = "calling"
               PROVE  /\ kind \in {"SET_OFFBOARD", "ARM"} =>
                            intent.kind = "TAKEOFF" /\ Fresh(intent) /\ ~exec.lost
                      /\ kind = "SET_LAND" => exec.accepted.kind = "LAND"
                      /\ kind \in {"ARM", "DISARM"} => vehicle.grounded
    OBVIOUS
  <2>1. worker \in Workers /\ Good(exec) BY DEF Inv, Typed
  <2>2. WorkerTake
    <3>1. worker' # worker OBVIOUS
    <3>2. ~ExecDispatch BY <2>1 DEF ExecDispatch, Workers
    <3>3. ~WorkerReport /\ \A ok \in BOOLEAN : ~WorkerFinish(ok)
      BY <2>1 DEF WorkerReport, WorkerFinish, Workers
    <3> QED BY <3>1, <3>2, <3>3 DEF Next, vars, TaskStep, ExecStep, WorkerStep, VehicleStep,
               InputStep, TaskRead, TaskCompute, TaskLoad, TaskStore, ExecLoad, ExecTick,
               VehicleObeys, LiftOff, TouchGround, AutoDisarm, Fault, Recover,
               OperatorWrites, MissionArrives, Elapse
  <2>3. ActionAllowed(exec, worker.slot, Snapshot(FALSE), intent) /\ kind = worker.slot.kind
    BY <2>1, <2>2 DEF WorkerTake, Workers
  <2> HIDE DEF kind
  <2>4. kind \in {"SET_OFFBOARD", "ARM"} => exec.phase \in {"OFFBOARD_REQUEST", "ARMING"}
    BY <2>3 DEF ActionAllowed
  <2>5. kind \in {"SET_OFFBOARD", "ARM"} =>
            /\ exec.accepted.kind = "TAKEOFF" /\ intent.id = exec.accepted.id
            /\ Fresh(intent) /\ ~exec.lost
    BY <2>1, <2>3, <2>4 DEF ActionAllowed, Good, MatchesGrant, Landing, LandingPhases
  <2>6. intent.id = exec.accepted.id => intent.kind = exec.accepted.kind
    BY DEF Inv, Agreeing, Copies, Like
  <2>7. kind = "SET_LAND" => exec.accepted.kind = "LAND"
    <3>1. kind = "SET_LAND" => exec.phase = "LAND_REQUEST" BY <2>3 DEF ActionAllowed
    <3> QED BY <2>1, <3>1 DEF Good, MatchesGrant, Landing, LandingPhases
  <2>8. kind \in {"ARM", "DISARM"} => vehicle.grounded
    BY <2>3 DEF ActionAllowed, Snapshot
  <2> QED BY <2>5, <2>6, <2>7, <2>8
<1> QED BY <1>1, InvAlways, PTL DEF Spec, CallsAreCurrent, Current0, kind

-----------------------------------------------------------------------------
(* The points of a mission. *)

\* What is reported about the target is on record, and of no later intent than
\* the task's.
LEMMA ReportedStep == Inv /\ Inv' /\ Reported /\ [RecorderNext]_recorderVars => Reported'
<1> SUFFICES ASSUME Inv, Inv', Reported, [RecorderNext]_recorderVars
             PROVE  Reported'
  OBVIOUS
<1> DEFINE Sound(f, i, r) == /\ f.phase = "GUIDING" /\ f.sensors.near => f.id \in r
                             /\ f.id <= i.id
<1>1. \A f \in {feedback, taskLoop.seen} : Sound(f, task.intent, reached)
  BY DEF Reported
<1>2. /\ feedback \in FeedbackStates /\ taskLoop \in TaskLoops
      /\ taskLoop.seen \in FeedbackStates
  BY DEF Inv, Typed, TaskLoops
<1>3. [Next]_vars
  BY DEF RecorderNext, recorderVars, vars
<1>4. task.intent.id \in Nat /\ task'.intent.id \in Nat
  BY DEF Inv, Typed, GoodTask, TaskStates, IntentStates
<1>5. reached \subseteq reached'
  BY DEF RecorderNext, Record, recorderVars
<1>6. task'.intent.id >= task.intent.id
  <2>1. CASE TaskCompute
    <3>1. task' = TaskTickOf(task, taskLoop.command, taskLoop.seen) BY <2>1 DEF TaskCompute
    <3>2. GoodTask(task) BY DEF Inv, Typed
    <3> QED BY <1>2, <3>1, <3>2, TickSucceeds DEF Succeeds
  <2>2. ASSUME NEW fresh \in BOOLEAN, TaskLoad(fresh) PROVE task'.intent.id >= task.intent.id
    <3>1. PICK t : /\ GoodTask(t) /\ t.intent.id >= task.intent.id
                   /\ task' = TaskTickOf(t, taskLoop.command, taskLoop.seen)
      BY <2>2, TaskLoadIs
    <3>2. task'.intent.id >= t.intent.id BY <1>2, <3>1, TickSucceeds DEF Succeeds
    <3>3. t.intent.id \in Nat BY <3>1 DEF GoodTask, TaskStates, IntentStates
    <3> QED BY <1>4, <3>1, <3>2, <3>3
  <2>3. CASE Elapse
    <3>1. SameIntent(task, task') BY <2>3, ElapsedIs DEF Inv, Typed, Elapse
    <3> QED BY <1>4, <3>1 DEF SameIntent
  <2>4. CASE UNCHANGED task BY <1>4, <2>4
  <2> QED BY <1>3, <2>1, <2>2, <2>3, <2>4 DEF Next, vars, TaskStep, ExecStep, WorkerStep,
             VehicleStep, InputStep, TaskRead, TaskStore, ExecLoad, ExecTick, ExecDispatch,
             WorkerTake, WorkerFinish, WorkerReport, VehicleObeys, LiftOff, TouchGround,
             AutoDisarm, Fault, Recover, OperatorWrites, MissionArrives
<1>7. ASSUME NEW f \in FeedbackStates, Sound(f, task.intent, reached)
      PROVE  Sound(f, task'.intent, reached')
  <2>1. f.id \in Nat BY DEF FeedbackStates
  <2> QED BY <1>4, <1>5, <1>6, <1>7, <2>1
<1>8. /\ Sound(NoFeedback, task'.intent, reached')
      /\ \A f \in {feedback, taskLoop.seen} : Sound(f, task'.intent, reached')
  BY <1>1, <1>2, <1>4, <1>7 DEF NoFeedback
<1>9. Sound(feedback', task'.intent, reached')
  <2>1. CASE feedback' = feedback BY <1>8, <2>1
  <2>2. ASSUME NEW near \in BOOLEAN, ExecTick(near)
        PROVE  Sound(feedback', task'.intent, reached')
    <3>1. feedback'.id = exec'.accepted.id
      BY <2>2 DEF ExecTick, FeedbackOf
    <3>2. exec'.accepted.id <= task'.intent.id BY DEF Inv, Agreeing, Copies
    <3>3. feedback'.phase = "GUIDING" /\ feedback'.sensors.near => feedback'.id \in reached'
      <4>1. feedback' # feedback => Record
        BY DEF RecorderNext, recorderVars, vars
      <4>2. CASE Record BY <4>2 DEF Record
      <4>3. CASE feedback' = feedback BY <1>8, <4>3
      <4> QED BY <4>1, <4>2, <4>3
    <3> QED BY <3>1, <3>2, <3>3
  <2>3. CASE Elapse
    <3>1. /\ feedback'.phase = feedback.phase /\ feedback'.id = feedback.id
          /\ feedback'.sensors = feedback.sensors
      BY <1>2, <2>3 DEF Elapse, FeedbackStates
    <3> QED BY <1>8, <3>1
  <2> QED BY <1>3, <2>1, <2>2, <2>3 DEF Next, vars, TaskStep, ExecStep, WorkerStep,
             VehicleStep, InputStep, TaskRead, TaskCompute, TaskLoad, TaskStore, ExecLoad,
             ExecDispatch, WorkerTake, WorkerFinish, WorkerReport, VehicleObeys, LiftOff,
             TouchGround, AutoDisarm, Fault, Recover, OperatorWrites, MissionArrives
<1>10. Sound(taskLoop'.seen, task'.intent, reached')
  <2>1. CASE taskLoop'.seen \in {taskLoop.seen, feedback, NoFeedback} BY <1>8, <2>1
  <2>2. CASE Elapse
    <3>1. /\ taskLoop'.seen.phase = taskLoop.seen.phase
          /\ taskLoop'.seen.id = taskLoop.seen.id
          /\ taskLoop'.seen.sensors = taskLoop.seen.sensors
      BY <1>2, <2>2 DEF Elapse, FeedbackStates, TaskLoops
    <3> QED BY <1>8, <3>1
  <2>3. TaskRead \/ TaskStore => taskLoop'.seen \in {feedback, NoFeedback}
    BY DEF TaskRead, TaskStore
  <2>4. TaskCompute \/ (\E fresh \in BOOLEAN : TaskLoad(fresh)) => taskLoop'.seen = taskLoop.seen
    BY <1>2 DEF TaskCompute, TaskLoad, TaskLoops
  <2> QED BY <1>3, <2>1, <2>2, <2>3, <2>4 DEF Next, vars, TaskStep, ExecStep, WorkerStep,
             VehicleStep, InputStep, ExecLoad, ExecTick, ExecDispatch, WorkerTake,
             WorkerFinish, WorkerReport, VehicleObeys, LiftOff, TouchGround, AutoDisarm,
             Fault, Recover, OperatorWrites, MissionArrives
<1> QED BY <1>9, <1>10 DEF Reported

\* It holds in every reachable state of the process with its record.
LEMMA ReportedAlways == RecorderSpec => [](Inv /\ Reported)
<1>1. RecorderInit => Inv /\ Reported
  <2> SUFFICES ASSUME RecorderInit PROVE Inv /\ Reported
    OBVIOUS
  <2>1. Inv BY InitInv DEF RecorderInit
  <2>2. feedback = NoFeedback /\ taskLoop.seen = NoFeedback
    BY DEF RecorderInit, Init, Boot
  <2>3. task.intent.id \in Nat BY <2>1 DEF Inv, Typed, GoodTask, TaskStates, IntentStates
  <2> QED BY <2>1, <2>2, <2>3 DEF Reported, NoFeedback
<1>2. Inv /\ Reported /\ [RecorderNext]_recorderVars => (Inv /\ Reported)'
  <2>1. [RecorderNext]_recorderVars => [Next]_vars BY DEF RecorderNext, recorderVars, vars
  <2> QED BY <2>1, NextInv, ReportedStep
<1> QED BY <1>1, <1>2, PTL DEF RecorderSpec

\* No point of a mission is passed by: one is counted, or the last one held at,
\* only when the vehicle has been there on the intent for that very point.
THEOREM PointsReached == RecorderSpec => PointsAreFlown
<1> DEFINE Counts == task.phase = "GUIDING" /\ (task'.index > task.index \/ task'.phase = "HOLDING")
<1>1. Inv /\ Reported /\ [RecorderNext]_recorderVars
        => [Counts => task.intent.id \in reached]_recorderVars
  <2> SUFFICES ASSUME Inv, Reported, [RecorderNext]_recorderVars, Counts
               PROVE  task.intent.id \in reached
    OBVIOUS
  <2>1. /\ GoodTask(task) /\ taskLoop.seen \in FeedbackStates /\ taskLoop \in TaskLoops
        /\ task.index \in Nat
    BY DEF Inv, Typed, TaskLoops, GoodTask, TaskStates
  <2>2. [Next]_vars BY DEF RecorderNext, recorderVars, vars
  <2>3. ASSUME NEW t, GoodTask(t), t.index <= task.index, t.phase = task.phase,
               Like(t.intent, task.intent) \/ t.intent.id = task.intent.id + 1,
               task' = TaskTickOf(t, taskLoop.command, taskLoop.seen)
        PROVE  task.intent.id \in reached
    <3>1. GoodTask(task') BY <2>1, <2>3, TickMay
    <3>2. task'.index > t.index \/ task'.phase = "HOLDING"
      BY <2>1, <2>3, <3>1 DEF GoodTask, TaskStates
    <3>3. Matched(t, taskLoop.seen) /\ taskLoop.seen.phase = "GUIDING" /\ taskLoop.seen.sensors.near
      <4> DEFINE w == TaskTickOf(t, taskLoop.command, taskLoop.seen)
      <4>1. w.index > t.index \/ w.phase = "HOLDING" BY <2>3, <3>2
      <4> HIDE DEF w
      <4> QED BY <2>1, <2>3, <4>1, TickReaches DEF w
    <3>4. taskLoop.seen.id \in reached /\ taskLoop.seen.id <= task.intent.id
      BY <3>3 DEF Reported
    <3>5. taskLoop.seen.id \in Nat /\ task.intent.id \in Nat
      BY <2>1 DEF FeedbackStates, GoodTask, TaskStates, IntentStates
    <3> QED BY <2>3, <3>3, <3>4, <3>5 DEF Matched, Like
  <2>4. CASE TaskCompute
    <3>1. task' = TaskTickOf(task, taskLoop.command, taskLoop.seen) BY <2>4 DEF TaskCompute
    <3> QED BY <2>1, <2>3, <3>1, LikeItself
  <2>5. ASSUME NEW fresh \in BOOLEAN, TaskLoad(fresh) PROVE task.intent.id \in reached
    BY <2>3, <2>5, TaskLoadIs
  <2>6. CASE Elapse
    <3>1. task'.index = task.index /\ task'.phase = task.phase
      BY <2>1, <2>6 DEF Elapse, ElapsedTask, GoodTask, TaskStates
    <3> QED BY <2>1, <3>1
  <2>7. CASE UNCHANGED task BY <2>1, <2>7
  <2> QED BY <2>2, <2>4, <2>5, <2>6, <2>7 DEF Next, vars, TaskStep, ExecStep, WorkerStep,
             VehicleStep, InputStep, TaskRead, TaskStore, ExecLoad, ExecTick, ExecDispatch,
             WorkerTake, WorkerFinish, WorkerReport, VehicleObeys, LiftOff, TouchGround,
             AutoDisarm, Fault, Recover, OperatorWrites, MissionArrives
<1> QED BY <1>1, ReportedAlways, PTL DEF RecorderSpec, PointsAreFlown, Counts
=============================================================================
