-------------------------- MODULE TaskStages_proof --------------------------
(***************************************************************************)
(* Lemmas about one call of the task, for every value of its constants and *)
(* every input.  GoodTask is what a call preserves: the types, that the    *)
(* current point of the mission is one of it, and that the intent is what  *)
(* the phase says.  Each stage of a tick has a lemma that says what it     *)
(* keeps and what it may issue; a tick is two of them, one after the       *)
(* other.                                                                  *)
(***************************************************************************)
EXTENDS TaskStages, TLAPS

TaskStates ==
    [phase : TaskPhases, intent : IntentStates, command : Commands \cup {None},
     index : Nat, mission : Seq(Waypoints), sequence : BOOLEAN, zeroSeen : BOOLEAN,
     originValid : BOOLEAN, origin : Nat, started : Int, arrival : Age(ArrivalDwell)]

\* The current point is a point of the mission, or the first one to come.
InMission(t) == t.index = 0 \/ t.index < Len(t.mission)

GoodTask(t) == t \in TaskStates /\ InMission(t) /\ IntentOfPhase(t)

\* u has the mission, the command and the flags of t.
SameOrders(t, u) ==
    /\ u.mission = t.mission /\ u.sequence = t.sequence
    /\ u.command = t.command /\ u.zeroSeen = t.zeroSeen

\* u has a new intent of that kind.
NewIntent(t, u, kind) ==
    /\ u.intent.kind = kind /\ u.intent.id = t.intent.id + 1
    /\ u.intent.generation >= t.intent.generation
SameIntent(t, u) ==
    /\ u.intent.kind = t.intent.kind /\ u.intent.id = t.intent.id
    /\ u.intent.generation = t.intent.generation /\ u.intent.target = t.intent.target

-----------------------------------------------------------------------------
(* The data the stages share. *)

\* The ages and targets that are set belong to their sets.
LEMMA TaskDomains ==
    /\ None \in Age(TaskTimeout) /\ 0 \in Age(TaskTimeout)
    /\ None \in Age(ArrivalDwell) /\ 0 \in Age(ArrivalDwell)
    /\ Age(TaskTimeout) \subseteq Int /\ Age(ArrivalDwell) \subseteq Int
    /\ Zero \in Poses
    /\ \A w \in Waypoints, n \in Nat :
            Resolve(w, n) \in Poses /\ Resolve(w, n)[1] = w
<1>1. Age(TaskTimeout) \subseteq Int /\ Age(ArrivalDwell) \subseteq Int
  BY LeaseAssumption DEF Age, None
<1>2. /\ None \in Age(TaskTimeout) /\ 0 \in Age(TaskTimeout)
      /\ None \in Age(ArrivalDwell) /\ 0 \in Age(ArrivalDwell)
  BY LeaseAssumption DEF Age, None
<1>3. Zero \in Poses BY DEF Poses
<1>4. ASSUME NEW w \in Waypoints, NEW n \in Nat
      PROVE  Resolve(w, n) \in Poses /\ Resolve(w, n)[1] = w
  BY DEF Resolve, Poses, Targets
<1> QED BY <1>1, <1>2, <1>3, <1>4

\* A new intent changes no other field than the dwell.
LEMMA IssueIs ==
    ASSUME NEW t \in TaskStates, NEW kind \in IntentKinds, NEW target \in Poses,
           NEW age \in Age(TaskTimeout)
    PROVE  LET u == Issue(t, kind, target, age)
           IN /\ u \in TaskStates /\ NewIntent(t, u, kind) /\ SameOrders(t, u)
              /\ u.arrival = None /\ u.intent.target = target
              /\ u.phase = t.phase /\ u.index = t.index
              /\ u.originValid = t.originValid
<1> DEFINE i == [t.intent EXCEPT !.kind = kind, !.target = target, !.age = age,
                                 !.id = @ + 1]
<1>1. /\ t.intent \in IntentStates /\ t.intent.id + 1 \in Nat
  BY DEF TaskStates, IntentStates
<1>2. i \in IntentStates
  BY <1>1 DEF IntentStates
<1>3. /\ i.kind = kind /\ i.id = t.intent.id + 1 /\ i.target = target
      /\ i.generation >= t.intent.generation
  BY <1>1 DEF IntentStates
<1>4. Issue(t, kind, target, age) = [t EXCEPT !.intent = i, !.arrival = None]
  BY DEF Issue, TaskStates, IntentStates
<1> HIDE DEF i
<1> QED BY <1>2, <1>3, <1>4, TaskDomains DEF TaskStates, NewIntent, SameOrders

\* Rest asks for a hover or for nothing.
LEMMA RestIs ==
    ASSUME NEW t \in TaskStates, NEW air \in BOOLEAN
    PROVE  LET u == Rest(t, air)
           IN /\ u \in TaskStates /\ SameOrders(t, u) /\ IntentOfPhase(u)
              /\ NewIntent(t, u, IF air THEN "HOLD" ELSE "WAIT")
              /\ u.phase = (IF air THEN "PAUSED" ELSE "IDLE_GROUND")
              /\ u.arrival = None /\ u.index = t.index
<1> DEFINE kind == IF air THEN "HOLD" ELSE "WAIT"
           phase == IF air THEN "PAUSED" ELSE "IDLE_GROUND"
           u == Issue(t, kind, Zero, 0)
<1>1. kind \in IntentKinds /\ phase \in TaskPhases
  BY DEF IntentKinds, TaskPhases
<1>2. /\ u \in TaskStates /\ NewIntent(t, u, kind) /\ SameOrders(t, u)
      /\ u.arrival = None /\ u.index = t.index
  BY <1>1, IssueIs, TaskDomains
<1>3. Rest(t, air) = [u EXCEPT !.phase = phase] BY DEF Rest
<1> HIDE DEF u
<1> QED BY <1>1, <1>2, <1>3 DEF TaskStates, NewIntent, SameOrders, IntentOfPhase

\* Guide asks for the current point of a mission, or for the first one.
LEMMA GuideIs ==
    ASSUME NEW t \in TaskStates, NEW age \in Age(TaskTimeout), InMission(t),
           t.mission # <<>>, t.originValid
    PROVE  LET u == Guide(t, age)
           IN /\ GoodTask(u) /\ SameOrders(t, u) /\ NewIntent(t, u, "TRACK")
              /\ u.phase = "GUIDING" /\ u.index = t.index
<1> DEFINE goal == Resolve(t.mission[t.index + 1], t.origin)
           u == Issue(t, "TRACK", goal, age)
<1>1. /\ t.mission \in Seq(Waypoints) /\ t.index \in Nat /\ t.origin \in Nat
      /\ t.index < Len(t.mission)
  BY DEF TaskStates, InMission
<1>2. t.mission[t.index + 1] \in Waypoints BY <1>1
<1>3. goal \in Poses /\ goal[1] = t.mission[t.index + 1]
  BY <1>1, <1>2, TaskDomains
<1>4. Guide(t, age) = [u EXCEPT !.index = t.index, !.started = age, !.phase = "GUIDING"]
  <2>1. ~(t.index >= Len(t.mission)) BY <1>1
  <2>2. (IF t.index >= Len(t.mission) THEN 0 ELSE t.index) = t.index BY <2>1
  <2> QED BY <2>2, Zenon DEF Guide
<1> HIDE DEF goal
<1>5. /\ u \in TaskStates /\ NewIntent(t, u, "TRACK") /\ SameOrders(t, u)
      /\ u.arrival = None /\ u.intent.target = goal /\ u.originValid
      /\ u.index = t.index
  BY <1>3, IssueIs DEF IntentKinds
<1> HIDE DEF u
<1>6. Guide(t, age) \in TaskStates /\ Guide(t, age).mission = t.mission
  <2>1. age \in Int /\ "GUIDING" \in TaskPhases BY TaskDomains DEF TaskPhases
  <2> QED BY <1>1, <1>4, <1>5, <2>1 DEF TaskStates, SameOrders
<1> QED BY <1>1, <1>3, <1>4, <1>5, <1>6
        DEF TaskStates, NewIntent, SameOrders, IntentOfPhase, GoodTask, InMission

-----------------------------------------------------------------------------
(* A new mission. *)

\* A mission that arrives is kept, and becomes the target only while guiding.
LEMMA LoadKeeps ==
    ASSUME NEW t, GoodTask(t), NEW points \in Seq(Waypoints), NEW sequence \in BOOLEAN
    PROVE  LET u == LoadOf(t, points, sequence)
           IN /\ GoodTask(u) /\ u.command = t.command /\ u.zeroSeen = t.zeroSeen
              /\ \/ SameIntent(t, u)
                 \/ NewIntent(t, u, "TRACK") /\ t.phase = "GUIDING"
<1> DEFINE loaded == [t EXCEPT !.mission = points, !.sequence = sequence, !.index = 0]
<1>1. /\ loaded \in TaskStates /\ loaded.mission = points /\ loaded.index = 0
      /\ loaded.phase = t.phase /\ loaded.intent = t.intent
      /\ loaded.arrival = t.arrival /\ loaded.originValid = t.originValid
      /\ loaded.command = t.command /\ loaded.zeroSeen = t.zeroSeen
  BY DEF GoodTask, TaskStates
<1>2. InMission(loaded) BY <1>1 DEF InMission
<1>3. t.intent.age \in Age(TaskTimeout)
  BY DEF GoodTask, TaskStates, IntentStates
<1> HIDE DEF loaded
<1>4. CASE ~Loadable(t, points, sequence)
  <2>1. LoadOf(t, points, sequence) = t BY <1>4 DEF LoadOf
  <2> QED BY <2>1 DEF SameIntent
<1>5. CASE Loadable(t, points, sequence) /\ t.phase = "GUIDING" /\ ~sequence
  <2>1. LoadOf(t, points, sequence) = Guide(loaded, t.intent.age)
    BY <1>5 DEF LoadOf, loaded
  <2>2. loaded.mission # <<>> BY <1>1, <1>5 DEF Loadable
  <2>3. loaded.originValid BY <1>1, <1>5 DEF GoodTask, IntentOfPhase
  <2> QED BY <1>1, <1>2, <1>3, <1>5, <2>1, <2>2, <2>3, GuideIs DEF SameOrders, NewIntent
<1>6. CASE Loadable(t, points, sequence) /\ ~(t.phase = "GUIDING" /\ ~sequence)
  <2>1. LoadOf(t, points, sequence) = loaded BY <1>6 DEF LoadOf, loaded
  <2>2. t.phase # "GUIDING" BY <1>6 DEF Loadable
  <2>3. IntentOfPhase(loaded) BY <1>1, <2>2 DEF GoodTask, IntentOfPhase
  <2> QED BY <1>1, <1>2, <2>1, <2>3 DEF GoodTask, SameIntent
<1> QED BY <1>4, <1>5, <1>6

-----------------------------------------------------------------------------
(* The feedback of the executor. *)

\* What feedback may do to a task: issue for itself a rest, or the next point
\* of the mission while guiding, and rewind only for a landing.
FeedbackMayDo(t, f, u) ==
    /\ GoodTask(u) /\ u.command = t.command /\ u.zeroSeen = t.zeroSeen
    /\ \/ SameIntent(t, u) \/ NewIntent(t, u, "WAIT") \/ NewIntent(t, u, "HOLD")
       \/ NewIntent(t, u, "TRACK") /\ t.phase = "GUIDING"
    /\ u.index < t.index =>
            /\ t.phase = "LAND_REQUEST" /\ NewIntent(t, u, "WAIT")
            /\ u.phase = "IDLE_GROUND" /\ ~f.sensors.armed

\* A rest is one of these.
LEMMA RestMay ==
    ASSUME NEW t, GoodTask(t), NEW f, NEW air \in BOOLEAN
    PROVE  FeedbackMayDo(t, f, Rest(t, air))
<1>1. /\ t \in TaskStates /\ t.index \in Nat BY DEF GoodTask, TaskStates
<1> QED BY <1>1, RestIs DEF FeedbackMayDo, GoodTask, InMission, SameOrders, NewIntent

\* The takeoff point of the flight is learnt, and nothing else.
LEMMA LearnIs ==
    ASSUME NEW t, GoodTask(t), NEW f \in FeedbackStates
    PROVE  LET u == Learn(t, f)
           IN /\ GoodTask(u) /\ u.phase = t.phase /\ u.intent = t.intent
              /\ u.index = t.index /\ u.command = t.command /\ u.zeroSeen = t.zeroSeen
              /\ u.mission = t.mission /\ u.sequence = t.sequence
<1>1. t \in TaskStates /\ f.originGeneration \in Nat
  BY DEF GoodTask, FeedbackStates
<1>2. Learn(t, f) \in {t, [t EXCEPT !.origin = f.originGeneration, !.originValid = TRUE]}
  BY DEF Learn
<1>3. [t EXCEPT !.origin = f.originGeneration, !.originValid = TRUE] \in TaskStates
  BY <1>1 DEF TaskStates
<1>4. ASSUME NEW u \in TaskStates, u.phase = t.phase, u.intent = t.intent,
             u.index = t.index, u.mission = t.mission, u.arrival = t.arrival,
             u.originValid \in {t.originValid, TRUE}
      PROVE  GoodTask(u)
  BY <1>4 DEF GoodTask, InMission, IntentOfPhase
<1>5. CASE Learn(t, f) = t BY <1>5
<1>6. CASE Learn(t, f) = [t EXCEPT !.origin = f.originGeneration, !.originValid = TRUE]
  BY <1>1, <1>3, <1>4, <1>6 DEF TaskStates
<1> QED BY <1>2, <1>5, <1>6

\* A reached point leads to the next one, and the last to a hover.
LEMMA ArrivedMay ==
    ASSUME NEW t, GoodTask(t), NEW f, t.phase = "GUIDING"
    PROVE  FeedbackMayDo(t, f, Arrived(t))
<1> DEFINE further == [t EXCEPT !.index = @ + 1]
<1>1. /\ t \in TaskStates /\ t.index \in Nat /\ t.originValid
      /\ t.mission \in Seq(Waypoints)
  BY DEF GoodTask, TaskStates, IntentOfPhase
<1>2. CASE t.index + 1 < Len(t.mission)
  <2>1. /\ further \in TaskStates /\ further.index = t.index + 1
        /\ further.mission = t.mission /\ further.originValid
        /\ further.intent = t.intent /\ further.phase = t.phase
        /\ further.command = t.command /\ further.zeroSeen = t.zeroSeen
    BY <1>1 DEF TaskStates
  <2>2. Arrived(t) = Guide(further, 0) BY <1>2 DEF Arrived
  <2> HIDE DEF further
  <2>3. further.mission # <<>> /\ InMission(further)
    BY <1>1, <1>2, <2>1 DEF InMission
  <2>4. 0 \in Age(TaskTimeout) BY TaskDomains
  <2> QED BY <1>1, <2>1, <2>2, <2>3, <2>4, GuideIs DEF FeedbackMayDo, NewIntent, SameOrders
<1>3. CASE ~(t.index + 1 < Len(t.mission))
  <2> DEFINE u == Rest(t, TRUE)
  <2>1. Arrived(t) = [u EXCEPT !.phase = "HOLDING"] BY <1>3 DEF Arrived
  <2>2. /\ u \in TaskStates /\ SameOrders(t, u) /\ NewIntent(t, u, "HOLD")
        /\ u.arrival = None /\ u.index = t.index
    BY <1>1, RestIs
  <2> HIDE DEF u
  <2> QED BY <1>1, <2>1, <2>2 DEF FeedbackMayDo, GoodTask, TaskStates, TaskPhases, InMission,
             IntentOfPhase, SameOrders, NewIntent
<1> QED BY <1>2, <1>3

\* Guiding ends with a timeout, goes on, or arrives.
LEMMA TrackMay ==
    ASSUME NEW t, GoodTask(t), NEW f, NEW sensors, t.phase = "GUIDING"
    PROVE  FeedbackMayDo(t, f, Track(t, sensors))
<1>1. t \in TaskStates /\ t.started \in Int /\ t.index \in Nat BY DEF GoodTask, TaskStates
<1>2. Track(t, sensors) \in {Rest(t, TRUE), [t EXCEPT !.arrival = None],
                            [t EXCEPT !.arrival = 0], Arrived(t), t}
  BY <1>1 DEF Track
<1>3. ASSUME NEW age \in Age(ArrivalDwell)
      PROVE  FeedbackMayDo(t, f, [t EXCEPT !.arrival = age])
  <2>1. [t EXCEPT !.arrival = age] \in TaskStates BY <1>1 DEF TaskStates
  <2> QED BY <1>1, <2>1 DEF FeedbackMayDo, GoodTask, InMission, IntentOfPhase, SameIntent,
             TaskStates
<1>4. FeedbackMayDo(t, f, t) BY <1>1 DEF FeedbackMayDo, SameIntent
<1> QED BY <1>2, <1>3, <1>4, ArrivedMay, RestMay, TaskDomains

\* A completed landing rewinds the mission, and drops one that is not a sequence.
LEMMA LandedMay ==
    ASSUME NEW t, GoodTask(t), NEW f, t.phase = "LAND_REQUEST", ~f.sensors.armed
    PROVE  FeedbackMayDo(t, f, Landed(t))
<1> DEFINE u == Rest(t, FALSE)
           mission == IF t.sequence THEN u.mission ELSE <<>>
<1>1. t \in TaskStates BY DEF GoodTask
<1>2. /\ u \in TaskStates /\ SameOrders(t, u) /\ NewIntent(t, u, "WAIT")
      /\ u.arrival = None /\ u.phase = "IDLE_GROUND"
  BY <1>1, RestIs
<1>3. mission \in Seq(Waypoints)
  <2>1. u.mission \in Seq(Waypoints) BY <1>2 DEF TaskStates
  <2>2. <<>> \in Seq(Waypoints) OBVIOUS
  <2> HIDE DEF u
  <2> QED BY <2>1, <2>2
<1>4. Landed(t) = [u EXCEPT !.originValid = FALSE, !.index = 0, !.mission = mission]
  BY DEF Landed
<1> HIDE DEF u, mission
<1>5. Landed(t) \in TaskStates
  <2>1. u \in TaskStates /\ 0 \in Nat /\ FALSE \in BOOLEAN BY <1>2
  <2>2. [u EXCEPT !.originValid = FALSE, !.index = 0] \in TaskStates
    BY <2>1 DEF TaskStates
  <2>3. Landed(t) = [[u EXCEPT !.originValid = FALSE, !.index = 0] EXCEPT !.mission = mission]
    BY <1>4
  <2> QED BY <1>3, <2>2, <2>3 DEF TaskStates
<1>6. /\ Landed(t).index = 0 /\ Landed(t).intent = u.intent
      /\ Landed(t).phase = "IDLE_GROUND" /\ Landed(t).arrival = None
      /\ Landed(t).command = t.command /\ Landed(t).zeroSeen = t.zeroSeen
  BY <1>2, <1>4 DEF TaskStates, SameOrders
<1> QED BY <1>2, <1>5, <1>6 DEF FeedbackMayDo, GoodTask, InMission, IntentOfPhase, NewIntent

\* Feedback about the intent in force does no more than that.
LEMMA ProgressMay ==
    ASSUME NEW t, GoodTask(t), NEW f
    PROVE  FeedbackMayDo(t, f, Progress(t, f))
<1>1. t \in TaskStates BY DEF GoodTask
<1>2. CASE t.phase = "TAKEOFF" /\ f.phase = "HOLDING"
  <2>1. Progress(t, f) = [t EXCEPT !.phase = "HOLDING"] BY <1>2 DEF Progress
  <2>2. [t EXCEPT !.phase = "HOLDING"] \in TaskStates BY <1>1 DEF TaskStates, TaskPhases
  <2>3. t.index \in Nat BY <1>1 DEF TaskStates
  <2> QED BY <1>1, <1>2, <2>1, <2>2, <2>3 DEF FeedbackMayDo, GoodTask, InMission, IntentOfPhase,
             SameIntent, TaskStates
<1>3. CASE t.phase \in {"TAKEOFF", "GUIDING"} /\ f.phase = "PAUSED"
  BY <1>3, RestMay DEF Progress
<1>4. CASE t.phase = "LAND_REQUEST" /\ f.phase = "IDLE_GROUND" /\ ~f.sensors.armed
  BY <1>4, LandedMay DEF Progress
<1>5. CASE t.phase = "GUIDING" /\ f.phase = "GUIDING"
  BY <1>5, TrackMay DEF Progress
<1>6. CASE /\ ~(t.phase = "TAKEOFF" /\ f.phase = "HOLDING")
           /\ ~(t.phase \in {"TAKEOFF", "GUIDING"} /\ f.phase = "PAUSED")
           /\ ~(t.phase = "LAND_REQUEST" /\ f.phase = "IDLE_GROUND" /\ ~f.sensors.armed)
           /\ ~(t.phase = "GUIDING" /\ f.phase = "GUIDING")
  <2>1. Progress(t, f) = t BY <1>6 DEF Progress
  <2>2. t.index \in Nat BY <1>1 DEF TaskStates
  <2> QED BY <2>1, <2>2 DEF FeedbackMayDo, SameIntent
<1> QED BY <1>2, <1>3, <1>4, <1>5, <1>6

\* Nor does any feedback, whatever it is about.
LEMMA FollowMay ==
    ASSUME NEW t, GoodTask(t), NEW f \in FeedbackStates
    PROVE  FeedbackMayDo(t, f, Follow(t, f))
<1> DEFINE l == Learn(t, f)
<1>1. /\ t \in TaskStates /\ t.index \in Nat /\ f.sensors.armed \in BOOLEAN
  BY DEF GoodTask, TaskStates, FeedbackStates, SensorStates
<1>2. /\ GoodTask(l) /\ l.phase = t.phase /\ l.intent = t.intent /\ l.index = t.index
      /\ l.command = t.command /\ l.zeroSeen = t.zeroSeen
  BY LearnIs
<1>3. ASSUME NEW u, FeedbackMayDo(l, f, u) PROVE FeedbackMayDo(t, f, u)
  BY <1>2, <1>3 DEF FeedbackMayDo, SameIntent, NewIntent
<1>4. FeedbackMayDo(t, f, t) /\ FeedbackMayDo(t, f, l)
  BY <1>1, <1>2 DEF FeedbackMayDo, SameIntent
<1>5. FeedbackMayDo(t, f, [l EXCEPT !.phase = "ERROR"])
  <2>1. [l EXCEPT !.phase = "ERROR"] \in TaskStates
    BY <1>2 DEF GoodTask, TaskStates, TaskPhases
  <2> HIDE DEF l
  <2> QED BY <1>1, <1>2, <2>1 DEF FeedbackMayDo, GoodTask, InMission, IntentOfPhase, SameIntent,
             TaskStates
<1>6. Follow(t, f) \in {[l EXCEPT !.phase = "ERROR"], Rest(l, f.sensors.armed),
                       Progress(l, f), l, Rest(t, TRUE), t}
  BY DEF Follow
<1> HIDE DEF l
<1> QED BY <1>1, <1>2, <1>3, <1>4, <1>5, <1>6, RestMay, ProgressMay

-----------------------------------------------------------------------------
(* The command of the operator. *)

Ordered(t, v, command) == t.zeroSeen /\ v.command = command /\ t.command # command

\* What a command may do to a task: a motion needs a command that is new, and
\* feedback of an armed vehicle unless it is a takeoff; only a takeoff rewinds.
CommandMayDo(t, f, v) ==
    /\ GoodTask(v)
    /\ \/ SameIntent(t, v) \/ NewIntent(t, v, "WAIT")
       \/ NewIntent(t, v, "HOLD") /\ f.sensors.armed
       \/ NewIntent(t, v, "TAKEOFF") /\ Ordered(t, v, 1)
       \/ NewIntent(t, v, "TRACK") /\ Ordered(t, v, 2) /\ f.sensors.armed
       \/ NewIntent(t, v, "LAND") /\ Ordered(t, v, 3) /\ f.sensors.armed
    /\ v.index < t.index => NewIntent(t, v, "TAKEOFF")

\* Zero pauses or waits, unless the vehicle is landing or in error.
LEMMA StopMay ==
    ASSUME NEW t, GoodTask(t), NEW f \in FeedbackStates, NEW v, v = Stop(t, f)
    PROVE  /\ GoodTask(v) /\ v.index = t.index
           /\ \/ SameIntent(t, v) \/ NewIntent(t, v, "WAIT")
              \/ NewIntent(t, v, "HOLD") /\ f.sensors.armed
<1> DEFINE air == FeedbackFresh(f) /\ f.sensors.armed
           u == Rest(t, air)
<1>1. t \in TaskStates BY DEF GoodTask
<1>2. air \in BOOLEAN /\ (air => f.sensors.armed)
  BY DEF FeedbackFresh, FeedbackStates, SensorStates
<1>3. v \in {t, u} BY DEF Stop
<1> HIDE DEF air
<1>4. /\ u \in TaskStates /\ SameOrders(t, u) /\ IntentOfPhase(u) /\ u.index = t.index
      /\ NewIntent(t, u, IF air THEN "HOLD" ELSE "WAIT")
  BY <1>1, <1>2, RestIs
<1> HIDE DEF u
<1>5. GoodTask(u) BY <1>4 DEF GoodTask, InMission, SameOrders
<1> QED BY <1>2, <1>3, <1>4, <1>5 DEF SameIntent

\* One takes off from the ground, with a new generation.
LEMMA TakeOffMay ==
    ASSUME NEW t, GoodTask(t), NEW f, NEW v, v = TakeOff(t, f)
    PROVE  /\ GoodTask(v) /\ v.command = t.command
           /\ v # t => NewIntent(t, v, "TAKEOFF")
<1> DEFINE i == [t.intent EXCEPT !.generation = @ + 1]
           b == [t EXCEPT !.intent = i, !.originValid = FALSE, !.index = 0,
                          !.phase = "TAKEOFF"]
           u == Issue(b, "TAKEOFF", Zero, 0)
<1>1. t \in TaskStates /\ t.intent \in IntentStates BY DEF GoodTask, TaskStates
<1>2. /\ i \in IntentStates /\ i.id = t.intent.id /\ i.kind = t.intent.kind
      /\ i.generation \in Nat /\ t.intent.generation \in Nat
      /\ i.generation >= t.intent.generation
  BY <1>1 DEF IntentStates
<1>3. TakeOff(t, f) \in {t, u}
  <2>1. b = [t EXCEPT !.intent.generation = @ + 1, !.originValid = FALSE,
                      !.index = 0, !.phase = "TAKEOFF"]
    BY <1>1 DEF TaskStates, IntentStates
  <2> QED BY <2>1, Zenon DEF TakeOff
<1> HIDE DEF i
<1>4. b \in TaskStates
  <2>1. "TAKEOFF" \in TaskPhases BY DEF TaskPhases
  <2> QED BY <1>1, <1>2, <2>1 DEF TaskStates
<1>5. b.intent = i /\ b.index = 0 /\ b.phase = "TAKEOFF" /\ b.command = t.command
  BY <1>1 DEF TaskStates
<1> HIDE DEF b
<1>6. /\ u \in TaskStates /\ NewIntent(b, u, "TAKEOFF") /\ u.command = b.command
      /\ u.arrival = None /\ u.index = 0 /\ u.phase = "TAKEOFF"
  <2>1. "TAKEOFF" \in IntentKinds BY DEF IntentKinds
  <2>2. /\ u \in TaskStates /\ NewIntent(b, u, "TAKEOFF") /\ SameOrders(b, u)
        /\ u.arrival = None /\ u.index = b.index /\ u.phase = b.phase
    BY <1>4, <2>1, IssueIs, TaskDomains
  <2> QED BY <1>5, <2>2 DEF SameOrders
<1> HIDE DEF u
<1>7. u.intent.generation \in Nat BY <1>6 DEF TaskStates, IntentStates
<1>8. GoodTask(u) /\ u.command = t.command /\ NewIntent(t, u, "TAKEOFF")
  BY <1>2, <1>5, <1>6, <1>7 DEF GoodTask, InMission, IntentOfPhase, NewIntent
<1> QED BY <1>3, <1>8

\* Two starts or resumes the mission from a hover.
LEMMA StartMay ==
    ASSUME NEW t, GoodTask(t), NEW f, NEW v, v = Start(t, f)
    PROVE  /\ GoodTask(v) /\ v.command = t.command /\ v.index = t.index
           /\ v # t => NewIntent(t, v, "TRACK") /\ f.sensors.armed
<1>1. v # t => /\ v = Guide(t, 0) /\ t.mission # <<>> /\ t.originValid
               /\ f.sensors.armed
  BY DEF Start, Guide
<1> QED BY <1>1, GuideIs, TaskDomains DEF GoodTask, SameOrders

\* Three lands an armed vehicle.
LEMMA LandMay ==
    ASSUME NEW t, GoodTask(t), NEW f, NEW v, v = Land(t, f)
    PROVE  /\ GoodTask(v) /\ v.command = t.command /\ v.index = t.index
           /\ v # t => NewIntent(t, v, "LAND") /\ f.sensors.armed
<1> DEFINE b == [t EXCEPT !.phase = "LAND_REQUEST"]
           u == Issue(b, "LAND", Zero, 0)
<1>1. t \in TaskStates BY DEF GoodTask
<1>2. Land(t, f) \in {t, u} /\ (Land(t, f) # t => f.sensors.armed) BY DEF Land
<1>3. /\ b \in TaskStates /\ b.phase = "LAND_REQUEST" /\ b.intent = t.intent
      /\ b.index = t.index /\ b.mission = t.mission /\ b.command = t.command
  BY <1>1 DEF TaskStates, TaskPhases
<1> HIDE DEF b
<1>4. /\ u \in TaskStates /\ NewIntent(b, u, "LAND") /\ SameOrders(b, u)
      /\ u.arrival = None /\ u.index = t.index /\ u.phase = "LAND_REQUEST"
  <2>1. "LAND" \in IntentKinds BY DEF IntentKinds
  <2> QED BY <1>3, <2>1, IssueIs, TaskDomains
<1> HIDE DEF u
<1>5. GoodTask(u) /\ u.command = t.command /\ NewIntent(t, u, "LAND")
  BY <1>3, <1>4 DEF GoodTask, InMission, IntentOfPhase, NewIntent, SameOrders
<1> QED BY <1>2, <1>4, <1>5

\* Nor does any command do more.
LEMMA ObeyMay ==
    ASSUME NEW t, GoodTask(t), NEW f \in FeedbackStates, NEW command \in Commands \cup {None}
    PROVE  CommandMayDo(t, f, Obey(t, command, f))
<1> DEFINE seen == [t EXCEPT !.command = command]
           zero == [seen EXCEPT !.zeroSeen = TRUE]
<1>1. /\ t \in TaskStates /\ t.index \in Nat /\ t.zeroSeen \in BOOLEAN
  BY DEF GoodTask, TaskStates
<1>2. CommandMayDo(t, f, t) BY <1>1 DEF CommandMayDo, SameIntent
<1>3. /\ seen \in TaskStates /\ seen.command = command /\ zero \in TaskStates
      /\ \A u \in {seen, zero} :
            /\ u.intent = t.intent /\ u.index = t.index /\ u.phase = t.phase
            /\ u.mission = t.mission /\ u.arrival = t.arrival
            /\ u.originValid = t.originValid
  BY <1>1 DEF TaskStates
<1>4. Obey(t, command, f) =
        CASE command \notin Commands \/ command = t.command -> t
          [] command = 0 /\ t.command # 0 -> Stop(zero, f)
          [] command = 1 /\ t.command # 1 /\ t.zeroSeen -> TakeOff(seen, f)
          [] command = 2 /\ t.command # 2 /\ t.zeroSeen -> Start(seen, f)
          [] command = 3 /\ t.command # 3 /\ t.zeroSeen -> Land(seen, f)
          [] OTHER -> seen
  BY Zenon DEF Obey
<1> HIDE DEF seen, zero
<1>5. GoodTask(seen) /\ GoodTask(zero) BY <1>3 DEF GoodTask, InMission, IntentOfPhase
<1>6. CommandMayDo(t, f, seen)
  BY <1>1, <1>3, <1>5 DEF CommandMayDo, SameIntent
<1>7. CommandMayDo(t, f, Stop(zero, f))
  <2>1. zero.intent = t.intent /\ zero.index = t.index BY <1>3
  <2> QED BY <1>1, <1>5, <2>1, StopMay DEF CommandMayDo, SameIntent, NewIntent
<1>8. CASE command \notin Commands \/ command = t.command
  <2>1. Obey(t, command, f) = t BY <1>4, <1>8 DEF Commands
  <2> QED BY <1>2, <2>1
<1>9. CASE command = 0 /\ t.command # 0
  BY <1>4, <1>7, <1>9 DEF Commands
<1>10. CASE command = 1 /\ t.command # 1 /\ t.zeroSeen
  <2>1. Obey(t, command, f) = TakeOff(seen, f) BY <1>4, <1>10 DEF Commands
  <2> QED BY <1>3, <1>5, <1>6, <1>10, <2>1, TakeOffMay
          DEF CommandMayDo, NewIntent, Ordered
<1>11. CASE command = 2 /\ t.command # 2 /\ t.zeroSeen
  <2>1. Obey(t, command, f) = Start(seen, f) BY <1>4, <1>11 DEF Commands
  <2>2. seen.intent = t.intent /\ seen.index = t.index /\ seen.command = command
    BY <1>3
  <2> DEFINE v == Start(seen, f)
  <2>3. /\ GoodTask(v) /\ v.command = seen.command /\ v.index = seen.index
        /\ v # seen => NewIntent(seen, v, "TRACK") /\ f.sensors.armed
    BY <1>5, StartMay
  <2> HIDE DEF v
  <2>4. v # seen => /\ NewIntent(t, v, "TRACK") /\ Ordered(t, v, 2)
                    /\ f.sensors.armed
    BY <1>11, <2>2, <2>3 DEF NewIntent, Ordered
  <2>5. ~(v.index < t.index) BY <1>1, <2>2, <2>3
  <2>6. CommandMayDo(t, f, v) BY <1>6, <2>3, <2>4, <2>5 DEF CommandMayDo
  <2> QED BY <2>1, <2>6 DEF v
<1>12. CASE command = 3 /\ t.command # 3 /\ t.zeroSeen
  <2>1. Obey(t, command, f) = Land(seen, f) BY <1>4, <1>12 DEF Commands
  <2>2. seen.intent = t.intent /\ seen.index = t.index /\ seen.command = command
    BY <1>3
  <2> DEFINE v == Land(seen, f)
  <2>3. /\ GoodTask(v) /\ v.command = seen.command /\ v.index = seen.index
        /\ v # seen => NewIntent(seen, v, "LAND") /\ f.sensors.armed
    BY <1>5, LandMay
  <2> HIDE DEF v
  <2>4. v # seen => /\ NewIntent(t, v, "LAND") /\ Ordered(t, v, 3)
                    /\ f.sensors.armed
    BY <1>12, <2>2, <2>3 DEF NewIntent, Ordered
  <2>5. ~(v.index < t.index) BY <1>1, <2>2, <2>3
  <2>6. CommandMayDo(t, f, v) BY <1>6, <2>3, <2>4, <2>5 DEF CommandMayDo
  <2> QED BY <2>1, <2>6 DEF v
<1>13. CASE command \in 1..3 /\ command # t.command /\ ~t.zeroSeen
  <2>1. Obey(t, command, f) = seen BY <1>4, <1>13 DEF Commands
  <2> QED BY <1>6, <2>1
<1> QED BY <1>1, <1>8, <1>9, <1>10, <1>11, <1>12, <1>13 DEF Commands, None

-----------------------------------------------------------------------------
(* The steps of the specification. *)

\* A tick is the feedback, then the command, then the stamp of the intent.
LEMMA TickMay ==
    ASSUME NEW t, GoodTask(t), NEW command, NEW f \in FeedbackStates
    PROVE  \E u, v : LET w == TaskTickOf(t, command, f)
                    IN /\ u = Follow(t, f) /\ v = Obey(u, command, f)
                       /\ FeedbackMayDo(t, f, u) /\ CommandMayDo(u, f, v)
                       /\ GoodTask(w) /\ w.index = v.index /\ w.command = v.command
                       /\ w.phase = v.phase /\ SameIntent(v, w)
<1> DEFINE u == Follow(t, f)
           v == Obey(u, command, f)
           i == [v.intent EXCEPT !.age = 0]
<1>1. FeedbackMayDo(t, f, u) BY FollowMay
<1>2. GoodTask(u) BY <1>1 DEF FeedbackMayDo
<1> HIDE DEF u
<1>3. CommandMayDo(u, f, v)
  <2>1. CASE command \in Commands BY <1>2, <2>1, ObeyMay
  <2>2. CASE command \notin Commands
    <3>1. command # 0 /\ command # 1 /\ command # 2 /\ command # 3
      BY <2>2 DEF Commands
    <3>2. v = u BY <2>2, <3>1, Zenon DEF Obey
    <3> QED BY <1>2, <3>2 DEF CommandMayDo, GoodTask, TaskStates, SameIntent
  <2> QED BY <2>1, <2>2
<1>4. GoodTask(v) /\ v \in TaskStates /\ v.intent \in IntentStates /\ u = Follow(t, f)
  BY <1>3 DEF CommandMayDo, GoodTask, TaskStates, u
<1>5. TaskTickOf(t, command, f) = [v EXCEPT !.intent = i]
  BY <1>4 DEF TaskTickOf, u, TaskStates, IntentStates
<1> HIDE DEF v
<1>6. /\ i \in IntentStates /\ i.kind = v.intent.kind /\ i.id = v.intent.id
      /\ i.target = v.intent.target /\ i.generation = v.intent.generation
  BY <1>4, TaskDomains DEF IntentStates
<1> HIDE DEF i
<1>7. /\ GoodTask([v EXCEPT !.intent = i]) /\ [v EXCEPT !.intent = i].intent = i
      /\ [v EXCEPT !.intent = i].index = v.index
      /\ [v EXCEPT !.intent = i].command = v.command
      /\ [v EXCEPT !.intent = i].phase = v.phase
  BY <1>4, <1>6 DEF GoodTask, TaskStates, InMission, IntentOfPhase
<1>8. LET w == TaskTickOf(t, command, f)
      IN /\ GoodTask(w) /\ w.index = v.index /\ w.command = v.command
         /\ w.phase = v.phase /\ SameIntent(v, w)
  BY <1>5, <1>6, <1>7 DEF SameIntent
<1>9. v = Obey(u, command, f) BY DEF v
<1> QED BY <1>1, <1>3, <1>4, <1>8, <1>9

\* The clock only makes things older.
LEMMA ElapsedIs ==
    ASSUME NEW t, GoodTask(t)
    PROVE  LET u == ElapsedTask(t)
           IN GoodTask(u) /\ SameIntent(t, u) /\ u.index = t.index
<1> DEFINE i == [t.intent EXCEPT !.age = Older(@, TaskTimeout)]
<1>1. t \in TaskStates /\ t.intent \in IntentStates BY DEF GoodTask, TaskStates
<1>2. \A limit \in Nat : \A age \in Age(limit) :
            /\ Older(age, limit) \in Age(limit)
            /\ Older(age, limit) = None <=> age = None
  BY DEF Age, Older, None
<1>3. \A age \in Int : Older(age, WaypointTimeout) \in Int BY DEF Older
<1>4. Older(t.intent.age, TaskTimeout) \in Age(TaskTimeout)
  BY <1>1, <1>2, LeaseAssumption DEF IntentStates
<1>5. /\ i \in IntentStates /\ i.kind = t.intent.kind /\ i.id = t.intent.id
      /\ i.target = t.intent.target /\ i.generation = t.intent.generation
  BY <1>1, <1>4 DEF IntentStates
<1>6. ElapsedTask(t) = [t EXCEPT !.intent = i, !.started = Older(@, WaypointTimeout),
                                 !.arrival = Older(@, ArrivalDwell)]
  BY <1>1 DEF ElapsedTask, TaskStates, IntentStates
<1> HIDE DEF i
<1>7. /\ Older(t.started, WaypointTimeout) \in Int
      /\ Older(t.arrival, ArrivalDwell) \in Age(ArrivalDwell)
      /\ Older(t.arrival, ArrivalDwell) = None <=> t.arrival = None
  BY <1>1, <1>2, <1>3, LeaseAssumption DEF TaskStates
<1>8. ElapsedTask(t) \in TaskStates BY <1>1, <1>5, <1>6, <1>7 DEF TaskStates
<1> QED BY <1>1, <1>5, <1>6, <1>7, <1>8
        DEF GoodTask, TaskStates, InMission, IntentOfPhase, SameIntent

\* A new task satisfies the invariant.
LEMMA InitialTaskGood == GoodTask(InitialTask)
BY TaskDomains DEF InitialTask, NoIntent, GoodTask, TaskStates, TaskPhases, InMission,
   IntentOfPhase, IntentStates, IntentKinds, Commands

-----------------------------------------------------------------------------
(* One call after another. *)

\* j is a later intent of the same task than i, or the same one stamped anew.
Succeeds(i, j) ==
    /\ j.id >= i.id /\ j.generation >= i.generation
    /\ j.id = i.id => /\ j.kind = i.kind /\ j.target = i.target
                      /\ j.generation = i.generation

\* An intent kept and a new one both succeed the old one.
LEMMA IntentSucceeds ==
    ASSUME NEW t, GoodTask(t), NEW u, NEW kind, SameIntent(t, u) \/ NewIntent(t, u, kind)
    PROVE  Succeeds(t.intent, u.intent)
<1>1. t.intent.id \in Nat /\ t.intent.generation \in Nat
  BY DEF GoodTask, TaskStates, IntentStates
<1> QED BY <1>1 DEF SameIntent, NewIntent, Succeeds

\* A tick leaves the intent or issues later ones.
LEMMA TickSucceeds ==
    ASSUME NEW t, GoodTask(t), NEW command, NEW f \in FeedbackStates
    PROVE  Succeeds(t.intent, TaskTickOf(t, command, f).intent)
<1> DEFINE w == TaskTickOf(t, command, f)
<1>1. PICK u, v : /\ FeedbackMayDo(t, f, u) /\ CommandMayDo(u, f, v)
                  /\ GoodTask(w) /\ SameIntent(v, w)
  BY TickMay
<1>2. GoodTask(u) /\ GoodTask(v) BY <1>1 DEF FeedbackMayDo, CommandMayDo
<1> HIDE DEF w
<1>3. Succeeds(t.intent, u.intent) BY <1>1, IntentSucceeds DEF FeedbackMayDo
<1>4. Succeeds(u.intent, v.intent) BY <1>1, <1>2, IntentSucceeds DEF CommandMayDo
<1>5. Succeeds(v.intent, w.intent) BY <1>1, <1>2, IntentSucceeds
<1>6. \A x \in {t, u, v, w} : x.intent.id \in Nat /\ x.intent.generation \in Nat
  BY <1>1, <1>2 DEF GoodTask, TaskStates, IntentStates
<1>7. Succeeds(t.intent, w.intent) BY <1>3, <1>4, <1>5, <1>6 DEF Succeeds
<1> QED BY <1>7 DEF w

\* A message never advances a mission, and changes the phase of no task.
LEMMA LoadRewinds ==
    ASSUME NEW t, GoodTask(t), NEW points \in Seq(Waypoints), NEW sequence \in BOOLEAN
    PROVE  LET u == LoadOf(t, points, sequence)
           IN u.index <= t.index /\ u.phase = t.phase
<1> DEFINE loaded == [t EXCEPT !.mission = points, !.sequence = sequence, !.index = 0]
<1>1. /\ loaded \in TaskStates /\ loaded.mission = points /\ loaded.index = 0
      /\ loaded.phase = t.phase /\ loaded.intent = t.intent
      /\ loaded.originValid = t.originValid /\ t.index \in Nat
  BY DEF GoodTask, TaskStates
<1>2. InMission(loaded) BY <1>1 DEF InMission
<1>3. t.intent.age \in Age(TaskTimeout) BY DEF GoodTask, TaskStates, IntentStates
<1> HIDE DEF loaded
<1>4. CASE Loadable(t, points, sequence) /\ t.phase = "GUIDING" /\ ~sequence
  <2>1. LoadOf(t, points, sequence) = Guide(loaded, t.intent.age)
    BY <1>4 DEF LoadOf, loaded
  <2>2. loaded.mission # <<>> /\ loaded.originValid
    BY <1>1, <1>4 DEF Loadable, GoodTask, IntentOfPhase
  <2>3. Guide(loaded, t.intent.age).phase = "GUIDING"
        /\ Guide(loaded, t.intent.age).index = loaded.index
    BY <1>1, <1>2, <1>3, <2>2, GuideIs
  <2> QED BY <1>1, <1>4, <2>1, <2>3
<1>5. CASE ~(Loadable(t, points, sequence) /\ t.phase = "GUIDING" /\ ~sequence)
  <2>1. LoadOf(t, points, sequence) \in {t, loaded} BY <1>5 DEF LoadOf, loaded
  <2> QED BY <1>1, <2>1
<1> QED BY <1>4, <1>5

\* The task counts a point, or holds at the last one, only on feedback about
\* the intent in force that says the vehicle is there.
LEMMA FollowReaches ==
    ASSUME NEW t, GoodTask(t), NEW f \in FeedbackStates, t.phase = "GUIDING",
           Follow(t, f).index > t.index \/ Follow(t, f).phase = "HOLDING"
    PROVE  Matched(t, f) /\ f.phase = "GUIDING" /\ f.sensors.near
<1> DEFINE l == Learn(t, f)
           Stays(u) == u.index <= t.index /\ u.phase # "HOLDING"
<1>1. t \in TaskStates /\ t.index \in Nat BY DEF GoodTask, TaskStates
<1>2. /\ GoodTask(l) /\ l \in TaskStates /\ l.index = t.index /\ l.phase = t.phase
      /\ l.intent = t.intent
  BY LearnIs DEF GoodTask
<1>3. f.sensors.armed \in BOOLEAN BY DEF FeedbackStates, SensorStates
<1> HIDE DEF l
<1>4. Stays(t) /\ Stays(l) /\ Stays([l EXCEPT !.phase = "ERROR"])
  BY <1>1, <1>2 DEF TaskStates
<1>5. Stays(Rest(l, f.sensors.armed)) /\ Stays(Rest(l, TRUE)) /\ Stays(Rest(t, TRUE))
  <2>1. ASSUME NEW r \in {t, l}, NEW air \in BOOLEAN PROVE Stays(Rest(r, air))
    <3>1. Rest(r, air).index = r.index /\ Rest(r, air).phase # "HOLDING"
      BY <1>1, <1>2, RestIs
    <3> QED BY <1>1, <1>2, <3>1
  <2> QED BY <1>3, <2>1
<1>6. \/ Stays(Follow(t, f))
      \/ Matched(t, f) /\ Follow(t, f) = Progress(l, f)
  BY <1>4, <1>5 DEF Follow, l
<1>7. ~Stays(Follow(t, f))
  <2>1. Follow(t, f).index \in Nat
    BY FollowMay DEF FeedbackMayDo, GoodTask, TaskStates
  <2> QED BY <1>1, <2>1
<1>8. \/ Stays(Progress(l, f))
      \/ f.phase = "GUIDING" /\ Progress(l, f) = Track(l, f.sensors)
  BY <1>2, <1>4, <1>5 DEF Progress
<1>9. Stays([l EXCEPT !.arrival = None]) BY <1>1, <1>2 DEF TaskStates
<1>10. Stays(Track(l, f.sensors)) \/ WithinArrival(f.sensors)
  <2>1. l.started \in Int /\ WaypointTimeout \in Nat
    BY <1>2, WaypointAssumption DEF TaskStates
  <2>2. CASE l.started > WaypointTimeout
    <3>1. ~(l.started <= WaypointTimeout) BY <2>1, <2>2
    <3>2. Track(l, f.sensors) = Rest(l, TRUE) BY <2>2, <3>1, Zenon DEF Track
    <3> QED BY <1>5, <3>2
  <2>3. CASE l.started <= WaypointTimeout /\ ~WithinArrival(f.sensors)
    <3>1. ~(l.started > WaypointTimeout) BY <2>1, <2>3
    <3>2. Track(l, f.sensors) = [l EXCEPT !.arrival = None]
      BY <2>3, <3>1, Zenon DEF Track
    <3> QED BY <1>9, <3>2
  <2> QED BY <2>1, <2>2, <2>3
<1> QED BY <1>6, <1>7, <1>8, <1>10 DEF WithinArrival

\* A command counts no point.
LEMMA ObeyReaches ==
    ASSUME NEW t, GoodTask(t), NEW f \in FeedbackStates, NEW command
    PROVE  LET v == Obey(t, command, f)
           IN v.index <= t.index /\ (v.phase = "HOLDING" => t.phase = "HOLDING")
<1> DEFINE seen == [t EXCEPT !.command = command]
           zero == [seen EXCEPT !.zeroSeen = TRUE]
           Stays(v) == v.index <= t.index /\ (v.phase = "HOLDING" => t.phase = "HOLDING")
<1>1. t \in TaskStates /\ t.index \in Nat BY DEF GoodTask, TaskStates
<1>2. Stays(t) BY <1>1
<1>3. CASE command \in Commands
  <2>1. /\ seen \in TaskStates /\ zero \in TaskStates
        /\ \A u \in {seen, zero} :
              /\ u.intent = t.intent /\ u.index = t.index /\ u.phase = t.phase
              /\ u.mission = t.mission /\ u.arrival = t.arrival
              /\ u.originValid = t.originValid
    BY <1>1, <1>3 DEF TaskStates
  <2> HIDE DEF seen, zero
  <2>2. GoodTask(seen) /\ GoodTask(zero) BY <2>1 DEF GoodTask, InMission, IntentOfPhase
  <2>3. Stays(Stop(zero, f))
    <3>1. Stop(zero, f) \in {zero, Rest(zero, FeedbackFresh(f) /\ f.sensors.armed)}
      BY DEF Stop
    <3>2. (FeedbackFresh(f) /\ f.sensors.armed) \in BOOLEAN OBVIOUS
    <3>3. Rest(zero, FeedbackFresh(f) /\ f.sensors.armed).phase # "HOLDING"
          /\ Rest(zero, FeedbackFresh(f) /\ f.sensors.armed).index = zero.index
      BY <2>1, <3>2, RestIs
    <3> QED BY <1>1, <2>1, <3>1, <3>3
  <2>4. Stays(TakeOff(seen, f))
    <3> DEFINE b == [seen EXCEPT !.intent.generation = @ + 1, !.originValid = FALSE,
                                 !.index = 0, !.phase = "TAKEOFF"]
               u == Issue(b, "TAKEOFF", Zero, 0)
    <3>1. u.index = 0 /\ u.phase = "TAKEOFF" BY <2>1 DEF Issue, TaskStates
    <3>2. TakeOff(seen, f) \in {seen, u} BY DEF TakeOff
    <3> HIDE DEF u
    <3> QED BY <1>1, <2>1, <3>1, <3>2
  <2>5. Stays(Start(seen, f))
    <3>1. Start(seen, f) \in {seen, Guide(seen, 0)} BY DEF Start
    <3>2. \/ Guide(seen, 0) = seen
          \/ Guide(seen, 0).index = seen.index /\ Guide(seen, 0).phase = "GUIDING"
      BY <2>1, <2>2, GuideIs, TaskDomains DEF Guide, GoodTask
    <3> QED BY <1>1, <2>1, <3>1, <3>2
  <2>6. Stays(Land(seen, f))
    <3> DEFINE u == Issue([seen EXCEPT !.phase = "LAND_REQUEST"], "LAND", Zero, 0)
    <3>1. u.index = seen.index /\ u.phase = "LAND_REQUEST" BY <2>1 DEF Issue, TaskStates
    <3>2. Land(seen, f) \in {seen, u} BY DEF Land
    <3> HIDE DEF u
    <3> QED BY <1>1, <2>1, <3>1, <3>2
  <2>7. Obey(t, command, f) \in {t, Stop(zero, f), TakeOff(seen, f), Start(seen, f),
                                Land(seen, f), seen}
    BY Zenon DEF Obey, seen, zero
  <2> QED BY <1>1, <1>2, <2>1, <2>3, <2>4, <2>5, <2>6, <2>7
<1>4. CASE command \notin Commands
  <2>1. Obey(t, command, f) = t
    <3>1. command # 0 /\ command # 1 /\ command # 2 /\ command # 3
      BY <1>4 DEF Commands
    <3> QED BY <1>4, <3>1, Zenon DEF Obey
  <2> QED BY <1>2, <2>1
<1> QED BY <1>3, <1>4

\* Nor does a tick, but on such feedback about the intent it starts with.
LEMMA TickReaches ==
    ASSUME NEW t, GoodTask(t), NEW f \in FeedbackStates, NEW command, t.phase = "GUIDING",
           LET w == TaskTickOf(t, command, f)
           IN w.index > t.index \/ w.phase = "HOLDING"
    PROVE  Matched(t, f) /\ f.phase = "GUIDING" /\ f.sensors.near
<1> DEFINE w == TaskTickOf(t, command, f)
           u == Follow(t, f)
           v == Obey(u, command, f)
<1>1. /\ FeedbackMayDo(t, f, u) /\ CommandMayDo(u, f, v)
      /\ w.index = v.index /\ w.phase = v.phase
  BY TickMay
<1>2. GoodTask(u) /\ GoodTask(v) BY <1>1 DEF FeedbackMayDo, CommandMayDo
<1> HIDE DEF u
<1>3. v.index <= u.index /\ (v.phase = "HOLDING" => u.phase = "HOLDING")
  BY <1>2, ObeyReaches
<1> HIDE DEF v, w
<1>4. w.index > t.index \/ w.phase = "HOLDING" BY DEF w
<1>5. t.index \in Nat /\ u.index \in Nat /\ v.index \in Nat
  BY <1>2 DEF GoodTask, TaskStates
<1>6. u.index > t.index \/ u.phase = "HOLDING" BY <1>1, <1>3, <1>4, <1>5
<1> QED BY <1>6, FollowReaches DEF u
=============================================================================
