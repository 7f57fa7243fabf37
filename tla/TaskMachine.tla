---------------------------- MODULE TaskMachine ----------------------------
(***************************************************************************)
(* TaskMachine (task_machine.cpp): the half of the controller that turns   *)
(* the operator's command parameter and a mission into one intent at a     *)
(* time.  It is called by the 20 Hz task loop with the command it reads    *)
(* and the last feedback the executor has published, which may be old:     *)
(* this module lets the caller pass any feedback of a constant set.        *)
(***************************************************************************)
EXTENDS TaskStages

CONSTANTS Missions,             \* what the loop may load
          Feedbacks,            \* what the loop may pass to a tick
          MaxIssues             \* bound on the intents issued

ASSUME LoopAssumption ==
    /\ Missions \subseteq Seq(Waypoints)
    /\ Feedbacks \subseteq FeedbackStates
    /\ MaxIssues \in Nat

VARIABLE task       \* the private members of TaskMachine

Init == task = InitialTask

\* A tick may issue for the feedback and again for the command.
TaskTick(command, f) ==
    /\ task.intent.id + 2 <= MaxIssues
    /\ task' = TaskTickOf(task, command, f)

LoadMission(points, sequence) ==
    /\ task.intent.id + 1 <= MaxIssues
    /\ task' = LoadOf(task, points, sequence)

Elapse == task' = ElapsedTask(task)

Next ==
    \/ \E command \in Commands \cup {None}, f \in Feedbacks : TaskTick(command, f)
    \/ \E points \in Missions, sequence \in BOOLEAN : LoadMission(points, sequence)
    \/ Elapse

Spec == Init /\ [][Next]_task

-----------------------------------------------------------------------------
(* Properties. *)

\* What the task publishes is what its phase says it is doing, whatever order
\* feedback, commands and missions came in: in particular it guides to the
\* point of the mission it counts as current, and dwells only there.
IntentMatchesPhase == IntentOfPhase(task)

Issued(kind) == task'.intent.kind = kind /\ task'.intent.id # task.intent.id
Changed(command) == task.zeroSeen /\ task'.command = command /\ task.command # command

\* "The same value held never triggers again" (README of the package), and
\* nothing moves before state=0 was seen: a takeoff, a landing and a start or
\* resumption of the mission each need the parameter to change to its value.
OnlyCommandsStartMotion ==
    [][/\ Issued("TAKEOFF") => Changed(1)
       /\ Issued("TRACK") /\ task.phase # "GUIDING" => Changed(2)
       /\ Issued("LAND") => Changed(3)]_task

\* A pause, a timeout and a lost executor keep the progress of the mission:
\* only a newly loaded mission, a takeoff or a completed landing rewinds it
\* (README: state 2 resumes the progress).
ProgressSurvivesPause ==
    [][task'.index < task.index =>
        \/ \E points \in Missions, sequence \in BOOLEAN : LoadMission(points, sequence)
        \/ Issued("TAKEOFF")
        \/ task.phase = "LAND_REQUEST" /\ Issued("WAIT")]_task
=============================================================================
