------------------------------- MODULE MapSave -------------------------------
(***************************************************************************)
(* Saving a map: the command that submits a job, the detached worker that  *)
(* waits for the mapping node, the node that writes the bundle beside its  *)
(* destination and renames it there, and an operator reading the status.   *)
(*                                                                         *)
(* All jobs name one destination, the case in which they meet.  The lock   *)
(* is a flock on a file that start opens and the worker inherits: it is    *)
(* held while either of them has it open.  Commands and workers may be     *)
(* killed, the mapping node may go, and an operator may make the           *)
(* destination by hand.                                                    *)
(***************************************************************************)
EXTENDS Naturals, Sequences, FiniteSets

CONSTANTS Jobs, Operator, Nobody

SaveAssumption == {Operator, Nobody} \cap Jobs = {}

VARIABLES start,      \* job -> where its start command is
          worker,     \* job -> where its worker is
          status,     \* job -> status.json
          identified, \* jobs whose process.json exists
          reply,      \* job -> what the service answered
          requests,   \* jobs the mapping node has to serve; the first is in work
          serving,    \* where the mapping node is with the first, or gone
          target,     \* who made the destination
          reader      \* the status command: its job, step and what it read

clientVars == <<start, worker, status, identified>>
nodeVars == <<requests, serving, target>>
saveVars == <<clientVars, reply, nodeVars, reader>>

Final == {"SUCCEEDED", "FAILED", "UNKNOWN"}
Alive(j) == worker[j] \in {"spawned", "calling", "waiting", "written"}
-----------------------------------------------------------------------------
\* The open file descriptions that hold the lock.
Holds(j) == start[j] \in {"locked", "submitted", "spawned"} \/ Alive(j)

To(j, place) == start' = [start EXCEPT ![j] = place]
Report(j, state) == status' = [status EXCEPT ![j] = state]

CheckDestination(j) ==
  /\ start[j] = "idle"
  /\ To(j, IF target = Nobody THEN "checked" ELSE "ended")
  /\ UNCHANGED <<worker, status, identified, reply, nodeVars, reader>>

TakeLock(j) ==
  /\ start[j] = "checked"
  /\ To(j, IF \A k \in Jobs : ~Holds(k) THEN "locked" ELSE "ended")
  /\ UNCHANGED <<worker, status, identified, reply, nodeVars, reader>>

Submit(j) == /\ start[j] = "locked" /\ To(j, "submitted") /\ Report(j, "SUBMITTED")
             /\ UNCHANGED <<worker, identified, reply, nodeVars, reader>>

Spawn(j) == /\ start[j] = "submitted"
            /\ To(j, "spawned") /\ worker' = [worker EXCEPT ![j] = "spawned"]
            /\ UNCHANGED <<status, identified, reply, nodeVars, reader>>

\* latest.json and process.json; start then closes the lock.
Identify(j) == /\ start[j] = "spawned"
               /\ To(j, "ended") /\ identified' = identified \cup {j}
               /\ UNCHANGED <<worker, status, reply, nodeVars, reader>>

\* Starting the worker or writing one of the two files fails.
StartFails(j) == /\ start[j] \in {"submitted", "spawned"}
                 /\ To(j, "ended") /\ Report(j, "FAILED")
                 /\ UNCHANGED <<worker, identified, reply, nodeVars, reader>>

StartKilled(j) == /\ start[j] \notin {"idle", "ended"}
                  /\ To(j, "ended")
                  /\ UNCHANGED <<worker, status, identified, reply, nodeVars, reader>>
-----------------------------------------------------------------------------
Work(j, from, to) == /\ worker[j] = from
                     /\ worker' = [worker EXCEPT ![j] = to]

\* perform_save writes SAVING first, and again while the call lasts.
BeginSave(j) == /\ Work(j, "spawned", "calling") /\ Report(j, "SAVING")
                /\ UNCHANGED <<start, identified, reply, nodeVars, reader>>

WriteProgress(j) == /\ worker[j] \in {"calling", "waiting"}
                    /\ Report(j, "SAVING")
                    /\ UNCHANGED <<start, worker, identified, reply, nodeVars, reader>>

\* The thread in invoke: the service is there or it is not.
Call(j) == /\ Work(j, "calling", "waiting")
           /\ IF serving # "gone"
                THEN requests' = Append(requests, j) /\ UNCHANGED reply
                ELSE reply' = [reply EXCEPT ![j] = "error"] /\ UNCHANGED requests
           /\ UNCHANGED <<start, status, identified, serving, target, reader>>

\* incomplete_bundle finds every file: a directory made by hand has none.
BundleComplete == target \in Jobs

Verdict(j) == IF reply[j] = "error" THEN "UNKNOWN"
              ELSE IF reply[j] = "yes" /\ BundleComplete THEN "SUCCEEDED" ELSE "FAILED"

Conclude(j) == /\ reply[j] # "none"
               /\ Work(j, "waiting", "written") /\ Report(j, Verdict(j))
               /\ UNCHANGED <<start, identified, reply, nodeVars, reader>>

WorkerExits(j) == /\ Alive(j)
                  /\ worker' = [worker EXCEPT ![j] = "exited"]
                  /\ UNCHANGED <<start, status, identified, reply, nodeVars, reader>>
-----------------------------------------------------------------------------
\* saveFilteredMap: the handler stages the bundle, publishes it and answers.
Answer(yes) == /\ reply' = [reply EXCEPT ![Head(requests)] = yes]
               /\ requests' = Tail(requests)
               /\ serving' = "ready"

Stage == /\ serving = "ready" /\ requests # <<>>
         /\ IF target = Nobody
              THEN serving' = "staged" /\ UNCHANGED <<requests, reply>>
              ELSE Answer("no")
         /\ UNCHANGED <<clientVars, target, reader>>

ReplayFails == /\ serving = "staged" /\ Answer("no")
               /\ UNCHANGED <<clientVars, target, reader>>

\* renameat2 with RENAME_NOREPLACE.
Publish == IF target = Nobody
             THEN target' = Head(requests) /\ serving' = "published" /\ UNCHANGED <<requests, reply>>
             ELSE Answer("no") /\ UNCHANGED target

PublishBundle == /\ serving = "staged" /\ Publish
                 /\ UNCHANGED <<clientVars, reader>>

AnswerPublished == /\ serving = "published" /\ Answer("yes")
                   /\ UNCHANGED <<clientVars, target, reader>>

\* The mapping node ends: whoever waits for it gets an exception.
NodeGone == /\ serving # "gone" /\ serving' = "gone"
            /\ requests' = <<>>
            /\ reply' = [j \in Jobs |-> IF worker[j] = "waiting" /\ reply[j] = "none"
                                          THEN "error" ELSE reply[j]]
            /\ UNCHANGED <<clientVars, target, reader>>

MakeDirectory == /\ target = Nobody /\ target' = Operator
                 /\ UNCHANGED <<clientVars, reply, requests, serving, reader>>
-----------------------------------------------------------------------------
\* read_status: the status, then the process, then the status again.
ReadStatus(j) ==
  /\ reader.step \in {"idle", "told"} /\ status[j] # "none"
  /\ reader' = [job |-> j, read |-> status[j],
                step |-> IF status[j] \notin Final /\ j \in identified THEN "read" ELSE "told"]
  /\ UNCHANGED <<clientVars, reply, nodeVars>>

CheckProcess ==
  /\ reader.step = "read"
  /\ reader' = [reader EXCEPT !.step = IF Alive(reader.job) THEN "told" ELSE "dead"]
  /\ UNCHANGED <<clientVars, reply, nodeVars>>

\* Mutant: the first reading is taken for the last one.
LastWordAtOnce(j) == reader.read
LastWord(j) == status[j]

ReadAgain ==
  /\ reader.step = "dead"
  /\ reader' = [reader EXCEPT !.step = "told",
                              !.read = IF LastWord(reader.job) \in Final THEN LastWord(reader.job)
                                       ELSE "EXITED"]
  /\ UNCHANGED <<clientVars, reply, nodeVars>>
-----------------------------------------------------------------------------
Init == /\ start = [j \in Jobs |-> "idle"] /\ worker = [j \in Jobs |-> "none"]
        /\ status = [j \in Jobs |-> "none"] /\ identified = {}
        /\ reply = [j \in Jobs |-> "none"]
        /\ requests = <<>> /\ serving = "ready" /\ target = Nobody
        /\ reader = [job |-> CHOOSE j \in Jobs : TRUE, step |-> "idle", read |-> "none"]

Command(j) == \/ CheckDestination(j) \/ TakeLock(j) \/ Submit(j) \/ Spawn(j) \/ Identify(j)
              \/ StartFails(j) \/ StartKilled(j)

Worker(j) == BeginSave(j) \/ WriteProgress(j) \/ Call(j) \/ Conclude(j) \/ WorkerExits(j)

Node == Stage \/ ReplayFails \/ PublishBundle \/ AnswerPublished \/ NodeGone

Next == \/ \E j \in Jobs : Command(j) \/ Worker(j) \/ ReadStatus(j)
        \/ Node \/ MakeDirectory
        \/ CheckProcess \/ ReadAgain

Spec == Init /\ [][Next]_saveVars
-----------------------------------------------------------------------------
\* At most one worker is alive, over the end of the command that started it:
\* the inherited lock keeps a second save out (save_map.py:184).
OneWorker == \A j, k \in Jobs : Alive(j) /\ Alive(k) => j = k

\* SUCCEEDED stands for a bundle this very job has published, though another job
\* or the operator fills the same destination meanwhile (save_map.py:2), and the
\* status command says that a worker left without a result only if no result of
\* it was or will be written (save_map.py:100).
StatusIsTrue ==
  /\ \A j \in Jobs : status[j] = "SUCCEEDED" => target = j
  /\ reader.step = "told" /\ reader.read = "EXITED" =>
       ~Alive(reader.job) /\ status[reader.job] \notin Final

=============================================================================
