---------------------------- MODULE Relocalization ----------------------------
(***************************************************************************)
(* ducted_localization: the Session, the GlobalRelocalizer node around it  *)
(* and its registration process.  The node's callbacks and its loop hold   *)
(* one lock, so each is a step; the process works between them.            *)
(***************************************************************************)
EXTENDS Integers, Sequences, FiniteSets

CONSTANTS Fixes,        \* poses a registration can find, as integers
          Reach,        \* two poses this far apart are consistent
          Required,     \* required_confirmations
          FailureLimit, \* failure_limit
          MinFrames,    \* min_submap_frames
          MaxScans,     \* bound on the point clouds received
          MaxAsked      \* bound on the initializations asked for

ASSUME RelocalizationAssumption ==
    /\ Fixes \subseteq Int /\ Fixes # {}
    /\ Reach \in Nat /\ Required \in Nat \ {0, 1}
    /\ {FailureLimit, MinFrames, MaxScans, MaxAsked} \subseteq Nat \ {0}

VARIABLES session,  \* Session
          node,     \* the other fields of GlobalRelocalizer
          proc,     \* the registration process with its two queues
          asked     \* initializations the operator asked for

vars == <<session, node, proc, asked>>

Inputs == {"base", "fcu", "odom", "cloud"}
NoJob == [gen |-> 0, id |-> 0, scans |-> {}]

\* evidence is a history variable: the scans of each registration that agreed
\* on the candidate while searching.
FreshSession == [gen |-> 0, state |-> "WAITING", transform |-> {}, candidate |-> {},
                 confirmations |-> 0, failures |-> 0, lastJob |-> -1, evidence |-> {}]
\* fresh: the inputs that are valid and not timed out; seen: stamp of the
\* newest cloud; late: deadlines that passed; born: the value of seen at the
\* last start (history)
FreshNode == [fresh |-> {}, armed |-> FALSE, seen |-> 0, collected |-> 0, scans |-> {},
              auto |-> TRUE, ready |-> FALSE, workerReady |-> FALSE, job |-> NoJob,
              jobs |-> 0, late |-> {}, born |-> 0]
NoProcess == [at |-> "none", requests |-> <<>>, responses |-> <<>>]

\* What a handler works on
Here == [s |-> session, n |-> node, p |-> proc]
Become(x) == session' = x.s /\ node' = x.n /\ proc' = x.p

Consistent(a, b) == a - b \in -Reach .. Reach
Active(s) == s.state \in {"SEARCHING", "TRACKING"}
Healthy(n) == n.fresh = Inputs
CanInitialize(n) == Healthy(n) /\ ~n.armed
Valid(x) == Healthy(x.n) /\ x.s.state = "TRACKING" /\ x.s.transform # {} /\ "track" \notin x.n.late

-----------------------------------------------------------------------------
(* Session *)

Begin(s) == [FreshSession EXCEPT !.gen = s.gen + 1, !.state = "SEARCHING"]
Invalidate(s, state) == [s EXCEPT !.gen = @ + 1, !.state = state, !.transform = {}]

TickSession(s, late) ==
    IF s.state = "SEARCHING" /\ "search" \in late THEN Invalidate(s, "FAILED")
    ELSE IF s.state = "TRACKING" /\ "track" \in late THEN Invalidate(s, "LOST") ELSE s

Reject(s) ==
    IF s.state # "TRACKING" THEN [s EXCEPT !.confirmations = 0, !.candidate = {}, !.evidence = {}]
    ELSE IF s.failures + 1 >= FailureLimit
         THEN Invalidate([s EXCEPT !.failures = @ + 1], "LOST")
         ELSE [s EXCEPT !.failures = @ + 1]

\* accept of an answer that is of this generation and new
Weigh(s, a, scans) ==
    LET previous == IF s.state = "TRACKING" THEN s.transform ELSE s.candidate
        agreed == [s EXCEPT !.candidate = {a.fix},
                            !.confirmations = IF s.state = "SEARCHING" THEN @ + 1 ELSE @,
                            !.evidence = IF s.state = "SEARCHING" THEN @ \cup {scans} ELSE @]
    IN  IF a.kind = "poor" \/ (\E p \in previous : ~Consistent(p, a.fix)) THEN Reject(s)
        ELSE IF s.state = "SEARCHING" /\ agreed.confirmations < Required THEN agreed
        ELSE [agreed EXCEPT !.transform = {a.fix}, !.failures = 0, !.state = "TRACKING"]

\* Mutant of Accept: any answer to the job counts, whatever its generation.
AcceptAnyGeneration(old, late, a, scans) ==
    LET s == TickSession(old, late)
    IN  IF a.id <= s.lastJob THEN s ELSE Weigh([s EXCEPT !.lastJob = a.id], a, scans)

Accept(old, late, a, scans) ==
    LET s == TickSession(old, late)
    IN  IF a.gen # s.gen \/ a.id <= s.lastJob \/ ~Active(s) THEN s
        ELSE Weigh([s EXCEPT !.lastJob = a.id], a, scans)

-----------------------------------------------------------------------------
(* GlobalRelocalizer *)

StopWorker(x) == [x EXCEPT !.p = NoProcess, !.n.workerReady = FALSE, !.n.job = NoJob,
                           !.n.late = @ \ {"job", "load"}]

\* start, with begin and start_worker
Start(x) ==
    [StopWorker(x) EXCEPT !.s = Begin(x.s), !.p.at = "loading", !.n.auto = FALSE, !.n.scans = {},
                          !.n.collected = x.n.seen, !.n.born = x.n.seen, !.n.ready = FALSE,
                          !.n.late = {}]

Revoke(x) == [x EXCEPT !.s = IF Active(@) THEN Invalidate(@, "LOST") ELSE @, !.n.ready = FALSE]
Without(x, input) == [x EXCEPT !.n.fresh = @ \ {input}]
With(x, input) == [x EXCEPT !.n.fresh = @ \cup {input}]

ReceiveBase == \E ok \in BOOLEAN :
    /\ Become(IF ok THEN With(Here, "base") ELSE Revoke(Without(Here, "base")))
    /\ UNCHANGED asked

ReceiveFcu == \E connected, armed \in BOOLEAN :
    LET x == [Here EXCEPT !.n.armed = armed]
    IN  /\ Become(IF ~connected THEN Revoke(Without(x, "fcu"))
                  ELSE IF armed /\ session.state = "SEARCHING" THEN Revoke(With(x, "fcu"))
                  ELSE With(x, "fcu"))
        /\ UNCHANGED asked

\* A valid odometry is what the global pose and readiness are published for.
ReceiveOdom == \E ok \in BOOLEAN :
    LET x == With(Here, "odom")
    IN  /\ Become(IF ~ok THEN Revoke(Without(Here, "odom"))
                  ELSE IF Valid(x) THEN [x EXCEPT !.n.ready = TRUE] ELSE x)
        /\ UNCHANGED asked

ReceiveCloud ==
    \/ /\ Become(Revoke(Without(Here, "cloud")))
       /\ UNCHANGED asked
    \/ /\ node.seen < MaxScans
       /\ \E enough \in BOOLEAN :
            LET x == [Here EXCEPT !.n.seen = @ + 1]
            IN  Become(IF enough THEN With(x, "cloud") ELSE Revoke(Without(x, "cloud")))
       /\ UNCHANGED asked

\* manual and retry_callback: the operator asks for an initialization.
Operator ==
    /\ CanInitialize(node) /\ asked < MaxAsked
    /\ Become(Start(Here))
    /\ asked' = asked + 1

\* Mutant of Answered: the scans stay for the next submap.
AnsweredKeepsScans(x) == x

\* After an answer only scans that are newer go into the next submap.
Answered(x) == [x EXCEPT !.n.scans = {}, !.n.collected = x.n.seen]

\* receive_results: one message, or none
ReceiveResults(x) ==
    LET a == Head(x.p.responses)
        y == [x EXCEPT !.p.responses = Tail(@)]
        job == x.n.job
        z == [y EXCEPT !.n.job = NoJob, !.n.late = @ \ {"job"}]
        s == Accept(z.s, z.n.late, a, job.scans)
    IN  IF x.p.responses = <<>> THEN x
        ELSE IF a.kind = "loaded" THEN [y EXCEPT !.n.workerReady = TRUE, !.n.late = @ \ {"load"}]
        ELSE IF a.kind = "fatal" THEN [y EXCEPT !.s = Invalidate(@, "FAILED")]
        ELSE IF job = NoJob \/ <<a.gen, a.id>> # <<job.gen, job.id>> THEN y
        ELSE IF ~Healthy(x.n) \/ "job" \in x.n.late THEN [z EXCEPT !.s = Invalidate(@, "LOST")]
        ELSE IF a.kind = "error" THEN Answered([z EXCEPT !.s = Reject(@)])
        ELSE Answered([z EXCEPT !.s = s,
                         !.n.late = IF s.state = "TRACKING" /\ s.failures = 0 /\ s.transform = {a.fix}
                                    THEN @ \ {"search", "track"} ELSE @])

\* The deadlines of step, looked at after receive_results
Police(x) ==
    IF x.p.at = "none" THEN x
    ELSE LET y == ReceiveResults(x)
         IN  IF \/ y.p.at = "dead" /\ Active(y.s)
                \/ ~y.n.workerReady /\ "load" \in y.n.late
                \/ y.n.job # NoJob /\ "job" \in y.n.late
             THEN [y EXCEPT !.s = Invalidate(@, "FAILED")] ELSE y

\* submit
Submit(x, scans) ==
    LET job == [gen |-> x.s.gen, id |-> x.n.jobs + 1, scans |-> scans]
    IN  [x EXCEPT !.n.jobs = @ + 1, !.n.job = job, !.n.collected = x.n.seen,
                  !.p.requests = Append(@, job)]

Collects(x) == /\ Active(x.s) /\ x.n.workerReady /\ x.n.job = NoJob /\ Healthy(x.n)
               /\ x.n.seen > x.n.collected

\* The end of step; due stands for submap_duration and next_track having passed.
Collect(x, due) ==
    IF ~Active(x.s) THEN StopWorker(x)
    ELSE IF ~Collects(x) THEN x
    ELSE IF x.s.state = "TRACKING" THEN IF due THEN Submit(x, {x.n.seen}) ELSE x
    ELSE LET y == [x EXCEPT !.n.scans = @ \cup {x.n.seen}, !.n.collected = x.n.seen]
         IN  IF due /\ Cardinality(y.n.scans) >= MinFrames THEN Submit(y, y.n.scans) ELSE y

\* run, on an exception of step: here a cloud that cannot be read
StepFails(x) == StopWorker([x EXCEPT !.s = Invalidate(@, "FAILED"), !.n.ready = FALSE])

\* step, in its order; back: the ROS clock moved backwards
Rewound(x, back) == IF back THEN Without(Without(Revoke(x), "odom"), "cloud") ELSE x
Ticked(x) == [x EXCEPT !.s = TickSession(@, x.n.late)]
Begun(x) == IF x.n.auto /\ CanInitialize(x.n) THEN Start(x) ELSE x
GuardInputs(x) == IF Active(x.s) /\ ~Healthy(x.n) THEN Revoke(x) ELSE x
GuardArmed(x) == IF x.s.state = "SEARCHING" /\ x.n.armed THEN Revoke(x) ELSE x
Judged(x) == [x EXCEPT !.n.ready = Valid(x)]
Finished(x, due, readable) ==
    IF Collects(x) /\ ~readable THEN StepFails(x) ELSE Judged(Collect(x, due))

Prepared(x, back) == GuardArmed(GuardInputs(Begun(Ticked(Rewound(x, back)))))

Step == \E back, due, readable \in BOOLEAN :
    /\ Become(Finished(Police(Prepared(Here, back)), due, readable))
    /\ UNCHANGED asked

-----------------------------------------------------------------------------
(* worker_main, and time *)

Message(job, kind, fix) == [gen |-> job.gen, id |-> job.id, kind |-> kind, fix |-> fix]
Nowhere == CHOOSE f \in Fixes : TRUE

Send(m) == /\ Len(proc.responses) < 2
           /\ proc' = [proc EXCEPT !.responses = Append(@, m), !.at = IF m.kind = "fatal" THEN "dead" ELSE "idle",
                                   !.requests = IF proc.at = "idle" THEN Tail(@) ELSE @]
           /\ UNCHANGED <<session, node, asked>>

WorkerLoads == proc.at = "loading" /\ \E m \in {"loaded", "fatal"} : Send(Message(NoJob, m, Nowhere))
WorkerAnswers == /\ proc.at = "idle" /\ proc.requests # <<>>
                 /\ \/ \E fix \in Fixes : Send(Message(Head(proc.requests), "found", fix))
                    \/ \E k \in {"poor", "error"} : Send(Message(Head(proc.requests), k, Nowhere))
WorkerDies == /\ proc.at \in {"loading", "idle"}
              /\ proc' = [proc EXCEPT !.at = "dead"]
              /\ UNCHANGED <<session, node, asked>>

\* An input times out without a message.
GoStale == \E i \in node.fresh : Become(Without(Here, i)) /\ UNCHANGED asked

Running(d) == CASE d = "search" -> session.state = "SEARCHING"
                [] d = "track" -> session.state = "TRACKING"
                [] d = "job" -> node.job # NoJob
                [] d = "load" -> proc.at # "none" /\ ~node.workerReady

Expire == \E d \in {"search", "track", "job", "load"} \ node.late :
    /\ Running(d)
    /\ node' = [node EXCEPT !.late = @ \cup {d}]
    /\ UNCHANGED <<session, proc, asked>>

Init == /\ session = FreshSession /\ node = FreshNode /\ proc = NoProcess /\ asked = 0

Next == \/ ReceiveBase \/ ReceiveFcu \/ ReceiveOdom \/ ReceiveCloud \/ Operator \/ Step
        \/ WorkerLoads \/ WorkerAnswers \/ WorkerDies \/ GoStale \/ Expire

Spec == Init /\ [][Next]_vars

-----------------------------------------------------------------------------

\* What the node announces as ready rests on enough registrations that agree,
\* each of another submap, all of scans received since the session began
\* (global_relocalizer.py:254-256, core.py:117-121).
ReadyIsConfirmed ==
    node.ready =>
        /\ session.state = "TRACKING"
        /\ Cardinality(session.evidence) >= Required
        /\ \A e, f \in session.evidence : e # f => e \cap f = {}
        /\ \A e \in session.evidence : e \subseteq node.born + 1 .. node.seen

\* A session that was lost or failed stays so, whatever answers are still on
\* their way, until the operator asks for another ("a lost session never restarts
\* itself", core.py:42).
LostStaysLost ==
    [][ session.state \in {"LOST", "FAILED"} /\ asked' = asked
            => session'.state \in {"LOST", "FAILED"} ]_vars
=============================================================================
