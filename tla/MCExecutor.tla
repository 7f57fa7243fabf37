------------------------------ MODULE MCExecutor ------------------------------
(***************************************************************************)
(* Instances of FlightExecutor for TLC: the executor under any sensors and *)
(* any commands, of the same task or of none.                              *)
(***************************************************************************)
EXTENDS FlightExecutor

CONSTANT MaxRequest     \* bound on the identifiers the caller uses

\* The sensor combinations that the guards of tick tell apart: everything
\* healthy on the ground or in the air, then each input failing in turn.
MCSensors ==
    LET seen(fcu, motion, near, grounded, armed, modes) ==
            [fcu : {fcu}, motion : {motion}, near : {near}, armed : {armed},
             grounded : grounded, mode : modes]
    IN UNION {seen("up", TRUE, FALSE, BOOLEAN, TRUE, Modes),
              seen("up", TRUE, FALSE, {TRUE}, FALSE, {"OFFBOARD", "AUTO.LAND"}),
              seen("up", TRUE, FALSE, {FALSE}, FALSE, {"OFFBOARD"}),
              seen("up", TRUE, TRUE, {FALSE}, TRUE, {"OFFBOARD"}),
              seen("up", FALSE, FALSE, {FALSE}, TRUE, {"OFFBOARD"}),
              seen("up", FALSE, FALSE, {TRUE}, FALSE, {"OTHER"}),
              seen("stale", FALSE, FALSE, {FALSE}, TRUE, {"AUTO.LAND"}),
              seen("stale", FALSE, FALSE, {FALSE}, FALSE, {"OTHER"})}

\* Fresh commands of every kind but WAIT, which tick does not tell from HOLD
\* (execution.cpp:124), with corrupted copies of the second, a TRACK of
\* a generation without a takeoff, and a command whose heartbeat has stopped.
MCIntents ==
    LET of(kind, target) == [kind : {kind}, generation : {1}, target : {target},
                             id : 1..MaxRequest, age : {0}]
        first == CHOOSE w \in Waypoints : TRUE
    IN of("TRACK", <<first, 1>>)
         \cup {[kind |-> "TRACK", generation |-> 1, target |-> <<w, 1>>, id |-> 2,
                age |-> 0] : w \in Waypoints}
         \cup UNION {of(k, Zero) : k \in {"TAKEOFF", "HOLD", "LAND"}}
         \cup {[kind |-> "TRACK", generation |-> 2, id |-> MaxRequest, age |-> 0,
                target |-> Zero]}
         \cup {[NoIntent EXCEPT !.id = 1, !.age = TaskTimeout + 1]}

-----------------------------------------------------------------------------
\* How waits end is asked without the record of what the executor has seen.
ProgressSpec ==
    /\ RecorderInit
    /\ [][Next /\ UNCHANGED <<landed, asked>>]_recorderVars
    /\ Fairness
=============================================================================
