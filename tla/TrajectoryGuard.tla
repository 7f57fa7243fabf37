---------------------------- MODULE TrajectoryGuard ----------------------------
(***************************************************************************)
(* TrajectoryGuard (trajectory_guard.py, over Planner of planner.py) under *)
(* the planning loop of the navigation node: what it remembers from one    *)
(* published command to the next, and which chords it lets through.        *)
(*                                                                         *)
(* The vehicle is on a line of cells and time goes in ticks; commands are  *)
(* whole velocities, in cells per tick.  A snapshot that envelope refuses  *)
(* changes nothing and heights are left out.  The guard runs under the     *)
(* planner lock, and the loop puts its members back unless the command     *)
(* was published, so that an attempt is one step.                          *)
(***************************************************************************)
EXTENDS Integers, FiniteSets, FiniteSetsExt

CONSTANTS Length,         \* the line has the cells 0..Length, the goal is the last
          MaxStamp,       \* bound on the time modelled
          MaxObstacles,   \* bound on the points of a cloud
          MaxSpeed, Acceleration,
          WaypointStep, Horizon, Clearance, Tolerance,
          Persistence,    \* obstacle_persistence
          MaxTrack,       \* max_track_displacement
          MinMotion,      \* min_prediction_speed
          Prediction,     \* prediction_horizon
          ProgressTimeout,
          MaxGap          \* the longest interval between commands

GuardAssumption ==
    /\ {Length, MaxStamp, MaxSpeed, Acceleration, WaypointStep, Horizon, MaxGap,
        Prediction, MinMotion} \subseteq Nat \ {0}
    /\ {MaxObstacles, Clearance, Tolerance, Persistence, MaxTrack,
        ProgressTimeout} \subseteq Nat

VARIABLES guard,  \* the members of the guard
          sent,   \* the last command published, or none since the last reset
          now     \* the stamp of the newest snapshot

vars == <<guard, sent, now>>

Cells == 0 .. Length
Clouds == {c \in SUBSET Cells : Cardinality(c) <= MaxObstacles}
Velocities == -MaxSpeed .. MaxSpeed

\* velocity: _previous_command_velocity; best: _best_goal_distance
Fresh == [stamp |-> 0, velocity |-> {}, points |-> {}, best |-> Length + 1, progress |-> 0]
NoCommand == [stamp |-> 0, from |-> 0, velocity |-> 0, reference |-> 0, gap |-> 0]

Abs(n) == IF n < 0 THEN -n ELSE n
Towards(a, b) == IF a < b THEN 1 ELSE IF a > b THEN -1 ELSE 0

\* dt of plan_reference and _finish
Gap(g, s) == IF g.stamp = 0 THEN 1 ELSE s.stamp - g.stamp

\* _nearest_previous_batch: the nearest point of before, the first of two
Match(p, points) ==
    LET close == {q \in points : Abs(p - q) <= MaxTrack}
    IN {q \in close : \A r \in close :
            \/ Abs(p - q) < Abs(p - r)
            \/ Abs(p - q) = Abs(p - r) /\ q <= r}

\* _expanded_obstacles
Expanded(g, s) ==
    IF g.stamp = 0 THEN s.cloud
    ELSE s.cloud
         \cup (IF Gap(g, s) <= Persistence THEN g.points ELSE {})
         \cup UNION {{m[1] + ((m[1] - m[2]) * step) \div Gap(g, s) : step \in 1 .. Prediction} :
                     m \in {w \in s.cloud \X g.points :
                        /\ w[2] \in Match(w[1], g.points)
                        /\ Abs(w[1] - w[2]) >= MinMotion * Gap(g, s)}}

\* The inflation of envelope, which grows with the way to stop
Inflation(s) == Clearance + (s.velocity * s.velocity) \div (2 * Acceleration)

\* _segment_clearance < 0, and _point_collision for a segment of one cell
Meets(from, to, points, inflation) ==
    \E p \in points : /\ p >= Min({from, to}) - inflation
                      /\ p <= Max({from, to}) + inflation

\* _speed
Speed(g, dt) ==
    Min({MaxSpeed, IF g.stamp = 0 THEN Acceleration
                   ELSE Max({0} \cup {Abs(v) : v \in g.velocity}) + Acceleration * dt})

\* The fastest speed that can still stop in the distance
StoppingSpeed(distance, dt) ==
    Max({v \in 0 .. MaxSpeed : v * v + 2 * Acceleration * dt * v <= 2 * Acceleration * distance})

Previous(g, s) == IF g.velocity = {} THEN s.velocity ELSE CHOOSE v \in g.velocity : TRUE

\* _limit_distance: the velocity straight to the reference within every limit
Desired(g, s, reference, dt) ==
    LET distance == Abs(reference - s.at)
        available == Horizon - Inflation(s)
    IN Towards(s.at, reference)
        * Min({Speed(g, dt), StoppingSpeed(distance, dt), WaypointStep \div dt,
               available \div dt, distance \div dt})

\* _slew_reference_velocity, empty when it is too fast
Slewed(previous, desired, dt) ==
    IF Abs(desired - previous) <= Acceleration * dt THEN {desired} \cap Velocities
    ELSE {v \in Velocities : v = previous + Towards(previous, desired) * Acceleration * dt}

\* _limit_vector_acceleration, and the slew when it finds no speed this way
Limited(previous, desired, dt) ==
    LET direction == Towards(0, desired)
        along == previous * direction
        high == Min({Abs(desired), along + Acceleration * dt})
    IN IF desired = 0
       THEN IF Abs(previous) <= Acceleration * dt THEN {0} ELSE Slewed(previous, 0, dt)
       ELSE IF high < 0 \/ Max({0, along - Acceleration * dt}) > high
       THEN Slewed(previous, desired, dt)
       ELSE {direction * high}

\* plan_reference up to the check of the reference and the interval
ReferencePasses(g, s, reference) ==
    /\ Horizon > Inflation(s)
    /\ ~Meets(s.at, reference, Expanded(g, s), Inflation(s))
    /\ Gap(g, s) \in 1 .. MaxGap

Terminal(s) == Length - s.at <= Tolerance
RouteLength(s) == Length - s.at

\* progress_epsilon is less than a cell.
Advances(g, s) == RouteLength(s) < g.best
Stuck(g, s) == ~Advances(g, s) /\ ~Terminal(s) /\ s.stamp - g.progress > ProgressTimeout

\* The velocities that plan_reference publishes: one, or none when it rejects
Commands(g, s, reference) ==
    IF ~ReferencePasses(g, s, reference) THEN {}
    ELSE LET dt == Gap(g, s)
         IN {v \in Limited(Previous(g, s), Desired(g, s, reference, dt), dt) :
                /\ ~Meets(s.at, s.at + v * dt, Expanded(g, s), Inflation(s))
                /\ ~Stuck(g, s)}

\* _finish of a command
Finished(g, s, v) ==
    [stamp |-> s.stamp, velocity |-> {v}, points |-> s.cloud,
     best |-> IF Advances(g, s) THEN RouteLength(s) ELSE g.best,
     progress |-> IF Advances(g, s) THEN s.stamp ELSE g.progress]
-----------------------------------------------------------------------------
Init == guard = Fresh /\ sent = NoCommand /\ now = 0

\* Mutant of Kept: a command that is not published counts.
KeptUnpublished(g, s, v) == Finished(g, s, v)

\* _plan_once puts the members back when the command was not published.
Kept(g, s, v) == g

\* _plan_once on a newer snapshot; the commit may find it outdated.
Plan(s, reference, commits) ==
    /\ s.stamp > now
    /\ LET commands == Commands(guard, s, reference)
       IN IF commands = {} THEN UNCHANGED <<guard, sent>>
          ELSE \E v \in commands :
            IF commits
            THEN /\ guard' = Finished(guard, s, v)
                 /\ sent' = [stamp |-> s.stamp, from |-> s.at, velocity |-> v,
                             reference |-> reference, gap |-> Gap(guard, s)]
            ELSE /\ guard' = Kept(guard, s, v) /\ UNCHANGED sent
    /\ now' = s.stamp

\* reset_context: a source was lost, or there is another goal.
Reset ==
    /\ guard # Fresh
    /\ guard' = Fresh /\ sent' = NoCommand
    /\ UNCHANGED now

Next ==
    \/ \E stamp \in now + 1 .. Min({MaxStamp, now + MaxGap + 1}), at \in Cells,
          velocity \in Velocities, cloud \in Clouds, reference \in Cells,
          commits \in BOOLEAN :
        Plan([stamp |-> stamp, at |-> at, velocity |-> velocity, cloud |-> cloud],
             reference, commits)
    \/ Reset

Spec == Init /\ [][Next]_vars
-----------------------------------------------------------------------------
(* The velocity of a command differs from that of the command published    *)
(* before it by what the vehicle can accelerate in the time between them,  *)
(* which is never longer than the longest interval, whatever was computed  *)
(* and not published meanwhile, unless the guard was reset; and a command  *)
(* that speeds the vehicle up leaves it room to stop before the reference  *)
(* that was checked.                                                       *)
CommandIsFlyable ==
    sent' # sent /\ sent.stamp # 0 /\ sent'.stamp # 0 =>
        /\ sent'.stamp - sent.stamp <= MaxGap
        /\ Abs(sent'.velocity - sent.velocity)
            <= Acceleration * (sent'.stamp - sent.stamp)
        /\ Abs(sent'.velocity) > Abs(sent.velocity)
            => sent'.velocity * sent'.velocity <= 2 * Acceleration
                * Abs(sent'.reference - sent'.from - sent'.velocity * sent'.gap)

\* This of every step
CommandsAreFlyable == [][CommandIsFlyable]_vars
=============================================================================
