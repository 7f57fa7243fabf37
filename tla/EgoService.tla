------------------------------ MODULE EgoService ------------------------------
(***************************************************************************)
(* The service that plans a local path in a snapshot of the obstacles      *)
(* around the vehicle (ego_node.cpp), and the grid it asks whether a pose  *)
(* is free (grid_map.h).  The upstream optimizer is external: it fails, or *)
(* returns any curve.  The production entry of the node is disabled; this  *)
(* is what the service does when the node is built with it.                *)
(*                                                                         *)
(* A position is a triple of integers.  Reserve is the unit of the grid:   *)
(* an eighth of resolution_, half the step at which a chord is sampled.    *)
(***************************************************************************)
EXTENDS Integers, Sequences, FiniteSetsExt

CONSTANTS Reserve, Clearance,
          Radius,              \* sensor_horizon
          Horizon, Margin,     \* planning_horizon, what it keeps of the sensor horizon
          MinZ, MaxZ,
          Terminal, Chord, Tiny,           \* the distances .20, .3 and .04
          SeedAge, SeedReach,  \* bounds on the age and the distance of a seed
          Starts, Goals, Obstacles, Vias,  \* bounds: what requests and curves consist of
          MaxStamp

Position == Int \X Int \X Int

EgoServiceAssumption ==
    /\ Starts \cup Goals \cup Obstacles \cup Vias \subseteq Position
    /\ {Reserve, Radius, Horizon} \subseteq Nat \ {0}
    /\ {Clearance, Margin, Terminal, Chord, Tiny, SeedAge, SeedReach, MaxStamp} \subseteq Nat
    /\ {MinZ, MaxZ} \subseteq Int

VARIABLES curve, aim, stamp,   \* previous_curve_, previous_goal_, previous_stamp_
          blocked,             \* blocked_active_
          shown,               \* the last message on blocked_obstacles
          request, answer,     \* the last request and its response
          seed                 \* what the optimizer began from

egoVars == <<curve, aim, stamp, blocked, shown, request, answer, seed>>

Resolution == 8 * Reserve
Inflated == Clearance + Reserve
Coordinates == 1 .. 3
-----------------------------------------------------------------------------
(* The grid                                                                *)

Square(n) == n * n
Magnitude(n) == IF n < 0 THEN 0 - n ELSE n
SquaredDistance(p, q) == Square(q[1] - p[1]) + Square(q[2] - p[2]) + Square(q[3] - p[3])
Within(p, q, d) == SquaredDistance(p, q) <= Square(d)

\* The cell of a position, from the corner of the grid
Cell(origin, p) == <<(p[1] - origin[1]) \div Resolution, (p[2] - origin[2]) \div Resolution,
                     (p[3] - origin[3]) \div Resolution>>

\* address, which is -1 outside the grid
Dimension == (2 * Radius + Resolution - 1) \div Resolution
InGrid(c) == \A i \in Coordinates : c[i] \in 0 .. Dimension - 1

\* Mutant: the gap between two cells is that between their corners.
CornerGap(offset) == Magnitude(offset) * Resolution

\* The least distance of two cells along an axis, and in space
AxisGap(offset) == IF offset = 0 THEN 0 ELSE (Magnitude(offset) - 1) * Resolution
CellGapSquared(a, b) ==
    Square(AxisGap(b[1] - a[1])) + Square(AxisGap(b[2] - a[2])) + Square(AxisGap(b[3] - a[3]))

\* The cells that the stencil around a source cell marks
Stencil == (Inflated + Resolution - 1) \div Resolution + 1
Marks(a, b) ==
    /\ \A i \in Coordinates : Magnitude(b[i] - a[i]) <= Stencil
    /\ CellGapSquared(a, b) <= Square(Inflated)

\* A request as the grid sees it: the centre and the points that lie in the grid
Origin(center) == <<center[1] - Radius, center[2] - Radius, center[3] - Radius>>
Sources(center, points) == {p \in points : InGrid(Cell(Origin(center), p))}
Occupied(center, points, c) ==
    \E p \in Sources(center, points) : Marks(Cell(Origin(center), p), c)

\* getInflateOccupancy of the position q / n
ScaledBy(n, p) == <<n * p[1], n * p[2], n * p[3]>>
ScaledCell(n, origin, q) ==
    <<(q[1] - n * origin[1]) \div (n * Resolution), (q[2] - n * origin[2]) \div (n * Resolution),
      (q[3] - n * origin[3]) \div (n * Resolution)>>
Blocked(center, points, q, n) ==
    \/ q[3] < n * MinZ \/ q[3] > n * MaxZ
    \/ Radius < Clearance \/ ~Within(q, ScaledBy(n, center), n * (Radius - Clearance))
    \/ LET c == ScaledCell(n, Origin(center), q)
       IN \/ ~InGrid(c)
          \/ /\ Occupied(center, points, c)
             /\ \E p \in Sources(center, points) : Within(q, ScaledBy(n, p), n * Inflated)

\* The pieces into which a chord is cut, none longer than a quarter of resolution_
Pieces(a, b) == CHOOSE n \in 1 .. SquaredDistance(a, b) + 1 :
                   /\ SquaredDistance(a, b) <= Square(2 * Reserve * n)
                   /\ n > 1 => SquaredDistance(a, b) > Square(2 * Reserve * (n - 1))
Sample(a, b, i, n) == <<n * a[1] + i * (b[1] - a[1]), n * a[2] + i * (b[2] - a[2]),
                        n * a[3] + i * (b[3] - a[3])>>
Segment(center, points, a, b) ==
    LET n == Pieces(a, b) IN \A i \in 0 .. n : ~Blocked(center, points, Sample(a, b, i, n), n)

-----------------------------------------------------------------------------
(* The service                                                             *)

\* Distances are rounded down to the unit.
Distance(p, q) == CHOOSE d \in 0 .. SquaredDistance(p, q) :
                     Square(d) <= SquaredDistance(p, q) /\ SquaredDistance(p, q) < Square(d + 1)
PlanRange == Min({Horizon, Radius - Clearance - Margin})
Target(r) ==
    LET d == Distance(r.start, r.goal)
        along(i) == r.start[i] + ((r.goal[i] - r.start[i]) * PlanRange) \div d
    IN IF d > PlanRange THEN <<along(1), along(2), along(3)>> ELSE r.goal

InEnvelope(p) == p[3] >= MinZ /\ p[3] <= MaxZ
Free(r, p) == ~Blocked(r.start, r.points, p, 1)

\* occupancyReason: the points that may occupy the pose
Blockers(r, q) ==
    {p \in Sources(r.start, r.points) :
       InGrid(Cell(Origin(r.start), q)) /\ Within(p, q, Inflated)}

\* The curve of the last answer from the point nearest to the start on; it is taken
\* up when it leads to the same target and is recent enough.
NearestOf(start) ==
    CHOOSE i \in DOMAIN curve :
        /\ \A j \in DOMAIN curve : SquaredDistance(curve[i], start) <= SquaredDistance(curve[j], start)
        /\ \A j \in 1 .. i - 1 : SquaredDistance(curve[i], start) < SquaredDistance(curve[j], start)
ContinuesLast(r) ==
    /\ Len(curve) > 2 /\ aim = Target(r)
    /\ r.stamp > stamp /\ r.stamp - stamp < SeedAge
    /\ SquaredDistance(curve[NearestOf(r.start)], r.start) < Square(SeedReach)
    /\ NearestOf(r.start) + 2 <= Len(curve)
    /\ \E i \in NearestOf(r.start) + 1 .. Len(curve) : curve[i] # r.start
Seed(r) == IF ContinuesLast(r)
             THEN <<r.start>> \o SubSeq(curve, NearestOf(r.start) + 1, Len(curve))
             ELSE <<r.start, Target(r)>>

\* What is published before the path is looked for: the obstacle that is in the way,
\* or that there is none any more
Warned(r) == r.usable /\ InEnvelope(r.start) /\ InEnvelope(r.goal)
StartFree(r) == Warned(r) /\ Free(r, r.start)
TargetFree(r) == StartFree(r) /\ PlanRange > 0 /\ Free(r, Target(r))

ShowBlockers(r) ==
    IF Warned(r) /\ ~StartFree(r) THEN shown' = Blockers(r, r.start) /\ blocked' = TRUE
    ELSE IF StartFree(r) /\ PlanRange > 0 /\ ~TargetFree(r)
           THEN shown' = Blockers(r, Target(r)) /\ blocked' = TRUE
    ELSE IF TargetFree(r) /\ blocked THEN shown' = {} /\ blocked' = FALSE
    ELSE UNCHANGED <<shown, blocked>>

Near(r) == Within(r.start, r.goal, Terminal - 1) /\ r.slow

\* The terminal chord, or a curve of the optimizer that was audited from end to end
Audited(r, local) ==
    /\ local[1] = r.start /\ local[Len(local)] = Target(r)
    /\ \A i \in DOMAIN local :
         Segment(r.start, r.points, IF i = 1 THEN r.start ELSE local[i - 1], local[i])

Tracking(r, local) ==
    LET follows(k) == \A i \in 1 .. k : /\ Within(r.start, local[i], Chord)
                                        /\ Segment(r.start, r.points, r.start, local[i])
        last == CHOOSE k \in 0 .. Len(local) : follows(k) /\ (k < Len(local) => ~follows(k + 1))
    IN IF last = 0 THEN r.start ELSE local[last]

\* A path the response may carry; late is the deadline of the snapshot at its end.
Plans(r, local, late) ==
    /\ ~late /\ TargetFree(r)
    /\ Audited(r, local)
    /\ Tracking(r, local) # r.start \/ Within(r.start, r.goal, Tiny)

Succeed(r, local) ==
    /\ answer' = [success |-> TRUE, path |-> local, tracking |-> Tracking(r, local)]
    /\ curve' = local /\ aim' = Target(r) /\ stamp' = r.stamp

Fail ==
    /\ answer' = [success |-> FALSE, path |-> <<>>, tracking |-> <<0, 0, 0>>]
    /\ curve' = <<>> /\ UNCHANGED <<aim, stamp>>

\* Curves of the optimizer, also such that do not end where they should
Curves(r) == {<<r.start, t>> : t \in {Target(r), r.start}}
               \cup {<<r.start, v, Target(r)>> : v \in Vias}

Plan(r) ==
    /\ request' = r
    /\ ShowBlockers(r)
    /\ seed' = IF TargetFree(r) /\ ~Near(r) THEN Seed(r) ELSE <<>>
    /\ \E local \in (IF Near(r) THEN {<<r.start, Target(r)>>} ELSE Curves(r)), late \in BOOLEAN :
         IF Plans(r, local, late) THEN Succeed(r, local) ELSE Fail

\* usable: frames, stamps, orientations, limits and layout are what they must be, the
\* snapshot is recent, and the grid is built before its deadline.
Requests ==
    [stamp : 1 .. MaxStamp, usable : BOOLEAN, start : Starts, goal : Goals, slow : BOOLEAN,
     points : {ps \in SUBSET Obstacles : ps # {}}]

NoRequest == [stamp |-> 0, usable |-> FALSE, start |-> <<0, 0, 0>>, goal |-> <<0, 0, 0>>,
              slow |-> FALSE, points |-> {}]

Init ==
    /\ curve = <<>> /\ aim = <<0, 0, 0>> /\ stamp = 0
    /\ blocked = FALSE /\ shown = {} /\ seed = <<>>
    /\ request = NoRequest
    /\ answer = [success |-> FALSE, path |-> <<>>, tracking |-> <<0, 0, 0>>]

Next == \E r \in Requests : r.stamp > request.stamp /\ Plan(r)

Spec == Init /\ [][Next]_egoVars
-----------------------------------------------------------------------------
\* The points of a chord at a tenth of the unit
OnChord(a, b) == {Sample(a, b, i, 10) : i \in 0 .. 10}

\* No observed point is nearer than the clearance to any point of a path that is
\* returned, nor to the straight line to its tracking target, although only samples of
\* them are asked of a grid that is coarse (grid_map.h:30, :82).
PathsAreClear ==
    answer.success =>
      LET clear(a, b) == \A q \in OnChord(a, b), p \in request.points :
                            SquaredDistance(q, ScaledBy(10, p)) >= Square(10 * Clearance)
      IN /\ answer.path[1] = request.start
         /\ answer.path[Len(answer.path)] = Target(request)
         /\ \A i \in 1 .. Len(answer.path) - 1 : clear(answer.path[i], answer.path[i + 1])
         /\ clear(request.start, answer.tracking)

\* What the optimizer continues is the curve of the call before, which succeeded and
\* led to the same target (ego_node.cpp:152).
SeedFollowsAnswer ==
    Len(seed') > 2 => /\ answer.success
                      /\ answer.path[Len(answer.path)] = Target(request')
                      /\ request'.stamp - request.stamp < SeedAge
SeedIsCertified == [][SeedFollowsAnswer]_egoVars

\* While nothing is said to block the vehicle, the last message of blockers is empty.
BlockersAreTaken == blocked \/ shown = {}
=============================================================================
