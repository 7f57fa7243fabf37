------------------------------ MODULE Estimator ------------------------------
(***************************************************************************)
(* What one scan does to the estimate of the vehicle's motion: ImuProcess  *)
(* carries the filter to the end of the scan and undoes the motion in its  *)
(* points (IMU_Processing.hpp of both SLAM packages), the box of the local *)
(* map follows the vehicle (lasermap_fov_segment), and the iterated update *)
(* of the Kalman filter (esekfom.hpp) matches the points with the map.     *)
(*                                                                         *)
(* Of the numbers, the model keeps the times, the box along each axis, and *)
(* which points match: a state of the filter is the number of the steps    *)
(* that led to it, and how far a step goes, and what the map answers in a  *)
(* state that was not asked yet, is any.                                   *)
(***************************************************************************)
EXTENDS Integers, Sequences, FiniteSets, SequencesExt, FiniteSetsExt

CONSTANTS MaxInit,      \* MAX_INI_COUNT
          Iterations,   \* maximum_iter
          Side, Reach,  \* cube_len, DET_RANGE
          Axes,
          Period,       \* from the start of a scan to its end
          Clouds,       \* bound: the times of the points of a scan, as they come
          Feats,        \* bound: the points of a thinned scan
          Ways,         \* bound: how far the vehicle gets from one scan to the next
          MaxTime

EstimatorAssumption ==
    /\ {MaxInit, Iterations, Period, Reach} \subseteq Nat \ {0}
    /\ {Side, MaxTime} \subseteq Nat
    /\ Reach % 20 = 0 /\ Side % 20 = 0    \* mov_dist is a multiple of the unit
    /\ Side >= 3 * Reach                  \* of the configurations of this vehicle
    /\ \A way \in Ways : way \in Int /\ 2 * way <= Reach /\ 0 - 2 * way <= Reach

VARIABLES imu,    \* init_iter_num, the stamp of last_imu_, last_lidar_end_time_
          poses,  \* IMUpose, by their offset
          cloud,  \* feats_undistort: the times, and for each the poses it was moved with
          span,   \* history: what the filter was carried on by in a scan, and was to be
          stage, kf, box, place

estimatorVars == <<imu, poses, cloud, span, stage, kf, box, place>>

Done == MaxInit + 1
NoCloud == [times |-> <<>>, by |-> <<>>]
-----------------------------------------------------------------------------
(* ImuProcess                                                              *)

\* IMU_init counts the samples, the first one of all with one to spare.
ImuInit(m) ==
    LET n == imu.init + Len(m.imu)
    IN imu' = [imu EXCEPT !.init = IF n > MaxInit THEN Done ELSE n, !.last = Last(m.imu)]

\* Mutant: the first interval begins at the sample before, not at the end of the scan
\* before.
StepOfWhole(head, tail) == tail - head

\* How far the filter is carried on between two samples
StepOf(head, tail) == IF head < imu.end THEN tail - imu.end ELSE tail - head

Samples(m) == <<imu.last>> \o m.imu
\* The intervals that end after the last scan did
Kept(m) == SelectSeq([k \in 1 .. Len(m.imu) |-> k], LAMBDA k : Samples(m)[k + 1] >= imu.end)

Distance(a, b) == IF a < b THEN b - a ELSE a - b
Carried(m) ==
    FoldLeft(LAMBDA sum, k : sum + StepOf(Samples(m)[k], Samples(m)[k + 1]),
             Distance(m.end, Last(m.imu)), Kept(m))
Poses(m) ==
    <<0>> \o [j \in DOMAIN Kept(m) |-> Samples(m)[Kept(m)[j] + 1] - m.beg]

\* Backward, interval by interval: at is the latest point that is not moved yet, or the
\* first, at which the search of every earlier interval begins again.
MoveBack(times, offsets, s, j) ==
    LET reached == Max({0} \cup {k \in 1 .. s.at : times[k] <= offsets[j - 1]})
    IN [at |-> IF reached = 0 THEN 1 ELSE reached,
        by |-> [k \in DOMAIN times |-> IF k \in reached + 1 .. s.at THEN Append(s.by[k], j)
                                                                   ELSE s.by[k]]]
Undistorted(m) ==
    LET times == SortSeq(m.points, LAMBDA a, b : a < b)
        offsets == Poses(m)
        backward == [i \in 1 .. Len(offsets) - 1 |-> Len(offsets) + 1 - i]
        moved == FoldLeft(LAMBDA s, j : MoveBack(times, offsets, s, j),
                          [at |-> Len(times), by |-> [k \in DOMAIN times |-> <<>>]], backward)
    IN [times |-> times, by |-> moved.by]

UndistortPcl(m) ==
    /\ poses' = Poses(m)
    /\ cloud' = Undistorted(m)
    /\ span' = [is |-> Carried(m), due |-> IF imu.known THEN m.end - imu.end ELSE Carried(m)]
    /\ imu' = [imu EXCEPT !.last = Last(m.imu), !.end = m.end, !.known = TRUE]

\* Without samples, and until the IMU is initialised, the cloud is left as it is; an
\* empty one is skipped.
Process(m) ==
    /\ IF m.imu = <<>> THEN UNCHANGED <<imu, poses, cloud, span>>
       ELSE IF imu.init # Done THEN ImuInit(m) /\ UNCHANGED <<poses, cloud, span>>
       ELSE UndistortPcl(m)
    /\ stage' = IF cloud'.times = <<>> THEN "idle" ELSE "segment"

-----------------------------------------------------------------------------
(* lasermap_fov_segment                                                    *)

\* MOV_THRESHOLD * DET_RANGE, in half units
NearEdge(distance) == 2 * distance <= 3 * Reach

\* Mutant: the move leaves out that it is to bring the edge out of reach again.
MovDistOfSlack == ((Side - 3 * Reach) * 9) \div 20

MovDist == Max({((Side - 3 * Reach) * 9) \div 20, Reach \div 2})

\* By how far the box moves along an axis
Shift(p, b) ==
    IF NearEdge(Distance(p, b.min)) THEN 0 - MovDist
    ELSE IF NearEdge(Distance(p, b.max)) THEN MovDist ELSE 0
Moved(p, b) == [min |-> b.min + Shift(p, b), max |-> b.max + Shift(p, b)]

\* The slab of the box that an axis gives up; the tree deletes what is in it.
Slab(p, b) ==
    IF Shift(p, b) < 0 THEN [min |-> b.max - MovDist, max |-> b.max]
    ELSE [min |-> b.min, max |-> b.min + MovDist]

Centred(p) == [min |-> p - Side \div 2, max |-> p + Side \div 2]
NoBox == [a \in Axes |-> [min |-> 0, max |-> 0]]

StartUpdate ==
    [i |-> -1, t |-> 0, x |-> 0, near |-> -1, sel |-> {}, at |-> -1, converge |-> TRUE,
     cov |-> "prior", rematched |-> FALSE, empty |-> FALSE]

\* Then the update begins, unless the scan has too few points or there is no map yet.
Segment ==
    /\ stage = "segment"
    /\ \E way \in [Axes -> Ways] :
         place' = [a \in Axes |-> place[a] + way[a]]
    /\ box' = [a \in Axes |-> IF box = NoBox THEN Centred(place'[a]) ELSE Moved(place'[a], box[a])]
    /\ stage' \in {"update", "idle"}
    /\ kf' = StartUpdate
    /\ UNCHANGED <<imu, poses, cloud, span>>

-----------------------------------------------------------------------------
(* update_iterated_dyn_share_modified, an iteration at a time              *)

\* h_share_model: the points that match.  They are looked up only if the last
\* iteration converged; a point that failed once is asked again only then.  A state
\* that was asked answers the same.
Matched(u) == IF u.at = u.x THEN {u.sel} ELSE SUBSET (IF u.converge THEN Feats ELSE u.sel)

\* Before the last iteration they are looked up again in any case.
Forced(u, t) == t = 0 /\ u.i = Iterations - 2

Matching(u, sel) ==
    [u EXCEPT !.sel = sel, !.at = u.x, !.near = IF u.converge THEN u.x ELSE @,
              !.rematched = @ \/ (u.converge /\ u.x > 0)]

\* No point matches: the state stays.
Barren(u) == [u EXCEPT !.i = @ + 1, !.empty = TRUE]

Corrected(u, small) ==
    LET t == IF small THEN u.t + 1 ELSE u.t
    IN [u EXCEPT !.i = @ + 1, !.t = t, !.x = @ + 1, !.converge = small \/ Forced(u, t),
                 !.cov = IF t > 1 \/ u.i = Iterations - 1 THEN "posterior" ELSE @]

Iterate ==
    /\ stage = "update"
    /\ \E sel \in Matched(kf), small \in BOOLEAN :
         LET u == Matching(kf, sel)
         IN kf' = IF sel = {} THEN Barren(u) ELSE Corrected(u, small)
    /\ stage' = IF kf'.cov = "posterior" \/ kf'.i = Iterations THEN "updated" ELSE "update"
    /\ UNCHANGED <<imu, poses, cloud, span, box, place>>

\* map_incremental and what is published do not come back to the estimate.
Publish ==
    /\ stage = "updated" /\ stage' = "idle"
    /\ UNCHANGED <<imu, poses, cloud, span, kf, box, place>>

-----------------------------------------------------------------------------
\* A scan with its samples as sync_packages hands them over: none is left that the
\* scan before reached (LaserMapping).
Scans ==
    LET begins == IF imu.known THEN {imu.end - 1, imu.end, imu.end + 1} \cap Nat ELSE {imu.last}
        of(beg) == [beg : {beg}, end : {beg + Period}, points : Clouds,
                    imu : {SetToSortSeq(S, <) : S \in SUBSET {s \in 1 .. beg + Period :
                               s > imu.last /\ (imu.known => s >= imu.end)}}]
    IN UNION {of(beg) : beg \in begins}

Arrive ==
    /\ stage = "idle"
    /\ \E m \in Scans : m.end <= MaxTime /\ Process(m)
    /\ kf' = StartUpdate
    /\ UNCHANGED <<box, place>>

\* last_lidar_end_time_ is not initialised.
Init ==
    /\ \E end \in 0 .. MaxTime :
         imu = [init |-> 1, last |-> 0, end |-> end, known |-> FALSE]
    /\ poses = <<>> /\ cloud = NoCloud /\ span = [is |-> 0, due |-> 0]
    /\ stage = "idle" /\ kf = StartUpdate
    /\ box = NoBox /\ place = [a \in Axes |-> 0]

Next == Arrive \/ Segment \/ Iterate \/ Publish

Spec == Init /\ [][Next]_estimatorVars
-----------------------------------------------------------------------------
\* The filter is carried on from the end of one scan to the end of the next, neither
\* further nor less far, however the samples lie between them.
CarriedToEnd == span.is = span.due

\* Every point of a scan but the first is moved once at most, and with the interval of
\* samples that it was measured in; those that are not moved were measured at its start.
PointsAreMovedOnce ==
    \A k \in DOMAIN cloud.times : k > 1 =>
        /\ Len(cloud.by[k]) <= 1
        /\ cloud.by[k] = <<>> => \A j \in 1 .. Len(poses) - 1 : cloud.times[k] <= poses[j]
        /\ \A j \in ToSet(cloud.by[k]) :
             /\ cloud.times[k] > poses[j - 1]
             /\ j < Len(poses) => cloud.times[k] <= poses[j]

\* The covariance is reduced only by an update that found points in every iteration,
\* and after they were looked up again in a later state than the predicted one: once no
\* point matches, the rest of the iterations changes nothing.
UpdateIsWhole ==
    stage = "updated" => /\ kf.cov = "posterior" <=> ~kf.empty
                         /\ kf.cov = "posterior" => kf.rematched /\ kf.sel # {}

\* Whatever the lidar can reach from the vehicle is in the box of the local map, and
\* nothing that is deleted to move it.
MapCoversReach ==
    box # NoBox => \A a \in Axes :
        box[a].min <= place[a] - Reach /\ place[a] + Reach <= box[a].max
SlabsAreFar ==
    box # NoBox => \A a \in Axes : box'[a] # box[a] =>
        LET s == Slab(place'[a], box[a])
        IN /\ s.max <= place'[a] - Reach \/ place'[a] + Reach <= s.min
           /\ s.min >= box'[a].max \/ s.max <= box'[a].min
LocalMapFollows == [][MapCoversReach' /\ SlabsAreFar]_estimatorVars
=============================================================================
