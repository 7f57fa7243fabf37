------------------------------ MODULE Preprocess ------------------------------
(***************************************************************************)
(* What the SLAM nodes do with a lidar message before they estimate from   *)
(* it (preprocess.cpp of fast_lio_sam and its copy in sfast_lio): each     *)
(* kind of lidar has a handler that thins the scan out, or, with           *)
(* feature_enabled, sorts it by scan line and keeps the points of planes   *)
(* (pl_surf) and edges (pl_corn).                                          *)
(*                                                                         *)
(* A point is a record: pos is its distance from the sensor, 0 also for    *)
(* the origin; line its scan line; valid that its tag is accepted or its   *)
(* coordinates are numbers; sweep the angle the lidar has turned through   *)
(* when it measures it; and shape what the geometric tests of the feature  *)
(* extraction say of its surroundings, whose arithmetic is left out: apart *)
(* (it is beyond group_dis of the points before it; disB is never          *)
(* initialised, so that may be any distance), flat (a group that begins at *)
(* it passes the ratios of plane_judge), bent (its plane meets the last at *)
(* an angle), prev and next (the angle to its neighbours), gap (0, 1, 2:   *)
(* the next point is below 1e-16, below 1e-8, or further away), jump, even *)
(* and smooth (the ratios of its gaps).                                    *)
(***************************************************************************)
EXTENDS Integers, Sequences, FiniteSets, SequencesExt

CONSTANTS NScans,          \* N_SCANS
          Blind, InfBound, \* blind, inf_bound
          Filter,          \* point_filter_num
          Group,           \* group_size
          MinLine,         \* the longest scan line of a Livox that is left out
          Turn,            \* the angle of a turn
          Scans,           \* bound: the messages that arrive
          Messages         \* bound: how many of them

PreprocessAssumption ==
    /\ {NScans, Filter, Group, Turn} \subseteq Nat \ {0}
    /\ {Blind, InfBound, MinLine} \subseteq Nat

VARIABLES lidar,   \* lidar_type, "SFAST" for the Velodyne handler of sfast_lio
          features,\* feature_enabled
          scan,    \* the points of the message
          surf,    \* pl_surf: of each point the points of the message it stands for
          corn,    \* pl_corn
          curv,    \* curvature: the times of the points
          given,   \* given_offset_time
          fault,   \* a handler has left the bounds of a vector
          handled  \* the messages handled

preprocessVars == <<lidar, features, scan, surf, corn, curv, given, fault, handled>>

Lidars == {"AVIA", "MID360", "OUST64", "RS128", "VELO16", "SFAST", "OTHER"}

Planes == {"Poss_Plane", "Real_Plane"}
Edges == {"Edge_Jump", "Edge_Plane"}
-----------------------------------------------------------------------------
InOrder(m, S) == SelectSeq([i \in DOMAIN m |-> i], LAMBDA i : i \in S)
Alone(m, S) == [k \in DOMAIN InOrder(m, S) |-> {InOrder(m, S)[k]}]
Every(m, n) == {i \in DOMAIN m : (i - 1) % n = 0}

\* Livox: the points of a line and tag in use; the first of a message is left out.
Valid(m) == {i \in 2 .. Len(m) : m[i].line < NScans /\ m[i].valid}

\* pl_full: zero for the points that were not taken up
Full(m, taken, i) == IF i \in taken THEN m[i].pos ELSE 0

Moved(m, taken) == {i \in taken : Full(m, taken, i) # Full(m, taken, i - 1)}

\* Mutant: a point that differs from the entry before it may be blind.
LivoxSampleUnbracketed(m) ==
    Moved(m, {i \in Valid(m) : Cardinality({j \in Valid(m) : j <= i}) % Filter = 0})

\* Every Filter-th of the valid points that differs from the entry before it and
\* is not blind
LivoxSample(m) ==
    LET taken == {i \in Valid(m) : Cardinality({j \in Valid(m) : j <= i}) % Filter = 0}
    IN {i \in Moved(m, taken) : m[i].pos > Blind}

OusterSample(m) == {i \in Every(m, Filter) : m[i].pos >= Blind}

\* The Robosense handler compares the square of the distance with blind itself, and
\* leaves out a box around the sensor (here its origin).
RobosenseRange(m) == {i \in DOMAIN m : m[i].valid /\ m[i].pos * m[i].pos >= Blind /\ m[i].pos > 0}

-----------------------------------------------------------------------------
(* The times of a Velodyne that gives none: of the yaw since the first     *)
(* point of the layer, one turn more when it would fall back.              *)

Layer(m, i) == {j \in DOMAIN m : m[j].line = m[i].line}
FirstOf(m, i) == CHOOSE j \in Layer(m, i) : \A k \in Layer(m, i) : j <= k
BeforeOf(m, i) ==
    CHOOSE j \in Layer(m, i) : j < i /\ \A k \in Layer(m, i) : k < i => k <= j
IsFirst(m, i) == FirstOf(m, i) = i

Turned(m, i) == (m[i].sweep - m[FirstOf(m, i)].sweep) % Turn
Unwound(angle, last) == IF angle < last THEN angle + Turn ELSE angle

YawTimes(m) ==
    LET time[i \in DOMAIN m] ==
            IF IsFirst(m, i) THEN 0 ELSE Unwound(Turned(m, i), time[BeforeOf(m, i)])
    IN time
GivenTimes(m) == [i \in DOMAIN m |-> m[i].sweep]

-----------------------------------------------------------------------------
(* give_feature: the points of one scan line, l their indices in m.        *)

IsBlind(m, l, k) == m[l[k]].pos < Blind
Shape(m, l, k) == m[l[k]].shape
Start(m, l) ==
    CHOOSE h \in 1 .. Len(l) + 1 : /\ h <= Len(l) => ~IsBlind(m, l, h)
                                   /\ \A k \in 1 .. h - 1 : IsBlind(m, l, k)

\* plane_judge: how far the group of k reaches, and whether it is a plane
ReachedBy(m, l, k) ==
    LET ends == {j \in k .. Len(l) : IsBlind(m, l, j)}
                  \cup {j \in k + Group .. Len(l) : \E b \in k + 1 .. j : Shape(m, l, b).apart}
                  \cup {Len(l) + 1}
    IN CHOOSE j \in ends : \A i \in ends : j <= i
IsPlane(m, l, k) ==
    /\ Shape(m, l, k).flat
    /\ ReachedBy(m, l, k) > Len(l) \/ ~IsBlind(m, l, ReachedBy(m, l, k))

\* The types a plane gives its points, as far as they are of the line
Marked(m, l, s, k) ==
    LET next == ReachedBy(m, l, k)
        first == IF ~s.flat THEN "Poss_Plane"
                 ELSE IF Shape(m, l, k).bent THEN "Edge_Plane" ELSE "Real_Plane"
    IN [j \in DOMAIN l |-> IF j = k THEN first
                           ELSE IF j = next THEN "Poss_Plane"
                           ELSE IF j \in k .. next THEN "Real_Plane" ELSE s.type[j]]

JudgePlane(m, l, s, k) ==
    IF k # s.at THEN s
    ELSE IF IsBlind(m, l, k) THEN [s EXCEPT !.at = k + 1]
    ELSE IF IsPlane(m, l, k)
           THEN [type |-> Marked(m, l, s, k), at |-> ReachedBy(m, l, k), flat |-> TRUE,
                 over |-> s.over \/ ReachedBy(m, l, k) > Len(l)]
           ELSE [s EXCEPT !.at = ReachedBy(m, l, k) + 1, !.flat = FALSE]

\* over: a plane that reaches the end of the line has given a type to the entry after it
FindPlanes(m, l) ==
    FoldLeft(LAMBDA s, k : JudgePlane(m, l, s, k),
             [type |-> [k \in DOMAIN l |-> "Nor"], at |-> Start(m, l), flat |-> FALSE,
              over |-> FALSE],
             [k \in 1 .. Len(l) - Group |-> k])

\* edj: what lies beside a point
Beside(m, l, k, j, angle) ==
    IF ~IsBlind(m, l, j) THEN angle
    ELSE IF m[l[k]].pos > InfBound THEN "inf" ELSE "blind"

\* edge_jump_judge, with the two neighbours on the side of nor_dir
EdgeJump(m, l, k, side) ==
    /\ \A j \in (IF side = "Prev" THEN {k - 1, k - 2} ELSE {k + 1, k + 2}) : ~IsBlind(m, l, j)
    /\ Shape(m, l, k).even

EdgeCandidate(m, l, type, k) ==
    /\ k \in Start(m, l) + 3 .. Len(l) - 3
    /\ ~IsBlind(m, l, k) /\ type[k] \in {"Nor", "Poss_Plane"}
    /\ Shape(m, l, k - 1).gap > 0 /\ Shape(m, l, k).gap > 0

EdgeType(m, l, type, k) ==
    LET prev == Beside(m, l, k, k - 1, Shape(m, l, k).prev)
        next == Beside(m, l, k, k + 1, Shape(m, l, k).next)
        jumps == \/ prev = "nor" /\ next = "zero" /\ Shape(m, l, k).jump /\ EdgeJump(m, l, k, "Prev")
                 \/ prev = "zero" /\ next = "nor" /\ Shape(m, l, k).jump /\ EdgeJump(m, l, k, "Next")
                 \/ prev = "nor" /\ next = "inf" /\ EdgeJump(m, l, k, "Prev")
                 \/ prev = "inf" /\ next = "nor" /\ EdgeJump(m, l, k, "Next")
    IN IF jumps THEN "Edge_Jump"
       ELSE IF prev # "nor" /\ next # "nor" /\ type[k] = "Nor" THEN "Wire" ELSE type[k]

FindEdges(m, l, type) ==
    [k \in DOMAIN l |-> IF EdgeCandidate(m, l, type, k) THEN EdgeType(m, l, type, k) ELSE type[k]]

\* A point between two at equal gaps makes a plane of the three.
SmallPlane(m, l, candidates, type, k) ==
    IF /\ \A j \in k - 1 .. k + 1 : ~IsBlind(m, l, j)
       /\ Shape(m, l, k - 1).gap = 2 /\ Shape(m, l, k).gap = 2
       /\ type[k] = "Nor" /\ k \in candidates /\ Shape(m, l, k).smooth
      THEN [j \in DOMAIN l |-> IF j \in k - 1 .. k + 1 /\ (j = k \/ type[j] = "Nor")
                                 THEN "Real_Plane" ELSE type[j]]
      ELSE type

FindSmallPlanes(m, l, candidates, type) ==
    FoldLeft(LAMBDA t, k : SmallPlane(m, l, candidates, t, k), type,
             SelectSeq([k \in 1 .. Len(l) - 1 |-> k], LAMBDA k : k > Start(m, l)))

\* The plane points of a line, every Filter-th of a run and the mean of what is left
\* when another type ends it
Collect(l, type, s, k) ==
    IF type[k] \in Planes
      THEN LET last == IF s.last = 0 THEN k ELSE s.last
           IN IF k = last + Filter - 1 THEN [s EXCEPT !.surf = Append(@, {l[k]}), !.last = 0]
              ELSE [s EXCEPT !.last = last]
      ELSE [surf |-> IF s.last = 0 THEN s.surf
                     ELSE Append(s.surf, {l[j] : j \in s.last .. k - 1}),
            corn |-> IF type[k] \in Edges THEN Append(s.corn, l[k]) ELSE s.corn,
            last |-> 0]

GiveFeature(m, l) ==
    LET planes == FindPlanes(m, l).type
        candidates == {k \in DOMAIN l : EdgeCandidate(m, l, planes, k)}
        type == FindSmallPlanes(m, l, candidates, FindEdges(m, l, planes))
    IN FoldLeft(LAMBDA s, k : Collect(l, type, s, k), [surf |-> <<>>, corn |-> <<>>, last |-> 0],
                SelectSeq([k \in DOMAIN l |-> k], LAMBDA k : k >= Start(m, l)))

-----------------------------------------------------------------------------
(* The handlers                                                            *)

Lines(m, S) == [j \in 1 .. NScans |-> InOrder(m, {i \in S : m[i].line = j - 1})]

\* The lines of more than short points, one after the other
Features(m, S, short) ==
    LET long == SelectSeq(Lines(m, S), LAMBDA l : Len(l) > short)
        found == [j \in DOMAIN long |-> GiveFeature(m, long[j])]
    IN [surf |-> FlattenSeq([j \in DOMAIN long |-> found[j].surf]),
        corn |-> FlattenSeq([j \in DOMAIN long |-> found[j].corn])]

\* give_feature looks for the first point that is not blind beyond the end of a line, or
\* writes to the entry after its last.
RunsOff(m, S, short) ==
    \E j \in 1 .. NScans :
        LET l == Lines(m, S)[j]
        IN Len(l) > short /\ (Start(m, l) > Len(l) \/ FindPlanes(m, l).over)

Emit(m, found, times, off) ==
    /\ scan' = m /\ surf' = found.surf /\ corn' = found.corn
    /\ curv' = times
    /\ fault' \in {FALSE, off}

Sampled(m, S) == [surf |-> Alone(m, S), corn |-> <<>>]

Livox(m) ==
    LET points == Moved(m, Valid(m))
    IN /\ IF features
            THEN Emit(m, Features(m, points, MinLine), GivenTimes(m), RunsOff(m, points, MinLine))
            ELSE Emit(m, Sampled(m, LivoxSample(m)), GivenTimes(m), FALSE)
       /\ UNCHANGED given

AviaHandler(m) == Livox(m)
Mid360Handler(m) == Livox(m)

\* With an empty line the loop over the points of the line does not end.
EveryLine(m, points) ==
    LET inLines == {i \in points : m[i].line < NScans}
        endless == \E j \in 1 .. NScans : Lines(m, inLines)[j] = <<>>
    IN /\ Emit(m, IF endless THEN Sampled(m, {}) ELSE Features(m, inLines, 0), GivenTimes(m),
               endless \/ RunsOff(m, inLines, 0))
       /\ endless => fault'

Oust64Handler(m) ==
    /\ IF features
         THEN EveryLine(m, {i \in DOMAIN m : m[i].pos >= Blind})
         ELSE Emit(m, Sampled(m, OusterSample(m)), GivenTimes(m), FALSE)
    /\ UNCHANGED given

RsHandler(m) ==
    /\ IF features
         THEN EveryLine(m, RobosenseRange(m))
         ELSE Emit(m, Sampled(m, RobosenseRange(m) \cap Every(m, Filter)), GivenTimes(m), FALSE)
    /\ UNCHANGED given

\* Without times, the first point of a layer sets its yaw and is left out.
Timed(m, timed) == {i \in DOMAIN m : timed \/ ~IsFirst(m, i)}
Times(m, timed) == IF timed THEN GivenTimes(m) ELSE YawTimes(m)

VelodyneLines(m, timed) ==
    LET points == {i \in Timed(m, timed) : m[i].line < NScans}
    IN Emit(m, Features(m, points, 1), Times(m, timed), RunsOff(m, points, 1))

\* fast_lio_sam keeps every point that is not blind, with the time of the message;
\* of an empty message it reads the point before the first.
VelodyneHandler(m, timed) ==
    /\ given' = timed
    /\ IF features /\ m # <<>> THEN VelodyneLines(m, timed)
       ELSE Emit(m, Sampled(m, {i \in DOMAIN m : m[i].pos > Blind}),
                 [i \in DOMAIN m |-> IF timed THEN m[i].sweep ELSE 0], m = <<>>)

\* sfast_lio thins the points out and computes the times, also of a layer beyond the
\* vectors it keeps them in; an empty message only clears what was kept.
VelodyneRelocHandler(m, timed) ==
    IF m = <<>> THEN Emit(m, Sampled(m, {}), <<>>, FALSE) /\ UNCHANGED given
    ELSE /\ given' = timed
         /\ IF features THEN VelodyneLines(m, timed)
            ELSE LET kept == {i \in Timed(m, timed) \cap Every(m, Filter) : m[i].pos > Blind}
                 IN Emit(m, Sampled(m, kept), Times(m, timed),
                         ~timed /\ \E i \in DOMAIN m : m[i].line >= NScans)

\* A lidar that is none of these is given the points of the last message again.
UnknownLidar(m) == UNCHANGED <<scan, surf, corn, curv, given, fault>>

ProcessCustom(m) == lidar = "AVIA" /\ AviaHandler(m)
ProcessCloud(m, timed) ==
    \/ lidar = "MID360" /\ Mid360Handler(m)
    \/ lidar = "OUST64" /\ Oust64Handler(m)
    \/ lidar = "RS128" /\ RsHandler(m)
    \/ lidar = "VELO16" /\ VelodyneHandler(m, timed)
    \/ lidar = "OTHER" /\ UnknownLidar(m)
ProcessRelocCloud(m, timed) == lidar = "SFAST" /\ VelodyneRelocHandler(m, timed)

\* Preprocess() and set()
Init ==
    /\ lidar \in Lidars /\ features \in BOOLEAN
    /\ scan = <<>> /\ surf = <<>> /\ corn = <<>> /\ curv = <<>>
    /\ given = FALSE /\ fault = FALSE /\ handled = 0

Next ==
    /\ ~fault /\ handled < Messages /\ handled' = handled + 1
    /\ UNCHANGED <<lidar, features>>
    /\ \E m \in Scans, timed \in BOOLEAN :
         \/ ProcessCustom(m)
         \/ ProcessCloud(m, timed)
         \/ ProcessRelocCloud(m, timed)

Spec == Init /\ [][Next]_preprocessVars
-----------------------------------------------------------------------------
\* No point of a scan is handed on twice; and one inside the blind radius is not
\* handed on, nor has it a part in a mean, whatever planes and edges lie beside it. A
\* Robosense is asked for the square of its distance (test_preprocess_blind.cpp).
ScanIsClean ==
    /\ \A a, b \in DOMAIN surf : a # b => surf[a] \cap surf[b] = {}
    /\ \A a \in DOMAIN surf :
         /\ surf[a] # {} /\ Cardinality(surf[a]) <= Filter
         /\ \A b \in DOMAIN corn : corn[b] \notin surf[a]
         /\ \A i \in surf[a] : IF lidar = "RS128" THEN scan[i].pos * scan[i].pos >= Blind
                                                   ELSE scan[i].pos >= Blind

\* Where the handler makes up the times, a point is stored with the angle the lidar has
\* turned through since the first point of its layer, though only the yaws tell it, if
\* it turns less than once between two points and twice in all (velodyne_handler).
TimesAreRecovered ==
    LET swept(i) == scan[i].sweep - scan[FirstOf(scan, i)].sweep
        regular(i) == /\ swept(i) \in 0 .. 2 * Turn - 1
                      /\ ~IsFirst(scan, i) => LET before == swept(BeforeOf(scan, i))
                                              IN swept(i) \in before .. before + Turn - 1
    IN ~given /\ (lidar = "SFAST" \/ (lidar = "VELO16" /\ features)) =>
         \A i \in DOMAIN scan :
             (\A j \in Layer(scan, i) : j <= i => regular(j)) => curv[i] = swept(i)
=============================================================================
