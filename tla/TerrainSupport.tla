---------------------------- MODULE TerrainSupport ----------------------------
(***************************************************************************)
(* Whether the points of the ground surround the reference position: the   *)
(* estimator takes their convex hull by Andrew's monotone chain and asks   *)
(* that the reference keeps a distance from every edge of it.  Points are  *)
(* <<x, y>> on a grid; distances are compared by their squares.            *)
(***************************************************************************)
EXTENDS Integers, Sequences, FiniteSets, SequencesExt

CONSTANTS Side,      \* the grid is (0 .. Side) by (0 .. Side)
          Extent     \* min_support_extent

VARIABLES ground, reference
supportVars == <<ground, reference>>

Grid == (0 .. Side) \X (0 .. Side)
-----------------------------------------------------------------------------
Square(n) == n * n
Cross(o, l, r) == (l[1] - o[1]) * (r[2] - o[2]) - (l[2] - o[2]) * (r[1] - o[1])

\* The grid by x, then y.
GridInOrder == [i \in 1 .. Square(Side + 1) |-> <<(i - 1) \div (Side + 1), (i - 1) % (Side + 1)>>]
Sorted(points) == SelectSeq(GridInOrder, LAMBDA p : p \in points)

\* Points are popped while the last two and the new one do not turn left.
PushPoint(chain, p) ==
  LET stays(k) == k < 2 \/ Cross(chain[k - 1], chain[k], p) > 0
      kept == CHOOSE k \in 0 .. Len(chain) :
                stays(k) /\ \A j \in k + 1 .. Len(chain) : ~stays(j)
  IN  Append(SubSeq(chain, 1, kept), p)

HalfHull(points) == FoldLeft(PushPoint, <<>>, points)

Joined(lower, upper) == Front(lower) \o Front(upper)

\* _convex_hull: counter-clockwise, empty below three points.
ConvexHull(points) ==
  IF Cardinality(points) < 3 THEN <<>>
  ELSE Joined(HalfHull(Sorted(points)), HalfHull(Reverse(Sorted(points))))

LengthSquared(p, q) == Square(q[1] - p[1]) + Square(q[2] - p[2])

\* The reference lies at least Extent to the left of the line from p to q.
Clears(p, q, r) == /\ Cross(p, q, r) >= 0
                   /\ Square(Cross(p, q, r)) >= Square(Extent) * LengthSquared(p, q)

\* _supports_reference
Supports(points, r) ==
  LET hull == ConvexHull(points)
  IN  /\ Len(hull) >= 3
      /\ \A i \in DOMAIN hull : LET next == hull[(i % Len(hull)) + 1]
                                IN  hull[i] # next /\ Clears(hull[i], next, r)
-----------------------------------------------------------------------------
Init == ground = {} /\ reference = <<0, 0>>

Next == \/ \E p \in Grid \ ground : ground' = ground \cup {p} /\ UNCHANGED reference
        \/ \E r \in Grid : reference' = r /\ UNCHANGED ground

Spec == Init /\ [][Next]_supportVars
-----------------------------------------------------------------------------
\* The reference is supported exactly when it keeps the distance from every line
\* through two of the points that has all the others on one side, also when many
\* of them lie on one line (terrain_height.py:276, :299).
SupportIsExact ==
  LET bounds(p, q) == p # q /\ \A o \in ground : Cross(p, q, o) >= 0
      flat == \A p, q, o \in ground : Cross(p, q, o) = 0
  IN  Supports(ground, reference) <=>
        /\ ~flat
        /\ \A p, q \in ground : bounds(p, q) => Clears(p, q, reference)
=============================================================================
