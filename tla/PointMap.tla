------------------------------- MODULE PointMap -------------------------------
(***************************************************************************)
(* What an ikd-Tree promises to the SLAM nodes: a bag of points of which a *)
(* thinned insertion keeps the one nearest to the middle of its voxel, and *)
(* which loses exactly the points of the boxes that are deleted.  How the  *)
(* tree is laid out, and when it is rebuilt, does not show.                *)
(***************************************************************************)
EXTENDS Integers, FiniteSets

CONSTANTS Points,   \* coordinates along the one axis that stands for three
          Boxes,    \* pairs <<lo, hi>>: the points lo .. hi-1
          Voxel     \* downsample_size

VARIABLE live       \* how often each point is in the map

InBox(p, box) == box[1] <= p /\ p < box[2]
VoxelOf(p) == LET lo == (p \div Voxel) * Voxel IN <<lo, lo + Voxel>>

Distance(p, q) == IF p < q THEN q - p ELSE p - q
\* twice the distance from the middle of p's voxel
OffCentre(p) == Distance(2 * p, VoxelOf(p)[1] + VoxelOf(p)[2])

Without(box) == [p \in Points |-> IF InBox(p, box) THEN 0 ELSE live[p]]
With(bag, p) == [bag EXCEPT ![p] = @ + 1]

Init == live \in [Points -> Nat]

Add(p) == live' = With(live, p)

\* Afterwards the voxel holds one point, and none of those considered is nearer.
Thin(p) ==
    LET box == VoxelOf(p)
        seen == {p} \cup {q \in Points : InBox(q, box) /\ live[q] > 0}
    IN \E q \in seen :
           /\ \A other \in seen : OffCentre(q) <= OffCentre(other)
           /\ live' = With(Without(box), q)

Remove(box) == live' = Without(box)

Next == (\E p \in Points : Add(p) \/ Thin(p)) \/ (\E box \in Boxes : Remove(box))
Spec == Init /\ [][Next]_live
=============================================================================
