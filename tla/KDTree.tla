-------------------------------- MODULE KDTree --------------------------------
(***************************************************************************)
(* The ikd-Tree of the SLAM nodes (ikd_Tree.cpp) as one thread sees it: a  *)
(* k-d tree with lazy deletion, flags that are pushed down when a node is  *)
(* next visited, and subtrees that are rebuilt when they lose balance or   *)
(* hold too many deleted points.  One axis stands for three, and every     *)
(* subtree is below Multi_Thread_Rebuild_Point_Num; TreeRebuild models the *)
(* rebuilding of larger ones by the second thread.                         *)
(*                                                                         *)
(* A subtree is a record; Null is the missing one.                         *)
(***************************************************************************)
EXTENDS Integers, Sequences, SequencesExt

CONSTANTS Points, Boxes, Voxel,
          MinimalUnbalanced,  \* Minimal_Unbalanced_Tree_Size
          Neighbours,         \* values of k_nearest
          MaxSize             \* bound on the nodes of the tree

KDTreeAssumption ==
    Points \subseteq Nat /\ {Voxel, MaxSize} \subseteq Nat \ {0} /\ MinimalUnbalanced \in Nat

VARIABLES tree,   \* Root_Node
          live    \* what its users find in it: how often each point

vars == <<tree, live>>

Null == [n |-> 0, inv |-> 0, dd |-> 0, tdel |-> TRUE, tds |-> TRUE]

\* p: point; n, inv, dd: TreeSize, invalid_point_num, down_del_num; pdel, tdel, pds,
\* tds: point_deleted, tree_deleted and the same by downsampling; pushL, pushR:
\* need_push_down_to_left and _right; lo, hi: node_range
NewNode(p, l, r) ==
    [p |-> p, l |-> l, r |-> r, n |-> 1, inv |-> 0, dd |-> 0, lo |-> p, hi |-> p,
     pdel |-> FALSE, tdel |-> FALSE, pds |-> FALSE, tds |-> FALSE,
     pushL |-> FALSE, pushR |-> FALSE]

One(b) == IF b THEN 1 ELSE 0

\* Mutant of Update: the range takes no notice of the right subtree.
UpdateLeftRange(t) ==
    [t EXCEPT !.n = 1 + t.l.n + t.r.n, !.inv = One(t.pdel) + t.l.inv + t.r.inv,
              !.tdel = t.pdel /\ t.l.tdel /\ t.r.tdel,
              !.hi = IF t.l.n > 0 /\ t.l.hi > t.p THEN t.l.hi ELSE t.p,
              !.lo = IF t.l.n > 0 /\ t.l.lo < t.p THEN t.l.lo ELSE t.p]

\* Update: the range is that of the parts that are not deleted, or of all of them.
Update(t) ==
    LET gone == t.pdel /\ t.l.tdel /\ t.r.tdel
        kids == {k \in {t.l, t.r} : k.n > 0 /\ (gone \/ ~k.tdel)}
        own == {p \in {t.p} : gone \/ ~t.pdel}
    IN [t EXCEPT !.n = 1 + t.l.n + t.r.n,
                 !.inv = One(t.pdel) + t.l.inv + t.r.inv,
                 !.dd = One(t.pds) + t.l.dd + t.r.dd,
                 !.tdel = gone, !.tds = t.pds /\ t.l.tds /\ t.r.tds,
                 !.lo = Min({k.lo : k \in kids} \cup own),
                 !.hi = Max({k.hi : k \in kids} \cup own)]

\* Push_Down into one son
PushedInto(t, son) ==
    LET ds == son.tds \/ t.tds
        pds == son.pds \/ t.tds
        dd == IF t.tds THEN son.n ELSE son.dd
    IN [son EXCEPT !.tds = ds, !.pds = pds, !.dd = dd,
                   !.tdel = t.tdel \/ ds, !.pdel = t.tdel \/ ds \/ pds,
                   !.inv = IF t.tdel THEN son.n ELSE dd,
                   !.pushL = TRUE, !.pushR = TRUE]

\* A flag for a son that is missing stays up.
PushDown(t) ==
    [t EXCEPT !.l = IF t.pushL /\ t.l.n > 0 THEN PushedInto(t, t.l) ELSE @,
              !.r = IF t.pushR /\ t.r.n > 0 THEN PushedInto(t, t.r) ELSE @,
              !.pushL = @ /\ t.l.n = 0, !.pushR = @ /\ t.r.n = 0]

RECURSIVE Flatten(_)
Flatten(t) ==
    IF t.n = 0 THEN <<>>
    ELSE LET u == PushDown(t)
         IN (IF u.pdel THEN <<>> ELSE <<u.p>>) \o Flatten(u.l) \o Flatten(u.r)

\* Points that tie are the same point here, so a sorted Storage is the one outcome.
RECURSIVE BuildTree(_)
BuildTree(storage) ==
    IF storage = <<>> THEN Null
    ELSE LET mid == (Len(storage) + 1) \div 2
         IN Update(NewNode(storage[mid],
                           BuildTree(SubSeq(storage, 1, mid - 1)),
                           BuildTree(SubSeq(storage, mid + 1, Len(storage)))))

Build(points) == BuildTree(SortSeq(points, <))

\* Criterion_Check, with delete_criterion_param 0.5 and balance_criterion_param 0.6
Criterion(t) ==
    /\ t.n > MinimalUnbalanced
    /\ LET son == IF t.l.n > 0 THEN t.l ELSE t.r
       IN \/ 2 * t.inv > t.n
          \/ 10 * son.n > 6 * (t.n - 1) \/ 10 * son.n < 4 * (t.n - 1)

\* The end of each operation on a node it went through
Settle(t) == LET u == Update(t) IN IF Criterion(u) THEN Build(Flatten(u)) ELSE u

RECURSIVE AddByPoint(_, _)
AddByPoint(t, p) ==
    IF t.n = 0 THEN Update(NewNode(p, Null, Null))
    ELSE LET u == PushDown(t)
         IN Settle(IF p < u.p THEN [u EXCEPT !.l = AddByPoint(@, p)]
                              ELSE [u EXCEPT !.r = AddByPoint(@, p)])

Inside(p, box) == box[1] <= p /\ p < box[2]
Apart(t, box) == box[2] <= t.lo \/ box[1] > t.hi
Covers(t, box) == box[1] <= t.lo /\ box[2] > t.hi

\* Delete_by_range of a subtree inside the box
DeleteAll(t, ds) ==
    [t EXCEPT !.tdel = TRUE, !.pdel = TRUE, !.pushL = TRUE, !.pushR = TRUE, !.inv = t.n,
              !.tds = @ \/ ds, !.pds = @ \/ ds, !.dd = IF ds THEN t.n ELSE @]

\* ds: is_downsample
RECURSIVE DeleteByRange(_, _, _)
DeleteByRange(t, box, ds) ==
    IF t.n = 0 \/ t.tdel THEN t
    ELSE LET u == PushDown(t)
             hit == ~u.pdel /\ Inside(u.p, box)
         IN IF Apart(u, box) THEN u
            ELSE IF Covers(u, box) THEN DeleteAll(u, ds)
            ELSE Settle([u EXCEPT !.pdel = @ \/ hit, !.pds = @ \/ (hit /\ ds),
                                  !.l = DeleteByRange(@, box, ds),
                                  !.r = DeleteByRange(@, box, ds)])

\* Search_by_range: the tree it leaves and the points it finds
RECURSIVE SearchByRange(_, _)
SearchByRange(t, box) ==
    IF t.n = 0 THEN [t |-> t, found |-> <<>>]
    ELSE LET u == PushDown(t)
             l == SearchByRange(u.l, box)
             r == SearchByRange(u.r, box)
             own == IF Inside(u.p, box) /\ ~u.pdel THEN <<u.p>> ELSE <<>>
         IN IF Apart(u, box) THEN [t |-> u, found |-> <<>>]
            ELSE IF Covers(u, box) THEN [t |-> u, found |-> Flatten(u)]
            ELSE [t |-> [u EXCEPT !.l = l.t, !.r = r.t], found |-> own \o l.found \o r.found]

-----------------------------------------------------------------------------
(* Search: the k nearest points, q being MANUAL_HEAP with the nearest first. *)

Dist(p, x) == IF p < x THEN x - p ELSE p - x
Infinity == Max(Points) + Max(Points) + 1
BoxDist(t, x) ==
    IF t.n = 0 THEN Infinity
    ELSE IF x < t.lo THEN t.lo - x ELSE IF x > t.hi THEN x - t.hi ELSE 0

Wanted(q, d, x, k) == Len(q) < k \/ d < Dist(Last(q), x)

\* push, after a pop when the heap is full
Kept(q, p, x, k) ==
    SortSeq(Append(IF Len(q) < k THEN q ELSE Front(q), p),
            LAMBDA a, b : Dist(a, x) < Dist(b, x))

RECURSIVE Search(_, _, _, _)
Search(t, q, x, k) ==
    IF t.n = 0 \/ t.tdel THEN [t |-> t, q |-> q]
    ELSE
    LET u == PushDown(t)
        q0 == IF ~u.pdel /\ Wanted(q, Dist(u.p, x), x, k) THEN Kept(q, u.p, x, k) ELSE q
        dl == BoxDist(u.l, x)
        dr == BoxDist(u.r, x)
        \* both sons are of interest: the nearer one comes first
        leftFirst == dl <= dr \/ ~(Wanted(q0, dl, x, k) /\ Wanted(q0, dr, x, k))
        Try(son, qq) == IF Wanted(qq, BoxDist(son, x), x, k) THEN Search(son, qq, x, k)
                                                           ELSE [t |-> son, q |-> qq]
        first == Try(IF leftFirst THEN u.l ELSE u.r, q0)
        second == Try(IF leftFirst THEN u.r ELSE u.l, first.q)
    IN [t |-> [u EXCEPT !.l = IF leftFirst THEN first.t ELSE second.t,
                        !.r = IF leftFirst THEN second.t ELSE first.t],
        q |-> second.q]

-----------------------------------------------------------------------------
(* What the nodes call.  They add to a tree only once it is built. *)

Times(p, s) == Len(SelectSeq(s, LAMBDA q : q = p))
Seen(t) == LET all == Flatten(t) IN [p \in Points |-> Times(p, all)]

Init == /\ \E p, q, r \in Points : tree = Build(<<p, q, r>>)
        /\ live = Seen(tree)

\* Add_Points without downsampling; a null root would be dereferenced.
AddPoint(p) == tree.n \in 1..MaxSize - 1 /\ tree' = AddByPoint(tree, p)

Centre(p) == LET lo == (p \div Voxel) * Voxel IN <<lo, lo + Voxel>>
Off(p) == Dist(2 * p, Centre(p)[1] + Centre(p)[2])

Nearer(p, q) == Off(p) < Off(q)

\* Add_Points with downsampling
AddThinned(p) ==
    /\ tree.n \in 1..MaxSize - 1
    /\ LET box == Centre(p)
           search == SearchByRange(tree, box)
           result == FoldLeft(LAMBDA best, q : IF Nearer(q, best) THEN q ELSE best,
                              p, search.found)
           thinned == IF search.found = <<>> THEN search.t
                      ELSE DeleteByRange(search.t, box, TRUE)
       IN tree' = IF Len(search.found) > 1 \/ result = p
                  THEN AddByPoint(thinned, result) ELSE search.t

\* Delete_Point_Boxes
DeleteBox(box) == tree' = DeleteByRange(tree, box, FALSE)

NearestSearch(x, k) == tree' = Search(tree, <<>>, x, k).t

Next ==
    /\ \/ \E p \in Points : AddPoint(p) \/ AddThinned(p)
       \/ \E box \in Boxes : DeleteBox(box)
       \/ \E x \in Points, k \in Neighbours : NearestSearch(x, k)
    /\ live' = Seen(tree')

Spec == Init /\ [][Next]_vars

-----------------------------------------------------------------------------
(* Properties. *)

Map == INSTANCE PointMap
\* The tree is a bag of points that changes as the operations say: pushed flags,
\* lazy deletions and rebuilds lose, revive and duplicate nothing.
IsPointMap == Map!Spec

\* A search returns the k nearest points there are, though it leaves out subtrees
\* by ranges that deletions have shrunk and additions have widened since; and
\* validnum() counts the points, whatever waits to be pushed down, of a root that
\* stays: the next Add_Points reads its axis.
AnswersAreExact ==
    LET all == Flatten(tree)
    IN /\ tree.n > 0 /\ tree.n - tree.inv = Len(all)
       /\ \A x \in Points, k \in Neighbours :
           LET sorted == SortSeq(all, LAMBDA a, b : Dist(a, x) < Dist(b, x))
               q == Search(tree, <<>>, x, k).q
           IN /\ Len(q) = Min({k, Len(all)})
              /\ \A i \in 1..Len(q) : Dist(q[i], x) = Dist(sorted[i], x)
=============================================================================
