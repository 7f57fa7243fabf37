------------------------------ MODULE MCMapping ------------------------------
(***************************************************************************)
(* An instance of Mapping for TLC, with the tree of the map as one more    *)
(* component: it is apart because its operations are recursive.            *)
(***************************************************************************)
EXTENDS Mapping

VARIABLES tree, live

KD == INSTANCE KDTree
    WITH Points <- 0..5, Boxes <- {<<0, 2>>, <<1, 4>>, <<3, 6>>, <<0, 6>>}, Voxel <- 2,
         MinimalUnbalanced <- 2, Neighbours <- {1, 2}, MaxSize <- 6

ASSUME TreeAssumption == KD!KDTreeAssumption

\* Two voxels of one temporal cell and one of another; a ray that crosses takes back
\* what a hit gives; one initial pose, off the origin.
ThreeVoxels == <<1, 1, 2>>
Crossing == -2
Clear == -1
OneGuess == {<<1, 1>>}

treeVars == <<tree, live>>

TreeInit == /\ part \in Parts \cup {"tree"}
            /\ IF part = "tree" THEN KD!Init ELSE tree = KD!Null /\ live = [p \in 0..5 |-> 0]
            /\ Begin

TreeNext == \/ part # "tree" /\ MappingNext /\ UNCHANGED treeVars
            \/ part = "tree" /\ KD!Next /\ UNCHANGED mapping

TreeSpec == TreeInit /\ [][TreeNext]_<<mapping, treeVars>>

-----------------------------------------------------------------------------
\* Searches find the k nearest points and validnum() counts the points of the tree,
\* whatever deletions and pushes are pending; and the terrain reference is supported
\* exactly when the ground points surround it with the margin (ikd_Tree.cpp,
\* terrain_height.py).
AnswersAreExact ==
    /\ part = "tree" => KD!AnswersAreExact
    /\ part = "support" => Support!SupportIsExact

\* The tree is a bag of points that changes as the operations say: lazy deletions and
\* rebuilds lose, revive and duplicate nothing (ikd_Tree.cpp).
IsPointMap ==
    (part = "tree" => KD!Map!Init) /\ [][part = "tree" => KD!Map!Next]_live

\* Neither the tree nor a rebuild by the second thread that began with an empty log,
\* copied a point and met no father with an inherited deletion changes what is found
\* (ikd_Tree.cpp, its multi_thread_rebuild).
MapIsKept == IsPointMap /\ Rebuild!SoundRebuildKeepsMap
=============================================================================
