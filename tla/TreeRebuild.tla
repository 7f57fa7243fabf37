----------------------------- MODULE TreeRebuild -----------------------------
(***************************************************************************)
(* The second thread of the ikd-Tree (multi_thread_rebuild): it copies the *)
(* points of a large subtree, builds a new one beside it, replays what was *)
(* logged meanwhile and puts the new subtree in place, while the thread of *)
(* the node goes on changing the tree and its workers search it.           *)
(*                                                                         *)
(* KDTree shows that the tree is a bag of points; here it is one.  What    *)
(* *Rebuild_Ptr may be is the root or one subtree, whose points are Sub    *)
(* and whose father and grandfather are named so.  A deletion that covers  *)
(* an ancestor only flags it: the subtree learns of it by Push_Down.       *)
(***************************************************************************)
EXTENDS Integers, FiniteSets, Sequences

CONSTANTS Points, Sub,
          Boxes,      \* sets of points that Delete_Point_Boxes deletes
          Searchers,  \* threads of the parallel search
          MaxCount,   \* bound on the copies of a point
          MaxLog      \* bound on the logged operations

RebuildAssumption == Sub \subseteq Points /\ {MaxCount, MaxLog} \subseteq Nat

VARIABLES map,       \* the points by the flags of their own nodes and subtree
          above,     \* a deletion Sub does not know of, by who has it: nobody,
                     \* "father", "grandfather", or "inherited" by the father from him
          ptr,       \* the points below *Rebuild_Ptr, {} for none
          flag,      \* rebuild_flag
          log,       \* Rebuild_Logger
          working,   \* the rebuild thread holds working_flag_mutex
          counter,   \* search_mutex_counter
          reb,       \* the rebuild thread, which has rebuild_ptr_mutex unless idle
          new,       \* new_root_node
          sound,     \* the log was empty at the start and points were copied
          todo,      \* what the thread of the node has still to do
          waiting,   \* it found *Rebuild_Ptr and waits for working_flag_mutex
          searcher

vars == <<map, above, ptr, flag, log, working, counter, reb, new, sound, todo, waiting,
          searcher>>
rebuildVars == <<ptr, flag, working, counter, reb, new, sound>>

NoneAbove == "nobody"
NoPoints == [p \in Points |-> 0]
Only(bag, S) == [p \in Points |-> IF p \in S THEN bag[p] ELSE 0]

\* What a search finds
Seen == IF above = NoneAbove THEN map ELSE Only(map, Points \ Sub)

\* run_operation, and the same on the tree in use.  "push" is the Push_Down of a
\* deletion into the root of the subtree.
Applied(op, bag) ==
    CASE op.kind = "add"    -> [bag EXCEPT ![op.p] = @ + 1]
      [] op.kind = "delete" -> Only(bag, Points \ op.box)
      [] op.kind = "push"   -> Only(bag, Points \ Sub)

-----------------------------------------------------------------------------
(* The rebuild thread. *)

RebuildBegins ==
    /\ reb = "idle" /\ ptr # {} /\ ~working
    /\ working' = TRUE /\ flag' = TRUE /\ sound' = (log = <<>>) /\ reb' = "copying"
    /\ UNCHANGED <<map, above, ptr, log, counter, new, todo, waiting, searcher>>

SearchesLockedOut == counter = 0 /\ counter' = -1

LockSearch ==
    /\ \/ reb = "copying" /\ reb' = "flattening"
       \/ reb = "switching" /\ reb' = "replacing"
    /\ SearchesLockedOut
    /\ UNCHANGED <<map, above, ptr, flag, log, working, new, sound, todo, waiting, searcher>>

\* flatten, and BuildTree unless there is nothing to build: then the lock, the log
\* and a new root are done without.
FlattenAndBuild ==
    /\ reb = "flattening"
    /\ new' = Only(map, ptr) /\ counter' = 0 /\ working' = FALSE
    /\ reb' = IF new' = NoPoints THEN "switching" ELSE "built"
    /\ sound' = (sound /\ new' # NoPoints)
    /\ UNCHANGED <<map, above, ptr, flag, log, todo, waiting, searcher>>

LockWorking ==
    /\ reb = "built" /\ ~working /\ working' = TRUE /\ reb' = "replaying"
    /\ UNCHANGED <<map, above, ptr, flag, log, counter, new, sound, todo, waiting, searcher>>

\* Mutant of LogDrained: the operations of the first batch are enough.
LogDrainedOnce == TRUE
LogDrained == log = <<>>

\* An operation is replayed outside the locks.
Replay ==
    /\ reb = "replaying" /\ ~LogDrained
    /\ log' = Tail(log) /\ new' = Applied(Head(log), new)
    /\ working' = FALSE /\ reb' = "built"
    /\ UNCHANGED <<map, above, ptr, flag, counter, sound, todo, waiting, searcher>>

ReplayEnds ==
    /\ reb = "replaying" /\ LogDrained /\ reb' = "switching"
    /\ UNCHANGED <<map, above, ptr, flag, log, working, counter, new, sound, todo, waiting,
                   searcher>>

\* Then the ancestors are updated.  A father that inherited a deletion is asked
\* neither for his flags nor, his working_flag being down, left alone: his
\* tree_deleted becomes that of the new son, and what he pushes down revives it.
Replace ==
    /\ reb = "replacing"
    /\ map' = [p \in Points |-> IF p \in ptr THEN new[p] ELSE map[p]]
    /\ above' = IF ptr = Points \/ (above = "inherited" /\ new # NoPoints) THEN NoneAbove
                ELSE above
    /\ counter' = 0 /\ ptr' = {} /\ working' = FALSE /\ reb' = "clearing"
    /\ UNCHANGED <<flag, log, new, sound, todo, waiting, searcher>>

ClearFlag ==
    /\ reb = "clearing" /\ flag' = FALSE /\ reb' = "idle" /\ new' = NoPoints
    /\ UNCHANGED <<map, above, ptr, log, working, counter, sound, todo, waiting, searcher>>

RebuildStep ==
    \/ RebuildBegins \/ LockSearch \/ FlattenAndBuild \/ LockWorking
    \/ Replay \/ ReplayEnds \/ Replace \/ ClearFlag

-----------------------------------------------------------------------------
(* The thread of the node: operations, when no search is running. *)

Adding(p) == [kind |-> "add", p |-> p]
Deleting(box) == [kind |-> "delete", box |-> box]
Pushing == [kind |-> "push"]

NoSearch == \A s \in Searchers : searcher[s] = "out"
Calls(ops) ==
    /\ todo = <<>> /\ NoSearch /\ Len(log) + Len(ops) <= MaxLog /\ todo' = ops
    /\ UNCHANGED <<map, log, waiting, searcher>> /\ UNCHANGED rebuildVars

\* On its way to a point the grandfather's flags go to the father, his to the son.
Add(p) ==
    /\ map[p] < MaxCount
    /\ above' = IF above = "grandfather" /\ p \notin Sub THEN "inherited" ELSE above
    /\ Calls(IF p \in Sub /\ above # NoneAbove THEN <<Pushing, Adding(p)>> ELSE <<Adding(p)>>)

Delete(box) == Calls(<<Deleting(box)>>) /\ UNCHANGED above

\* A box that covers an ancestor of the subtree being rebuilt is not taken further.
DeleteAbove(who) ==
    /\ ptr = Sub /\ above = NoneAbove
    /\ Calls(<<>>) /\ above' = who

Touches(op) ==
    \/ ptr = Points
    \/ ptr = Sub /\ (op.kind = "add" => op.p \in Sub)

Inside(S, op) == op.kind = "delete" /\ S \subseteq op.box

\* An operation that meets no *Rebuild_Ptr.  Rebuild may then ask for a rebuild of
\* what it went through, unless one is running.  What was asked for is not withdrawn:
\* the subtree has lost no node when the operations compare its size (665, 818), since
\* nothing in it is rebuilt meanwhile.
Operate(asked) ==
    /\ todo # <<>> /\ ~waiting /\ ~Touches(Head(todo))
    /\ asked # ptr => /\ reb = "idle" /\ Cardinality(asked) > Cardinality(ptr)
                      /\ ~Inside(asked, Head(todo))
    /\ ptr' = asked
    /\ map' = IF asked = Points THEN Applied(Head(todo), Seen) ELSE Applied(Head(todo), map)
    /\ above' = IF asked = Points \/ Head(todo).kind = "push" THEN NoneAbove ELSE above
    /\ todo' = Tail(todo)
    /\ UNCHANGED <<flag, log, working, counter, reb, new, sound, waiting, searcher>>

Meets ==
    /\ todo # <<>> /\ ~waiting /\ Touches(Head(todo)) /\ waiting' = TRUE
    /\ UNCHANGED <<map, above, log, todo, searcher>> /\ UNCHANGED rebuildVars

Logged(op) == IF flag THEN Append(log, op) ELSE log

MayOperate == ~working

\* Under working_flag_mutex, and on what *Rebuild_Ptr is by now
OperateAndLog ==
    /\ waiting /\ MayOperate
    /\ map' = Applied(Head(todo), map) /\ log' = Logged(Head(todo))
    /\ above' = IF Head(todo).kind = "push" THEN NoneAbove ELSE above
    /\ todo' = Tail(todo) /\ waiting' = FALSE
    /\ UNCHANGED searcher /\ UNCHANGED rebuildVars

-----------------------------------------------------------------------------
(* The searches, which run between the operations. *)

Moves(s, from, to) ==
    /\ searcher[s] = from /\ searcher' = [searcher EXCEPT ![s] = to]
    /\ UNCHANGED <<map, above, ptr, flag, log, working, reb, new, sound, todo, waiting>>

SearchStarts(s) ==
    /\ todo = <<>>
    /\ Moves(s, "out", IF ptr = {} THEN "unguarded" ELSE "waiting") /\ UNCHANGED counter
SearchEnters(s) ==
    /\ counter # -1 /\ Moves(s, "waiting", "inside") /\ counter' = counter + 1
SearchEnds(s) ==
    \/ Moves(s, "inside", "out") /\ counter' = counter - 1
    \/ Moves(s, "unguarded", "out") /\ UNCHANGED counter

Init ==
    /\ map = [p \in Points |-> 1] /\ above = NoneAbove /\ ptr = {} /\ flag = FALSE
    /\ log = <<>> /\ working = FALSE /\ counter = 0 /\ reb = "idle" /\ new = NoPoints
    /\ sound = TRUE /\ todo = <<>> /\ waiting = FALSE
    /\ searcher = [s \in Searchers |-> "out"]

MainStep ==
    \/ \E p \in Points : Add(p)
    \/ \E box \in Boxes : Delete(box)
    \/ \E who \in {"father", "grandfather"} : DeleteAbove(who)
    \/ \E asked \in {{}, Sub, Points} : Operate(asked)
    \/ Meets \/ OperateAndLog
SearchStep == \E s \in Searchers : SearchStarts(s) \/ SearchEnters(s) \/ SearchEnds(s)

Next == RebuildStep \/ MainStep \/ SearchStep

Spec == Init /\ [][Next]_vars

-----------------------------------------------------------------------------
(* Properties. *)

\* Whatever was added, deleted and pushed down while the copy was built, a rebuild
\* that began with an empty log, copied a point and met no father with an inherited
\* deletion does not change what is found in the map.
SoundRebuildKeepsMap ==
    [][reb # reb' /\ sound /\ above # "inherited" => Seen' = Seen]_vars
=============================================================================
