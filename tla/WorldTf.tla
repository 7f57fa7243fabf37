-------------------------------- MODULE WorldTf --------------------------------
(***************************************************************************)
(* The owner of the transform from map to odom (world_tf_owner.py).  It    *)
(* pairs a global and a local estimate of the same scan, and forgets both  *)
(* caches whenever an input, a gate or the clock gives it a reason to.     *)
(* Callbacks and the watchdog hold one lock; each is a step.               *)
(***************************************************************************)
EXTENDS Integers, FiniteSets, FiniteSetsExt

CONSTANTS MaxAge,       \* max_age, in ticks
          BaseTimeout,  \* the 1.5 s of gates
          MaxCache,     \* the 100 estimates of a cache
          MaxTime       \* bound on the clock

WorldTfAssumption == {MaxAge, BaseTimeout, MaxCache, MaxTime} \subseteq Nat \ {0}

VARIABLES now, due,
          cache,    \* local and global_: the stamps they hold
          seen,     \* the newest stamp taken per input
          enabled, baseWall,
          last,     \* last and last_wall: the newest transform, and when it was sent
          ready,    \* the last ready published
          void      \* seen, at the last invalidation (history)

vars == <<now, due, cache, seen, enabled, baseWall, last, ready, void>>

Inputs == {"local", "global"}
Other(i) == IF i = "local" THEN "global" ELSE "local"
Never == -100
Empty == [i \in Inputs |-> {}]

Fresh(stamp) == now - stamp \in 0 .. MaxAge
Gates == enabled /\ now - baseWall <= BaseTimeout

\* Mutant of Invalidate: the estimates of the local input are kept.
InvalidateGlobal(s) ==
    /\ cache' = [cache EXCEPT !.global = {}]
    /\ last' = [last EXCEPT !.wall = Never] /\ ready' = FALSE
    /\ void' = s

\* invalidate
Invalidate(s) ==
    /\ cache' = Empty
    /\ last' = [last EXCEPT !.wall = Never] /\ ready' = FALSE
    /\ void' = s

Keep == UNCHANGED <<cache, last, ready, void>>

-----------------------------------------------------------------------------

Localized == \E l \in BOOLEAN :
    /\ enabled' = l
    /\ IF l THEN Keep ELSE Invalidate(seen)
    /\ UNCHANGED <<now, due, seen, baseWall>>

Base == \E b \in BOOLEAN :
    /\ baseWall' = IF b THEN now ELSE Never
    /\ IF b THEN Keep ELSE Invalidate(seen)
    /\ UNCHANGED <<now, due, seen, enabled>>

Rejects(i, stamp) == ~Gates \/ ~Fresh(stamp) \/ stamp <= seen[i]

\* The cache with one more stamp, the oldest ones dropped over its limit
Cached(i, stamp) ==
    LET all == cache[i] \cup {stamp}
    IN  IF Cardinality(all) > MaxCache THEN all \ {Min(all)} ELSE all

\* An estimate of the right frames and finite values meets its counterpart.
Pair(i, stamp) ==
    LET both == [cache EXCEPT ![i] = Cached(i, stamp)]
    IN  IF \A j \in Inputs : stamp \in both[j] /\ stamp > last.stamp
        THEN /\ last' = [stamp |-> stamp, wall |-> now] /\ ready' = TRUE
             /\ cache' = [j \in Inputs |-> {s \in both[j] : s > stamp}]
             /\ UNCHANGED void
        ELSE cache' = both /\ UNCHANGED <<last, ready, void>>

\* receive
Receive == \E i \in Inputs, stamp \in 1 .. (now + 1), good \in BOOLEAN :
    /\ IF Rejects(i, stamp) THEN Invalidate(seen) /\ UNCHANGED seen
       ELSE /\ seen' = [seen EXCEPT ![i] = stamp]
            /\ IF good THEN Pair(i, stamp) ELSE Invalidate(seen')
    /\ UNCHANGED <<now, due, enabled, baseWall>>

Outlived == now - last.wall > MaxAge \/ ~Fresh(last.stamp)

\* watchdog
Watchdog ==
    /\ due /\ due' = FALSE
    /\ IF ~Gates THEN Invalidate(seen)
       ELSE IF last.wall = Never THEN ready' = FALSE /\ UNCHANGED <<cache, last, void>>
       ELSE IF Outlived THEN Invalidate(seen)
       ELSE Keep
    /\ UNCHANGED <<now, seen, enabled, baseWall>>

\* Bound: the watchdog runs in every tick.
Tick == /\ now < MaxTime /\ ~due /\ now' = now + 1 /\ due' = TRUE
        /\ UNCHANGED <<cache, seen, enabled, baseWall, last, ready, void>>

Init ==
    /\ now = 1 /\ due = FALSE /\ cache = Empty
    /\ seen = [i \in Inputs |-> 0] /\ void = [i \in Inputs |-> 0]
    /\ enabled = FALSE /\ baseWall = Never
    /\ last = [stamp |-> 0, wall |-> Never] /\ ready = FALSE

Next == Localized \/ Base \/ Receive \/ Watchdog \/ Tick

Spec == Init /\ [][Next]_vars

-----------------------------------------------------------------------------

\* A transform pairs two estimates that both arrived after the last reason to
\* forget the others ("never pair latest-to-latest", world_tf_owner.py:39-42
\* and 77-101), and is newer than every one before it.
NewPair ==
    last'.stamp # last.stamp =>
        /\ last'.stamp > last.stamp
        /\ \A i \in Inputs : last'.stamp > void[i] /\ last'.stamp <= seen'[i]

\* Ready stands on a transform, a localization and a base heartbeat that were
\* good a tick ago (world_tf_owner.py:103-110).
ReadyIsBacked ==
    ready => /\ enabled /\ now - baseWall <= BaseTimeout + 1
             /\ last.wall # Never /\ now - last.stamp <= MaxAge + 1
=============================================================================
