--------------------------- MODULE StaticMapFilter ---------------------------
(***************************************************************************)
(* The filter that decides which points of a recording are static, run     *)
(* over the archived scans when a map is saved.  A temporal cell gathers   *)
(* evidence from hits and from the rays that cross it; the map voxels in   *)
(* it sum the points seen in it, and are exported while their cell is      *)
(* static and still of the generation they were summed in.                 *)
(*                                                                         *)
(* A cell and a voxel are numbers, in the order in which a scan meets      *)
(* them; which voxels lie in a cell is the constant CellOf, which cells a  *)
(* scan's rays cross is any set.  Log odds are integers, and the sum of a  *)
(* voxel's points is the stamp of the oldest of them.                      *)
(***************************************************************************)
EXTENDS Integers, FiniteSets, FiniteSetsExt

CONSTANTS MapCells,           \* voxels of the exported map
          CellOf,             \* the temporal cell a voxel lies in
          HitOdds, MissOdds,  \* evidence of a hit (> 0) and of a crossing ray (< 0)
          OccupiedOdds, ClearingOdds, MaxOdds,
          MinHits, MinSpan,   \* min_hit_scans, min_observation_span
          CandidateTimeout, CleanupPeriod,
          MaxTemporal, MaxMap,
          Gaps, Horizon       \* bounds: times between scans, end of the recording

FilterAssumption ==
  /\ IsFiniteSet(MapCells) /\ CellOf \in [MapCells -> Nat]
  /\ Gaps \subseteq Int
  /\ HitOdds > 0 /\ MissOdds < 0 /\ ClearingOdds < OccupiedOdds
  /\ {MinHits, MaxTemporal, MaxMap} \subseteq Nat \ {0}

VARIABLES temporal,     \* temporal_voxels_: cell -> evidence
          map,          \* map_voxels_: voxel -> generation and oldest point
          stamp,        \* last_stamp_
          cleaned,      \* last_cleanup_
          generation,   \* next_generation_
          full          \* capacity_exceeded_

filterVars == <<temporal, map, stamp, cleaned, generation, full>>

Cells == {CellOf[m] : m \in MapCells}
-----------------------------------------------------------------------------
IsStatic(s) == /\ s.hits >= MinHits
               /\ s.odds >= OccupiedOdds
               /\ s.last - s.first >= MinSpan

\* How many of the numbers in S a scan meets before c.
Before(c, S) == Cardinality({d \in S : d < c})

Occupied(points) == {CellOf[m] : m \in points}
NewCells(points) == Occupied(points) \ DOMAIN temporal
Admitted(points) ==
  {c \in NewCells(points) : Cardinality(DOMAIN temporal) + Before(c, NewCells(points)) < MaxTemporal}

\* Mutant: a cell that comes back takes up the generation it had before.
EvidenceOfBefore(c, now, points) ==
  IF c \in DOMAIN temporal
    THEN temporal[c]
    ELSE [odds |-> 0, hits |-> 0, first |-> now, last |-> now, seen |-> now, gen |-> c]

\* The evidence a hit adds to: what the cell has, or that of a new cell.
Evidence(c, now, points) ==
  IF c \in DOMAIN temporal
    THEN temporal[c]
    ELSE [odds |-> 0, hits |-> 0, first |-> now, last |-> now, seen |-> now,
          gen |-> generation + Before(c, NewCells(points))]

UpdateHits(now, points) ==
  [c \in DOMAIN temporal \cup Admitted(points) |->
     IF c \notin Occupied(points) THEN temporal[c]
     ELSE [Evidence(c, now, points) EXCEPT !.odds = Min({MaxOdds, @ + HitOdds}),
                                           !.hits = @ + 1, !.last = now, !.seen = now]]

\* The voxels of the points whose cell was admitted; a voxel of an earlier
\* generation starts anew.
SumPoints(cells, now, points) ==
  LET placed == {m \in points : CellOf[m] \in DOMAIN cells}
      new    == placed \ DOMAIN map
      added  == {m \in new : Cardinality(DOMAIN map) + Before(m, new) < MaxMap}
      gen(m) == cells[CellOf[m]].gen
  IN  [m \in DOMAIN map \cup added |->
         IF \/ m \notin placed
            \/ m \in DOMAIN map /\ map[m].gen = gen(m)
           THEN map[m]
           ELSE [gen |-> gen(m), since |-> now]]

\* The rays lower the evidence of the cells they cross, and erase the clear ones.
UpdateMisses(cells, now, missed) ==
  LET odds(c) == cells[c].odds + MissOdds
      kept    == {c \in DOMAIN cells : c \in missed => odds(c) > ClearingOdds}
  IN  [c \in kept |-> IF c \in missed THEN [cells[c] EXCEPT !.odds = odds(c), !.seen = now]
                                      ELSE cells[c]]

Due(now) == now - cleaned >= CleanupPeriod

CleanCells(cells, now) ==
  {c \in DOMAIN cells : IsStatic(cells[c]) \/ now - cells[c].seen <= CandidateTimeout}

CleanMap(cells, voxels) ==
  {m \in DOMAIN voxels : /\ CellOf[m] \in DOMAIN cells
                         /\ cells[CellOf[m]].gen = voxels[m].gen}

\* updateScan: hits, points, rays, and the clean-up when it is due.
UpdateScan(now, points, crossed) ==
  LET hit    == UpdateHits(now, points)
      summed == SumPoints(hit, now, points)
      left   == UpdateMisses(hit, now, crossed \ Occupied(points))
      cells  == IF Due(now) THEN CleanCells(left, now) ELSE DOMAIN left
      remain == [c \in cells |-> left[c]]
      voxels == IF Due(now) THEN CleanMap(remain, summed) ELSE DOMAIN summed
  IN  /\ now > stamp
      /\ stamp' = now
      /\ temporal' = remain
      /\ map' = [m \in voxels |-> summed[m]]
      /\ cleaned' = IF Due(now) THEN now ELSE cleaned
      /\ generation' = generation + Cardinality(Admitted(points))
      /\ full' = \/ full
                 \/ Admitted(points) # NewCells(points)
                 \/ \E m \in points : CellOf[m] \in DOMAIN hit /\ m \notin DOMAIN summed

\* points(): the voxels that are exported.
Exported == {m \in DOMAIN map : /\ CellOf[m] \in DOMAIN temporal
                                /\ temporal[CellOf[m]].gen = map[m].gen
                                /\ IsStatic(temporal[CellOf[m]])}
-----------------------------------------------------------------------------
Nothing == [x \in {} |-> x]

Init == /\ temporal = Nothing /\ map = Nothing
        /\ stamp = 0 /\ cleaned = 0 - CleanupPeriod
        /\ generation = 1 /\ full = FALSE

\* crossed: the cells of the rays that no point of the scan lies in.
Next == \E gap \in Gaps, points \in SUBSET MapCells :
          \E crossed \in SUBSET (Cells \ Occupied(points)) :
            /\ stamp + gap <= Horizon
            /\ UpdateScan(stamp + gap, points, crossed)

Spec == Init /\ [][Next]_filterVars
-----------------------------------------------------------------------------
\* A voxel that is exported sums only points that were seen since its cell was
\* last found empty: what stood there before, and was cleared by rays or
\* forgotten, leaves no point behind (static_map_filter.hpp:63, :85).
ExportIsOfThisLife ==
  \A m \in Exported : map[m].since >= temporal[CellOf[m]].first

=============================================================================
