------------------------------- MODULE Mapping -------------------------------
(***************************************************************************)
(* The components that make, keep and save the map, in one composition: a  *)
(* behaviour is one of a single component, and the others stay as they     *)
(* begin.  The front end and the relocalization share their variables, the *)
(* second being the first with more.  The tree of the map is MCMapping's.  *)
(***************************************************************************)
EXTENDS Integers, Sequences

CONSTANTS
    \* the front end
    Period, Spans, MaxInit, MaxTime, MaxScans,
    \* the localization
    LioPeriod, LioSpans, LioInit, LioTime, LioScans, Axes, Half, Margin, Guesses, MaxGuesses, MaxBuffer,
    \* the pose graph
    MaxKeys, MaxCorrections,
    \* the static filter
    MapCells, CellOf, HitOdds, MissOdds, OccupiedOdds, ClearingOdds, MaxOdds, MinHits,
    MinSpan, CandidateTimeout, CleanupPeriod, MaxTemporal, MaxMap, Gaps, Horizon,
    \* the archive
    MaxArchived, MaxBytes, Workers, Sizes, LastStamp, MaxFrames,
    \* the save job
    Jobs, Operator, Nobody

VARIABLES part,
          map, above, ptr, flag, log, working, counter, reb, new, sound, todo,
          waiting, searcher,
          scans, times, imus, last, meas, imuInit, loop, points, frame, received, steady,
          at, held, exit, guess, lio, local, filter, ready, odom,
          poses3, poses6, clouds, variables, loops, estimate, closed, rebuilds,
          indexQueue, poseQueue, noiseQueue, container, main, finder, torn, overlapped,
          temporal, voxels, stamp, cleaned, generation, full,
          archived, error, bytes, newest, frames, offered, step, pending, filtered, ignored,
          start, worker, status, identified, reply, requests, serving, target, reader,
          ground, reference

Rebuild == INSTANCE TreeRebuild
    WITH Points <- 0..2, Sub <- {1, 2}, Boxes <- {{1}, {1, 2}, {0, 1}},
         Searchers <- {"s1"}, MaxCount <- 1, MaxLog <- 2
Front == INSTANCE LaserMapping
Lio == INSTANCE LioRelocalization
    WITH Period <- LioPeriod, Spans <- LioSpans, MaxInit <- LioInit, MaxTime <- LioTime,
         MaxScans <- LioScans, map <- local
Keys == INSTANCE KeyFrames WITH loop <- finder
Static == INSTANCE StaticMapFilter WITH map <- voxels
Archive == INSTANCE ScanArchive
    WITH MaxScans <- MaxArchived, Horizon <- LastStamp, scans <- archived, last <- newest
Save == INSTANCE MapSave
Support == INSTANCE TerrainSupport WITH Side <- 2, Extent <- 1

ASSUME MappingAssumptions ==
    /\ Rebuild!RebuildAssumption /\ Front!LaserMappingAssumption
    /\ Lio!LioRelocalizationAssumption /\ Static!FilterAssumption /\ Archive!ArchiveAssumption
    /\ Save!SaveAssumption
    /\ Period > 1    \* more than one IMU sample to a scan

rebuildVars == <<map, above, ptr, flag, log, working, counter, reb, new, sound, todo,
                 waiting, searcher>>
frontVars == <<scans, times, imus, last, meas, imuInit, loop, points, frame, received, steady>>
lioVars == <<at, held, exit, guess, lio, local, filter, ready, odom>>
keyVars == <<poses3, poses6, clouds, variables, loops, estimate, closed, rebuilds,
             indexQueue, poseQueue, noiseQueue, container, main, finder, torn, overlapped>>
staticVars == <<temporal, voxels, stamp, cleaned, generation, full>>
archiveVars == <<archived, error, bytes, newest, frames, offered, step, pending, filtered,
                 ignored>>
saveVars == <<start, worker, status, identified, reply, requests, serving, target, reader>>
supportVars == <<ground, reference>>
mapping == <<part, rebuildVars, frontVars, lioVars, keyVars, staticVars, archiveVars, saveVars,
             supportVars>>

Parts == {"rebuild", "front", "lio", "keys", "static", "archive", "save", "support"}

Begin == /\ Rebuild!Init /\ Lio!InitLio /\ Keys!Init /\ Static!Init /\ Archive!Init
         /\ Save!Init /\ Support!Init

MappingInit == part \in Parts /\ Begin

\* What the components other than the named one keep
Unmoved(moving) ==
    /\ UNCHANGED part
    /\ part = moving
    /\ moving # "rebuild" => UNCHANGED rebuildVars
    /\ moving \notin {"front", "lio"} => UNCHANGED frontVars
    /\ moving # "lio" => UNCHANGED lioVars
    /\ moving # "keys" => UNCHANGED keyVars
    /\ moving # "static" => UNCHANGED staticVars
    /\ moving # "archive" => UNCHANGED archiveVars
    /\ moving # "save" => UNCHANGED saveVars
    /\ moving # "support" => UNCHANGED supportVars

MappingNext ==
    \/ Unmoved("rebuild") /\ Rebuild!Next
    \/ Unmoved("front") /\ Front!Next
    \/ Unmoved("lio") /\ Lio!NextLio
    \/ Unmoved("keys") /\ Keys!Next
    \/ Unmoved("static") /\ Static!Next
    \/ Unmoved("archive") /\ Archive!Next
    \/ Unmoved("save") /\ Save!Next
    \/ Unmoved("support") /\ Support!Next

MappingSpec == MappingInit /\ [][MappingNext]_mapping

-----------------------------------------------------------------------------
\* While stamps advance, no IMU sample is missing and no scan lasts one sample only, every
\* frame is estimated from its own scan and samples (sync_packages and main of
\* laserMapping.cpp).
SteadyFrames == part = "front" => Front!SteadyFrames

\* Ready and every pose published are of a filter that runs from the newest initial
\* pose, once it is registered (laserMapping_relocalization.cpp).
OdometryIsRegistered == Lio!OdometryIsRegistered

\* Graph, key poses and clouds stay in step, corrections reach all of them, and a loop
\* has its own measurement and is not lost unless a frame took loops while one was
\* queued (saveKeyFramesAndFactor, addLoopFactor and correctPoses of laserMapping.cpp).
GraphMatchesKeys == part = "keys" => Keys!GraphMatchesKeys /\ Keys!LoopsAreMeasured

\* An exported voxel has its evidence from scans since it was last forgotten
\* (static_map_filter.hpp).
ExportIsOfThisLife == part = "static" => Static!ExportIsOfThisLife

\* A map is written only from all the scans that were to be captured, in their order;
\* one worker saves at a time, and a status of a save that reads as final is what became
\* of the map, also when the worker or the node has died (scan_archive.cpp, save_map.py).
SavesAreTrue ==
    /\ part = "archive" => Archive!SavedMapIsWhole
    /\ part = "save" => Save!OneWorker /\ Save!StatusIsTrue
=============================================================================
