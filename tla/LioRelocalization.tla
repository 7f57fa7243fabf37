-------------------------- MODULE LioRelocalization --------------------------
(***************************************************************************)
(* The localization node of sfast_lio (laserMapping_relocalization.cpp     *)
(* with matching.hpp): the scan in hand is registered against the global   *)
(* map from an initial pose, then every scan corrects the filter.  Its     *)
(* sensor callbacks, sync_packages and ImuProcess are those of             *)
(* LaserMapping.  Callbacks run only in spinOnce: of the main loop, and of *)
(* the wait for another initial pose.                                      *)
(***************************************************************************)
EXTENDS LaserMapping, Integers

CONSTANTS Axes,       \* how many coordinates a position has
          Half,       \* box_filter_size: half an edge of the local map
          Margin,     \* the 50 m of Registe_2_globalmap
          Guesses,    \* the initial poses sent
          MaxGuesses, \* bound on the initial poses accepted
          MaxBuffer   \* bound on the length of the buffers

LioRelocalizationAssumption ==
    /\ {Axes, Half, Margin, MaxGuesses, MaxBuffer} \subseteq Nat \ {0}
    /\ Guesses \subseteq [1 .. Axes -> Int]

VARIABLES at,        \* where the main loop stands
          held,      \* Measures.imu
          exit,      \* flg_exit
          guess,     \* initial_guess, and how many were accepted (history)
          lio,       \* inited_pose, init_flag and clean_buff
          map,       \* has_inited_ and the origin of the local map
          filter,    \* position of the filter, and the guess it came from (history)
          ready,     \* the last /relocalization_ready
          odom       \* the last /Odometry: its scan, and the guess behind it

lioVars == <<at, held, exit, guess, lio, map, filter, ready, odom>>
allVars == <<vars, lioVars>>
unused == <<loop, frame, received, steady, last>>

Home == [a \in 1 .. Axes |-> 0]

\* Where a registration may put the vehicle: no further than one step away.
Near(p) == {[a \in 1 .. Axes |-> p[a] + d[a]] : d \in [1 .. Axes -> 0 .. 1]}

-----------------------------------------------------------------------------
(* Callbacks, run by spinOnce *)

Spinning == at = "spin" \/ (at = "initialise" /\ lio.flag = "Initializing")

\* Bound: stamps advance; what one that goes back does is LaserMapping's question.
Sensor ==
    /\ Spinning /\ ~exit /\ Len(scans) < MaxBuffer /\ Len(imus) <= MaxBuffer
    /\ (LidarArrives \/ ImuArrives) /\ steady'
    /\ UNCHANGED lioVars

\* Mutant of InitialPose: the old registration stands until the new one.
InitialPoseKept(p) ==
    /\ guess' = [pose |-> p, id |-> guess.id + 1]
    /\ lio' = [lio EXCEPT !.flag = "NonInitialized"]
    /\ UNCHANGED ready

\* initialpose_callback; a pose in another frame is rejected and changes nothing.
InitialPose(p) ==
    /\ guess' = [pose |-> p, id |-> guess.id + 1]
    /\ lio' = [lio EXCEPT !.inited = FALSE, !.flag = "NonInitialized"]
    /\ ready' = FALSE

PoseArrives ==
    /\ Spinning /\ guess.id < MaxGuesses
    /\ \E p \in Guesses : InitialPose(p)
    /\ UNCHANGED <<vars, at, held, exit, map, filter, odom>>

\* keyboard_callback: the operator moves the guess, or asks for another try.
Keyboard ==
    /\ Spinning
    /\ \/ /\ \E p \in Guesses : guess' = [guess EXCEPT !.pose = p]
          /\ UNCHANGED lio
       \/ /\ lio' = [lio EXCEPT !.flag = "NonInitialized"]
          /\ UNCHANGED guess
    /\ UNCHANGED <<vars, at, held, exit, map, filter, ready, odom>>

Interrupt ==
    /\ ~exit /\ exit' = TRUE
    /\ UNCHANGED <<vars, at, held, guess, lio, map, filter, ready, odom>>

-----------------------------------------------------------------------------
(* Matching *)

\* Inside the box, and no further than Margin from one of its two faces.
AtEdge(p, origin, a) ==
    \/ (p[a] - (origin[a] - Half)) \in -Margin .. Margin
    \/ (p[a] - (origin[a] + Half)) \in -Margin .. Margin

\* Registe_2_globalmap: a position at an edge of the local map moves the map.
MapFor(p, origin) == IF \E a \in 1 .. Axes : AtEdge(p, origin, a) THEN p ELSE origin

Mapped(p, origin) == \A a \in 1 .. Axes : p[a] - origin[a] \in (1 - Half) .. (Half - 1)

\* The scan corrects the filter, once a registration has ever succeeded.
Register ==
    IF map.inited
    THEN \E p \in Near(filter.pose) :
            /\ filter' = [filter EXCEPT !.pose = p]
            /\ map' = [map EXCEPT !.origin = MapFor(p, map.origin)]
    ELSE UNCHANGED <<filter, map>>

\* publish_odometry: the newest sample of the measurement is at the scan's end.
Publish(m, samples) ==
    IF samples # <<>> /\ samples[Len(samples)] = m.end
    THEN odom' = [scan |-> m.scan.id, base |-> filter.base]
    ELSE UNCHANGED odom

-----------------------------------------------------------------------------
(* The main loop *)

\* sync_packages hands over a measurement.
Synchronise ==
    /\ at = "spin" /\ ~exit /\ scans # <<>> /\ imus # <<>>
    /\ \E m \in Pushed :
       LET n == SamplesOf(m)
       IN  IF ~Covered(m)
           THEN meas' = m /\ UNCHANGED <<scans, times, imus, held, at>>
           ELSE /\ meas' = [m EXCEPT !.pushed = FALSE]
                /\ held' = SubSeq(imus, 1, n)
                /\ imus' = SubSeq(imus, n + 1, Len(imus))
                /\ scans' = Tail(scans) /\ times' = Tail(times)
                /\ at' = IF lio.inited THEN "process" ELSE "initialise"
    /\ UNCHANGED <<unused, imuInit, points, exit, guess, lio, map, filter, ready, odom>>

\* The local map is set around the guess; a poor fit waits for another guess.
InitFromGuessFails ==
    /\ lio' = [lio EXCEPT !.flag = "Initializing"]
    /\ map' = [map EXCEPT !.origin = guess.pose]
    /\ UNCHANGED <<at, filter, ready>>

InitFromGuessSucceeds ==
    \E result \in Near(guess.pose) :
        /\ lio' = [lio EXCEPT !.flag = "Initialized", !.inited = TRUE]
        /\ map' = [inited |-> TRUE, origin |-> result]
        /\ filter' = [pose |-> result, base |-> guess.id]
        /\ ready' = TRUE
        /\ at' = "process"

Initialise ==
    /\ at = "initialise" /\ ~exit /\ lio.flag = "NonInitialized"
    /\ InitFromGuessFails \/ InitFromGuessSucceeds
    /\ UNCHANGED <<vars, held, exit, guess, odom>>

\* flg_exit leaves the wait, and the rest of the iteration still runs.
GiveUp ==
    /\ at = "initialise" /\ exit /\ at' = "process"
    /\ UNCHANGED <<vars, held, exit, guess, lio, map, filter, ready, odom>>

\* The first measurement after the buffers were emptied only starts the clock.
ProcessScan ==
    /\ at = "process" /\ at' = "spin"
    /\ \/ /\ lio.clean
          /\ lio' = [lio EXCEPT !.clean = FALSE]
          /\ scans' = <<>> /\ times' = <<>> /\ imus' = <<>>
          /\ UNCHANGED <<loop, imuInit, points, map, filter, odom>>
       \/ /\ ~lio.clean /\ loop.first
          /\ loop' = [loop EXCEPT !.first = FALSE]
          /\ UNCHANGED <<scans, times, imus, imuInit, points, lio, map, filter, odom>>
       \/ /\ ~lio.clean /\ ~loop.first
          /\ Process(meas, held)
          /\ IF points' = NoScan \/ ~points'.full THEN UNCHANGED <<filter, map, odom>>
             ELSE Register /\ Publish(meas, held)
          /\ UNCHANGED <<scans, times, imus, loop, lio>>
    /\ UNCHANGED <<last, meas, frame, received, steady, held, exit, guess, ready>>

InitLio ==
    /\ Init
    /\ at = "spin" /\ held = <<>> /\ exit = FALSE
    /\ guess = [pose |-> Home, id |-> 0]
    /\ lio = [inited |-> FALSE, flag |-> "NonInitialized", clean |-> TRUE]
    /\ map = [inited |-> FALSE, origin |-> Home]
    /\ filter = [pose |-> Home, base |-> 0]
    /\ ready = FALSE /\ odom = [scan |-> 0, base |-> 0]

NextLio == \/ Sensor \/ PoseArrives \/ Keyboard \/ Interrupt
           \/ Synchronise \/ Initialise \/ GiveUp \/ ProcessScan

SpecLio == InitLio /\ [][NextLio]_allVars

-----------------------------------------------------------------------------

\* Ready says that the newest initial pose was registered and is the one the
\* filter runs from, with the vehicle inside the local map; and from an initial
\* pose to its registration no odometry goes out, except from the iteration an
\* interrupt cuts short (laserMapping_relocalization.cpp:606-608, 880-922, 1012;
\* matching.hpp:478-489).
OdometryIsRegistered ==
    [][/\ ready' => /\ lio'.inited /\ filter'.base = guess'.id
                    /\ map'.inited /\ Mapped(filter'.pose, map'.origin)
       /\ odom' # odom => exit \/ (ready /\ odom'.base = guess.id)]_allVars
=============================================================================
