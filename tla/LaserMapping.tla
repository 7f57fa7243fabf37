----------------------------- MODULE LaserMapping -----------------------------
(***************************************************************************)
(* The front end of fast_lio_sam's laserMapping.cpp: the sensor callbacks  *)
(* with their buffers, sync_packages, ImuProcess and the main loop up to   *)
(* the pose of a frame.  Callbacks run in spinOnce of the main loop, so a  *)
(* callback and an iteration are each one step.                            *)
(***************************************************************************)
EXTENDS Naturals, Sequences

CONSTANTS Period,     \* time from one scan to the next
          Spans,      \* times of the last point of a scan, from its first
          MaxInit,    \* MAX_INI_COUNT
          MaxTime,    \* bound on the time stamps
          MaxScans    \* bound on the scans received

LaserMappingAssumption ==
    /\ {Period, MaxInit, MaxTime, MaxScans} \subseteq Nat \ {0}
    /\ Spans \subseteq 1 .. Period

VARIABLES scans,     \* lidar_buffer
          times,     \* time_buffer
          imus,      \* imu_buffer, by their stamps
          last,      \* last_timestamp_lidar and last_timestamp_imu
          meas,      \* Measures, lidar_pushed and lidar_mean_scantime
          imuInit,   \* init_iter_num, or Done
          loop,      \* flg_first_scan and whether the k-d tree has a root
          points,    \* feats_undistort: the scan its points are of
          frame,     \* the last frame mapped (history)
          received,  \* scans received
          steady     \* no stamp moved back, no IMU sample was missed, and no scan lasted
                     \* only one sample (history)

vars == <<scans, times, imus, last, meas, imuInit, loop, points, frame, received, steady>>
buffers == <<scans, times, imus, last>>

\* A scan of one point or none is not full, and its end is not known from its points.
NoScan == [id |-> 0, stamp |-> 0, full |-> FALSE, span |-> 0]
NoFrame == [scan |-> NoScan, beg |-> 0, points |-> NoScan, imus |-> <<>>]
Done == MaxInit + 1

-----------------------------------------------------------------------------
(* Callbacks *)

\* livox_pcl_cbk and standard_pcl_cbk.  Bounds: the first stamps are small, and one
\* stamp moves back or one gap is in the samples.
LidarArrives == \E stamp \in 1 .. MaxTime, full \in BOOLEAN, span \in Spans :
    /\ received < MaxScans
    /\ stamp = last.lidar + Period \/ (last.lidar = 0 /\ stamp <= Period)
         \/ (steady /\ last.lidar > 0 /\ stamp = last.lidar - 1)
    /\ LET scan == [id |-> received + 1, stamp |-> stamp, full |-> full, span |-> span]
           kept == IF stamp < last.lidar THEN <<>> ELSE scans
       IN  scans' = Append(kept, scan)
    /\ times' = Append(times, stamp)
    /\ last' = [last EXCEPT !.lidar = stamp]
    /\ received' = received + 1
    /\ steady' = (steady /\ stamp > last.lidar)
    /\ UNCHANGED <<imus, meas, imuInit, loop, points, frame>>

\* imu_cbk; time_sync_en is off
ImuArrives == \E stamp \in 1 .. MaxTime :
    /\ stamp = last.imu + 1 \/ (last.imu = 0 /\ stamp <= Period)
         \/ (steady /\ last.imu > 0 /\ stamp \in {last.imu + Period + 1, last.imu - 1})
    /\ imus' = Append(IF stamp < last.imu THEN <<>> ELSE imus, stamp)
    /\ last' = [last EXCEPT !.imu = stamp]
    /\ steady' = (steady /\ (last.imu = 0 \/ stamp = last.imu + 1))
    /\ UNCHANGED <<scans, times, meas, imuInit, loop, points, frame, received>>

-----------------------------------------------------------------------------
(* sync_packages *)

\* A scan ends with its last point, unless that is before the middle of a mean scan.
EndsItself(scan) == scan.full /\ 2 * scan.span >= meas.mean
ScanTime(scan) == IF EndsItself(scan) THEN scan.span ELSE meas.mean

\* The running mean moves towards the new time; how far is any choice.
Means(scan) ==
    IF ~EndsItself(scan) THEN {meas.mean}
    ELSE IF meas.mean = 0 THEN {scan.span}
    ELSE {t \in 1 .. Period : /\ t <= meas.mean \/ t <= scan.span
                              /\ t >= meas.mean \/ t >= scan.span}

\* The oldest scan becomes the measurement, unless one already is.
Pushed ==
    IF meas.pushed THEN {meas}
    ELSE {[scan |-> Head(scans), beg |-> Head(times), end |-> Head(times) + ScanTime(Head(scans)),
           pushed |-> TRUE, mean |-> mean] : mean \in Means(Head(scans))}

\* Mutant of Covered: the newest sample may be older than the end of the scan.
CoveredTooEarly(m) == last.imu >= m.beg

\* The samples reach the end of the scan.
Covered(m) == last.imu >= m.end

\* How many samples go with the scan: those before its end, and one at its end
SamplesOf(m) ==
    CHOOSE n \in 0 .. Len(imus) :
        /\ \A j \in 1 .. n : imus[j] <= m.end /\ imus[IF j = 1 THEN 1 ELSE j - 1] < m.end
        /\ n < Len(imus) => imus[n + 1] > m.end \/ imus[IF n = 0 THEN 1 ELSE n] >= m.end

-----------------------------------------------------------------------------
(* The main loop *)

\* ImuProcess::Process: without samples, and until the IMU is initialised, the
\* cloud is left as it is.
Process(m, samples) ==
    /\ imuInit' = IF imuInit = Done THEN Done
                  ELSE LET n == imuInit + Len(samples) IN IF n > MaxInit THEN Done ELSE n
    /\ points' = IF samples # <<>> /\ imuInit = Done THEN m.scan ELSE points

\* From the undistorted cloud to the map: the first full cloud builds the tree,
\* a cloud of too few points is skipped, the others are mapped.
Map(m, samples) ==
    IF points' = NoScan \/ ~points'.full THEN UNCHANGED <<loop, frame>>
    ELSE IF ~loop.tree THEN loop' = [loop EXCEPT !.tree = TRUE] /\ UNCHANGED frame
    ELSE /\ frame' = [scan |-> m.scan, beg |-> m.beg, points |-> points', imus |-> samples]
         /\ UNCHANGED loop

Iterate ==
    /\ scans # <<>> /\ imus # <<>>
    /\ \E m \in Pushed :
       LET n == SamplesOf(m)
           samples == SubSeq(imus, 1, n)
       IN  IF ~Covered(m)
           THEN meas' = m /\ UNCHANGED <<scans, times, imus, imuInit, loop, points, frame>>
           ELSE /\ meas' = [m EXCEPT !.pushed = FALSE]
                /\ imus' = SubSeq(imus, n + 1, Len(imus))
                /\ scans' = Tail(scans) /\ times' = Tail(times)
                /\ IF loop.first
                   THEN loop' = [loop EXCEPT !.first = FALSE] /\ UNCHANGED <<imuInit, points, frame>>
                   ELSE Process(m, samples) /\ Map(m, samples)
    /\ steady' = (steady /\ meas'.end # meas'.beg + 1)
    /\ UNCHANGED <<last, received>>

Init ==
    /\ scans = <<>> /\ times = <<>> /\ imus = <<>>
    /\ last = [lidar |-> 0, imu |-> 0]
    /\ meas = [scan |-> NoScan, beg |-> 0, end |-> 0, pushed |-> FALSE, mean |-> 0]
    /\ imuInit = 1 /\ loop = [first |-> TRUE, tree |-> FALSE]
    /\ points = NoScan /\ frame = NoFrame /\ received = 0 /\ steady = TRUE

Next == LidarArrives \/ ImuArrives \/ Iterate

Spec == Init /\ [][Next]_vars

-----------------------------------------------------------------------------

\* A mapped frame is estimated from the points and the time of its own scan
\* ("feats_undistort is the cloud after undistortion", laserMapping.cpp:2538-2539).
FrameIsItsScan == frame.points = frame.scan /\ frame.beg = frame.scan.stamp

\* While the stamps advance and no IMU sample is missing, frames are their own
\* scans, and no sample that belongs to a scan already handed over is left for
\* the next one (laserMapping.cpp:1493-1512).
SteadyFrames ==
    steady => /\ FrameIsItsScan
              /\ \A i \in 1 .. Len(imus) : meas.pushed \/ imus[i] >= meas.end \/ meas.scan = NoScan
=============================================================================
