----------------------------- MODULE ScanArchive -----------------------------
(***************************************************************************)
(* The recording of scans that a saved map is made from.  The mapping loop *)
(* captures every scan with the key frame it hangs on; a save replays all  *)
(* of them, in order, through the static map filter, while up to Workers   *)
(* threads prepare the scans that come next.  Both run in the main thread  *)
(* of the mapping node, so captures and replays alternate; the workers run *)
(* beside a replay.                                                        *)
(*                                                                         *)
(* A scan is its stamp, size and key frame.  Reading, writing and filling  *)
(* the filter may fail at any time.                                        *)
(***************************************************************************)
EXTENDS Integers, Sequences, FiniteSets, SequencesExt

CONSTANTS MaxScans, MaxBytes, Workers,   \* limits of ArchiveConfig
          Sizes, Horizon, MaxFrames      \* bounds: sizes of a scan, last stamp, key frames

ArchiveAssumption == {MaxScans, Workers} \subseteq Nat \ {0} /\ Sizes \subseteq Nat

VARIABLES scans,      \* scans_
          error,      \* error_ is not empty
          bytes, last,        \* bytes_, last_stamp_
          frames,     \* cloudKeyPoses6D->size(), which only grows
          offered,    \* history: the scans the loop wanted to capture
          step,       \* of the main thread in replay
          pending,    \* the futures, oldest first
          filtered,   \* the scans handed to the filter, in order: result.scans
          ignored     \* those of them it passed over, their sensor being out of its reach

archiveVars == <<scans, error, bytes, last, frames, offered, step, pending, filtered,
                 ignored>>
replayVars == <<step, pending, filtered, ignored>>
recordVars == <<scans, error, bytes, last, frames, offered>>

Steps == {"capturing", "replaying", "unwinding", "failed", "saved"}
Resting == step \in {"capturing", "failed", "saved"}
-----------------------------------------------------------------------------
\* A new key frame of the pose graph.
AddFrame == /\ Resting /\ frames < MaxFrames
            /\ frames' = frames + 1
            /\ UNCHANGED <<scans, error, bytes, last, offered, replayVars>>

Fits(stamp, size) == /\ stamp > last
                     /\ Len(scans) < MaxScans
                     /\ bytes + size <= MaxBytes

\* capture: the first failure stays, and nothing is recorded after it.
Capture(stamp, size, written) ==
  /\ Resting /\ frames > 0
  /\ offered' = offered + 1
  /\ step' = "capturing"
  /\ IF error \/ ~written \/ ~Fits(stamp, size)
       THEN error' = TRUE /\ UNCHANGED <<scans, bytes, last>>
       ELSE /\ scans' = Append(scans, [anchor |-> frames, stamp |-> stamp])
            /\ bytes' = bytes + size
            /\ last' = stamp
            /\ UNCHANGED error
  /\ UNCHANGED <<frames, pending, filtered, ignored>>
-----------------------------------------------------------------------------
Replayable == ~error /\ scans # <<>>

\* replay, as far as the first futures.
BeginReplay ==
  /\ Resting
  /\ filtered' = <<>> /\ ignored' = {}
  /\ IF Replayable
       THEN /\ step' = "replaying"
            /\ pending' = [i \in 1 .. (IF Workers < Len(scans) THEN Workers ELSE Len(scans)) |->
                             [scan |-> i, state |-> "running"]]
       ELSE step' = "failed" /\ pending' = <<>>
  /\ UNCHANGED recordVars

\* prepare ends in its thread; a scan without its key frame fails.  The key frame may
\* put the sensor out of the filter's reach.
Prepare(i, readable, end) ==
  /\ i \in DOMAIN pending /\ pending[i].state = "running"
  /\ pending' = [pending EXCEPT ![i].state =
                   IF readable /\ scans[pending[i].scan].anchor <= frames THEN end ELSE "thrown"]
  /\ UNCHANGED <<step, filtered, ignored, recordVars>>

\* get() of the oldest future waits for it.
Taken(i) == i = 1 /\ pending[1].state # "running"

\* The next one is queued, and updateScan takes the scan, is full, or returns at once.
Take(i, room) ==
  /\ step = "replaying" /\ i \in DOMAIN pending /\ Taken(i)
  /\ LET scan == pending[i].scan
         rest == RemoveAt(pending, i)
         next == scan + Len(rest) + 1
     IN  IF pending[i].state \in {"ready", "far"}
           THEN /\ pending' = IF next <= Len(scans)
                                THEN Append(rest, [scan |-> next, state |-> "running"]) ELSE rest
                /\ IF room \/ pending[i].state = "far"
                     THEN /\ filtered' = Append(filtered, scan)
                          /\ ignored' = IF pending[i].state = "far" THEN ignored \cup {scan}
                                                                   ELSE ignored
                          /\ UNCHANGED step
                     ELSE step' = "unwinding" /\ UNCHANGED <<filtered, ignored>>
           ELSE pending' = rest /\ step' = "unwinding" /\ UNCHANGED <<filtered, ignored>>
  /\ UNCHANGED recordVars

\* The exception destroys the futures, which waits for every one of them.
Unwind == /\ step = "unwinding"
          /\ \A i \in DOMAIN pending : pending[i].state # "running"
          /\ step' = "failed" /\ pending' = <<>>
          /\ UNCHANGED <<filtered, ignored, recordVars>>

\* The clouds and the metadata are written, if there is a static point.
Write(written) == /\ step = "replaying" /\ pending = <<>>
                  /\ step' = IF written /\ \E i \in DOMAIN filtered : filtered[i] \notin ignored
                               THEN "saved" ELSE "failed"
                  /\ UNCHANGED <<pending, filtered, ignored, recordVars>>
-----------------------------------------------------------------------------
Init == /\ scans = <<>> /\ error = FALSE /\ bytes = 0 /\ last = 0
        /\ frames = 0 /\ offered = 0
        /\ step = "capturing" /\ pending = <<>> /\ filtered = <<>> /\ ignored = {}

Replay == \/ BeginReplay
          \/ \E i \in 1 .. Workers, readable \in BOOLEAN, end \in {"ready", "far"} :
               Prepare(i, readable, end)
          \/ \E i \in 1 .. Workers, room \in BOOLEAN : Take(i, room)
          \/ Unwind
          \/ \E written \in BOOLEAN : Write(written)

Next == \/ AddFrame
        \/ /\ offered <= MaxScans
           /\ \E stamp \in 1 .. Horizon, size \in Sizes, written \in BOOLEAN :
                Capture(stamp, size, written)
        \/ Replay

Spec == Init /\ [][Next]_archiveVars
-----------------------------------------------------------------------------
\* A replay that succeeds has handed the filter every scan the mapping loop ever wanted
\* in the map, each once and in the order of their stamps, however the workers
\* finish, and the filter has used one of them: a recording with a hole never becomes a
\* map (scan_archive.cpp:33, :64).  scan_count has the ignored ones too.
SavedMapIsWhole ==
    step = "saved" => /\ filtered = [i \in 1 .. offered |-> i]
                      /\ \E i \in 1 .. offered : i \notin ignored
=============================================================================
