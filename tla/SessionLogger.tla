---------------------------- MODULE SessionLogger ----------------------------
(***************************************************************************)
(* The log of the offboard node: the control threads put records into a    *)
(* bounded queue, one thread writes them to an event file and a telemetry  *)
(* file, and rotates a file that is full.                                  *)
(*                                                                         *)
(* A record is its number and its stream; a file is the sequence of its    *)
(* records, and the size of a record is one.  Headers are left out.  Any   *)
(* write may fail and any rotation may throw; one that throws is taken to  *)
(* have moved no file.                                                     *)
(***************************************************************************)
EXTENDS Naturals, Sequences, FiniteSets, SequencesExt

CONSTANTS QueueLimit,      \* 1024 in the code
          FileLimit, Keep, \* max_bytes_, keep_files_
          MaxRecords       \* bound: records of a session

LoggerAssumption == {QueueLimit, FileLimit, Keep} \subseteq Nat \ {0}

VARIABLES queue, dropped, stopping,
          hand,       \* what the writer has taken: at most one record, and the drops to report
          files,      \* stream -> its file and the rotated ones, .1 first
          offered,    \* history: records the threads have handed over
          written,    \* history: stream -> every record written
          reported,   \* history: drops the log tells of
          failed,     \* history: records and drops lost to a failing write
          broken      \* streams that are closed or have failed

loggerVars == <<queue, dropped, stopping, hand, files, offered, written, reported, failed, broken>>
producerVars == <<offered>>
sinkVars == <<files, written, reported, failed, broken>>

Streams == {"event", "csv"}
Empty == [items |-> <<>>, drops |-> 0]
-----------------------------------------------------------------------------
IsCsv(record) == record.stream = "csv"

\* The queue without its oldest telemetry, or without its oldest record.
MakeRoom == IF \E i \in DOMAIN queue : IsCsv(queue[i])
              THEN RemoveAt(queue, SelectInSeq(queue, IsCsv))
              ELSE Tail(queue)

Enqueue(record) ==
  IF Len(queue) < QueueLimit
    THEN queue' = Append(queue, record) /\ UNCHANGED dropped
    ELSE /\ dropped' = dropped + 1
         /\ queue' = IF IsCsv(record) THEN queue ELSE Append(MakeRoom, record)

\* event or telemetry, called by any thread of the node.
Log(stream) == /\ offered < MaxRecords /\ ~stopping
               /\ offered' = offered + 1
               /\ Enqueue([number |-> offered + 1, stream |-> stream])
               /\ UNCHANGED <<stopping, hand, sinkVars>>

\* The destructor; the threads that log have ended by then.
Stop == /\ ~stopping /\ stopping' = TRUE
        /\ UNCHANGED <<queue, dropped, hand, producerVars, sinkVars>>
-----------------------------------------------------------------------------
\* run takes the oldest record and the number of drops under the lock.
TakeRecord == /\ hand = Empty /\ queue # <<>>
              /\ hand' = [items |-> <<Head(queue)>>, drops |-> dropped]
              /\ queue' = Tail(queue) /\ dropped' = 0
              /\ UNCHANGED <<stopping, producerVars, sinkVars>>

\* Mutant: the loop over the old files stops before the first one.
RotatedShort(chain) == <<<<>>, chain[1]>> \o SubSeq(chain, 3, Len(chain))

\* .Keep goes, every other file moves up by one, and the file starts anew.
Rotated(chain) == <<<<>>>> \o SubSeq(chain, 1, IF Len(chain) < Keep THEN Len(chain) ELSE Keep)

Rotate(chain) == IF Len(chain[1]) >= FileLimit THEN Rotated(chain) ELSE chain

WithRecord(chain, record) == [Rotate(chain) EXCEPT ![1] = Append(@, record)]

\* The warning about the drops is an event; it is written first.
WriteDrops == /\ hand.drops > 0 /\ "event" \notin broken
              /\ reported' = reported + hand.drops
              /\ hand' = [hand EXCEPT !.drops = 0]
              /\ files' = [files EXCEPT !["event"] = WithRecord(@, 0)]
              /\ written' = [written EXCEPT !["event"] = Append(@, 0)]
              /\ UNCHANGED <<queue, dropped, stopping, producerVars, failed, broken>>

WriteRecord == /\ hand.items # <<>> /\ hand.drops = 0
               /\ LET record == Head(hand.items)
                  IN  /\ record.stream \notin broken
                      /\ files' = [files EXCEPT ![record.stream] = WithRecord(@, record.number)]
                      /\ written' = [written EXCEPT ![record.stream] = Append(@, record.number)]
               /\ hand' = Empty
               /\ UNCHANGED <<queue, dropped, stopping, producerVars, reported, failed, broken>>

\* A stream that failed says nothing and takes nothing from then on.
LoseDrops == /\ hand.drops > 0
             /\ broken' = broken \cup {"event"}
             /\ failed' = failed + hand.drops
             /\ hand' = [hand EXCEPT !.drops = 0]
             /\ UNCHANGED <<queue, dropped, stopping, producerVars, files, written, reported>>

LoseRecord == /\ hand.items # <<>> /\ hand.drops = 0
              /\ broken' = broken \cup {Head(hand.items).stream}
              /\ failed' = failed + 1
              /\ hand' = Empty
              /\ UNCHANGED <<queue, dropped, stopping, producerVars, files, written, reported>>

\* A rotation that throws leaves its stream closed; what is in hand goes with it.
RotationThrows ==
  /\ hand # Empty
  /\ LET stream == IF hand.drops > 0 THEN "event" ELSE Head(hand.items).stream
     IN  /\ stream \notin broken /\ Len(files[stream][1]) >= FileLimit
         /\ broken' = broken \cup {stream}
  /\ failed' = failed + hand.drops + Len(hand.items)
  /\ hand' = Empty
  /\ UNCHANGED <<queue, dropped, stopping, producerVars, files, written, reported>>
-----------------------------------------------------------------------------
Init == /\ queue = <<>> /\ dropped = 0 /\ stopping = FALSE /\ hand = Empty
        /\ files = [s \in Streams |-> <<<<>>>>]
        /\ offered = 0 /\ written = [s \in Streams |-> <<>>]
        /\ reported = 0 /\ failed = 0 /\ broken = {}

Next == \/ \E stream \in Streams : Log(stream)
        \/ Stop
        \/ TakeRecord \/ WriteDrops \/ WriteRecord
        \/ LoseDrops \/ LoseRecord \/ RotationThrows

Spec == Init /\ [][Next]_loggerVars
-----------------------------------------------------------------------------
Records(s) == Cardinality({i \in DOMAIN written[s] : written[s][i] # 0})

\* No record vanishes without the log saying so, though the queue overflows and
\* is emptied at the same time: what was handed over is queued, being written, in
\* the log, or in a count that a later record still brings into the log, also
\* during shutdown (offboard_node.cpp:274, :288).
AccountsForAll ==
  /\ offered = Len(queue) + Len(hand.items) + Records("event") + Records("csv")
               + dropped + hand.drops + reported + failed
  /\ dropped > 0 => queue # <<>>

\* The files of a stream, oldest first, hold its newest records without a gap,
\* over any number of rotations, and a record goes only when all the files there
\* may be are in use (offboard_node.cpp:193).
LogIsNewest ==
  \A s \in Streams :
    LET kept == FlattenSeq(Reverse(files[s]))
    IN  /\ IsSuffix(kept, written[s])
        /\ kept # written[s] => Len(files[s]) = Keep + 1
=============================================================================
