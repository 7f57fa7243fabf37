----------------------------- MODULE Mapping_proof -----------------------------
(***************************************************************************)
(* Theorems about the components of Mapping, for every value of their      *)
(* constants: any number of jobs, scans, key frames and workers, and any   *)
(* limits.  A component that moves takes a step of its own specification,  *)
(* and one that does not stays as it begins, so that what is an invariant  *)
(* of a component's specification is one of the composition.               *)
(***************************************************************************)
EXTENDS Mapping, FiniteSetTheorems, SequenceTheorems, TLAPS

-----------------------------------------------------------------------------
(* The save job                                                            *)

StartSteps == {"idle", "checked", "locked", "submitted", "spawned", "ended"}
WorkerSteps == {"none", "spawned", "calling", "waiting", "written", "exited"}
Statuses == {"none", "SUBMITTED", "SAVING", "SUCCEEDED", "FAILED", "UNKNOWN"}

SaveTypes ==
    /\ start \in [Jobs -> StartSteps]
    /\ worker \in [Jobs -> WorkerSteps]
    /\ status \in [Jobs -> Statuses]
    /\ identified \subseteq Jobs
    /\ reply \in [Jobs -> {"none", "yes", "no", "error"}]
    /\ requests \in Seq(Jobs)
    /\ serving \in {"ready", "staged", "published", "gone"}
    /\ reader \in [job : Jobs \cup {CHOOSE j \in Jobs : TRUE},
                   step : {"idle", "read", "dead", "told"},
                   read : Statuses \cup {"EXITED"}]

\* One job holds the lock: its command, its worker, or both.
OneHolds == \A j, k \in Jobs : Save!Holds(j) /\ Save!Holds(k) => j = k

\* What is in work, answered or reported as published is what made the destination.
Published ==
    /\ serving \in {"staged", "published"} => requests # <<>>
    /\ serving = "published" => target = Head(requests)
    /\ \A j \in Jobs : reply[j] = "yes" \/ status[j] = "SUCCEEDED" => target = j

\* A job with a process file has a worker, and its command is over.
Identified ==
    /\ \A j \in Jobs : start[j] = "spawned" => worker[j] # "none"
    /\ \A j \in identified : start[j] = "ended" /\ worker[j] # "none"

\* The reader checks a process that was there, and what it found dead stays dead.
ReaderKnows ==
    /\ reader.step \in {"read", "dead"} \/ (reader.step = "told" /\ reader.read = "EXITED") =>
         reader.job \in identified
    /\ reader.step = "dead" \/ (reader.step = "told" /\ reader.read = "EXITED") =>
         worker[reader.job] = "exited"
    /\ reader.step = "told" /\ reader.read = "EXITED" => status[reader.job] \notin Save!Final
    /\ reader.step \in {"read", "dead"} => reader.read # "EXITED"

SaveInv == SaveTypes /\ OneHolds /\ Published /\ Identified /\ ReaderKnows
-----------------------------------------------------------------------------
\* The save job begins in the invariant.
LEMMA SaveInitially == Save!Init => SaveInv
<1> SUFFICES ASSUME Save!Init PROVE SaveInv  OBVIOUS
<1> USE DEF Save!Init
<1>1. SaveTypes  BY DEF SaveTypes, StartSteps, WorkerSteps, Statuses
<1>2. OneHolds  BY DEF OneHolds, Save!Holds, Save!Alive
<1>3. Published /\ Identified /\ ReaderKnows
  BY DEF Published, Identified, ReaderKnows
<1> QED  BY <1>1, <1>2, <1>3 DEF SaveInv

\* The command that submits a job keeps the invariant (start of save_map.py).
LEMMA CommandKeeps ==
    ASSUME SaveInv, NEW j \in Jobs, Save!Command(j)
    PROVE  SaveInv'
<1> USE DEF SaveInv, SaveTypes, StartSteps, WorkerSteps, Statuses, Save!To, Save!Report,
            Save!nodeVars
<1>1. CASE Save!CheckDestination(j) \/ Save!TakeLock(j)
  <2>1. SaveTypes' /\ Published' /\ Identified' /\ ReaderKnows'
    BY <1>1 DEF Save!CheckDestination, Save!TakeLock, Published, Identified, ReaderKnows
  <2>2. OneHolds'
    BY <1>1 DEF Save!CheckDestination, Save!TakeLock, OneHolds, Save!Holds, Save!Alive
  <2> QED  BY <2>1, <2>2
<1>2. CASE Save!Submit(j) \/ Save!Spawn(j)
  <2>1. SaveTypes' /\ Published' /\ Identified' /\ ReaderKnows'
    BY <1>2 DEF Save!Submit, Save!Spawn, Published, Identified, ReaderKnows, Save!Final
  <2>2. OneHolds'
    BY <1>2 DEF Save!Submit, Save!Spawn, OneHolds, Save!Holds, Save!Alive
  <2> QED  BY <2>1, <2>2
<1>3. CASE Save!Identify(j)
  <2>1. SaveTypes' /\ Published' /\ Identified' /\ ReaderKnows'
    BY <1>3 DEF Save!Identify, Published, Identified, ReaderKnows
  <2>2. OneHolds'  BY <1>3 DEF Save!Identify, OneHolds, Save!Holds, Save!Alive
  <2> QED  BY <2>1, <2>2
<1>4. CASE Save!StartFails(j) \/ Save!StartKilled(j)
  <2>1. SaveTypes' /\ Published' /\ Identified' /\ ReaderKnows'
    BY <1>4 DEF Save!StartFails, Save!StartKilled, Published, Identified, ReaderKnows
  <2>2. OneHolds'
    BY <1>4 DEF Save!StartFails, Save!StartKilled, OneHolds, Save!Holds, Save!Alive
  <2> QED  BY <2>1, <2>2
<1> QED  BY <1>1, <1>2, <1>3, <1>4 DEF Save!Command

\* So does its worker (worker and perform_save of save_map.py).
LEMMA WorkerKeeps ==
    ASSUME SaveInv, NEW j \in Jobs, Save!Worker(j)
    PROVE  SaveInv'
<1> USE DEF SaveInv, SaveTypes, StartSteps, WorkerSteps, Statuses, Save!Work, Save!Report,
            Save!nodeVars
<1>1. CASE Save!BeginSave(j) \/ Save!WriteProgress(j) \/ Save!WorkerExits(j)
  <2> USE DEF Save!BeginSave, Save!WriteProgress, Save!WorkerExits, Save!Alive
  <2>1. SaveTypes' /\ Published' /\ Identified' /\ ReaderKnows'
    BY <1>1 DEF Published, Identified, ReaderKnows, Save!Final
  <2>2. OneHolds'  BY <1>1 DEF OneHolds, Save!Holds
  <2> QED  BY <2>1, <2>2
<1>2. CASE Save!Call(j)
  <2>1. SaveTypes'
    <3>1. worker' \in [Jobs -> WorkerSteps]  BY <1>2 DEF Save!Call
    <3>2. CASE serving # "gone"
      <4>1. requests' = Append(requests, j) /\ reply' = reply  BY <1>2, <3>2 DEF Save!Call
      <4>2. requests' \in Seq(Jobs)  BY <4>1, AppendProperties
      <4> QED  BY <1>2, <3>1, <4>1, <4>2 DEF Save!Call
    <3>3. CASE serving = "gone"  BY <1>2, <3>1, <3>3 DEF Save!Call
    <3> QED  BY <3>2, <3>3
  <2>2. requests # <<>> => requests' # <<>> /\ Head(requests') = Head(requests)
    <3>1. requests' \in {requests, Append(requests, j)} /\ requests \in Seq(Jobs)
      BY <1>2 DEF Save!Call
    <3>2. CASE requests' = requests  BY <3>2
    <3>3. CASE requests' = Append(requests, j)
      <4>1. Append(requests, j) # <<>>
            /\ (requests # <<>> => Head(Append(requests, j)) = Head(requests))
        BY <3>1, HeadTailAppend
      <4> QED  BY <3>3, <4>1
    <3> QED  BY <3>1, <3>2, <3>3
  <2>3. Published'  BY <1>2, <2>2 DEF Save!Call, Published
  <2>4. Identified' /\ ReaderKnows'  BY <1>2 DEF Save!Call, Identified, ReaderKnows
  <2>5. OneHolds'  BY <1>2 DEF Save!Call, OneHolds, Save!Holds, Save!Alive
  <2> QED  BY <2>1, <2>3, <2>4, <2>5
<1>3. CASE Save!Conclude(j)
  <2> USE DEF Save!Conclude, Save!Verdict
  <2>1. SaveTypes' /\ Published' /\ Identified' /\ ReaderKnows'
    BY <1>3 DEF Published, Identified, ReaderKnows
  <2>2. OneHolds'  BY <1>3 DEF OneHolds, Save!Holds, Save!Alive
  <2> QED  BY <2>1, <2>2
<1> QED  BY <1>1, <1>2, <1>3 DEF Save!Worker

\* So do the mapping node and whoever makes the destination by hand.
LEMMA NodeKeeps ==
    ASSUME SaveInv, Save!Node \/ Save!MakeDirectory
    PROVE  SaveInv'
<1> USE MappingAssumptions DEF SaveInv, SaveTypes, Save!clientVars, Save!SaveAssumption
<1>1. UNCHANGED <<Save!clientVars, reader>>
  BY DEF Save!Node, Save!MakeDirectory, Save!Stage, Save!ReplayFails, Save!PublishBundle,
         Save!AnswerPublished, Save!NodeGone
<1>2. OneHolds' /\ Identified' /\ ReaderKnows'
  BY <1>1 DEF OneHolds, Identified, ReaderKnows, Save!Holds, Save!Alive
<1>3. ASSUME NEW yes \in {"yes", "no"}, Save!Answer(yes), requests # <<>>, target' = target,
             yes = "yes" => target = Head(requests)
      PROVE  SaveTypes' /\ Published'
  BY <1>1, <1>3 DEF Save!Answer, Published
<1>4. CASE Save!Stage
  BY <1>1, <1>2, <1>3, <1>4 DEF Save!Stage, Published
<1>5. CASE Save!ReplayFails
  BY <1>1, <1>2, <1>3, <1>5 DEF Save!ReplayFails, Published
<1>6. CASE Save!PublishBundle
  BY <1>1, <1>2, <1>3, <1>6 DEF Save!PublishBundle, Save!Publish, Published
<1>7. CASE Save!AnswerPublished
  BY <1>1, <1>2, <1>3, <1>7 DEF Save!AnswerPublished, Published
<1>8. CASE Save!NodeGone
  BY <1>1, <1>2, <1>8 DEF Save!NodeGone, Published
<1>9. CASE Save!MakeDirectory
  BY <1>1, <1>2, <1>9 DEF Save!MakeDirectory, Published
<1> QED  BY <1>4, <1>5, <1>6, <1>7, <1>8, <1>9 DEF Save!Node

\* And so does the command that reads the status (read_status of save_map.py).
LEMMA ReadKeeps ==
    ASSUME SaveInv, (\E j \in Jobs : Save!ReadStatus(j)) \/ Save!CheckProcess \/ Save!ReadAgain
    PROVE  SaveInv'
<1> USE DEF SaveInv, SaveTypes, Statuses, Save!clientVars, Save!nodeVars
<1>1. UNCHANGED <<Save!clientVars, reply, Save!nodeVars>>
  BY DEF Save!ReadStatus, Save!CheckProcess, Save!ReadAgain
<1>2. OneHolds' /\ Published' /\ Identified'
  BY <1>1 DEF OneHolds, Published, Identified, Save!Holds, Save!Alive
<1>3. CASE \E j \in Jobs : Save!ReadStatus(j)
  BY <1>1, <1>2, <1>3 DEF Save!ReadStatus, ReaderKnows, Save!Final
<1>4. CASE Save!CheckProcess
  <2>1. PICK to \in {"told", "dead"} :
          /\ reader' = [reader EXCEPT !.step = to]
          /\ to = "dead" <=> ~Save!Alive(reader.job)
    BY <1>4 DEF Save!CheckProcess
  <2>2. reader' = [job |-> reader.job, step |-> to, read |-> reader.read]  BY <2>1
  <2>3. reader.step = "read" /\ reader.read \in Statuses /\ reader.job \in identified
    BY <1>4 DEF Save!CheckProcess, ReaderKnows
  <2>4. to = "dead" => worker[reader.job] = "exited"
    BY <2>1, <2>3 DEF Identified, Save!Alive, WorkerSteps
  <2>5. ReaderKnows'  BY <1>1, <2>1, <2>2, <2>3, <2>4 DEF ReaderKnows
  <2> QED  BY <1>1, <1>2, <2>1, <2>2, <2>3, <2>5
<1>5. CASE Save!ReadAgain
  <2>1. reader.step = "dead" /\ reader.job \in Jobs /\ status[reader.job] \in Statuses
    BY <1>5 DEF Save!ReadAgain, ReaderKnows
  <2>2. PICK word \in Statuses \cup {"EXITED"} :
          /\ reader' = [[reader EXCEPT !.step = "told"] EXCEPT !.read = word]
          /\ word = "EXITED" => status[reader.job] \notin Save!Final
    BY <1>5, <2>1 DEF Save!ReadAgain, Save!LastWord, Save!Final
  <2>3. reader' = [job |-> reader.job, step |-> "told", read |-> word]  BY <2>2
  <2>4. ReaderKnows'  BY <1>1, <2>1, <2>2, <2>3 DEF ReaderKnows
  <2> QED  BY <1>1, <1>2, <2>1, <2>2, <2>3, <2>4
<1> QED  BY <1>3, <1>4, <1>5

\* Every step of the save job keeps the invariant.
LEMMA SaveStep == SaveInv /\ [Save!Next]_Save!saveVars => SaveInv'
<1> SUFFICES ASSUME SaveInv, [Save!Next]_Save!saveVars PROVE SaveInv'  OBVIOUS
<1>1. CASE UNCHANGED Save!saveVars
  BY <1>1 DEF Save!saveVars, Save!clientVars, Save!nodeVars, SaveInv, SaveTypes, OneHolds,
              Published, Identified, ReaderKnows, Save!Holds, Save!Alive
<1>2. CASE Save!Next
  BY <1>2, CommandKeeps, WorkerKeeps, NodeKeeps, ReadKeeps DEF Save!Next
<1> QED  BY <1>1, <1>2

\* One worker saves at a time, SUCCEEDED is of a bundle of this job, and a worker that is
\* said to be gone is.
LEMMA SaveIsTrue == SaveInv => Save!OneWorker /\ Save!StatusIsTrue
BY DEF SaveInv, SaveTypes, OneHolds, Published, ReaderKnows, Identified, Save!Holds,
       Save!OneWorker, Save!StatusIsTrue, Save!Alive, Save!Final
-----------------------------------------------------------------------------
(* The scan archive                                                        *)

ScanRecords == [anchor : Nat, stamp : Int]
Futures == [scan : Nat, state : {"running", "ready", "far", "thrown"}]

ArchiveTypes ==
    /\ archived \in Seq(ScanRecords) /\ error \in BOOLEAN /\ frames \in Nat /\ offered \in Nat
    /\ step \in Archive!Steps /\ pending \in Seq(Futures) /\ filtered \in Seq(Nat)

InOrder(seq) == \A i \in 1 .. Len(seq) : seq[i] = i

\* Without an error every scan that was to be captured is recorded; a replay has filtered
\* the first scans, the next ones are in work, and some are as long as any is left.
Whole ==
    /\ ~error => Len(archived) = offered
    /\ step \in {"replaying", "saved"} => InOrder(filtered)
    /\ step = "replaying" =>
         /\ ~error
         /\ \A i \in 1 .. Len(pending) : pending[i].scan = Len(filtered) + i
         /\ Len(filtered) + Len(pending) <= Len(archived)
         /\ Len(filtered) + Len(pending) < Len(archived) => pending # <<>>
    /\ step = "saved" => /\ Len(filtered) = offered
                         /\ \E i \in 1 .. Len(filtered) : filtered[i] \notin ignored

ArchiveInv == ArchiveTypes /\ Whole

\* What is left of a queue without its first element is the rest, in its order.
LEMMA FirstRemoved ==
    ASSUME NEW S, NEW seq \in Seq(S), seq # <<>>
    PROVE  /\ Archive!RemoveAt(seq, 1) \in Seq(S) /\ Len(Archive!RemoveAt(seq, 1)) = Len(seq) - 1
           /\ \A i \in 1 .. Len(seq) - 1 : Archive!RemoveAt(seq, 1)[i] = seq[i + 1]
<1>1. Len(seq) \in Nat \ {0}  OBVIOUS
<1>2. Archive!RemoveAt(seq, 1) = SubSeq(seq, 1, 0) \o SubSeq(seq, 2, Len(seq))  BY DEF Archive!RemoveAt
<1>3. SubSeq(seq, 1, 0) = <<>>  OBVIOUS
<1>4. /\ SubSeq(seq, 2, Len(seq)) \in Seq(S) /\ Len(SubSeq(seq, 2, Len(seq))) = Len(seq) - 1
      /\ \A i \in 1 .. Len(seq) - 1 : SubSeq(seq, 2, Len(seq))[i] = seq[i + 1]
  <2>1. \A i \in 2 .. Len(seq) : seq[i] \in S  BY <1>1, ElementOfSeq
  <2>2. /\ SubSeq(seq, 2, Len(seq)) \in Seq(S)
        /\ Len(SubSeq(seq, 2, Len(seq))) = IF 2 <= Len(seq) THEN Len(seq) - 2 + 1 ELSE 0
        /\ \A i \in 1 .. Len(seq) - 2 + 1 : SubSeq(seq, 2, Len(seq))[i] = seq[2 + i - 1]
    BY <1>1, <2>1, SubSeqProperties
  <2> DEFINE tail == SubSeq(seq, 2, Len(seq))
  <2>3. Len(tail) = Len(seq) - 1
    <3>1. Len(tail) = IF 2 <= Len(seq) THEN Len(seq) - 2 + 1 ELSE 0  BY <2>2
    <3>2. \A n \in Nat \ {0} : (IF 2 <= n THEN n - 2 + 1 ELSE 0) = n - 1  OBVIOUS
    <3> HIDE DEF tail
    <3> QED  BY <1>1, <3>1, <3>2, Zenon
  <2>4. ASSUME NEW i \in 1 .. Len(seq) - 1 PROVE SubSeq(seq, 2, Len(seq))[i] = seq[i + 1]
    <3>1. i \in 1 .. Len(seq) - 2 + 1 /\ 2 + i - 1 = i + 1  BY <1>1
    <3> QED  BY <2>2, <3>1
  <2> QED  BY <2>2, <2>3, <2>4
<1>5. Archive!RemoveAt(seq, 1) = SubSeq(seq, 2, Len(seq))  BY <1>2, <1>3, <1>4
<1> QED  BY <1>4, <1>5

\* The archive begins in the invariant.
LEMMA ArchiveInitially == Archive!Init => ArchiveInv
<1> SUFFICES ASSUME Archive!Init PROVE ArchiveInv  OBVIOUS
<1>1. ArchiveTypes
  <2>1. archived \in Seq(ScanRecords) /\ pending \in Seq(Futures) /\ filtered \in Seq(Nat)
    BY EmptySeq DEF Archive!Init
  <2> QED  BY <2>1 DEF Archive!Init, ArchiveTypes, Archive!Steps
<1>2. Whole
  <2>1. error = FALSE /\ archived = <<>> /\ offered = 0 /\ step = "capturing"
    BY DEF Archive!Init
  <2>2. Len(archived) = 0  BY <2>1, EmptySeq
  <2> QED  BY <2>1, <2>2 DEF Whole
<1> QED  BY <1>1, <1>2 DEF ArchiveInv

\* A capture and a new key frame keep it (capture of scan_archive.cpp).
LEMMA CaptureKeeps ==
    ASSUME ArchiveInv,
           Archive!AddFrame \/ \E when \in 1 .. LastStamp, size \in Sizes, written \in BOOLEAN :
                                 Archive!Capture(when, size, written)
    PROVE  ArchiveInv'
<1> USE DEF ArchiveInv, ArchiveTypes, ScanRecords, Archive!Steps, Archive!Resting
<1>1. CASE Archive!AddFrame
  BY <1>1 DEF Archive!AddFrame, Archive!replayVars, Whole, InOrder
<1>2. ASSUME NEW when \in 1 .. LastStamp, NEW size \in Sizes, NEW written \in BOOLEAN,
             Archive!Capture(when, size, written)
      PROVE  ArchiveInv'
  <2>1. /\ offered' = offered + 1 /\ step' = "capturing"
        /\ UNCHANGED <<frames, pending, filtered>>
    BY <1>2 DEF Archive!Capture
  <2>2. \/ error' = TRUE /\ archived' = archived
        \/ ~error /\ error' = error /\ archived' = Append(archived, [anchor |-> frames, stamp |-> when])
    BY <1>2 DEF Archive!Capture
  <2>3. CASE error' = TRUE /\ archived' = archived
    BY <2>1, <2>3 DEF Whole
  <2>4. CASE ~error /\ error' = error
               /\ archived' = Append(archived, [anchor |-> frames, stamp |-> when])
    <3>1. [anchor |-> frames, stamp |-> when] \in ScanRecords  OBVIOUS
    <3>2. archived' \in Seq(ScanRecords) /\ Len(archived') = Len(archived) + 1
      BY <2>4, <3>1, AppendProperties
    <3> QED  BY <2>1, <2>4, <3>2 DEF Whole
  <2> QED  BY <2>2, <2>3, <2>4
<1> QED  BY <1>1, <1>2

\* The beginning of a replay queues the first scans.
LEMMA BeginKeeps == ASSUME ArchiveInv, Archive!BeginReplay PROVE ArchiveInv'
<1> USE MappingAssumptions DEF ArchiveInv, ArchiveTypes, Archive!ArchiveAssumption
<1> DEFINE n == IF Workers < Len(archived) THEN Workers ELSE Len(archived)
           queue == [i \in 1 .. n |-> [scan |-> i, state |-> "running"]]
<1>1. n \in Nat /\ n <= Len(archived) /\ (archived # <<>> => n > 0)  OBVIOUS
<1>2. queue \in Seq(Futures) /\ Len(queue) = n /\ \A i \in 1 .. n : queue[i].scan = i
  <2> HIDE DEF n
  <2>1. \A i \in 1 .. n : [scan |-> i, state |-> "running"] \in Futures  BY <1>1 DEF Futures
  <2>2. queue \in Seq(Futures)  BY <1>1, <2>1, IsASeq
  <2>3. Len(queue) = n /\ \A i \in 1 .. n : queue[i] = [scan |-> i, state |-> "running"]
    BY <1>1
  <2> QED  BY <2>2, <2>3
<1>3. UNCHANGED <<archived, error, frames, offered>> /\ filtered' = <<>>
  BY DEF Archive!BeginReplay, Archive!recordVars
<1>4. CASE Archive!Replayable
  <2>1. step' = "replaying" /\ pending' = queue  BY <1>4 DEF Archive!BeginReplay
  <2> HIDE DEF n, queue
  <2>2. ArchiveTypes'  BY <1>2, <1>3, <2>1 DEF Archive!Steps
  <2>3. Whole'  BY <1>1, <1>2, <1>3, <1>4, <2>1 DEF Whole, InOrder, Archive!Replayable
  <2> QED  BY <2>2, <2>3
<1>5. CASE ~Archive!Replayable
  BY <1>3, <1>5 DEF Archive!BeginReplay, Archive!Steps, Whole
<1> QED  BY <1>4, <1>5

\* A worker that ends keeps it, however it ends (prepare).
LEMMA PrepareKeeps ==
    ASSUME ArchiveInv, NEW i, NEW readable \in BOOLEAN, NEW kind \in {"ready", "far"},
           Archive!Prepare(i, readable, kind)
    PROVE  ArchiveInv'
<1> USE DEF ArchiveInv, ArchiveTypes, Archive!recordVars
<1>1. i \in 1 .. Len(pending)  BY DEF Archive!Prepare
<1>2. PICK end \in {"ready", "far", "thrown"} : pending' = [pending EXCEPT ![i].state = end]
  BY DEF Archive!Prepare
<1>3. pending' \in Seq(Futures) /\ Len(pending') = Len(pending)
      /\ \A k \in 1 .. Len(pending) : pending'[k].scan = pending[k].scan
  <2>1. pending[i] \in Futures  BY <1>1
  <2> DEFINE done == [scan |-> pending[i].scan, state |-> end]
  <2>2. done \in Futures  BY <2>1 DEF Futures
  <2>3. pending' = [pending EXCEPT ![i] = done]
    <3>1. \A r \in Futures : [r EXCEPT !.state = end] = [scan |-> r.scan, state |-> end]
      BY DEF Futures
    <3>2. [pending[i] EXCEPT !.state = end] = done  BY <2>1, <3>1
    <3> HIDE DEF done
    <3> QED  BY <1>2, <3>2
  <2>4. done.scan = pending[i].scan  OBVIOUS
  <2> HIDE DEF done
  <2>5. /\ pending' \in Seq(Futures) /\ Len(pending') = Len(pending)
        /\ \A k \in 1 .. Len(pending) : pending'[k] = IF k = i THEN done ELSE pending[k]
    BY <1>1, <2>2, <2>3, ExceptSeq
  <2> QED  BY <2>4, <2>5
<1>4. pending' = <<>> <=> pending = <<>>  BY <1>3
<1>5. UNCHANGED <<archived, error, frames, offered, step, filtered, ignored>>
  BY DEF Archive!Prepare
<1> QED  BY <1>3, <1>4, <1>5 DEF Whole, InOrder

\* So does taking the oldest future: the scan is filtered and another one queued, or the
\* replay fails.
LEMMA TakeKeeps ==
    ASSUME ArchiveInv, NEW i, NEW room \in BOOLEAN, Archive!Take(i, room)
    PROVE  ArchiveInv'
<1> USE DEF ArchiveInv, ArchiveTypes
<1> DEFINE rest == Archive!RemoveAt(pending, 1)
           next == pending[1].scan + Len(rest) + 1
           more == Append(rest, [scan |-> next, state |-> "running"])
<1>1. i = 1 /\ pending # <<>> /\ step = "replaying"
  BY DEF Archive!Take, Archive!Taken
<1>2. UNCHANGED <<archived, error, frames, offered>>
  BY DEF Archive!Take, Archive!recordVars
<1>3. /\ rest \in Seq(Futures) /\ Len(rest) = Len(pending) - 1
      /\ \A k \in 1 .. Len(pending) - 1 : rest[k] = pending[k + 1]
  BY <1>1, FirstRemoved
<1>4. Len(pending) \in Nat \ {0} /\ Len(filtered) \in Nat /\ Len(archived) \in Nat
  BY <1>1
<1>5. pending[1].scan = Len(filtered) + 1  BY <1>1, <1>4 DEF Whole
<1>6. next = Len(filtered) + Len(pending) + 1
  <2> HIDE DEF rest
  <2> QED  BY <1>3, <1>4, <1>5
<1>7. \A k \in 1 .. Len(rest) : rest[k].scan = Len(filtered) + 1 + k
  <2> HIDE DEF rest
  <2>1. \A k \in 1 .. Len(rest) : k + 1 \in 1 .. Len(pending) /\ rest[k] = pending[k + 1]
    BY <1>3, <1>4
  <2>2. \A k \in 1 .. Len(pending) : pending[k].scan = Len(filtered) + k
    BY <1>1 DEF Whole
  <2>3. ASSUME NEW k \in 1 .. Len(rest) PROVE rest[k].scan = Len(filtered) + 1 + k
    <3>1. pending[k + 1].scan = Len(filtered) + (k + 1)  BY <2>1, <2>2
    <3>2. k \in Int  BY <1>3, <1>4
    <3> QED  BY <1>4, <2>1, <3>1, <3>2
  <2> QED  BY <2>3
<1>8. more \in Seq(Futures) /\ Len(more) = Len(pending) /\ more # <<>>
      /\ \A k \in 1 .. Len(more) : more[k].scan = Len(filtered) + 1 + k
  <2> HIDE DEF rest
  <2>1. [scan |-> next, state |-> "running"] \in Futures
    <3> HIDE DEF next
    <3> QED  BY <1>4, <1>6 DEF Futures
  <2> HIDE DEF next
  <2>2. /\ more \in Seq(Futures) /\ Len(more) = Len(rest) + 1 /\ more # <<>>
        /\ \A k \in 1 .. Len(rest) : more[k] = rest[k]
        /\ more[Len(rest) + 1] = [scan |-> next, state |-> "running"]
    BY <1>3, <2>1, AppendProperties, SMTT(30)
  <2> HIDE DEF more
  <2>3. ASSUME NEW k \in 1 .. Len(more) PROVE more[k].scan = Len(filtered) + 1 + k
    <3>1. CASE k = Len(rest) + 1  BY <1>3, <1>4, <1>6, <2>2, <3>1
    <3>2. CASE k \in 1 .. Len(rest)  BY <1>7, <2>2, <3>2
    <3> QED  BY <1>3, <1>4, <2>2, <3>1, <3>2
  <2> QED  BY <1>3, <1>4, <2>2, <2>3
<1> DEFINE Used == pending[1].state = "far" \/ (pending[1].state = "ready" /\ room)
<1>9. CASE Used
  <2>1. /\ pending' = IF next <= Len(archived) THEN more ELSE rest
        /\ filtered' = Append(filtered, pending[1].scan) /\ step' = step
    BY <1>1, <1>9 DEF Archive!Take
  <2> HIDE DEF rest, more
  <2>2. filtered' = Append(filtered, Len(filtered) + 1)  BY <1>5, <2>1
  <2>3. filtered' \in Seq(Nat) /\ Len(filtered') = Len(filtered) + 1 /\ InOrder(filtered')
    <3>1. Len(filtered) + 1 \in Nat /\ filtered \in Seq(Nat)  BY <1>4
    <3>2. /\ filtered' \in Seq(Nat) /\ Len(filtered') = Len(filtered) + 1
          /\ \A k \in 1 .. Len(filtered) : filtered'[k] = filtered[k]
          /\ filtered'[Len(filtered) + 1] = Len(filtered) + 1
      BY <2>2, <3>1, AppendProperties
    <3>3. \A k \in 1 .. Len(filtered) : filtered[k] = k  BY <1>1 DEF Whole, InOrder
    <3>4. ASSUME NEW k \in 1 .. Len(filtered') PROVE filtered'[k] = k
      <4>1. k \in 1 .. Len(filtered) \/ k = Len(filtered) + 1  BY <1>4, <3>2
      <4> QED  BY <3>2, <3>3, <4>1
    <3> QED  BY <3>2, <3>4 DEF InOrder
  <2>4. pending' \in Seq(Futures)  BY <1>3, <1>8, <2>1
  <2>5. \A k \in 1 .. Len(pending') : pending'[k].scan = Len(filtered') + k
    BY <1>4, <1>7, <1>8, <2>1, <2>3
  <2>6. /\ Len(filtered') + Len(pending') <= Len(archived)
        /\ Len(filtered') + Len(pending') < Len(archived) => pending' # <<>>
    <3> HIDE DEF next
    <3>1. Len(filtered) + Len(pending) <= Len(archived)  BY <1>1 DEF Whole
    <3>2. Len(filtered') = Len(filtered) + 1  BY <2>3
    <3>3. CASE next <= Len(archived)
      <4>1. Len(pending') = Len(pending) /\ pending' # <<>>  BY <1>8, <2>1, <3>3
      <4> QED  BY <1>4, <1>6, <3>2, <3>3, <4>1
    <3>4. CASE ~(next <= Len(archived))
      <4>1. Len(pending') = Len(pending) - 1  BY <1>3, <2>1, <3>4
      <4> QED  BY <1>4, <1>6, <3>1, <3>2, <3>4, <4>1
    <3> QED  BY <3>3, <3>4
  <2>7. ArchiveTypes'  BY <1>1, <1>2, <2>1, <2>3, <2>4 DEF Archive!Steps
  <2>8. Whole'  BY <1>1, <1>2, <2>1, <2>3, <2>5, <2>6 DEF Whole
  <2> QED  BY <2>7, <2>8
<1>10. CASE ~Used
  <2>1. step' = "unwinding" /\ filtered' = filtered /\ pending' \in {more, rest}
    BY <1>1, <1>10 DEF Archive!Take
  <2> HIDE DEF rest, more
  <2> QED  BY <1>2, <1>3, <1>8, <2>1 DEF Whole, Archive!Steps
<1> QED  BY <1>9, <1>10

\* Every step of the archive keeps the invariant.
LEMMA ArchiveStep == ArchiveInv /\ [Archive!Next]_Archive!archiveVars => ArchiveInv'
<1> SUFFICES ASSUME ArchiveInv, [Archive!Next]_Archive!archiveVars PROVE ArchiveInv'  OBVIOUS
<1>1. CASE UNCHANGED Archive!archiveVars
  <2>1. UNCHANGED <<archived, error, frames, offered, step, pending, filtered, ignored>>
    BY <1>1 DEF Archive!archiveVars
  <2>2. ArchiveTypes'
    <3>1. ArchiveTypes  BY DEF ArchiveInv
    <3> QED  BY <2>1, <3>1 DEF ArchiveTypes
  <2>3. Whole'
    <3>1. Whole  BY DEF ArchiveInv
    <3> QED  BY <2>1, <3>1 DEF Whole, InOrder
  <2> QED  BY <2>2, <2>3 DEF ArchiveInv
<1>2. CASE Archive!AddFrame \/ \E when \in 1 .. LastStamp, size \in Sizes, written \in BOOLEAN :
                                   Archive!Capture(when, size, written)
  BY <1>2, CaptureKeeps
<1>3. CASE Archive!Replay
  <2>1. CASE Archive!Unwind \/ \E written \in BOOLEAN : Archive!Write(written)
    <3>1. UNCHANGED <<archived, error, frames, offered, filtered, ignored>>
      BY <2>1 DEF Archive!Unwind, Archive!Write, Archive!recordVars
    <3>2. pending' \in {<<>>, pending} /\ step' \in {"saved", "failed"}
            /\ (step' = "saved" => /\ step = "replaying" /\ pending = <<>>
                                   /\ \E i \in DOMAIN filtered : filtered[i] \notin ignored)
      BY <2>1 DEF Archive!Unwind, Archive!Write
    <3>3. ArchiveTypes'
      <4>1. pending' \in Seq(Futures)  BY <3>2, EmptySeq DEF ArchiveInv, ArchiveTypes
      <4> QED  BY <3>1, <3>2, <4>1 DEF ArchiveInv, ArchiveTypes, Archive!Steps
    <3>4. Len(<<>>) = 0 /\ Len(filtered) \in Nat /\ Len(archived) \in Nat
          /\ DOMAIN filtered = 1 .. Len(filtered)
      BY EmptySeq DEF ArchiveInv, ArchiveTypes
    <3>5. Whole'  BY <3>1, <3>2, <3>4 DEF ArchiveInv, Whole, InOrder
    <3> QED  BY <3>3, <3>5 DEF ArchiveInv
  <2> QED  BY <1>3, <2>1, BeginKeeps, PrepareKeeps, TakeKeeps DEF Archive!Replay
<1> QED  BY <1>1, <1>2, <1>3 DEF Archive!Next

\* A map that is saved is made from all the scans, in their order.
LEMMA ArchiveIsWhole == ArchiveInv => Archive!SavedMapIsWhole
<1> SUFFICES ASSUME ArchiveInv, step = "saved"
             PROVE  /\ filtered = [i \in 1 .. offered |-> i]
                    /\ \E i \in 1 .. offered : i \notin ignored
  BY DEF Archive!SavedMapIsWhole
<1>1. filtered \in Seq(Nat) /\ Len(filtered) = offered /\ \A i \in 1 .. offered : filtered[i] = i
  BY DEF ArchiveInv, ArchiveTypes, Whole, InOrder
<1>2. PICK i \in 1 .. Len(filtered) : filtered[i] \notin ignored
  BY DEF ArchiveInv, Whole
<1> QED  BY <1>1, <1>2
-----------------------------------------------------------------------------
(* The pose graph                                                          *)

Pairs == Nat \X Nat
MainPlaces == {"idle", "loops", "indices", "poses", "noises", "optimise", "push", "cloud",
               "correct"}

KeyTypes ==
    /\ poses3 \in Seq(Nat) /\ poses6 \in Seq(Nat) /\ clouds \in Nat
    /\ variables \in Nat /\ estimate \in Nat /\ closed \in BOOLEAN
    /\ indexQueue \in Seq(Pairs) /\ poseQueue \in Seq(Pairs) /\ noiseQueue \in Seq(Pairs)
    /\ main \in [at : MainPlaces, next : Nat \ {0}]
    /\ finder \in [at : {"idle", "copy", "detect", "match", "index", "pose", "noise", "remember"},
                   copy3 : Nat, copy6 : Nat, pair : Pairs]

\* How far the main thread has got with the containers of a frame
InStep ==
    /\ Len(poses3) = IF main.at \in {"loops", "indices", "poses", "noises", "optimise"}
                     THEN variables - 1 ELSE variables
    /\ Len(poses6) = IF main.at \in {"loops", "indices", "poses", "noises", "optimise", "push"}
                     THEN variables - 1 ELSE variables
    /\ clouds = IF main.at \in {"idle", "correct"} THEN variables ELSE variables - 1

\* Poses differ from the estimate only between an optimisation that moved old ones and
\* their correction.
AllCorrected ==
    main.at \in {"push", "cloud", "correct"} /\ ~closed =>
        /\ \A i \in 1 .. Len(poses3) : poses3[i] = estimate
        /\ \A i \in 1 .. Len(poses6) : poses6[i] = estimate
AllEstimated ==
    main.at \notin {"push", "cloud", "correct"} =>
        /\ \A i \in 1 .. Len(poses3) : poses3[i] = estimate
        /\ \A i \in 1 .. Len(poses6) : poses6[i] = estimate

\* A pair of key frames of the graph, the newer one first
IsLoop(pair) == pair \in Pairs /\ pair[2] < pair[1] /\ pair[1] < variables

\* Only loops are found, queued and made factors.
LoopsAreOlder ==
    /\ finder.copy3 <= variables
    /\ finder.at \in {"match", "index", "pose", "noise", "remember"} => IsLoop(finder.pair)
    /\ \A i \in 1 .. Len(indexQueue) : IsLoop(indexQueue[i])
    /\ \A f \in loops : IsLoop(f.pair)

KeyInv == KeyTypes /\ InStep /\ AllCorrected /\ AllEstimated /\ LoopsAreOlder

\* The pose graph begins in the invariant.
LEMMA KeysInitially == Keys!Init => KeyInv
<1> SUFFICES ASSUME Keys!Init PROVE KeyInv  OBVIOUS
<1>1. /\ poses3 = <<>> /\ poses6 = <<>> /\ indexQueue = <<>> /\ poseQueue = <<>>
      /\ noiseQueue = <<>> /\ clouds = 0 /\ variables = 0 /\ loops = {} /\ estimate = 0
      /\ closed = FALSE /\ main = [at |-> "idle", next |-> 1]
      /\ finder = [at |-> "idle", copy3 |-> 0, copy6 |-> 0, pair |-> <<0, 0>>]
  BY DEF Keys!Init, Keys!NoLoop
<1>2. /\ poses3 \in Seq(Nat) /\ poses6 \in Seq(Nat) /\ indexQueue \in Seq(Pairs)
      /\ poseQueue \in Seq(Pairs) /\ noiseQueue \in Seq(Pairs)
  BY <1>1, EmptySeq
<1>3. KeyTypes
  <2>1. main \in [at : MainPlaces, next : Nat \ {0}]
    BY <1>1 DEF MainPlaces
  <2>2. <<0, 0>> \in Pairs  BY DEF Pairs
  <2>3. finder \in [at : {"idle", "copy", "detect", "match", "index", "pose", "noise", "remember"},
                    copy3 : Nat, copy6 : Nat, pair : Pairs]
    BY <1>1, <2>2
  <2>4. closed \in BOOLEAN  BY <1>1
  <2> QED  BY <1>1, <1>2, <2>1, <2>3, <2>4 DEF KeyTypes
<1>4. Len(poses3) = 0 /\ Len(poses6) = 0 /\ Len(indexQueue) = 0  BY <1>1, EmptySeq
<1>5. InStep /\ AllCorrected /\ AllEstimated  BY <1>1, <1>4 DEF InStep, AllCorrected, AllEstimated
<1>6. LoopsAreOlder  BY <1>1, <1>4 DEF LoopsAreOlder
<1> QED  BY <1>3, <1>5, <1>6 DEF KeyInv

\* Loops stay loops while the graph grows.
LEMMA LoopsStay ==
    ASSUME KeyTypes, LoopsAreOlder, variables' \in {variables, variables + 1},
           loops' = loops, finder' = finder, indexQueue' \in {indexQueue, <<>>}
    PROVE  LoopsAreOlder'
<1>1. variables \in Nat /\ variables' \in Nat /\ variables' >= variables  BY DEF KeyTypes
<1>2. \A pair : IsLoop(pair) => IsLoop(pair)'
  <2> SUFFICES ASSUME NEW pair, IsLoop(pair) PROVE IsLoop(pair)'  OBVIOUS
  <2>1. pair[1] \in Nat  BY DEF IsLoop, Pairs
  <2> QED  BY <1>1, <2>1 DEF IsLoop
<1>3. (\A i \in 1 .. Len(indexQueue) : IsLoop(indexQueue[i]))'
  <2>1. CASE indexQueue' = <<>>
    <3>1. Len(indexQueue') = 0  BY <2>1, EmptySeq
    <3> QED  BY <3>1
  <2>2. CASE indexQueue' = indexQueue  BY <1>2, <2>2 DEF LoopsAreOlder
  <2> QED  BY <2>1, <2>2
<1>4. (\A f \in loops : IsLoop(f.pair))'  BY <1>2 DEF LoopsAreOlder
<1>5. (finder.at \in {"match", "index", "pose", "noise", "remember"} => IsLoop(finder.pair))'
  BY <1>2 DEF LoopsAreOlder
<1>6. finder'.copy3 <= variables'  BY <1>1 DEF LoopsAreOlder, KeyTypes
<1> QED  BY <1>3, <1>4, <1>5, <1>6 DEF LoopsAreOlder

\* A frame begins: the graph has one variable more, and the rest follows.
LEMMA AddKeyKeeps == ASSUME KeyInv, NEW gps \in BOOLEAN, Keys!AddKeyFrame(gps) PROVE KeyInv'
<1> USE DEF KeyInv, MainPlaces
<1>1. /\ main.at = "idle" /\ variables' = variables + 1 /\ (closed' = TRUE \/ closed' = closed)
      /\ UNCHANGED <<poses3, poses6, clouds, loops, estimate, indexQueue, poseQueue, noiseQueue,
                     finder>>
  BY DEF Keys!AddKeyFrame, Keys!keyVars, Keys!queueVars, Keys!loopPart, KeyTypes
<1>2. PICK to \in {"optimise", "loops"} : main' = [at |-> to, next |-> 1]
  BY DEF Keys!AddKeyFrame
<1>3. KeyTypes'
  <2>1. closed' \in BOOLEAN  BY <1>1 DEF KeyTypes
  <2> QED  BY <1>1, <1>2, <2>1 DEF KeyTypes
<1>4. InStep'  BY <1>1, <1>2 DEF InStep, KeyTypes
<1>5. AllCorrected' /\ AllEstimated'  BY <1>1, <1>2 DEF AllCorrected, AllEstimated
<1>6. LoopsAreOlder'  BY <1>1, LoopsStay
<1> QED  BY <1>3, <1>4, <1>5, <1>6

\* addLoopFactor makes factors of what is in the queue, and clears it.
LEMMA LoopFactorsKeep ==
    ASSUME KeyInv, \/ Keys!ReadLoop \/ Keys!LeaveLoops
                   \/ Keys!ClearIndices \/ Keys!ClearPoses \/ Keys!ClearNoises
    PROVE  KeyInv'
<1> USE DEF KeyInv, MainPlaces
<1>1. /\ UNCHANGED <<poses3, poses6, clouds, variables, estimate, finder>>
      /\ closed' = TRUE \/ closed' = closed
  BY DEF Keys!ReadLoop, Keys!LeaveLoops, Keys!ClearIndices, Keys!ClearPoses,
         Keys!ClearNoises, Keys!keyVars, Keys!graphVars, Keys!loopPart
<1>2. /\ indexQueue' \in {indexQueue, <<>>} /\ poseQueue' \in {poseQueue, <<>>}
      /\ noiseQueue' \in {noiseQueue, <<>>}
  BY DEF Keys!ReadLoop, Keys!LeaveLoops, Keys!ClearIndices, Keys!ClearPoses,
         Keys!ClearNoises, Keys!queueVars
<1>3. /\ main.at \in {"loops", "indices", "poses", "noises"}
      /\ \/ main' = [main EXCEPT !.next = main.next + 1]
         \/ \E to \in {"indices", "poses", "noises", "optimise"} : main' = [main EXCEPT !.at = to]
  BY DEF Keys!ReadLoop, Keys!LeaveLoops, Keys!ClearIndices, Keys!ClearPoses,
         Keys!ClearNoises, Keys!Go
<1>4. /\ main' \in [at : {"loops", "indices", "poses", "noises", "optimise"}, next : Nat \ {0}]
  <2>1. main = [at |-> main.at, next |-> main.next] /\ main.next \in Nat \ {0}
    BY DEF KeyTypes
  <2> DEFINE n == main.next + 1
  <2>2. n \in Nat \ {0}  BY <2>1
  <2>3. CASE main' = [main EXCEPT !.next = n]
    <3> HIDE DEF n
    <3>1. main' = [at |-> main.at, next |-> n]  BY <2>1, <2>3
    <3> QED  BY <1>3, <2>2, <3>1
  <2>4. CASE \E to \in {"indices", "poses", "noises", "optimise"} : main' = [main EXCEPT !.at = to]
    <3>1. PICK to \in {"indices", "poses", "noises", "optimise"} : main' = [main EXCEPT !.at = to]
      BY <2>4
    <3>2. main' = [at |-> to, next |-> main.next]  BY <2>1, <3>1
    <3> QED  BY <2>1, <3>2
  <2> QED  BY <1>3, <2>3, <2>4
<1>5. KeyTypes'
  <2>1. indexQueue' \in Seq(Pairs) /\ poseQueue' \in Seq(Pairs) /\ noiseQueue' \in Seq(Pairs)
    <3>1. indexQueue \in Seq(Pairs) /\ poseQueue \in Seq(Pairs) /\ noiseQueue \in Seq(Pairs)
      BY DEF KeyTypes
    <3>2. <<>> \in Seq(Pairs)  BY EmptySeq
    <3> HIDE DEF KeyInv
    <3> QED  BY <1>2, <3>1, <3>2
  <2>2. closed' \in BOOLEAN
    <3>1. closed \in BOOLEAN  BY DEF KeyTypes
    <3> QED  BY <1>1, <3>1
  <2>3. main' \in [at : MainPlaces, next : Nat \ {0}]
    BY <1>4
  <2>4. /\ poses3' \in Seq(Nat) /\ poses6' \in Seq(Nat) /\ clouds' \in Nat
        /\ variables' \in Nat /\ estimate' \in Nat /\ finder' = finder
    BY <1>1 DEF KeyTypes
  <2> HIDE DEF KeyInv
  <2>5. KeyTypes  BY DEF KeyInv
  <2> QED  BY <2>1, <2>2, <2>3, <2>4, <2>5 DEF KeyTypes
<1>6. InStep' /\ AllCorrected' /\ AllEstimated'
  <2>1. main'.at \in {"loops", "indices", "poses", "noises", "optimise"}  BY <1>4
  <2> QED  BY <1>1, <1>3, <2>1 DEF InStep, AllCorrected, AllEstimated
<1>7. LoopsAreOlder'
  <2>1. CASE Keys!ReadLoop
    <3>1. main.next \in 1 .. Len(indexQueue)  BY <2>1 DEF Keys!ReadLoop, KeyTypes
    <3>2. \A f \in loops' : f \in loops \/ f.pair = indexQueue[main.next]
      BY <2>1 DEF Keys!ReadLoop
    <3>3. indexQueue' = indexQueue  BY <2>1 DEF Keys!ReadLoop, Keys!queueVars
    <3> QED  BY <1>1, <3>1, <3>2, <3>3 DEF LoopsAreOlder, IsLoop
  <2>2. CASE Keys!LeaveLoops \/ Keys!ClearIndices \/ Keys!ClearPoses \/ Keys!ClearNoises
    <3>1. loops' = loops
      BY <2>2 DEF Keys!LeaveLoops, Keys!ClearIndices, Keys!ClearPoses, Keys!ClearNoises,
                  Keys!graphVars
    <3> QED  BY <1>1, <1>2, <3>1, LoopsStay
  <2> QED  BY <2>1, <2>2
<1> QED  BY <1>5, <1>6, <1>7

\* A pose that is appended to a container of poses at the estimate is the last of them.
LEMMA PoseAppended ==
    ASSUME NEW seq \in Seq(Nat), NEW pose \in Nat
    PROVE  /\ Append(seq, pose) \in Seq(Nat) /\ Len(Append(seq, pose)) = Len(seq) + 1
           /\ (\A i \in 1 .. Len(seq) : seq[i] = pose) =>
                \A i \in 1 .. Len(Append(seq, pose)) : Append(seq, pose)[i] = pose
<1>1. /\ Append(seq, pose) \in Seq(Nat) /\ Len(Append(seq, pose)) = Len(seq) + 1
      /\ \A i \in 1 .. Len(seq) : Append(seq, pose)[i] = seq[i]
      /\ Append(seq, pose)[Len(seq) + 1] = pose
  BY AppendProperties
<1>2. ASSUME \A i \in 1 .. Len(seq) : seq[i] = pose, NEW i \in 1 .. Len(Append(seq, pose))
      PROVE  Append(seq, pose)[i] = pose
  <2>1. Len(seq) \in Nat /\ (i \in 1 .. Len(seq) \/ i = Len(seq) + 1)  BY <1>1
  <2> QED  BY <1>1, <1>2, <2>1
<1> QED  BY <1>1, <1>2

\* The optimisation, with the first of the poses it appends.
LEMMA OptimiseKeeps == ASSUME KeyInv, Keys!Optimise PROVE KeyInv'
<1> USE DEF KeyInv, MainPlaces
<1>1. /\ main.at = "optimise" /\ main' = [main EXCEPT !.at = "push"]
      /\ estimate' = IF closed THEN estimate + 1 ELSE estimate
      /\ poses3' = Append(poses3, estimate')
      /\ UNCHANGED <<poses6, clouds, variables, loops, closed, indexQueue, poseQueue, noiseQueue,
                     finder>>
  BY DEF Keys!Optimise, Keys!Go, Keys!queueVars, Keys!loopPart
<1>2. estimate' \in Nat /\ (~closed => estimate' = estimate)  BY <1>1 DEF KeyTypes
<1>3. main' = [at |-> "push", next |-> main.next]  BY <1>1 DEF KeyTypes
<1>4. /\ poses3' \in Seq(Nat) /\ Len(poses3') = Len(poses3) + 1
      /\ ~closed => \A i \in 1 .. Len(poses3') : poses3'[i] = estimate'
  <2>1. /\ poses3 \in Seq(Nat) /\ estimate' \in Nat
        /\ ~closed => \A i \in 1 .. Len(poses3) : poses3[i] = estimate'
    BY <1>1, <1>2 DEF KeyTypes, AllEstimated
  <2> HIDE DEF KeyInv
  <2> DEFINE pose == estimate'
  <2>2. poses3' = Append(poses3, pose) /\ pose \in Nat  BY <1>1, <2>1
  <2>3. \A i \in 1 .. Len(poses3) : ~closed => poses3[i] = pose  BY <2>1
  <2> HIDE DEF pose
  <2>4. /\ poses3' \in Seq(Nat) /\ Len(poses3') = Len(poses3) + 1
        /\ ~closed => \A i \in 1 .. Len(poses3') : poses3'[i] = pose
    BY <2>1, <2>2, <2>3, PoseAppended
  <2> QED  BY <2>4 DEF pose
<1>5. KeyTypes'  BY <1>1, <1>2, <1>3, <1>4 DEF KeyTypes
<1>6. InStep'  BY <1>1, <1>3, <1>4 DEF InStep, KeyTypes
<1>7. AllCorrected' /\ AllEstimated'  BY <1>1, <1>2, <1>3, <1>4 DEF AllCorrected, AllEstimated
<1>8. LoopsAreOlder'  BY <1>1, LoopsStay
<1> QED  BY <1>5, <1>6, <1>7, <1>8

\* The other containers of the frame.
LEMMA PushKeeps == ASSUME KeyInv, Keys!PushPose \/ Keys!PushCloud PROVE KeyInv'
<1> USE DEF KeyInv, Keys!Go, MainPlaces
<1>1. UNCHANGED <<poses3, variables, loops, estimate, closed, indexQueue, poseQueue, noiseQueue,
                  finder>>
  BY DEF Keys!PushPose, Keys!PushCloud, Keys!queueVars, Keys!graphVars, Keys!loopPart
<1>2. LoopsAreOlder'  BY <1>1, LoopsStay
<1>3. CASE Keys!PushPose
  <2>1. /\ main.at = "push" /\ main' = [at |-> "cloud", next |-> main.next]
        /\ poses6' = Append(poses6, estimate) /\ clouds' = clouds
    BY <1>3 DEF Keys!PushPose, KeyTypes
  <2>2. /\ poses6' \in Seq(Nat) /\ Len(poses6') = Len(poses6) + 1
        /\ ~closed => \A i \in 1 .. Len(poses6') : poses6'[i] = estimate
    <3>1. /\ poses6 \in Seq(Nat) /\ estimate \in Nat
          /\ ~closed => \A i \in 1 .. Len(poses6) : poses6[i] = estimate
      BY <2>1 DEF KeyTypes, AllCorrected, AllEstimated
    <3> QED  BY <2>1, <3>1, PoseAppended
  <2>3. KeyTypes'  BY <1>1, <2>1, <2>2 DEF KeyTypes
  <2>4. InStep'  BY <1>1, <2>1, <2>2 DEF InStep, KeyTypes
  <2>5. AllCorrected' /\ AllEstimated'  BY <1>1, <2>1, <2>2 DEF AllCorrected, AllEstimated
  <2> QED  BY <1>2, <2>3, <2>4, <2>5
<1>4. CASE Keys!PushCloud
  <2>1. /\ main.at = "cloud" /\ main' = [at |-> "correct", next |-> main.next]
        /\ poses6' = poses6 /\ clouds' = clouds + 1
    BY <1>4 DEF Keys!PushCloud, KeyTypes
  <2>3. KeyTypes'  BY <1>1, <2>1 DEF KeyTypes
  <2>4. InStep'  BY <1>1, <2>1 DEF InStep, KeyTypes
  <2>5. AllCorrected' /\ AllEstimated'  BY <1>1, <2>1 DEF AllCorrected, AllEstimated
  <2> QED  BY <1>2, <2>3, <2>4, <2>5
<1> QED  BY <1>3, <1>4

\* correctPoses brings every pose to the estimate.
LEMMA CorrectKeeps == ASSUME KeyInv, Keys!CorrectPoses PROVE KeyInv'
<1> USE DEF KeyInv, MainPlaces
<1>1. ASSUME NEW poses \in Seq(Nat), Len(poses) = variables
      PROVE  /\ Keys!Corrected(poses) \in Seq(Nat) /\ Len(Keys!Corrected(poses)) = Len(poses)
             /\ \A i \in 1 .. Len(poses) : Keys!Corrected(poses)[i] = estimate
  <2>1. /\ Len(poses) \in Nat /\ estimate \in Nat /\ DOMAIN poses = 1 .. Len(poses)
        /\ \A i \in 1 .. Len(poses) : i <= variables
    BY <1>1 DEF KeyTypes
  <2>2. Keys!Corrected(poses) = [i \in 1 .. Len(poses) |-> estimate]
    BY <2>1 DEF Keys!Corrected
  <2>3. Keys!Corrected(poses) \in Seq(Nat)  BY <2>1, <2>2, IsASeq
  <2> QED  BY <2>1, <2>2, <2>3
<1>2. /\ main.at = "correct" /\ main' = [at |-> "idle", next |-> main.next]
      /\ UNCHANGED <<clouds, variables, loops, estimate, indexQueue, poseQueue, noiseQueue,
                     finder>>
      /\ IF closed THEN /\ poses3' = Keys!Corrected(poses3) /\ poses6' = Keys!Corrected(poses6)
                        /\ closed' = FALSE
                   ELSE UNCHANGED <<poses3, poses6, closed>>
  BY DEF Keys!CorrectPoses, Keys!Go, Keys!queueVars, Keys!loopPart, KeyTypes
<1>3. Len(poses3) = variables /\ Len(poses6) = variables  BY <1>2 DEF InStep
<1>4. /\ poses3' \in Seq(Nat) /\ Len(poses3') = variables
      /\ poses6' \in Seq(Nat) /\ Len(poses6') = variables /\ closed' \in BOOLEAN
      /\ \A i \in 1 .. Len(poses3') : poses3'[i] = estimate
      /\ \A i \in 1 .. Len(poses6') : poses6'[i] = estimate
  <2>1. CASE closed
    <3>1. poses3' = Keys!Corrected(poses3) /\ poses6' = Keys!Corrected(poses6) /\ closed' = FALSE
      BY <1>2, <2>1
    <3>2. poses3 \in Seq(Nat) /\ poses6 \in Seq(Nat)  BY DEF KeyTypes
    <3> QED  BY <1>1, <1>3, <3>1, <3>2
  <2>2. CASE ~closed
    <3>1. UNCHANGED <<poses3, poses6, closed>>  BY <1>2, <2>2
    <3> QED  BY <1>2, <1>3, <2>2, <3>1 DEF KeyTypes, AllCorrected
  <2> QED  BY <2>1, <2>2
<1>5. KeyTypes'  BY <1>2, <1>4 DEF KeyTypes
<1>6. InStep'  BY <1>2, <1>4 DEF InStep
<1>7. AllCorrected' /\ AllEstimated'  BY <1>2, <1>4 DEF AllCorrected, AllEstimated
<1>8. LoopsAreOlder'  BY <1>2, LoopsStay
<1> QED  BY <1>5, <1>6, <1>7, <1>8

\* The loop thread leaves the containers and the graph alone.
LEMMA MainKept ==
    ASSUME KeyInv, UNCHANGED Keys!mainPart
    PROVE  /\ InStep' /\ AllCorrected' /\ AllEstimated'
           /\ UNCHANGED <<poses3, poses6, clouds, variables, loops, estimate, closed, main>>
BY DEF KeyInv, Keys!mainPart, Keys!keyVars, Keys!graphVars, InStep, AllCorrected, AllEstimated

\* It finds an older key frame in its copy of the poses, whenever it copied.
LEMMA FindKeeps ==
    ASSUME KeyInv,
           \/ Keys!CopyPoses3 \/ Keys!CopyPoses6
           \/ \E pre \in 0 .. finder.copy3 - 1 : Keys!Detect(pre)
           \/ \E good \in BOOLEAN : Keys!Match(good)
    PROVE  KeyInv'
<1> USE DEF KeyInv, MainPlaces
<1>1. UNCHANGED <<Keys!mainPart, Keys!queueVars>>
  BY DEF Keys!CopyPoses3, Keys!CopyPoses6, Keys!Detect, Keys!Match
<1>2. /\ InStep' /\ AllCorrected' /\ AllEstimated'
      /\ UNCHANGED <<poses3, poses6, clouds, variables, loops, estimate, closed, main>>
      /\ UNCHANGED <<indexQueue, poseQueue, noiseQueue>>
  BY <1>1, MainKept DEF Keys!queueVars
<1>3. /\ finder = [at |-> finder.at, copy3 |-> finder.copy3, copy6 |-> finder.copy6,
                   pair |-> finder.pair]
      /\ finder.copy3 \in Nat /\ finder.copy6 \in Nat /\ finder.pair \in Pairs
      /\ finder.copy3 <= variables /\ variables \in Nat
      /\ Len(poses3) \in Nat /\ Len(poses6) \in Nat /\ Len(poses3) <= variables
  BY DEF KeyTypes, LoopsAreOlder, InStep
<1> DEFINE Found == /\ finder' \in [at : {"idle", "copy", "detect", "match", "index"},
                                      copy3 : Nat, copy6 : Nat, pair : Pairs]
                    /\ finder'.copy3 <= variables
                    /\ finder'.at \in {"match", "index"} => IsLoop(finder'.pair)
<1>4. Found
  <2>1. CASE Keys!CopyPoses3
    <3>1. finder' = [at |-> "copy", copy3 |-> Len(poses3), copy6 |-> finder.copy6,
                     pair |-> finder.pair]
      BY <1>3, <2>1 DEF Keys!CopyPoses3
    <3> QED  BY <1>3, <3>1
  <2>2. CASE Keys!CopyPoses6
    <3>1. finder' = [at |-> "detect", copy3 |-> finder.copy3, copy6 |-> Len(poses6),
                     pair |-> finder.pair]
      BY <1>3, <2>2 DEF Keys!CopyPoses6
    <3> QED  BY <1>3, <3>1
  <2>3. ASSUME NEW pre \in 0 .. finder.copy3 - 1, Keys!Detect(pre)
        PROVE  Found
    <3> DEFINE latest == finder.copy3 - 1
    <3>1. latest \in Nat /\ latest < variables /\ pre \in Nat /\ pre <= latest
      BY <1>3
    <3>2. \/ finder' = [at |-> "idle", copy3 |-> finder.copy3, copy6 |-> finder.copy6,
                        pair |-> finder.pair]
          \/ /\ pre # latest
             /\ finder' = [at |-> "match", copy3 |-> finder.copy3, copy6 |-> finder.copy6,
                           pair |-> <<latest, pre>>]
      <4>1. IF latest \in container \/ pre = latest
              THEN finder' = [finder EXCEPT !.at = "idle"]
              ELSE finder' = [finder EXCEPT !.at = "match", !.pair = <<latest, pre>>]
        BY <2>3 DEF Keys!Detect, Keys!LatestKey
      <4> HIDE DEF latest
      <4> QED  BY <1>3, <4>1
    <3> HIDE DEF latest
    <3>3. pre # latest => <<latest, pre>> \in Pairs /\ IsLoop(<<latest, pre>>)
      BY <3>1 DEF Pairs, IsLoop
    <3> QED  BY <1>3, <3>2, <3>3
  <2>4. ASSUME NEW good \in BOOLEAN, Keys!Match(good)
        PROVE  Found
    <3>1. finder.at = "match" /\ IsLoop(finder.pair)
      BY <2>4 DEF Keys!Match, LoopsAreOlder
    <3>2. PICK to \in {"index", "idle"} : finder' = [finder EXCEPT !.at = to]
      BY <2>4 DEF Keys!Match
    <3>3. finder' = [at |-> to, copy3 |-> finder.copy3, copy6 |-> finder.copy6,
                     pair |-> finder.pair]
      BY <1>3, <3>2
    <3> QED  BY <1>3, <3>1, <3>3
  <2> QED  BY <2>1, <2>2, <2>3, <2>4
<1>5. KeyTypes'
  <2>1. finder' \in [at : {"idle", "copy", "detect", "match", "index", "pose", "noise", "remember"},
                     copy3 : Nat, copy6 : Nat, pair : Pairs]
    BY <1>4
  <2> QED  BY <1>2, <2>1 DEF KeyTypes
<1>6. LoopsAreOlder'
  <2>1. /\ finder'.copy3 <= variables
        /\ finder'.at \in {"match", "index", "pose", "noise", "remember"} => IsLoop(finder'.pair)
    BY <1>4
  <2> QED  BY <1>2, <2>1 DEF LoopsAreOlder, IsLoop
<1> QED  BY <1>2, <1>5, <1>6

\* It queues what it found, one container after the other.
LEMMA QueueKeeps ==
    ASSUME KeyInv, Keys!PushIndex \/ Keys!PushLoopPose \/ Keys!PushNoise \/ Keys!Remember
    PROVE  KeyInv'
<1> USE DEF KeyInv, MainPlaces
<1>1. /\ UNCHANGED Keys!mainPart
      /\ \E to \in {"pose", "noise", "remember", "idle"} : finder' = [finder EXCEPT !.at = to]
      /\ finder.at \in {"index", "pose", "noise", "remember"}
  BY DEF Keys!PushIndex, Keys!PushLoopPose, Keys!PushNoise, Keys!Remember
<1>2. /\ InStep' /\ AllCorrected' /\ AllEstimated'
      /\ UNCHANGED <<poses3, poses6, clouds, variables, loops, estimate, closed, main>>
  BY <1>1, MainKept
<1>3. PICK to \in {"pose", "noise", "remember", "idle"} :
        finder' = [at |-> to, copy3 |-> finder.copy3, copy6 |-> finder.copy6,
                   pair |-> finder.pair]
  BY <1>1 DEF KeyTypes
<1>4. finder.pair \in Pairs /\ IsLoop(finder.pair)  BY <1>1 DEF KeyTypes, LoopsAreOlder
<1>5. /\ indexQueue' \in {indexQueue, Append(indexQueue, finder.pair)}
      /\ poseQueue' \in {poseQueue, Append(poseQueue, finder.pair)}
      /\ noiseQueue' \in {noiseQueue, Append(noiseQueue, finder.pair)}
  BY DEF Keys!PushIndex, Keys!PushLoopPose, Keys!PushNoise, Keys!Remember, Keys!queueVars
<1>6. KeyTypes'
  <2>1. indexQueue' \in Seq(Pairs) /\ poseQueue' \in Seq(Pairs) /\ noiseQueue' \in Seq(Pairs)
    <3>1. \A queue \in Seq(Pairs) : Append(queue, finder.pair) \in Seq(Pairs)
      BY <1>4, AppendProperties
    <3>2. indexQueue \in Seq(Pairs) /\ poseQueue \in Seq(Pairs) /\ noiseQueue \in Seq(Pairs)
      BY DEF KeyTypes
    <3> QED  BY <1>5, <3>1, <3>2
  <2> QED  BY <1>2, <1>3, <2>1 DEF KeyTypes
<1>7. \A i \in 1 .. Len(indexQueue') : IsLoop(indexQueue'[i])
  <2>1. CASE indexQueue' = indexQueue  BY <2>1 DEF LoopsAreOlder
  <2>2. CASE indexQueue' = Append(indexQueue, finder.pair)
    <3>1. /\ Len(indexQueue') = Len(indexQueue) + 1 /\ Len(indexQueue) \in Nat
          /\ \A i \in 1 .. Len(indexQueue) : indexQueue'[i] = indexQueue[i]
          /\ indexQueue'[Len(indexQueue) + 1] = finder.pair
      BY <1>4, <2>2, AppendProperties DEF KeyTypes
    <3>2. ASSUME NEW i \in 1 .. Len(indexQueue') PROVE IsLoop(indexQueue'[i])
      <4>1. i \in 1 .. Len(indexQueue) \/ i = Len(indexQueue) + 1  BY <3>1
      <4> QED  BY <1>4, <3>1, <4>1 DEF LoopsAreOlder
    <3> QED  BY <3>2
  <2> QED  BY <1>5, <2>1, <2>2
<1>8. LoopsAreOlder'
  <2>1. finder'.copy3 = finder.copy3 /\ finder'.pair = finder.pair  BY <1>3
  <2> QED  BY <1>2, <1>4, <1>7, <2>1 DEF LoopsAreOlder, IsLoop
<1> QED  BY <1>2, <1>6, <1>8

\* Every step of either thread keeps the invariant.
LEMMA KeysStep == KeyInv /\ [Keys!Next]_Keys!frameVars => KeyInv'
<1> SUFFICES ASSUME KeyInv, [Keys!Next]_Keys!frameVars PROVE KeyInv'  OBVIOUS
<1>1. CASE UNCHANGED Keys!frameVars
  <2>1. UNCHANGED <<poses3, poses6, clouds, variables, loops, estimate, closed, main, indexQueue,
                    poseQueue, noiseQueue, finder>>
    BY <1>1 DEF Keys!frameVars, Keys!keyVars, Keys!graphVars, Keys!queueVars
  <2>2. KeyTypes'  BY <2>1 DEF KeyInv, KeyTypes
  <2>3. InStep' /\ AllCorrected' /\ AllEstimated'
    BY <2>1 DEF KeyInv, InStep, AllCorrected, AllEstimated
  <2>4. LoopsAreOlder'  BY <2>1 DEF KeyInv, LoopsAreOlder, IsLoop
  <2> QED  BY <2>2, <2>3, <2>4 DEF KeyInv
<1>2. CASE Keys!Main
  BY <1>2, AddKeyKeeps, LoopFactorsKeep, OptimiseKeeps, PushKeeps, CorrectKeeps DEF Keys!Main
<1>3. CASE Keys!Loop
  BY <1>3, FindKeeps, QueueKeeps DEF Keys!Loop
<1> QED  BY <1>1, <1>2, <1>3 DEF Keys!Next

\* What the threads leave between two frames is in step with the graph.
LEMMA KeysMatch == KeyInv => Keys!GraphMatchesKeys
<1> SUFFICES ASSUME KeyInv PROVE Keys!GraphMatchesKeys
  OBVIOUS
<1>1. KeyTypes /\ InStep /\ AllEstimated /\ LoopsAreOlder  BY DEF KeyInv
<1> QED  BY <1>1 DEF KeyTypes, InStep, AllEstimated, LoopsAreOlder, IsLoop, Keys!GraphMatchesKeys

\* The three queues hold the same loops, but for the one the thread is queueing and for
\* what the frame has cleared, unless they are torn.
SameLoops ==
    \/ /\ finder.at = "pose"
       /\ indexQueue = Append(poseQueue, finder.pair) /\ noiseQueue = poseQueue
    \/ /\ finder.at = "noise"
       /\ indexQueue = poseQueue /\ poseQueue = Append(noiseQueue, finder.pair)
    \/ /\ finder.at \notin {"pose", "noise"}
       /\ \/ main.at = "poses" /\ indexQueue = <<>> /\ noiseQueue = poseQueue
          \/ main.at = "noises" /\ indexQueue = <<>> /\ poseQueue = <<>>
          \/ main.at \notin {"poses", "noises"}
             /\ indexQueue = poseQueue /\ noiseQueue = poseQueue

\* A factor that is not of torn queues is its own.
OwnMeasurement == \A f \in loops : f.torn \/ (f.pose = f.pair /\ f.noise = f.pair)

MeasuredInv ==
    /\ torn \in BOOLEAN
    /\ Keys!Overlap => torn
    /\ ~torn => SameLoops
    /\ OwnMeasurement

\* A loop the frame leaves behind, and one that has become a factor, waits or was queued
\* while a frame took loops
Kept(pair) == pair \in overlapped \/ \E f \in loops : f.pair = pair
Known(pair) == Kept(pair) \/ \E i \in 1 .. Len(indexQueue) : indexQueue[i] = pair

RememberedInv ==
    /\ \A key \in container : \E pair : pair[1] = key /\ Known(pair)
    /\ finder.at \in {"pose", "noise", "remember"} => Known(finder.pair)
    /\ main.at = "loops" =>
         /\ main.next <= Len(indexQueue) + 1
         /\ \A i \in 1 .. Len(indexQueue) : i < main.next => Kept(indexQueue[i])
    /\ main.at = "indices" => \A i \in 1 .. Len(indexQueue) : Kept(indexQueue[i])

LoopInv == MeasuredInv /\ RememberedInv

\* The queues begin empty and alike.
LEMMA LoopsInitially == Keys!Init => LoopInv
<1> SUFFICES ASSUME Keys!Init PROVE LoopInv  OBVIOUS
<1>1. /\ indexQueue = <<>> /\ poseQueue = <<>> /\ noiseQueue = <<>> /\ loops = {}
      /\ container = {} /\ torn = FALSE /\ main.at = "idle" /\ finder.at = "idle"
  BY DEF Keys!Init
<1>2. MeasuredInv  BY <1>1 DEF MeasuredInv, Keys!Overlap, SameLoops, OwnMeasurement
<1>3. RememberedInv  BY <1>1 DEF RememberedInv
<1> QED  BY <1>2, <1>3 DEF LoopInv

\* Queues that are found empty and at rest are alike again.
LEMMA EmptiedIsAlike == Keys!Emptied => SameLoops
BY DEF Keys!Emptied, SameLoops

\* A frame and the thread keep the queues alike unless they overlap.
LEMMA SameLoopsStep ==
    ASSUME KeyInv, MeasuredInv, SameLoops, ~torn, Keys!Main \/ Keys!Loop, ~Keys!Overlap'
    PROVE  SameLoops'
<1>0. ~Keys!Overlap  BY DEF MeasuredInv
<1> USE DEF Keys!Overlap, SameLoops, Keys!Go, Keys!queueVars, Keys!loopPart, Keys!mainPart
<1>t. /\ main = [at |-> main.at, next |-> main.next]
      /\ finder = [at |-> finder.at, copy3 |-> finder.copy3, copy6 |-> finder.copy6,
                   pair |-> finder.pair]
  BY DEF KeyInv, KeyTypes
<1>1. ASSUME NEW gps \in BOOLEAN, Keys!AddKeyFrame(gps) PROVE SameLoops'
  <2>1. /\ main.at = "idle" /\ main'.at \in {"optimise", "loops"}
        /\ UNCHANGED <<indexQueue, poseQueue, noiseQueue, finder>>
    BY <1>1 DEF Keys!AddKeyFrame
  <2> QED  BY <1>0, <2>1
<1>2. CASE Keys!ReadLoop \/ Keys!LeaveLoops
  <2>1. /\ main.at = "loops" /\ main'.at \in {"loops", "indices"}
        /\ UNCHANGED <<indexQueue, poseQueue, noiseQueue, finder>>
    BY <1>t, <1>2 DEF Keys!ReadLoop, Keys!LeaveLoops
  <2> QED  BY <1>0, <2>1
<1>3. CASE Keys!ClearIndices
  <2>1. /\ main.at = "indices" /\ main'.at = "poses" /\ indexQueue' = <<>>
        /\ UNCHANGED <<poseQueue, noiseQueue, finder>>
    BY <1>t, <1>3 DEF Keys!ClearIndices
  <2> QED  BY <1>0, <2>1
<1>4. CASE Keys!ClearPoses
  <2>1. /\ main.at = "poses" /\ main'.at = "noises" /\ poseQueue' = <<>>
        /\ UNCHANGED <<indexQueue, noiseQueue, finder>>
    BY <1>t, <1>4 DEF Keys!ClearPoses
  <2> QED  BY <1>0, <2>1
<1>5. CASE Keys!ClearNoises
  <2>1. /\ main.at = "noises" /\ main'.at = "optimise" /\ noiseQueue' = <<>>
        /\ UNCHANGED <<indexQueue, poseQueue, finder>>
    BY <1>t, <1>5 DEF Keys!ClearNoises
  <2> QED  BY <1>0, <2>1
<1>6. CASE Keys!Optimise \/ Keys!PushPose \/ Keys!PushCloud \/ Keys!CorrectPoses
  <2>1. /\ main.at \in {"optimise", "push", "cloud", "correct"}
        /\ main'.at \in {"push", "cloud", "correct", "idle"}
        /\ UNCHANGED <<indexQueue, poseQueue, noiseQueue, finder>>
    BY <1>t, <1>6 DEF Keys!Optimise, Keys!PushPose, Keys!PushCloud, Keys!CorrectPoses
  <2> QED  BY <1>0, <2>1
<1>7. CASE \/ Keys!CopyPoses3 \/ Keys!CopyPoses6
           \/ \E pre \in 0 .. finder.copy3 - 1 : Keys!Detect(pre)
           \/ \E good \in BOOLEAN : Keys!Match(good)
           \/ Keys!Remember
  <2>1. /\ finder.at \notin {"pose", "noise"} /\ finder'.at \notin {"pose", "noise"}
        /\ UNCHANGED <<indexQueue, poseQueue, noiseQueue, main>>
    BY <1>t, <1>7 DEF Keys!CopyPoses3, Keys!CopyPoses6, Keys!Detect, Keys!Match, Keys!Remember
  <2> QED  BY <2>1
<1>8. CASE Keys!PushIndex
  <2>1. /\ finder.at = "index" /\ finder'.at = "pose" /\ finder'.pair = finder.pair
        /\ indexQueue' = Append(indexQueue, finder.pair)
        /\ UNCHANGED <<poseQueue, noiseQueue, main>>
    BY <1>t, <1>8 DEF Keys!PushIndex
  <2> QED  BY <2>1
<1>9. CASE Keys!PushLoopPose
  <2>1. /\ finder.at = "pose" /\ finder'.at = "noise" /\ finder'.pair = finder.pair
        /\ poseQueue' = Append(poseQueue, finder.pair)
        /\ UNCHANGED <<indexQueue, noiseQueue, main>>
    BY <1>t, <1>9 DEF Keys!PushLoopPose
  <2> QED  BY <2>1
<1>10. CASE Keys!PushNoise
  <2>1. /\ finder.at = "noise" /\ finder'.at = "remember"
        /\ noiseQueue' = Append(noiseQueue, finder.pair)
        /\ UNCHANGED <<indexQueue, poseQueue, main>>
    BY <1>t, <1>10 DEF Keys!PushNoise
  <2> QED  BY <1>0, <2>1
<1> QED
  BY <1>1, <1>2, <1>3, <1>4, <1>5, <1>6, <1>7, <1>8, <1>9, <1>10 DEF Keys!Main, Keys!Loop

\* A factor that is read from queues that are alike is its own.
LEMMA OwnMeasurementStep ==
    ASSUME KeyInv, MeasuredInv, Keys!Main \/ Keys!Loop
    PROVE  OwnMeasurement'
<1>1. CASE Keys!ReadLoop
  <2>1. /\ main.at = "loops" /\ main.next <= Len(indexQueue)
        /\ \A f \in loops' : f \in loops \/
             f = [pair |-> indexQueue[main.next], pose |-> Keys!Entry(poseQueue, main.next),
                  noise |-> Keys!Entry(noiseQueue, main.next), torn |-> torn]
    BY <1>1 DEF Keys!ReadLoop
  <2>2. ~torn => indexQueue = poseQueue /\ noiseQueue = poseQueue
    BY <2>1 DEF MeasuredInv, SameLoops, Keys!Overlap
  <2>3. ~torn => /\ Keys!Entry(poseQueue, main.next) = indexQueue[main.next]
                 /\ Keys!Entry(noiseQueue, main.next) = indexQueue[main.next]
    BY <2>1, <2>2 DEF Keys!Entry
  <2> QED  BY <2>1, <2>3 DEF MeasuredInv, OwnMeasurement
<1>2. CASE ~Keys!ReadLoop
  <2>1. loops' = loops
    BY <1>2 DEF Keys!Main, Keys!Loop, Keys!AddKeyFrame, Keys!LeaveLoops, Keys!ClearIndices,
         Keys!ClearPoses, Keys!ClearNoises, Keys!Optimise, Keys!PushPose, Keys!PushCloud,
         Keys!CorrectPoses, Keys!CopyPoses3, Keys!CopyPoses6, Keys!Detect, Keys!Match,
         Keys!PushIndex, Keys!PushLoopPose, Keys!PushNoise, Keys!Remember, Keys!mainPart,
         Keys!graphVars
  <2> QED  BY <2>1 DEF MeasuredInv, OwnMeasurement
<1> QED  BY <1>1, <1>2

\* What is known of a loop stays known while factors, and the loops queued in a frame,
\* are only added to, and the queue of the loops grows.
LEMMA KnownStays ==
    ASSUME loops \subseteq loops', overlapped \subseteq overlapped'
    PROVE  \A pair : /\ Kept(pair) => Kept(pair)'
                     /\ Known(pair) /\ indexQueue' = indexQueue => Known(pair)'
BY DEF Kept, Known

\* The graph, the queue and the container as the steps of a frame leave them
LEMMA RememberedByFrame ==
    ASSUME KeyInv, RememberedInv, Keys!Main, Keys!Observe
    PROVE  RememberedInv'
<1>o. overlapped \subseteq overlapped'  BY DEF Keys!Observe
<1>t. /\ main = [at |-> main.at, next |-> main.next] /\ main.next \in Nat \ {0}
      /\ Len(indexQueue) \in Nat
  BY DEF KeyInv, KeyTypes
<1>1. ASSUME NEW gps \in BOOLEAN, Keys!AddKeyFrame(gps) PROVE RememberedInv'
  <2>1. /\ UNCHANGED <<loops, indexQueue, container, finder>>
        /\ main'.at \in {"optimise", "loops"} /\ main'.next = 1
    BY <1>1 DEF Keys!AddKeyFrame, Keys!queueVars, Keys!loopPart
  <2> QED  BY <1>o, <1>t, <2>1, KnownStays DEF RememberedInv
<1>2. CASE Keys!ReadLoop
  <2>1. /\ UNCHANGED <<indexQueue, container, finder>>
        /\ main.at = "loops" /\ main'.at = "loops" /\ main'.next = main.next + 1
        /\ main.next <= Len(indexQueue)
        /\ loops \subseteq loops' /\ \E f \in loops' : f.pair = indexQueue[main.next]
    <3>1. /\ UNCHANGED <<indexQueue, container, finder>> /\ main.at = "loops"
          /\ main' = [main EXCEPT !.next = main.next + 1] /\ main.next <= Len(indexQueue)
      BY <1>2 DEF Keys!ReadLoop, Keys!queueVars, Keys!loopPart
    <3> DEFINE taken == [pair |-> indexQueue[main.next], pose |-> Keys!Entry(poseQueue, main.next),
                         noise |-> Keys!Entry(noiseQueue, main.next), torn |-> torn]
    <3>2. loops' = loops \cup {taken}  BY <1>2 DEF Keys!ReadLoop
    <3>3. taken.pair = indexQueue[main.next]  OBVIOUS
    <3>4. main'.at = main.at /\ main'.next = main.next + 1  BY <1>t, <3>1
    <3> HIDE DEF taken
    <3> QED  BY <3>1, <3>2, <3>3, <3>4
  <2>2. ASSUME NEW i \in 1 .. Len(indexQueue), i < main.next + 1 PROVE Kept(indexQueue[i])'
    <3>1. i < main.next \/ i = main.next  BY <1>t, <2>2
    <3>2. CASE i = main.next  BY <2>1, <3>2 DEF Kept
    <3>3. CASE i < main.next
      BY <1>o, <2>1, <3>3, KnownStays DEF RememberedInv
    <3> QED  BY <3>1, <3>2, <3>3
  <2>3. \A pair : Known(pair) => Known(pair)'  BY <1>o, <2>1, KnownStays
  <2> QED  BY <1>t, <2>1, <2>2, <2>3 DEF RememberedInv
<1>3. CASE Keys!LeaveLoops
  <2>1. /\ UNCHANGED <<loops, indexQueue, container, finder>>
        /\ main.at = "loops" /\ main'.at = "indices" /\ main.next > Len(indexQueue)
    BY <1>t, <1>3 DEF Keys!LeaveLoops, Keys!Go, Keys!queueVars, Keys!loopPart, Keys!graphVars
  <2>2. \A i \in 1 .. Len(indexQueue) : Kept(indexQueue[i])
    BY <1>t, <2>1 DEF RememberedInv
  <2> QED  BY <1>o, <2>1, <2>2, KnownStays DEF RememberedInv
<1>4. CASE Keys!ClearIndices
  <2>1. /\ UNCHANGED <<loops, container, finder>>
        /\ main.at = "indices" /\ main'.at = "poses"
    BY <1>t, <1>4 DEF Keys!ClearIndices, Keys!Go, Keys!loopPart, Keys!graphVars
  <2>2. \A pair : Known(pair) => Kept(pair)
    BY <2>1 DEF RememberedInv, Known
  <2>3. \A pair : Known(pair) => Known(pair)'
    BY <1>o, <2>1, <2>2, KnownStays DEF Known
  <2> QED  BY <2>1, <2>3 DEF RememberedInv
<1>5. CASE \/ Keys!ClearPoses \/ Keys!ClearNoises
           \/ Keys!Optimise \/ Keys!PushPose \/ Keys!PushCloud \/ Keys!CorrectPoses
  <2>1. /\ UNCHANGED <<loops, indexQueue, container, finder>>
        /\ main'.at \in {"noises", "optimise", "push", "cloud", "correct", "idle"}
    BY <1>t, <1>5 DEF Keys!ClearPoses, Keys!ClearNoises, Keys!Optimise, Keys!PushPose,
         Keys!PushCloud, Keys!CorrectPoses, Keys!Go, Keys!queueVars, Keys!loopPart,
         Keys!graphVars
  <2> QED  BY <1>o, <2>1, KnownStays DEF RememberedInv
<1> QED  BY <1>1, <1>2, <1>3, <1>4, <1>5 DEF Keys!Main

\* and as the steps of the thread do
LEMMA RememberedByThread ==
    ASSUME KeyInv, RememberedInv, Keys!Loop, Keys!Observe
    PROVE  RememberedInv'
<1>o. /\ overlapped \subseteq overlapped'
      /\ Keys!Overlap' => finder'.pair \in overlapped'
  BY DEF Keys!Observe
<1>t. /\ finder = [at |-> finder.at, copy3 |-> finder.copy3, copy6 |-> finder.copy6,
                   pair |-> finder.pair]
      /\ Len(indexQueue) \in Nat /\ indexQueue \in Seq(Pairs) /\ finder.pair \in Pairs
      /\ main.next \in Nat
  BY DEF KeyInv, KeyTypes
<1>1. CASE \/ Keys!CopyPoses3 \/ Keys!CopyPoses6
           \/ \E pre \in 0 .. finder.copy3 - 1 : Keys!Detect(pre)
           \/ \E good \in BOOLEAN : Keys!Match(good)
  <2>1. /\ UNCHANGED <<loops, indexQueue, container, main>>
        /\ finder'.at \notin {"pose", "noise", "remember"}
    BY <1>t, <1>1 DEF Keys!CopyPoses3, Keys!CopyPoses6, Keys!Detect, Keys!Match, Keys!mainPart,
         Keys!graphVars, Keys!queueVars
  <2> QED  BY <1>o, <2>1, KnownStays DEF RememberedInv
<1>2. CASE Keys!PushIndex
  <2>1. /\ UNCHANGED <<loops, container, main>> /\ finder'.at = "pose"
        /\ finder'.pair = finder.pair /\ indexQueue' = Append(indexQueue, finder.pair)
    BY <1>t, <1>2 DEF Keys!PushIndex, Keys!mainPart, Keys!graphVars
  <2>2. /\ Len(indexQueue') = Len(indexQueue) + 1
        /\ \A i \in 1 .. Len(indexQueue) : indexQueue'[i] = indexQueue[i]
        /\ indexQueue'[Len(indexQueue) + 1] = finder.pair
    BY <1>t, <2>1, AppendProperties
  <2>3. \A pair : Kept(pair) => Kept(pair)'  BY <1>o, <2>1, KnownStays
  <2>4. \A pair : Known(pair) => Known(pair)'
    BY <1>t, <2>2, <2>3 DEF Known
  <2>5. Known(finder.pair)'  BY <1>t, <2>1, <2>2 DEF Known
  <2>6. ASSUME main.at = "loops"
        PROVE  /\ main.next <= Len(indexQueue') + 1
               /\ \A i \in 1 .. Len(indexQueue') :
                    i < main.next => Kept(indexQueue[i])'
    <3>1. main.next <= Len(indexQueue) + 1
          /\ \A i \in 1 .. Len(indexQueue) : i < main.next => Kept(indexQueue[i])
      BY <2>6 DEF RememberedInv
    <3>2. ASSUME NEW i \in 1 .. Len(indexQueue'), i < main.next PROVE Kept(indexQueue[i])'
      <4>1. i \in 1 .. Len(indexQueue)  BY <1>t, <2>2, <3>1, <3>2
      <4>2. indexQueue'[i] = indexQueue[i] /\ Kept(indexQueue[i])  BY <2>2, <3>1, <3>2, <4>1
      <4> QED  BY <1>o, <2>1, <4>2 DEF Kept
    <3> QED  BY <1>t, <2>2, <3>1, <3>2
  <2>7. ASSUME main.at = "indices", NEW i \in 1 .. Len(indexQueue')
        PROVE  Kept(indexQueue[i])'
    <3>1. finder'.pair \in overlapped'  BY <1>o, <2>1, <2>7 DEF Keys!Overlap
    <3>2. i \in 1 .. Len(indexQueue) \/ i = Len(indexQueue) + 1  BY <1>t, <2>2
    <3>3. CASE i = Len(indexQueue) + 1  BY <2>1, <2>2, <3>1, <3>3 DEF Kept
    <3>4. CASE i \in 1 .. Len(indexQueue)
      <4>1. indexQueue'[i] = indexQueue[i] /\ Kept(indexQueue[i])
        BY <2>2, <2>7, <3>4 DEF RememberedInv
      <4> QED  BY <1>o, <2>1, <4>1 DEF Kept
    <3> QED  BY <3>2, <3>3, <3>4
  <2> QED  BY <2>1, <2>4, <2>5, <2>6, <2>7 DEF RememberedInv
<1>3. CASE Keys!PushLoopPose \/ Keys!PushNoise \/ Keys!Remember
  <2>1. /\ UNCHANGED <<loops, indexQueue, main>> /\ finder'.pair = finder.pair
        /\ finder.at \in {"pose", "noise", "remember"}
        /\ container' \subseteq container \cup {finder.pair[1]}
    BY <1>t, <1>3 DEF Keys!PushLoopPose, Keys!PushNoise, Keys!Remember, Keys!mainPart,
         Keys!graphVars, Keys!queueVars
  <2>2. Known(finder.pair)  BY <2>1 DEF RememberedInv
  <2>3. \A pair : (Kept(pair) => Kept(pair)') /\ (Known(pair) => Known(pair)')
    BY <1>o, <2>1, KnownStays
  <2>4. ASSUME NEW key \in container' PROVE \E pair : pair[1] = key /\ Known(pair)'
    <3>1. PICK pair : pair[1] = key /\ Known(pair)  BY <2>1, <2>2 DEF RememberedInv
    <3> QED  BY <2>3, <3>1
  <2>5. Known(finder.pair)'  BY <2>1, <2>2, <2>3
  <2> QED  BY <2>1, <2>3, <2>4, <2>5 DEF RememberedInv
<1> QED  BY <1>1, <1>2, <1>3 DEF Keys!Loop

\* Every step of either thread keeps the queues of the loops in order.
LEMMA LoopsStep == KeyInv /\ LoopInv /\ [Keys!Next]_Keys!frameVars => LoopInv'
<1> SUFFICES ASSUME KeyInv, LoopInv, [Keys!Next]_Keys!frameVars PROVE LoopInv'  OBVIOUS
<1>1. CASE UNCHANGED Keys!frameVars
  <2>1. UNCHANGED <<loops, main, indexQueue, poseQueue, noiseQueue, container, finder, torn,
                    overlapped>>
    BY <1>1 DEF Keys!frameVars, Keys!graphVars, Keys!queueVars, Keys!historyVars
  <2>2. MeasuredInv'
    BY <2>1 DEF LoopInv, MeasuredInv, SameLoops, OwnMeasurement, Keys!Overlap
  <2>3. RememberedInv'  BY <2>1 DEF LoopInv, RememberedInv, Known, Kept
  <2> QED  BY <2>2, <2>3 DEF LoopInv
<1>2. CASE Keys!Next
  <2>1. (Keys!Main \/ Keys!Loop) /\ Keys!Observe  BY <1>2 DEF Keys!Next
  <2>2. torn' = (Keys!Overlap' \/ (torn /\ ~Keys!Emptied'))  BY <2>1 DEF Keys!Observe
  <2>3. ~torn' => SameLoops'
    <3> SUFFICES ASSUME ~torn' PROVE SameLoops'  OBVIOUS
    <3>1. CASE Keys!Emptied'  BY <3>1 DEF Keys!Emptied, SameLoops
    <3>2. CASE ~Keys!Emptied'
      BY <2>1, <2>2, <3>2, SameLoopsStep DEF LoopInv, MeasuredInv
    <3> QED  BY <3>1, <3>2
  <2>4. OwnMeasurement'  BY <2>1, OwnMeasurementStep DEF LoopInv
  <2>5. torn' \in BOOLEAN /\ (Keys!Overlap' => torn')
    BY <2>2 DEF Keys!Overlap, Keys!Emptied, LoopInv, MeasuredInv
  <2>6. MeasuredInv'  BY <2>3, <2>4, <2>5 DEF MeasuredInv
  <2>7. RememberedInv'  BY <2>1, RememberedByFrame, RememberedByThread DEF LoopInv
  <2> QED  BY <2>6, <2>7 DEF LoopInv
<1> QED  BY <1>1, <1>2

\* A loop has its own measurement, and one that is remembered is not lost.
LEMMA LoopsMeasured == KeyInv /\ LoopInv => Keys!LoopsAreMeasured
<1> SUFFICES ASSUME KeyInv, LoopInv PROVE Keys!LoopsAreMeasured  OBVIOUS
<1>1. \A f \in loops : f.torn \/ (f.pose = f.pair /\ f.noise = f.pair)
  BY DEF LoopInv, MeasuredInv, OwnMeasurement
<1>2. DOMAIN indexQueue = 1 .. Len(indexQueue)  BY DEF KeyInv, KeyTypes
<1>3. ASSUME NEW pair, Known(pair)
      PROVE  pair \in {f.pair : f \in loops} \cup Keys!Range(indexQueue) \cup overlapped
  BY <1>2, <1>3 DEF Known, Kept, Keys!Range
<1>4. ASSUME NEW key \in container
      PROVE  \E p \in {f.pair : f \in loops} \cup Keys!Range(indexQueue) \cup overlapped :
               p[1] = key
  <2>1. PICK pair : pair[1] = key /\ Known(pair)  BY DEF LoopInv, RememberedInv
  <2> QED  BY <1>3, <2>1
<1> QED  BY <1>1, <1>4 DEF Keys!LoopsAreMeasured
-----------------------------------------------------------------------------
(* The static map filter                                                   *)

EvidenceFields == {"odds", "hits", "first", "last", "seen", "gen"}

\* Of cells and voxels at a time, with the generations below g given out
CellsKnown(cells, now, g) ==
    /\ IsFiniteSet(DOMAIN cells)
    /\ \A c \in DOMAIN cells :
         /\ DOMAIN cells[c] = EvidenceFields
         /\ cells[c].gen \in Nat /\ cells[c].gen < g
         /\ cells[c].first \in Int /\ cells[c].first <= now
VoxelsKnown(summed, g) ==
    \A v \in DOMAIN summed : summed[v].gen \in Nat /\ summed[v].gen < g /\ summed[v].since \in Int

\* A voxel of the generation of its cell has no point from before the cell was found.
OfThisLife(cells, summed) ==
    \A v \in DOMAIN summed :
        /\ CellOf[v] \in DOMAIN cells
        /\ cells[CellOf[v]].gen = summed[v].gen
        => summed[v].since >= cells[CellOf[v]].first

Lives(cells, summed, now, g) ==
    CellsKnown(cells, now, g) /\ VoxelsKnown(summed, g) /\ OfThisLife(cells, summed)

StaticInv == stamp \in Int /\ generation \in Nat /\ Lives(temporal, voxels, stamp, generation)

\* What the filter's module counts is what is counted here.
LEMMA SameCounts ==
    \A S : (Static!IsFiniteSet(S) <=> IsFiniteSet(S)) /\ Static!Cardinality(S) = Cardinality(S)
BY Zenon DEF Static!IsFiniteSet, IsFiniteSet, Static!Cardinality, Cardinality

\* The new cells of a scan that are admitted get generations that were not given out
\* before, and all that are given out are counted.
LEMMA Admission ==
    ASSUME StaticInv, NEW seen \in SUBSET MapCells
    PROVE  /\ IsFiniteSet(Static!Admitted(seen))
           /\ Cardinality(Static!Admitted(seen)) \in Nat
           /\ \A c \in Static!Admitted(seen) :
                /\ Static!Before(c, Static!NewCells(seen)) \in Nat
                /\ Static!Before(c, Static!NewCells(seen)) < Cardinality(Static!Admitted(seen))
<1> DEFINE New == Static!NewCells(seen)
           Adm == Static!Admitted(seen)
           Less(c) == {d \in New : d < c}
<1>1. IsFiniteSet(New) /\ New \subseteq Nat
  <2>1. IsFiniteSet(MapCells) /\ CellOf \in [MapCells -> Nat]
    <3>1. Static!FilterAssumption  BY MappingAssumptions
    <3> QED  BY <3>1, SameCounts DEF Static!FilterAssumption
  <2>2. IsFiniteSet(seen)  BY <2>1, FS_Subset
  <2>3. IsFiniteSet({CellOf[v] : v \in seen})
    <3> DEFINE f == [v \in seen |-> CellOf[v]]
               T == {CellOf[v] : v \in seen}
    <3>1. f \in Surjection(seen, T)  BY DEF Surjection
    <3> HIDE DEF f, T
    <3>2. IsFiniteSet(T)  BY <2>2, <3>1, FS_Surjection
    <3> QED  BY <3>2 DEF T
  <2>4. New \subseteq {CellOf[v] : v \in seen}  BY DEF Static!NewCells, Static!Occupied
  <2> QED  BY <2>1, <2>3, <2>4, FS_Subset
<1>2. Adm \subseteq New  BY DEF Static!Admitted
<1>3. IsFiniteSet(Adm) /\ Cardinality(Adm) \in Nat  BY <1>1, <1>2, FS_Subset, FS_CardinalityType
<1>4. MaxTemporal \in Nat /\ Cardinality(DOMAIN temporal) \in Nat
  <2>1. Static!FilterAssumption  BY MappingAssumptions
  <2>2. MaxTemporal \in Nat  BY <2>1 DEF Static!FilterAssumption
  <2>3. IsFiniteSet(DOMAIN temporal)  BY DEF StaticInv, Lives, CellsKnown
  <2> QED  BY <2>2, <2>3, FS_CardinalityType
<1>5. \A c \in New : IsFiniteSet(Less(c)) /\ Cardinality(Less(c)) \in Nat
  <2> SUFFICES ASSUME NEW c \in New PROVE IsFiniteSet(Less(c)) /\ Cardinality(Less(c)) \in Nat
    OBVIOUS
  <2> Less(c) \subseteq New  OBVIOUS
  <2> QED  BY <1>1, FS_Subset, FS_CardinalityType
<1>6. ASSUME NEW c \in Adm
      PROVE  Static!Before(c, New) \in Nat /\ Static!Before(c, New) < Cardinality(Adm)
  <2>1. Static!Before(c, New) = Cardinality(Less(c)) /\ c \in New
    BY <1>2, SameCounts DEF Static!Before
  <2>2. Less(c) \subseteq Adm
    <3> SUFFICES ASSUME NEW d \in New, d < c PROVE d \in Adm  OBVIOUS
    <3>1. Less(d) \subseteq Less(c)
      <4>1. c \in Nat /\ d \in Nat /\ \A e \in New : e \in Nat  BY <1>1, <2>1
      <4> HIDE DEF New
      <4>2. ASSUME NEW e \in New, e < d PROVE e < c  BY <4>1, <4>2
      <4> QED  BY <4>2
    <3>2. Cardinality(Less(d)) <= Cardinality(Less(c))  BY <1>5, <2>1, <3>1, FS_Subset
    <3>3. Cardinality(DOMAIN temporal) + Cardinality(Less(c)) < MaxTemporal
      <4>1. c \in Static!Admitted(seen)  OBVIOUS
      <4>2. Cardinality(DOMAIN temporal) + Static!Before(c, Static!NewCells(seen)) < MaxTemporal
        BY <4>1, SameCounts DEF Static!Admitted
      <4> QED  BY <4>2, SameCounts DEF Static!Before
    <3>4. Cardinality(DOMAIN temporal) + Cardinality(Less(d)) < MaxTemporal
      <4> HIDE DEF Less, New
      <4> QED  BY <1>4, <1>5, <2>1, <3>2, <3>3
    <3>5. d \in Static!NewCells(seen)
            /\ Cardinality(DOMAIN temporal) + Static!Before(d, Static!NewCells(seen)) < MaxTemporal
      BY <3>4, SameCounts DEF Static!Before
    <3> QED  BY <3>5, SameCounts DEF Static!Admitted
  <2>3. c \notin Less(c)
    <3>1. c \in Nat  BY <1>1, <2>1
    <3> QED  BY <3>1
  <2>4. Cardinality(Less(c) \cup {c}) = Cardinality(Less(c)) + 1
    BY <1>5, <2>1, <2>3, FS_AddElement
  <2>5. Cardinality(Less(c) \cup {c}) <= Cardinality(Adm)
    <3> Less(c) \cup {c} \subseteq Adm  BY <2>2
    <3> QED  BY <1>3, FS_Subset
  <2> HIDE DEF Less, New, Adm
  <2> QED  BY <1>3, <1>5, <2>1, <2>4, <2>5
<1> QED  BY <1>3, <1>6

\* After the hits a cell is as it was found, and a new one is found now.
LEMMA HitsKeep ==
    ASSUME StaticInv, NEW now \in Int, now > stamp, NEW seen \in SUBSET MapCells
    PROVE  LET hit == Static!UpdateHits(now, seen)
           IN  /\ CellsKnown(hit, now, generation + Cardinality(Static!Admitted(seen)))
               /\ \A c \in DOMAIN hit :
                    \/ c \in DOMAIN temporal /\ hit[c].gen = temporal[c].gen
                                             /\ hit[c].first = temporal[c].first
                    \/ hit[c].gen >= generation
<1> USE DEF StaticInv
<1> DEFINE hit == Static!UpdateHits(now, seen)
           Adm == Static!Admitted(seen)
           g == generation + Cardinality(Adm)
<1>1. DOMAIN hit = DOMAIN temporal \cup Adm /\ IsFiniteSet(DOMAIN hit)
  BY Admission, FS_Union DEF Static!UpdateHits, Lives, CellsKnown
<1>2. ASSUME NEW c \in DOMAIN temporal
      PROVE  /\ hit[c].gen = temporal[c].gen /\ hit[c].first = temporal[c].first
             /\ DOMAIN hit[c] = EvidenceFields
             /\ temporal[c].gen \in Nat /\ temporal[c].gen < generation
             /\ temporal[c].first \in Int /\ temporal[c].first <= stamp
  <2>1. /\ DOMAIN temporal[c] = EvidenceFields
        /\ temporal[c].gen \in Nat /\ temporal[c].gen < generation
        /\ temporal[c].first \in Int /\ temporal[c].first <= stamp
    BY DEF Lives, CellsKnown
  <2>2. hit[c] = temporal[c] \/ \E odds, hits :
          hit[c] = [temporal[c] EXCEPT !.odds = odds, !.hits = hits, !.last = now, !.seen = now]
    BY DEF Static!UpdateHits, Static!Evidence
  <2> HIDE DEF hit
  <2> QED  BY <2>1, <2>2 DEF EvidenceFields
<1>3. ASSUME NEW c \in Adm
      PROVE  /\ hit[c].gen = generation + Static!Before(c, Static!NewCells(seen))
             /\ hit[c].first = now
             /\ DOMAIN hit[c] = EvidenceFields
  <2>1. c \notin DOMAIN temporal /\ c \in Static!Occupied(seen)
    BY DEF Static!Admitted, Static!NewCells
  <2>2. \E odds, hits :
          hit[c] = [odds |-> odds, hits |-> hits, first |-> now, last |-> now, seen |-> now,
                    gen |-> generation + Static!Before(c, Static!NewCells(seen))]
    BY <2>1 DEF Static!UpdateHits, Static!Evidence
  <2> HIDE DEF hit
  <2> QED  BY <2>2 DEF EvidenceFields
<1>4. ASSUME NEW c \in Adm
      PROVE  hit[c].gen \in Nat /\ hit[c].gen >= generation /\ hit[c].gen < g
  <2> DEFINE before == Static!Before(c, Static!NewCells(seen))
  <2>1. before \in Nat /\ before < Cardinality(Adm) /\ Cardinality(Adm) \in Nat  BY Admission
  <2> HIDE DEF before, Adm
  <2> QED  BY <1>3, <2>1 DEF before
<1>5. Cardinality(Adm) \in Nat /\ g \in Nat /\ generation <= g /\ stamp \in Int
  <2>1. Cardinality(Adm) \in Nat  BY Admission
  <2> HIDE DEF Adm
  <2> QED  BY <2>1
<1> HIDE DEF hit, Adm, g
<1>6. CellsKnown(hit, now, g)
  <2>1. ASSUME NEW c \in DOMAIN hit
        PROVE  /\ DOMAIN hit[c] = EvidenceFields
               /\ hit[c].gen \in Nat /\ hit[c].gen < g
               /\ hit[c].first \in Int /\ hit[c].first <= now
    <3>1. CASE c \in DOMAIN temporal  BY <1>2, <1>5, <3>1
    <3>2. CASE c \in Adm  BY <1>3, <1>4, <3>2
    <3> QED  BY <1>1, <3>1, <3>2
  <2> QED  BY <1>1, <2>1 DEF CellsKnown
<1>7. \A c \in DOMAIN hit :
        \/ c \in DOMAIN temporal /\ hit[c].gen = temporal[c].gen
                                 /\ hit[c].first = temporal[c].first
        \/ hit[c].gen >= generation
  BY <1>1, <1>2, <1>4
<1> QED  BY <1>6, <1>7 DEF g, hit, Adm

\* The points summed in a voxel are of the life its cell is in.
LEMMA SumsKeep ==
    ASSUME StaticInv, NEW now \in Int, now > stamp, NEW seen \in SUBSET MapCells
    PROVE  LET hit == Static!UpdateHits(now, seen)
           IN  Lives(hit, Static!SumPoints(hit, now, seen), now,
                     generation + Cardinality(Static!Admitted(seen)))
<1> DEFINE hit == Static!UpdateHits(now, seen)
           g == generation + Cardinality(Static!Admitted(seen))
           summed == Static!SumPoints(hit, now, seen)
<1>1. /\ CellsKnown(hit, now, g)
      /\ \A c \in DOMAIN hit :
           \/ c \in DOMAIN temporal /\ hit[c].gen = temporal[c].gen
                                    /\ hit[c].first = temporal[c].first
           \/ hit[c].gen >= generation
  BY HitsKeep
<1>2. g \in Nat /\ generation <= g  BY Admission DEF StaticInv
<1>3. Lives(temporal, voxels, stamp, generation) /\ generation \in Nat  BY DEF StaticInv
<1> HIDE DEF hit, g
<1>4. \A v \in DOMAIN summed :
        \/ v \in DOMAIN voxels /\ summed[v] = voxels[v]
        \/ /\ CellOf[v] \in DOMAIN hit
           /\ summed[v] = [gen |-> hit[CellOf[v]].gen, since |-> now]
  BY DEF Static!SumPoints
<1> HIDE DEF summed
<1>5. VoxelsKnown(summed, g)
  BY <1>1, <1>2, <1>3, <1>4 DEF VoxelsKnown, CellsKnown, Lives
<1>6. OfThisLife(hit, summed)
  <2> SUFFICES ASSUME NEW v \in DOMAIN summed, CellOf[v] \in DOMAIN hit,
                      hit[CellOf[v]].gen = summed[v].gen
               PROVE  summed[v].since >= hit[CellOf[v]].first
    BY DEF OfThisLife
  <2>1. CASE v \in DOMAIN voxels /\ summed[v] = voxels[v]
    <3>1. voxels[v].gen < generation /\ voxels[v].gen \in Nat
      BY <1>3, <2>1 DEF Lives, VoxelsKnown
    <3>2. hit[CellOf[v]].gen < generation  BY <2>1, <3>1
    <3>3. hit[CellOf[v]].gen \in Nat  BY <1>1 DEF CellsKnown
    <3>4. CellOf[v] \in DOMAIN temporal /\ hit[CellOf[v]].gen = temporal[CellOf[v]].gen
            /\ hit[CellOf[v]].first = temporal[CellOf[v]].first
      BY <1>1, <1>3, <3>2, <3>3
    <3> QED  BY <1>3, <2>1, <3>4 DEF Lives, OfThisLife
  <2>2. CASE summed[v] = [gen |-> hit[CellOf[v]].gen, since |-> now]
    BY <1>1, <2>2 DEF CellsKnown
  <2> QED  BY <1>4, <2>1, <2>2
<1> QED  BY <1>1, <1>5, <1>6 DEF Lives, hit, g, summed

\* What the rays and the clean-up leave is as it was.
LEMMA FewerLive ==
    ASSUME NEW cells, NEW summed, NEW now, NEW g, Lives(cells, summed, now, g),
           NEW fewer, NEW kept, DOMAIN fewer \subseteq DOMAIN cells,
           DOMAIN kept \subseteq DOMAIN summed,
           \A c \in DOMAIN fewer : /\ DOMAIN fewer[c] = DOMAIN cells[c]
                                   /\ fewer[c].gen = cells[c].gen
                                   /\ fewer[c].first = cells[c].first,
           \A v \in DOMAIN kept : kept[v] = summed[v]
    PROVE  Lives(fewer, kept, now, g)
<1>1. IsFiniteSet(DOMAIN fewer)  BY FS_Subset DEF Lives, CellsKnown
<1>2. CellsKnown(fewer, now, g)  BY <1>1 DEF Lives, CellsKnown
<1>3. VoxelsKnown(kept, g)  BY DEF Lives, VoxelsKnown
<1>4. OfThisLife(fewer, kept)
  <2> SUFFICES ASSUME NEW v \in DOMAIN kept, CellOf[v] \in DOMAIN fewer,
                      fewer[CellOf[v]].gen = kept[v].gen
               PROVE  kept[v].since >= fewer[CellOf[v]].first
    BY DEF OfThisLife
  <2>1. summed[v].since >= cells[CellOf[v]].first  BY DEF Lives, OfThisLife
  <2> QED  BY <2>1
<1> QED  BY <1>2, <1>3, <1>4 DEF Lives

\* A scan keeps the invariant (updateScan of static_map_filter.hpp).
LEMMA ScanKeeps ==
    ASSUME StaticInv, NEW now \in Int, NEW seen \in SUBSET MapCells, NEW crossed,
           Static!UpdateScan(now, seen, crossed)
    PROVE  StaticInv'
<1> DEFINE hit == Static!UpdateHits(now, seen)
           summed == Static!SumPoints(hit, now, seen)
           left == Static!UpdateMisses(hit, now, crossed \ Static!Occupied(seen))
           g == generation + Cardinality(Static!Admitted(seen))
<1>1. now > stamp /\ stamp' = now /\ generation' = g
  BY SameCounts, Zenon DEF Static!UpdateScan
<1>2. generation' \in Nat  BY <1>1, Admission DEF StaticInv
<1>3. Lives(hit, summed, now, g)  BY <1>1, SumsKeep
<1>4. /\ DOMAIN temporal' \subseteq DOMAIN left /\ \A c \in DOMAIN temporal' : temporal'[c] = left[c]
      /\ DOMAIN voxels' \subseteq DOMAIN summed /\ \A v \in DOMAIN voxels' : voxels'[v] = summed[v]
  BY DEF Static!UpdateScan, Static!CleanCells, Static!CleanMap
<1> HIDE DEF hit, summed, g
<1>5. DOMAIN left \subseteq DOMAIN hit /\ \A c \in DOMAIN left :
        left[c] = hit[c] \/ \E odds : left[c] = [hit[c] EXCEPT !.odds = odds, !.seen = now]
  BY DEF Static!UpdateMisses
<1> HIDE DEF left
<1>6. \A c \in DOMAIN hit : DOMAIN hit[c] = EvidenceFields  BY <1>3 DEF Lives, CellsKnown
<1>7. \A c \in DOMAIN left : /\ DOMAIN left[c] = DOMAIN hit[c] /\ left[c].gen = hit[c].gen
                             /\ left[c].first = hit[c].first
  <2> SUFFICES ASSUME NEW c \in DOMAIN left
               PROVE  /\ DOMAIN left[c] = DOMAIN hit[c] /\ left[c].gen = hit[c].gen
                      /\ left[c].first = hit[c].first
    OBVIOUS
  <2>1. DOMAIN hit[c] = EvidenceFields  BY <1>5, <1>6
  <2>2. CASE left[c] = hit[c]  BY <2>2
  <2>3. CASE \E odds : left[c] = [hit[c] EXCEPT !.odds = odds, !.seen = now]
    BY <2>1, <2>3 DEF EvidenceFields
  <2> QED  BY <1>5, <2>2, <2>3
<1>8. Lives(temporal', voxels', now, g)
  <2> DEFINE cells == temporal'
             sums == voxels'
  <2>1. /\ DOMAIN cells \subseteq DOMAIN hit /\ DOMAIN sums \subseteq DOMAIN summed
        /\ \A v \in DOMAIN sums : sums[v] = summed[v]
        /\ \A c \in DOMAIN cells : /\ DOMAIN cells[c] = DOMAIN hit[c]
                                  /\ cells[c].gen = hit[c].gen /\ cells[c].first = hit[c].first
    BY <1>4, <1>5, <1>7
  <2> HIDE DEF cells, sums
  <2>2. Lives(cells, sums, now, g)  BY <1>3, <2>1, FewerLive
  <2> QED  BY <2>2 DEF cells, sums
<1> QED  BY <1>1, <1>2, <1>8 DEF StaticInv

\* Every step of the filter keeps the invariant.
LEMMA StaticStep == StaticInv /\ [Static!Next]_Static!filterVars => StaticInv'
<1> SUFFICES ASSUME StaticInv, [Static!Next]_Static!filterVars PROVE StaticInv'  OBVIOUS
<1>1. CASE UNCHANGED Static!filterVars
  BY <1>1 DEF Static!filterVars, StaticInv, Lives, CellsKnown, VoxelsKnown, OfThisLife
<1>2. CASE Static!Next
  <2>1. PICK gap \in Gaps, seen \in SUBSET MapCells :
               \E crossed \in SUBSET (Static!Cells \ Static!Occupied(seen)) :
                  Static!UpdateScan(stamp + gap, seen, crossed)
    BY <1>2 DEF Static!Next
  <2>2. stamp + gap \in Int  BY MappingAssumptions DEF Static!FilterAssumption, StaticInv
  <2> QED  BY <2>1, <2>2, ScanKeeps
<1> QED  BY <1>1, <1>2

\* The filter begins in the invariant.
LEMMA StaticInitially == Static!Init => StaticInv
BY FS_EmptySet
   DEF Static!Init, Static!Nothing, StaticInv, Lives, CellsKnown, VoxelsKnown, OfThisLife

\* What is exported is of the life its cell is in.
LEMMA ExportIsAlive == StaticInv => Static!ExportIsOfThisLife
BY DEF StaticInv, Lives, OfThisLife, Static!ExportIsOfThisLife, Static!Exported
-----------------------------------------------------------------------------
(* The front end                                                           *)

LidarScans == [id : Nat \ {0}, stamp : Nat \ {0}, full : BOOLEAN, span : Spans]
Measures == [scan : LidarScans \cup {Front!NoScan}, beg : Nat, end : Nat, pushed : BOOLEAN,
             mean : 0 .. Period]

FrontTypes ==
    /\ scans \in Seq(LidarScans) /\ times \in Seq(Nat) /\ imus \in Seq(Nat)
    /\ last \in [lidar : Nat, imu : Nat] /\ meas \in Measures
    /\ imuInit \in 1 .. Front!Done /\ loop \in [first : BOOLEAN, tree : BOOLEAN]
    /\ received \in Nat

\* The scans are Period apart, the last one is the last received, and times are theirs.
ScansFollow ==
    /\ Len(times) = Len(scans) /\ \A i \in 1 .. Len(scans) : times[i] = scans[i].stamp
    /\ \A i \in 1 .. Len(scans) - 1 : scans[i + 1].stamp = scans[i].stamp + Period
    /\ scans # <<>> => scans[Len(scans)].stamp = last.lidar
    /\ last.lidar = 0 => scans = <<>> /\ meas.scan = Front!NoScan

\* A measurement lasts no longer than a period, and more than one sample once the mean
\* time of a scan is known.
LastsAsItMay(m) ==
    /\ m.beg > 0 /\ m.end \in m.beg .. m.beg + Period /\ m.end # m.beg + 1
    /\ m.mean = 0 => m.end = m.beg

\* The scan of the measurement is the first in the buffer, or the one before it.
MeasureIsNext ==
    IF meas.scan = Front!NoScan THEN ~meas.pushed
    ELSE /\ LastsAsItMay(meas)
         /\ IF meas.pushed
            THEN scans # <<>> /\ meas.scan = scans[1] /\ meas.beg = scans[1].stamp
            ELSE IF scans = <<>> THEN last.lidar = meas.beg
                                 ELSE scans[1].stamp = meas.beg + Period

\* The stamp of the oldest sample, or of the next one if none is there
Front1 == last.imu + 1 - Len(imus)

\* Samples are one after the other.  After a measurement none is left from before its
\* end, and once the IMU is being initialised the first one left is the next one.
SamplesFollow ==
    /\ \A i \in 1 .. Len(imus) : imus[i] = Front1 + i - 1
    /\ last.imu = 0 => imus = <<>>
    /\ meas.scan # Front!NoScan /\ ~meas.pushed => last.imu >= meas.end /\ Front1 >= meas.end
    /\ imuInit # 1 =>
         /\ meas.scan # Front!NoScan /\ last.imu # 0
         /\ IF meas.pushed THEN Front1 < meas.end ELSE Front1 = meas.end + 1

\* No point is undistorted before the IMU is initialised.
FrameFollows == (imuInit # Front!Done => points = Front!NoScan) /\ Front!FrameIsItsScan

FrontGood == FrontTypes /\ ScansFollow /\ MeasureIsNext /\ SamplesFollow /\ FrameFollows
FrontInv == steady \in BOOLEAN /\ (steady => FrontGood)

\* The constants of the front end.
LEMMA FrontConstants == Period \in Nat /\ Period > 1 /\ MaxInit \in Nat /\ MaxInit > 0
                        /\ Front!Done = MaxInit + 1 /\ Spans \subseteq 1 .. Period
BY MappingAssumptions DEF Front!LaserMappingAssumption, Front!Done

\* The front end begins in the invariant.
LEMMA FrontInitially == Front!Init => FrontInv
<1> SUFFICES ASSUME Front!Init PROVE FrontInv  OBVIOUS
<1>1. /\ scans = <<>> /\ times = <<>> /\ imus = <<>> /\ last = [lidar |-> 0, imu |-> 0]
      /\ meas = [scan |-> Front!NoScan, beg |-> 0, end |-> 0, pushed |-> FALSE, mean |-> 0]
      /\ imuInit = 1 /\ loop = [first |-> TRUE, tree |-> FALSE]
      /\ points = Front!NoScan /\ frame = Front!NoFrame /\ received = 0 /\ steady = TRUE
  BY DEF Front!Init
<1>2. scans \in Seq(LidarScans) /\ times \in Seq(Nat) /\ imus \in Seq(Nat) /\ Len(<<>>) = 0
  BY <1>1, EmptySeq
<1>3. FrontTypes
  <2>1. meas \in Measures  BY <1>1, FrontConstants DEF Measures
  <2> QED  BY <1>1, <1>2, <2>1, FrontConstants DEF FrontTypes
<1>4. ScansFollow /\ MeasureIsNext /\ SamplesFollow
  BY <1>1, <1>2 DEF ScansFollow, MeasureIsNext, SamplesFollow
<1>5. FrameFollows
  BY <1>1 DEF FrameFollows, Front!FrameIsItsScan, Front!NoFrame, Front!NoScan
<1> QED  BY <1>1, <1>3, <1>4, <1>5 DEF FrontInv, FrontGood

\* A scan that arrives in its time is the next one (livox_pcl_cbk).
LEMMA LidarKeeps == ASSUME FrontInv, Front!LidarArrives PROVE FrontInv'
<1> SUFFICES ASSUME steady' PROVE FrontGood'
  BY DEF FrontInv, Front!LidarArrives
<1> USE FrontConstants DEF FrontInv, FrontGood
<1>1. PICK when \in 1 .. MaxTime, whole \in BOOLEAN, length \in Spans :
        /\ when = last.lidar + Period \/ (last.lidar > 0 /\ when = last.lidar - 1)
             \/ last.lidar = 0
        /\ scans' = Append(IF when < last.lidar THEN <<>> ELSE scans,
                           [id |-> received + 1, stamp |-> when, full |-> whole, span |-> length])
        /\ times' = Append(times, when) /\ last' = [last EXCEPT !.lidar = when]
        /\ received' = received + 1 /\ steady' = (steady /\ when > last.lidar)
        /\ UNCHANGED <<imus, meas, imuInit, loop, points, frame>>
  BY DEF Front!LidarArrives
<1>2. FrontGood /\ when > last.lidar  BY <1>1
<1>3. when \in Nat \ {0} /\ last.lidar \in Nat /\ last.imu \in Nat /\ received \in Nat
      /\ (when = last.lidar + Period \/ last.lidar = 0)
  <2>1. last \in [lidar : Nat, imu : Nat] /\ received \in Nat  BY <1>2 DEF FrontTypes
  <2>2. when \in Nat \ {0}  BY <1>1
  <2> QED  BY <1>1, <1>2, <2>1, <2>2
<1> DEFINE fresh == [id |-> received + 1, stamp |-> when, full |-> whole, span |-> length]
<1>4. fresh \in LidarScans /\ fresh.stamp = when  BY <1>3 DEF LidarScans
<1>5. scans' = Append(scans, fresh)  BY <1>1, <1>2, <1>3
<1> HIDE DEF fresh
<1>6. /\ scans \in Seq(LidarScans) /\ scans' \in Seq(LidarScans)
      /\ Len(scans') = Len(scans) + 1 /\ scans'[Len(scans) + 1] = fresh
      /\ \A i \in 1 .. Len(scans) : scans'[i] = scans[i]
  BY <1>2, <1>4, <1>5 DEF FrontTypes
<1>7. last' = [lidar |-> when, imu |-> last.imu]  BY <1>1, <1>2 DEF FrontTypes
<1>8. FrontTypes'
  <2>1. times' \in Seq(Nat)
    <3>1. times \in Seq(Nat) /\ times' = Append(times, when) /\ when \in Nat
      BY <1>1, <1>2, <1>3 DEF FrontTypes
    <3> QED  BY <3>1, AppendProperties
  <2>2. UNCHANGED <<imus, meas, imuInit, loop>> /\ received' = received + 1  BY <1>1
  <2>3. FrontTypes  BY <1>2
  <2> QED  BY <1>3, <1>6, <1>7, <2>1, <2>2, <2>3 DEF FrontTypes
<1>9. ScansFollow'
  <2>1. Len(times') = Len(scans') /\ \A i \in 1 .. Len(scans') : times'[i] = scans'[i].stamp
    <3>1. /\ Len(times) = Len(scans) /\ Len(scans) \in Nat /\ times \in Seq(Nat) /\ when \in Nat
          /\ \A i \in 1 .. Len(scans) : times[i] = scans[i].stamp
      BY <1>2, <1>3 DEF FrontTypes, ScansFollow
    <3>2. /\ Len(times') = Len(times) + 1 /\ times'[Len(times) + 1] = when
          /\ \A i \in 1 .. Len(times) : times'[i] = times[i]
      BY <1>1, <3>1, AppendProperties
    <3>3. ASSUME NEW i \in 1 .. Len(scans') PROVE times'[i] = scans'[i].stamp
      <4>1. i \in 1 .. Len(scans) \/ i = Len(scans) + 1  BY <1>6, <3>1
      <4>2. CASE i \in 1 .. Len(scans)  BY <1>6, <3>1, <3>2, <4>2
      <4>3. CASE i = Len(scans) + 1  BY <1>4, <1>6, <3>1, <3>2, <4>3
      <4> QED  BY <4>1, <4>2, <4>3
    <3>4. Len(times') = Len(scans')  BY <1>6, <3>1, <3>2
    <3> QED  BY <3>3, <3>4
  <2>2. \A i \in 1 .. Len(scans') - 1 : scans'[i + 1].stamp = scans'[i].stamp + Period
    <3>1. scans # <<>> => scans[Len(scans)].stamp = last.lidar /\ last.lidar # 0
      BY <1>2 DEF ScansFollow
    <3>2. \A i \in 1 .. Len(scans) - 1 : scans[i + 1].stamp = scans[i].stamp + Period
      BY <1>2 DEF ScansFollow
    <3>3. Len(scans) \in Nat /\ Len(scans') - 1 = Len(scans)  BY <1>6
    <3>4. ASSUME NEW i \in 1 .. Len(scans)
          PROVE  scans'[i + 1].stamp = scans'[i].stamp + Period
      <4>1. scans'[i] = scans[i]  BY <1>6
      <4>2. CASE i # Len(scans)
        <5>1. i \in 1 .. Len(scans) - 1 /\ i + 1 \in 1 .. Len(scans)  BY <3>3, <4>2
        <5>2. scans'[i + 1] = scans[i + 1]  BY <1>6, <5>1
        <5> QED  BY <3>2, <4>1, <5>1, <5>2
      <4>3. CASE i = Len(scans)
        <5>1. scans # <<>>  BY <3>3, <4>3
        <5>2. scans[i].stamp = last.lidar /\ when = last.lidar + Period
          BY <1>3, <3>1, <4>3, <5>1
        <5> QED  BY <1>4, <1>6, <4>1, <4>3, <5>2
      <4> QED  BY <4>2, <4>3
    <3> QED  BY <3>3, <3>4
  <2>3. scans'[Len(scans')].stamp = when /\ last'.lidar = when  BY <1>4, <1>6, <1>7
  <2> QED  BY <1>3, <2>1, <2>2, <2>3 DEF ScansFollow
<1>10. MeasureIsNext'
  <2>1. CASE meas.scan = Front!NoScan  BY <1>1, <1>2, <2>1 DEF MeasureIsNext, LastsAsItMay
  <2>2. CASE meas.scan # Front!NoScan /\ scans # <<>>
    <3>1. scans'[1] = scans[1] /\ scans' # <<>>
      <4>1. Len(scans) \in Nat \ {0}  BY <1>6, <2>2
      <4>2. 1 \in 1 .. Len(scans) /\ Len(scans') # 0  BY <1>6, <4>1
      <4> QED  BY <1>6, <4>2
    <3>2. UNCHANGED meas  BY <1>1
    <3>3. MeasureIsNext  BY <1>2
    <3> QED  BY <2>2, <3>1, <3>2, <3>3 DEF MeasureIsNext, LastsAsItMay
  <2>3. CASE meas.scan # Front!NoScan /\ scans = <<>>
    <3>1. ~meas.pushed /\ last.lidar = meas.beg /\ last.lidar # 0 /\ meas.beg > 0
            /\ LastsAsItMay(meas)
      BY <1>2, <2>3 DEF MeasureIsNext, ScansFollow, LastsAsItMay
    <3>2. scans'[1].stamp = meas.beg + Period /\ scans' # <<>>
      <4>1. Len(scans) = 0  BY <2>3, EmptySeq
      <4>2. scans'[1] = fresh /\ Len(scans') = 1  BY <1>6, <4>1
      <4>3. when = last.lidar + Period  BY <1>3, <3>1
      <4>4. scans'[1].stamp = meas.beg + Period  BY <1>4, <3>1, <4>2, <4>3
      <4>5. scans' # <<>>  BY <4>2, EmptySeq
      <4> QED  BY <4>4, <4>5
    <3>3. UNCHANGED meas  BY <1>1
    <3> QED  BY <2>3, <3>1, <3>2, <3>3 DEF MeasureIsNext, LastsAsItMay
  <2> QED  BY <2>1, <2>2, <2>3
<1>11. SamplesFollow' /\ FrameFollows'
  BY <1>1, <1>2, <1>7 DEF SamplesFollow, FrameFollows, Front1, Front!FrameIsItsScan
<1> QED  BY <1>8, <1>9, <1>10, <1>11

\* A sample that arrives in its time is the next one (imu_cbk).
LEMMA ImuKeeps == ASSUME FrontInv, Front!ImuArrives PROVE FrontInv'
<1> SUFFICES ASSUME steady' PROVE FrontGood'
  BY DEF FrontInv, Front!ImuArrives
<1> USE FrontConstants DEF FrontInv, FrontGood
<1>1. PICK when \in 1 .. MaxTime :
        /\ imus' = Append(IF when < last.imu THEN <<>> ELSE imus, when)
        /\ last' = [last EXCEPT !.imu = when]
        /\ steady' = (steady /\ (last.imu = 0 \/ when = last.imu + 1))
        /\ UNCHANGED <<scans, times, meas, imuInit, loop, points, frame, received>>
  BY DEF Front!ImuArrives
<1>2. FrontGood /\ (last.imu = 0 \/ when = last.imu + 1)  BY <1>1
<1>3. when \in Nat \ {0} /\ last.lidar \in Nat /\ last.imu \in Nat
  BY <1>1, <1>2 DEF FrontTypes
<1>4. /\ imus \in Seq(Nat) /\ imus' \in Seq(Nat) /\ Len(imus') = Len(imus) + 1
      /\ imus'[Len(imus) + 1] = when /\ \A i \in 1 .. Len(imus) : imus'[i] = imus[i]
  <2>1. imus \in Seq(Nat) /\ imus' = Append(imus, when) /\ when \in Nat
    BY <1>1, <1>2, <1>3 DEF FrontTypes
  <2> QED  BY <2>1, AppendProperties
<1>5. last' = [lidar |-> last.lidar, imu |-> when]  BY <1>1, <1>2 DEF FrontTypes
<1>6. FrontTypes'  BY <1>1, <1>2, <1>3, <1>4, <1>5 DEF FrontTypes
<1>7. ScansFollow' /\ MeasureIsNext' /\ FrameFollows'
  BY <1>1, <1>2, <1>5
     DEF ScansFollow, MeasureIsNext, LastsAsItMay, FrameFollows, Front!FrameIsItsScan
<1>8. CASE last.imu = 0
  <2>1. imus = <<>> /\ Front1' = when  BY <1>2, <1>3, <1>4, <1>5, <1>8 DEF SamplesFollow, Front1
  <2>2. imuInit = 1  BY <1>2, <1>8 DEF SamplesFollow
  <2>3. meas.scan = Front!NoScan \/ meas.pushed
    <3> SUFFICES ASSUME meas.scan # Front!NoScan, ~meas.pushed PROVE FALSE  OBVIOUS
    <3>1. meas.end > 0
      BY <1>2 DEF MeasureIsNext, LastsAsItMay, FrontTypes, Measures
    <3> QED  BY <1>2, <1>3, <1>8, <3>1 DEF SamplesFollow, FrontTypes, Measures
  <2>4. SamplesFollow'
    BY <1>1, <1>3, <1>4, <1>5, <2>1, <2>2, <2>3 DEF SamplesFollow
  <2> QED  BY <1>6, <1>7, <2>4
<1>9. CASE when = last.imu + 1 /\ last.imu # 0
  <2>1. Front1' = Front1 /\ Front1 \in Int
    <3>1. last'.imu = last.imu + 1 /\ Len(imus') = Len(imus) + 1 /\ Len(imus) \in Nat
      BY <1>4, <1>5, <1>9
    <3> QED  BY <1>3, <3>1 DEF Front1
  <2>2. \A i \in 1 .. Len(imus') : imus'[i] = Front1 + i - 1
    <3>1. when = Front1 + (Len(imus) + 1) - 1  BY <1>3, <1>4, <1>9 DEF Front1
    <3>2. \A i \in 1 .. Len(imus) : imus[i] = Front1 + i - 1  BY <1>2 DEF SamplesFollow
    <3>3. Len(imus) \in Nat  BY <1>4, LenProperties
    <3>4. ASSUME NEW i \in 1 .. Len(imus') PROVE imus'[i] = Front1 + i - 1
      <4>1. CASE i \in 1 .. Len(imus)  BY <1>4, <3>2, <4>1
      <4>2. CASE i = Len(imus) + 1  BY <1>4, <3>1, <4>2
      <4> QED  BY <1>4, <3>3, <4>1, <4>2
    <3> QED  BY <3>4
  <2>3. meas.end \in Nat  BY <1>2 DEF FrontTypes, Measures
  <2>4. SamplesFollow'
    BY <1>1, <1>2, <1>3, <1>5, <1>9, <2>1, <2>2, <2>3 DEF SamplesFollow
  <2> QED  BY <1>6, <1>7, <2>4
<1> QED  BY <1>2, <1>8, <1>9

\* The measurement an iteration works on is of the first scan, and ends late enough for
\* samples to be left for it.
LEMMA PushedIsNext ==
    ASSUME FrontGood, scans # <<>>, NEW m \in Front!Pushed, m.end # m.beg + 1
    PROVE  /\ m \in Measures /\ m.pushed /\ m.scan = scans[1] /\ m.scan # Front!NoScan
           /\ m.beg = scans[1].stamp /\ LastsAsItMay(m)
           /\ imuInit # 1 => Front1 < m.end
<1> USE FrontConstants DEF FrontGood
<1>1. scans[1] \in LidarScans /\ Head(scans) = scans[1] /\ Head(times) = scans[1].stamp
  <2>1. scans \in Seq(LidarScans) /\ times \in Seq(Nat)  BY DEF FrontTypes
  <2>2. Len(scans) \in Nat \ {0} /\ Len(times) = Len(scans)  BY <2>1 DEF ScansFollow
  <2>3. 1 \in 1 .. Len(scans)  BY <2>2
  <2>4. times[1] = scans[1].stamp  BY <2>3 DEF ScansFollow
  <2>5. scans[1] \in LidarScans  BY <2>1, <2>3
  <2>6. Head(scans) = scans[1] /\ Head(times) = times[1]  BY <2>1, <2>2
  <2> QED  BY <2>4, <2>5, <2>6
<1>2. scans[1] # Front!NoScan /\ scans[1].stamp \in Nat \ {0}
  BY <1>1 DEF LidarScans, Front!NoScan
<1>3. CASE meas.pushed
  BY <1>1, <1>2, <1>3 DEF Front!Pushed, MeasureIsNext, LastsAsItMay, SamplesFollow, FrontTypes
<1>4. CASE ~meas.pushed
  <2> DEFINE time == Front!ScanTime(scans[1])
  <2>1. PICK mean \in Front!Means(scans[1]) :
          m = [scan |-> scans[1], beg |-> scans[1].stamp, end |-> scans[1].stamp + time,
               pushed |-> TRUE, mean |-> mean]
    BY <1>1, <1>4 DEF Front!Pushed
  <2>2. /\ scans[1].span \in 1 .. Period /\ meas.mean \in 0 .. Period
        /\ scans[1].span \in Int /\ meas.mean \in Int
    <3>1. scans[1].span \in Spans  BY <1>1 DEF LidarScans
    <3>2. meas.mean \in 0 .. Period  BY DEF FrontTypes, Measures
    <3>3. scans[1].span \in 1 .. Period  BY <3>1
    <3> HIDE DEF FrontGood
    <3> QED  BY <3>2, <3>3
  <2>3. /\ time \in 0 .. Period /\ mean \in 0 .. Period
        /\ mean = 0 => time = 0
        /\ time = 0 => meas.mean = 0
    <3>1. CASE Front!EndsItself(scans[1])
      BY <2>2, <3>1 DEF Front!ScanTime, Front!Means
    <3>2. CASE ~Front!EndsItself(scans[1])
      BY <2>2, <3>2 DEF Front!ScanTime, Front!Means
    <3> QED  BY <3>1, <3>2
  <2> HIDE DEF time
  <2>4. scans[1].stamp + time \in Nat  BY <1>2, <2>3
  <2>5. m \in Measures  BY <1>1, <2>1, <2>3, <2>4, <1>2 DEF Measures
  <2>6. LastsAsItMay(m) /\ time # 1  BY <1>2, <2>1, <2>3 DEF LastsAsItMay
  <2>7. ASSUME imuInit # 1 PROVE Front1 < m.end
    <3>1. meas.scan # Front!NoScan /\ Front1 = meas.end + 1  BY <1>4, <2>7 DEF SamplesFollow
    <3>2. scans[1].stamp = meas.beg + Period /\ LastsAsItMay(meas)
      BY <1>4, <3>1 DEF MeasureIsNext
    <3>3. meas.beg \in Nat /\ meas.end \in Nat  BY DEF FrontTypes, Measures
    <3>4. m.end = meas.beg + Period + time  BY <2>1, <3>2
    <3>5. CASE time = 0
      <4>1. meas.end = meas.beg  BY <2>3, <3>2, <3>5 DEF LastsAsItMay
      <4> QED  BY <3>1, <3>3, <3>4, <3>5, <4>1
    <3>6. CASE time >= 2
      <4>1. meas.end <= meas.beg + Period  BY <3>2 DEF LastsAsItMay
      <4> QED  BY <2>3, <3>1, <3>3, <3>4, <3>6, <4>1
    <3> QED  BY <2>3, <2>6, <3>5, <3>6
  <2> QED  BY <1>2, <2>1, <2>5, <2>6, <2>7
<1> QED  BY <1>3, <1>4

\* An iteration takes the samples up to the end of its scan, and none of a later one; it
\* takes none only if even the first is as late (sync_packages).
LEMMA SamplesTaken ==
    ASSUME FrontGood, imus # <<>>, NEW m \in Measures, Front!Covered(m),
           NEW n, n = Front!SamplesOf(m)
    PROVE  /\ n \in 0 .. Len(imus)
           /\ Front1 >= m.end => n = 0
           /\ Front1 < m.end => n > 0 /\ Front1 + n = m.end + 1
<1> USE DEF FrontGood
<1> DEFINE P(k) == /\ \A j \in 1 .. k : imus[j] <= m.end /\ imus[IF j = 1 THEN 1 ELSE j - 1] < m.end
                   /\ k < Len(imus) =>
                        imus[k + 1] > m.end \/ imus[IF k = 0 THEN 1 ELSE k] >= m.end
<1>1. /\ Len(imus) \in Nat \ {0} /\ Front1 \in Int /\ m.end \in Nat /\ last.imu \in Nat
      /\ \A i \in 1 .. Len(imus) : imus[i] = Front1 + i - 1
      /\ Front1 + Len(imus) = last.imu + 1 /\ last.imu >= m.end
  <2>1. imus \in Seq(Nat) /\ last.imu \in Nat  BY DEF FrontTypes
  <2>2. Len(imus) \in Nat \ {0}  BY <2>1, EmptySeq
  <2>3. m.end \in Nat /\ last.imu >= m.end  BY DEF Measures, Front!Covered
  <2>4. \A i \in 1 .. Len(imus) : imus[i] = Front1 + i - 1  BY DEF SamplesFollow
  <2>5. Front1 = last.imu + 1 - Len(imus)  BY DEF Front1
  <2> QED  BY <2>1, <2>2, <2>3, <2>4, <2>5
<1>2. \E k \in 0 .. Len(imus) : P(k)
  <2>1. CASE Front1 >= m.end
    <3> P(0)  BY <1>1, <2>1
    <3> QED  BY <1>1
  <2>2. CASE Front1 < m.end
    <3> DEFINE k == m.end + 1 - Front1
    <3>1. k \in 1 .. Len(imus) /\ Front1 + k - 1 = m.end  BY <1>1, <2>2
    <3> HIDE DEF k
    <3>2. ASSUME NEW j \in 1 .. k
          PROVE  imus[j] <= m.end /\ imus[IF j = 1 THEN 1 ELSE j - 1] < m.end
      <4>1. imus[j] = Front1 + j - 1 /\ j \in Nat  BY <1>1, <3>1
      <4>2. CASE j = 1  BY <1>1, <2>2, <4>1, <4>2
      <4>3. CASE j # 1
        <5>1. imus[j - 1] = Front1 + (j - 1) - 1
          <6>1. j - 1 \in 1 .. Len(imus)  BY <1>1, <3>1, <4>3
          <6> QED  BY <1>1, <6>1
        <5> QED  BY <1>1, <3>1, <4>1, <4>3, <5>1
      <4> QED  BY <4>2, <4>3
    <3>3. imus[k] >= m.end /\ k # 0  BY <1>1, <3>1
    <3>4. P(k)  BY <3>2, <3>3
    <3> QED  BY <3>1, <3>4
  <2> QED  BY <1>1, <2>1, <2>2
<1>3. n \in 0 .. Len(imus) /\ P(n)
  <2>1. n = CHOOSE k \in 0 .. Len(imus) : P(k)  BY DEF Front!SamplesOf
  <2> HIDE DEF P
  <2> QED  BY <1>2, <2>1
<1>4. ASSUME Front1 >= m.end PROVE n = 0
  <2>1. imus[1] = Front1  BY <1>1
  <2> SUFFICES ASSUME n >= 1 PROVE FALSE  BY <1>3
  <2> QED  BY <1>1, <1>3, <1>4, <2>1
<1>5. ASSUME Front1 < m.end PROVE n > 0 /\ Front1 + n = m.end + 1
  <2>1. imus[1] = Front1  BY <1>1
  <2>2. n > 0  BY <1>1, <1>3, <1>5, <2>1
  <2>3. imus[n] = Front1 + n - 1 /\ imus[n] <= m.end  BY <1>1, <1>3, <2>2
  <2>4. CASE n < Len(imus)
    <3>1. imus[n + 1] = Front1 + n  BY <1>1, <1>3, <2>4
    <3>2. imus[n + 1] > m.end \/ imus[n] >= m.end  BY <1>3, <2>2, <2>4
    <3>3. n \in Int /\ Front1 \in Int /\ m.end \in Int  BY <1>1, <1>3
    <3>4. Front1 + n > m.end \/ Front1 + n - 1 >= m.end  BY <2>3, <3>1, <3>2
    <3>5. Front1 + n - 1 <= m.end  BY <2>3
    <3> HIDE DEF P
    <3> QED  BY <2>2, <3>3, <3>4, <3>5
  <2>5. CASE n = Len(imus)
    <3> HIDE DEF P
    <3> QED  BY <1>1, <2>3, <2>5
  <2> QED  BY <1>3, <2>4, <2>5
<1> QED  BY <1>3, <1>4, <1>5

\* An iteration of the main loop keeps the invariant.
LEMMA IterateKeeps == ASSUME FrontInv, Front!Iterate PROVE FrontInv'
<1> SUFFICES ASSUME steady' PROVE FrontGood'
  BY DEF FrontInv, Front!Iterate
<1> USE FrontConstants
<1>1. FrontGood /\ scans # <<>> /\ imus # <<>> /\ UNCHANGED <<last, received>>
  BY DEF FrontInv, Front!Iterate
<1>p. PICK m \in Front!Pushed :
        LET n == Front!SamplesOf(m)
            samples == SubSeq(imus, 1, n)
        IN  IF ~Front!Covered(m)
            THEN meas' = m /\ UNCHANGED <<scans, times, imus, imuInit, loop, points, frame>>
            ELSE /\ meas' = [m EXCEPT !.pushed = FALSE]
                 /\ imus' = SubSeq(imus, n + 1, Len(imus))
                 /\ scans' = Tail(scans) /\ times' = Tail(times)
                 /\ IF loop.first
                    THEN /\ loop' = [loop EXCEPT !.first = FALSE]
                         /\ UNCHANGED <<imuInit, points, frame>>
                    ELSE Front!Process(m, samples) /\ Front!Map(m, samples)
  BY DEF Front!Iterate
<1> USE DEF FrontGood
<1> DEFINE n == Front!SamplesOf(m)
           samples == SubSeq(imus, 1, n)
<1>q. m.end # m.beg + 1
  <2>1. meas'.end # meas'.beg + 1  BY DEF Front!Iterate
  <2>2. m \in [scan : {m.scan}, beg : {m.beg}, end : {m.end}, pushed : {m.pushed},
               mean : {m.mean}]
    BY <1>1 DEF Front!Pushed, FrontTypes, Measures
  <2>3. meas'.end = m.end /\ meas'.beg = m.beg
    <3> HIDE DEF n, samples
    <3> QED  BY <1>p, <2>2
  <2> QED  BY <2>1, <2>3
<1>2. /\ m \in Measures /\ m.pushed /\ m.scan = scans[1] /\ m.scan # Front!NoScan
      /\ m.beg = scans[1].stamp /\ m.beg > 0 /\ LastsAsItMay(m)
      /\ imuInit # 1 => Front1 < m.end
  BY <1>1, <1>q, PushedIsNext DEF LastsAsItMay
<1>3. CASE ~Front!Covered(m)
  <2>1. meas' = m /\ UNCHANGED <<scans, times, imus, imuInit, loop, points, frame>>
    BY <1>p, <1>3
  <2>2. FrontTypes'  BY <1>1, <1>2, <2>1 DEF FrontTypes
  <2>3. ScansFollow'
    <3>1. last.lidar # 0  BY <1>1 DEF ScansFollow
    <3> QED  BY <1>1, <2>1, <3>1 DEF ScansFollow
  <2>4. MeasureIsNext'  BY <1>1, <1>2, <2>1 DEF MeasureIsNext, LastsAsItMay
  <2>5. SamplesFollow'  BY <1>1, <1>2, <2>1 DEF SamplesFollow, Front1
  <2>6. FrameFollows'  BY <1>1, <2>1 DEF FrameFollows, Front!FrameIsItsScan
  <2> QED  BY <2>2, <2>3, <2>4, <2>5, <2>6
<1>4. CASE Front!Covered(m)
  <2>1. /\ meas' = [m EXCEPT !.pushed = FALSE]
        /\ imus' = SubSeq(imus, n + 1, Len(imus))
        /\ scans' = Tail(scans) /\ times' = Tail(times)
        /\ IF loop.first
           THEN loop' = [loop EXCEPT !.first = FALSE] /\ UNCHANGED <<imuInit, points, frame>>
           ELSE Front!Process(m, samples) /\ Front!Map(m, samples)
    BY <1>p, <1>4
  <2>2. /\ n \in 0 .. Len(imus)
        /\ Front1 >= m.end => n = 0
        /\ Front1 < m.end => n > 0 /\ Front1 + n = m.end + 1
    BY <1>1, <1>2, <1>4, SamplesTaken
  <2>3. last.imu \in Nat /\ m.end \in Nat /\ last.imu >= m.end /\ Front1 \in Int
        /\ Front1 = last.imu + 1 - Len(imus) /\ imus \in Seq(Nat) /\ Len(imus) \in Nat
    <3>1. imus \in Seq(Nat) /\ Len(imus) \in Nat /\ last.imu \in Nat  BY <1>1 DEF FrontTypes
    <3>2. m.end \in Nat  BY <1>2 DEF Measures
    <3>3. last.imu >= m.end  BY <1>4 DEF Front!Covered
    <3>4. Front1 = last.imu + 1 - Len(imus)  BY DEF Front1
    <3> QED  BY <3>1, <3>2, <3>3, <3>4
  <2>4. samples \in Seq(Nat) /\ Len(samples) = n
    <3>1. /\ n \in 0 .. Len(imus) /\ imus \in Seq(Nat) /\ Len(imus) \in Nat
          /\ samples = SubSeq(imus, 1, n)
      BY <2>2, <2>3
    <3> HIDE DEF n, samples
    <3>2. \A i \in 1 .. n : imus[i] \in Nat  BY <3>1, ElementOfSeq
    <3> QED  BY <3>1, <3>2, SubSeqProperties
  <2>5. /\ (imuInit' # 1 => imuInit # 1 \/ n > 0) /\ (imuInit' # Front!Done => imuInit # Front!Done)
        /\ (imuInit # Front!Done => points' = points)
        /\ imuInit' \in 1 .. Front!Done
    <3> HIDE DEF n, samples
    <3>1. CASE loop.first  BY <1>1, <2>1, <3>1 DEF FrontTypes
    <3>2. CASE ~loop.first
      <4>1. /\ imuInit' = IF imuInit = Front!Done THEN Front!Done
                           ELSE IF imuInit + Len(samples) > MaxInit THEN Front!Done
                                ELSE imuInit + Len(samples)
            /\ points' = IF samples # <<>> /\ imuInit = Front!Done THEN m.scan ELSE points
        BY <2>1, <3>2 DEF Front!Process
      <4>2. imuInit \in 1 .. Front!Done /\ n \in Nat /\ Len(samples) = n
        BY <1>1, <2>2, <2>4 DEF FrontTypes
      <4> QED  BY <4>1, <4>2
    <3> QED  BY <3>1, <3>2
  <2>6. loop' \in [first : BOOLEAN, tree : BOOLEAN]
    <3> HIDE DEF n, samples
    <3> QED  BY <1>1, <2>1 DEF FrontTypes, Front!Map
  <2>7. FrameFollows'
    <3>1. imuInit' # Front!Done => points' = Front!NoScan
      BY <1>1, <2>5 DEF FrameFollows
    <3>2. frame' = frame \/ (frame'.scan = m.scan /\ frame'.beg = m.beg /\ frame'.points = points'
                             /\ points' # Front!NoScan /\ ~loop.first)
      <4> HIDE DEF n, samples
      <4> QED  BY <2>1 DEF Front!Map
    <3>3. ASSUME points' # Front!NoScan, ~loop.first PROVE points' = m.scan
      <4>1. imuInit = Front!Done  BY <1>1, <2>5, <3>3 DEF FrameFollows
      <4>2. n > 0  BY <1>2, <2>2, <4>1
      <4>3. samples # <<>>
        <5> HIDE DEF samples, n
        <5> QED  BY <2>4, <4>2
      <4> QED  BY <2>1, <3>3, <4>1, <4>3 DEF Front!Process
    <3> HIDE DEF n, samples
    <3> QED  BY <1>1, <1>2, <3>1, <3>2, <3>3 DEF FrameFollows, Front!FrameIsItsScan
  <2> HIDE DEF n, samples
  <2>8. /\ meas' \in Measures /\ ~meas'.pushed /\ meas'.scan = m.scan /\ meas'.beg = m.beg
        /\ meas'.end = m.end /\ meas'.mean = m.mean
    BY <1>2, <2>1 DEF Measures
  <2>9. /\ Len(scans) \in Nat \ {0} /\ scans' \in Seq(LidarScans) /\ Len(scans') = Len(scans) - 1
        /\ \A i \in 1 .. Len(scans) - 1 : scans'[i] = scans[i + 1]
        /\ times' \in Seq(Nat) /\ Len(times') = Len(scans) - 1
        /\ \A i \in 1 .. Len(scans) - 1 : times'[i] = times[i + 1]
    <3>1. Len(scans) \in Nat \ {0} /\ times # <<>> /\ Len(times) = Len(scans)
      BY <1>1 DEF FrontTypes, ScansFollow
    <3> QED  BY <1>1, <2>1, <3>1 DEF FrontTypes
  <2>10. /\ imus' \in Seq(Nat) /\ Len(imus') = Len(imus) - n
         /\ \A i \in 1 .. Len(imus) - n : imus'[i] = imus[i + n]
    <3>1. imus' = SubSeq(imus, n + 1, Len(imus)) /\ n + 1 \in Int /\ Len(imus) \in Int
      BY <2>1, <2>2, <2>3
    <3>2. \A i \in n + 1 .. Len(imus) : imus[i] \in Nat
      BY <2>2, <2>3, ElementOfSeq
    <3>3. /\ imus' \in Seq(Nat)
          /\ Len(imus') = IF n + 1 <= Len(imus) THEN Len(imus) - (n + 1) + 1 ELSE 0
          /\ \A i \in 1 .. Len(imus) - (n + 1) + 1 : imus'[i] = imus[n + 1 + i - 1]
      BY <3>1, <3>2, SubSeqProperties
    <3> QED  BY <2>2, <2>3, <3>3
  <2>11. Front1' = Front1 + n  BY <1>1, <2>2, <2>3, <2>10 DEF Front1
  <2>12. FrontTypes'  BY <1>1, <2>5, <2>6, <2>8, <2>9, <2>10 DEF FrontTypes
  <2>13. ScansFollow'
    <3>1. last.lidar # 0  BY <1>1 DEF ScansFollow
    <3>2. \A i \in 1 .. Len(scans') : times'[i] = scans'[i].stamp
      <4>1. \A i \in 1 .. Len(scans) : times[i] = scans[i].stamp  BY <1>1 DEF ScansFollow
      <4>2. \A i \in 1 .. Len(scans) - 1 : i + 1 \in 1 .. Len(scans)  BY <2>9
      <4> QED  BY <2>9, <4>1, <4>2
    <3>3. \A i \in 1 .. Len(scans') - 1 : scans'[i + 1].stamp = scans'[i].stamp + Period
      BY <1>1, <2>9 DEF ScansFollow
    <3>4. scans' # <<>> => scans'[Len(scans')].stamp = last.lidar
      BY <1>1, <2>9 DEF ScansFollow
    <3> QED  BY <1>1, <2>9, <3>1, <3>2, <3>3, <3>4 DEF ScansFollow
  <2>14. MeasureIsNext'
    <3>1. CASE Len(scans) = 1
      BY <1>1, <1>2, <2>8, <2>9, <3>1 DEF MeasureIsNext, LastsAsItMay, ScansFollow
    <3>2. CASE Len(scans) > 1
      BY <1>1, <1>2, <2>8, <2>9, <3>2, SMTT(30) DEF MeasureIsNext, LastsAsItMay, ScansFollow
    <3> QED  BY <2>9, <3>1, <3>2
  <2>15. SamplesFollow'
    <3>1. \A i \in 1 .. Len(imus') : imus'[i] = Front1' + i - 1
      <4>1. \A i \in 1 .. Len(imus) : imus[i] = Front1 + i - 1  BY <1>1 DEF SamplesFollow
      <4>2. n \in Nat /\ \A i \in 1 .. Len(imus) - n : i + n \in 1 .. Len(imus)
        BY <2>2, <2>3
      <4>3. \A i \in 1 .. Len(imus) - n : imus[i + n] = Front1 + (i + n) - 1  BY <4>1, <4>2
      <4>4. \A i \in 1 .. Len(imus) - n : Front1 + (i + n) - 1 = Front1' + i - 1
        BY <2>3, <2>11, <4>2
      <4> QED  BY <2>10, <4>3, <4>4
    <3>2. last.imu # 0  BY <1>1 DEF SamplesFollow
    <3>3. last.imu >= meas'.end /\ Front1' >= meas'.end
      BY <2>2, <2>3, <2>8, <2>11
    <3>4. imuInit' # 1 => Front1' = meas'.end + 1
      BY <1>2, <2>2, <2>3, <2>5, <2>8, <2>11
    <3> QED  BY <1>1, <1>2, <2>8, <3>1, <3>2, <3>3, <3>4 DEF SamplesFollow
  <2> QED  BY <2>7, <2>12, <2>13, <2>14, <2>15
<1> QED  BY <1>3, <1>4

\* Every step of the front end keeps the invariant.
LEMMA FrontStep == FrontInv /\ [Front!Next]_Front!vars => FrontInv'
<1> SUFFICES ASSUME FrontInv, [Front!Next]_Front!vars PROVE FrontInv'  OBVIOUS
<1>1. CASE UNCHANGED Front!vars
  BY <1>1 DEF Front!vars, FrontInv, FrontGood, FrontTypes, ScansFollow, MeasureIsNext,
              SamplesFollow, FrameFollows, Front1, Front!FrameIsItsScan
<1>2. CASE Front!Next
  BY <1>2, LidarKeeps, ImuKeeps, IterateKeeps DEF Front!Next
<1> QED  BY <1>1, <1>2

\* While it is steady, frames are their own scans and no old sample is left.
LEMMA FrontIsSteady == FrontInv => Front!SteadyFrames
<1> SUFFICES ASSUME FrontInv, steady PROVE
        /\ Front!FrameIsItsScan
        /\ \A i \in 1 .. Len(imus) : meas.pushed \/ imus[i] >= meas.end \/ meas.scan = Front!NoScan
  BY DEF Front!SteadyFrames
<1>1. FrontTypes /\ SamplesFollow /\ FrameFollows  BY DEF FrontInv, FrontGood
<1>2. Front1 \in Int /\ meas.end \in Nat  BY <1>1 DEF FrontTypes, Measures, Front1
<1> QED  BY <1>1, <1>2 DEF SamplesFollow, FrameFollows
-----------------------------------------------------------------------------
(* The localization                                                        *)

Positions == [1 .. Axes -> Int]

LioTypes ==
    /\ at \in {"spin", "initialise", "process"} /\ exit \in BOOLEAN /\ ready \in BOOLEAN
    /\ guess \in [pose : Positions, id : Nat]
    /\ lio \in [inited : BOOLEAN, clean : BOOLEAN,
                flag : {"NonInitialized", "Initializing", "Initialized"}]
    /\ local \in [inited : BOOLEAN, origin : Positions]
    /\ filter \in [pose : Positions, base : Nat]

\* Ready is what inited_pose says, and then the filter runs from the newest pose, inside the
\* local map.  The main loop initialises only while it is not ready, and goes on only when it
\* is, or is to end.
Registered ==
    /\ ready = lio.inited
    /\ ready => filter.base = guess.id /\ local.inited /\ Lio!Mapped(filter.pose, local.origin)
    /\ at = "initialise" => ~ready
    /\ at = "process" => ready \/ exit

LioInv == LioTypes /\ Registered

\* The box is moved before the vehicle is out of it.
LEMMA MapFollows ==
    ASSUME NEW p \in Positions, NEW origin \in Positions, Lio!Mapped(p, origin),
           NEW q \in Lio!Near(p)
    PROVE  q \in Positions /\ Lio!MapFor(q, origin) \in Positions
           /\ Lio!Mapped(q, Lio!MapFor(q, origin))
<1>1. Half \in Nat \ {0} /\ Margin \in Nat \ {0}
  BY MappingAssumptions DEF Lio!LioRelocalizationAssumption
<1>2. PICK d \in [1 .. Axes -> 0 .. 1] : q = [a \in 1 .. Axes |-> p[a] + d[a]]
  BY DEF Lio!Near
<1>3. q \in Positions  BY <1>2 DEF Positions
<1>4. CASE \E a \in 1 .. Axes : Lio!AtEdge(q, origin, a)
  <2>1. Lio!MapFor(q, origin) = q  BY <1>4 DEF Lio!MapFor
  <2>2. \A a \in 1 .. Axes : q[a] - q[a] = 0  BY <1>3 DEF Positions
  <2> QED  BY <1>1, <1>3, <2>1, <2>2 DEF Lio!Mapped
<1>5. CASE \A a \in 1 .. Axes : ~Lio!AtEdge(q, origin, a)
  <2>1. Lio!MapFor(q, origin) = origin  BY <1>5 DEF Lio!MapFor
  <2>2. ASSUME NEW a \in 1 .. Axes PROVE q[a] - origin[a] \in (1 - Half) .. (Half - 1)
    <3>1. p[a] \in Int /\ origin[a] \in Int /\ d[a] \in 0 .. 1 /\ q[a] = p[a] + d[a]
      BY <1>2 DEF Positions
    <3>2. p[a] - origin[a] \in (1 - Half) .. (Half - 1)  BY DEF Lio!Mapped
    <3>3. /\ (q[a] - (origin[a] - Half)) \notin -Margin .. Margin
          /\ (q[a] - (origin[a] + Half)) \notin -Margin .. Margin
      BY <1>5 DEF Lio!AtEdge
    <3>4. q[a] - origin[a] # Half
      <4>1. q[a] - (origin[a] + Half) # 0  BY <1>1, <3>3
      <4> QED  BY <1>1, <3>1, <4>1
    <3>5. q[a] - origin[a] = (p[a] - origin[a]) + d[a]  BY <3>1
    <3> QED  BY <1>1, <3>1, <3>2, <3>4, <3>5
  <2> QED  BY <1>3, <2>1, <2>2 DEF Lio!Mapped
<1> QED  BY <1>4, <1>5

\* The localization begins in the invariant.
LEMMA LioInitially == Lio!InitLio => LioInv
<1> SUFFICES ASSUME Lio!InitLio PROVE LioInv  OBVIOUS
<1>1. Lio!Home \in Positions  BY DEF Lio!Home, Positions
<1>2. /\ at = "spin" /\ exit = FALSE /\ guess = [pose |-> Lio!Home, id |-> 0]
      /\ lio = [inited |-> FALSE, flag |-> "NonInitialized", clean |-> TRUE]
      /\ local = [inited |-> FALSE, origin |-> Lio!Home]
      /\ filter = [pose |-> Lio!Home, base |-> 0] /\ ready = FALSE
  BY DEF Lio!InitLio
<1>3. LioTypes  BY <1>1, <1>2 DEF LioTypes
<1>4. Registered  BY <1>2 DEF Registered
<1> QED  BY <1>3, <1>4 DEF LioInv

\* A registration puts the vehicle near a position, in the middle of the local map.
LEMMA NearIsAPosition ==
    ASSUME NEW p \in Positions, NEW q \in Lio!Near(p)
    PROVE  q \in Positions /\ Lio!Mapped(q, q)
<1>1. Half \in Nat \ {0}  BY MappingAssumptions DEF Lio!LioRelocalizationAssumption
<1>2. q \in Positions
  <2>1. PICK d \in [1 .. Axes -> 0 .. 1] : q = [a \in 1 .. Axes |-> p[a] + d[a]]
    BY DEF Lio!Near
  <2> QED  BY <2>1 DEF Positions
<1>3. \A a \in 1 .. Axes : q[a] - q[a] = 0  BY <1>2 DEF Positions
<1> QED  BY <1>1, <1>2, <1>3 DEF Lio!Mapped

\* What the callbacks do keeps the invariant: a new initial pose takes back readiness.
LEMMA CallbackKeeps ==
    ASSUME LioInv, Lio!Sensor \/ Lio!PoseArrives \/ Lio!Keyboard \/ Lio!Interrupt
    PROVE  LioInv' /\ (odom' # odom => FALSE)
<1> USE DEF LioInv, LioTypes, Lio!Spinning
<1>1. Guesses \subseteq Positions
  BY MappingAssumptions DEF Lio!LioRelocalizationAssumption, Positions
<1>2. CASE Lio!Sensor  BY <1>2 DEF Lio!Sensor, Lio!lioVars, Registered, Lio!Mapped
<1>3. CASE Lio!PoseArrives
  <2>1. /\ at \in {"spin", "initialise"} /\ ready' = FALSE
        /\ lio' = [lio EXCEPT !.inited = FALSE, !.flag = "NonInitialized"]
        /\ UNCHANGED <<at, exit, local, filter, odom>>
    BY <1>3 DEF Lio!PoseArrives, Lio!InitialPose
  <2>2. PICK p \in Guesses : guess' = [pose |-> p, id |-> guess.id + 1]
    BY <1>3 DEF Lio!PoseArrives, Lio!InitialPose
  <2>3. guess' \in [pose : Positions, id : Nat]
    <3>1. guess.id \in Nat  OBVIOUS
    <3> QED  BY <1>1, <2>2, <3>1
  <2>4. LioTypes'  BY <2>1, <2>3
  <2>5. Registered'  BY <2>1 DEF Registered
  <2> QED  BY <2>1, <2>4, <2>5
<1>4. CASE Lio!Keyboard
  BY <1>1, <1>4 DEF Lio!Keyboard, Registered, Lio!Mapped
<1>5. CASE Lio!Interrupt  BY <1>5 DEF Lio!Interrupt, Registered, Lio!Mapped
<1> QED  BY <1>2, <1>3, <1>4, <1>5

\* So do the steps of the main loop, and what is published is of the newest pose.
LEMMA MainKeeps ==
    ASSUME LioInv, Lio!Synchronise \/ Lio!Initialise \/ Lio!GiveUp \/ Lio!ProcessScan
    PROVE  LioInv' /\ (odom' # odom => exit \/ (ready /\ odom'.base = guess.id))
<1> USE DEF LioInv, LioTypes
<1>1. CASE Lio!Synchronise
  BY <1>1 DEF Lio!Synchronise, Registered, Lio!Mapped
<1>2. CASE Lio!Initialise
  <2>1. CASE Lio!InitFromGuessFails
    BY <1>2, <2>1 DEF Lio!Initialise, Lio!InitFromGuessFails, Registered
  <2>2. CASE Lio!InitFromGuessSucceeds
    <3>1. PICK result \in Lio!Near(guess.pose) :
            /\ lio' = [lio EXCEPT !.flag = "Initialized", !.inited = TRUE]
            /\ local' = [inited |-> TRUE, origin |-> result]
            /\ filter' = [pose |-> result, base |-> guess.id]
            /\ ready' = TRUE /\ at' = "process"
      BY <2>2 DEF Lio!InitFromGuessSucceeds
    <3>2. UNCHANGED <<exit, guess, odom>>  BY <1>2 DEF Lio!Initialise
    <3>3. guess.pose \in Positions /\ guess.id \in Nat  OBVIOUS
    <3>4. result \in Positions /\ Lio!Mapped(result, result)  BY <3>3, NearIsAPosition
    <3>5. LioTypes'  BY <3>1, <3>2, <3>3, <3>4
    <3>6. Registered'
      <4>1. lio'.inited = TRUE  BY <3>1
      <4> QED  BY <3>1, <3>2, <3>4, <4>1 DEF Registered
    <3> QED  BY <3>2, <3>5, <3>6
  <2> QED  BY <1>2, <2>1, <2>2 DEF Lio!Initialise
<1>3. CASE Lio!GiveUp  BY <1>3 DEF Lio!GiveUp, Registered, Lio!Mapped
<1>4. CASE Lio!ProcessScan
  <2>1. /\ at = "process" /\ at' = "spin" /\ UNCHANGED <<exit, guess, ready>>
        /\ lio' \in {lio, [lio EXCEPT !.clean = FALSE]}
        /\ UNCHANGED <<filter, local>> \/ Lio!Register
        /\ UNCHANGED odom \/ Lio!Publish(meas, held)
    BY <1>4 DEF Lio!ProcessScan
  <2>2. lio' \in [inited : BOOLEAN, clean : BOOLEAN,
                  flag : {"NonInitialized", "Initializing", "Initialized"}]
          /\ lio'.inited = lio.inited
    BY <2>1
  <2>3. odom' # odom => odom'.base = filter.base  BY <2>1 DEF Lio!Publish
  <2>4. CASE UNCHANGED <<filter, local>>
    BY <2>1, <2>2, <2>3, <2>4 DEF Registered, Lio!Mapped
  <2>5. CASE Lio!Register /\ ~UNCHANGED <<filter, local>>
    <3>1. local.inited  BY <2>5 DEF Lio!Register
    <3>2. PICK p \in Lio!Near(filter.pose) :
            /\ filter' = [filter EXCEPT !.pose = p]
            /\ local' = [local EXCEPT !.origin = Lio!MapFor(p, local.origin)]
      BY <2>5, <3>1 DEF Lio!Register
    <3>3. p \in Positions  BY NearIsAPosition
    <3>4. Lio!MapFor(p, local.origin) \in Positions  BY <3>3 DEF Lio!MapFor
    <3>5. ready => Lio!Mapped(p, Lio!MapFor(p, local.origin))
      BY MapFollows DEF Registered
    <3>6. filter' = [pose |-> p, base |-> filter.base]
            /\ local' = [inited |-> local.inited, origin |-> Lio!MapFor(p, local.origin)]
      BY <3>2
    <3> QED  BY <2>1, <2>2, <2>3, <3>3, <3>4, <3>5, <3>6 DEF Registered
  <2> QED  BY <2>1, <2>4, <2>5
<1> QED  BY <1>1, <1>2, <1>3, <1>4

\* A step of the localization keeps the invariant, and publishes what is registered.
LEMMA LioStep ==
    ASSUME LioInv, Lio!NextLio \/ UNCHANGED Lio!lioVars
    PROVE  /\ LioInv'
           /\ odom' # odom => exit \/ (ready /\ odom'.base = guess.id)
<1>1. CASE UNCHANGED Lio!lioVars
  BY <1>1 DEF Lio!lioVars, LioInv, LioTypes, Registered, Lio!Mapped
<1>2. CASE Lio!NextLio  BY <1>2, CallbackKeeps, MainKeeps DEF Lio!NextLio
<1> QED  BY <1>1, <1>2
-----------------------------------------------------------------------------
(* The composition                                                         *)

\* The component that moves keeps its invariant; the others have no say.
MappingInv ==
    /\ part = "front" => FrontInv
    /\ part = "keys" => KeyInv /\ LoopInv
    /\ part = "static" => StaticInv
    /\ part = "archive" => ArchiveInv
    /\ part = "save" => SaveInv
    /\ LioInv

\* Every component begins in its invariant.
LEMMA MappingInitially == MappingInit => MappingInv
<1> SUFFICES ASSUME MappingInit PROVE MappingInv  OBVIOUS
<1>1. Front!Init
  BY DEF MappingInit, Begin, Lio!InitLio, Lio!Init, Lio!NoScan, Lio!NoFrame, Front!Init,
         Front!NoScan, Front!NoFrame
<1>2. Keys!Init /\ Static!Init /\ Archive!Init /\ Save!Init /\ Lio!InitLio
  BY DEF MappingInit, Begin
<1> QED
  BY <1>1, <1>2, FrontInitially, KeysInitially, LoopsInitially, StaticInitially, ArchiveInitially,
     SaveInitially, LioInitially
     DEF MappingInv

\* The localization takes a step of its own or none.
LEMMA LioMoves == [MappingNext]_mapping => Lio!NextLio \/ UNCHANGED Lio!lioVars
BY DEF MappingNext, Unmoved, mapping, lioVars, Lio!lioVars

\* A step of the composition is one of the component that moves.
LEMMA MappingStep == MappingInv /\ [MappingNext]_mapping => MappingInv'
<1> SUFFICES ASSUME MappingInv, [MappingNext]_mapping PROVE MappingInv'  OBVIOUS
<1>3. LioInv'  BY LioMoves, LioStep DEF MappingInv
<1>1. CASE UNCHANGED mapping
  <2>1. UNCHANGED <<part, Front!vars, Keys!frameVars, Static!filterVars, Archive!archiveVars,
                    Save!saveVars>>
    BY <1>1 DEF mapping, frontVars, keyVars, staticVars, archiveVars, saveVars, Front!vars,
                Keys!frameVars, Keys!keyVars, Keys!graphVars, Keys!queueVars, Keys!historyVars,
                Static!filterVars, Archive!archiveVars, Save!saveVars, Save!clientVars, Save!nodeVars
  <2> QED  BY <1>3, <2>1, FrontStep, KeysStep, LoopsStep, StaticStep, ArchiveStep,
       SaveStep DEF MappingInv
<1>2. CASE MappingNext
  <2>1. part' = part  BY <1>2 DEF MappingNext, Unmoved
  <2>2. CASE part = "front"
    <3>1. Front!Next  BY <1>2, <2>2 DEF MappingNext, Unmoved
    <3> QED  BY <1>3, <2>1, <2>2, <3>1, FrontStep DEF MappingInv
  <2>3. CASE part = "keys"
    <3>1. Keys!Next  BY <1>2, <2>3 DEF MappingNext, Unmoved
    <3> QED  BY <1>3, <2>1, <2>3, <3>1, KeysStep, LoopsStep DEF MappingInv
  <2>4. CASE part = "static"
    <3>1. Static!Next  BY <1>2, <2>4 DEF MappingNext, Unmoved
    <3> QED  BY <1>3, <2>1, <2>4, <3>1, StaticStep DEF MappingInv
  <2>5. CASE part = "archive"
    <3>1. Archive!Next  BY <1>2, <2>5 DEF MappingNext, Unmoved
    <3> QED  BY <1>3, <2>1, <2>5, <3>1, ArchiveStep DEF MappingInv
  <2>6. CASE part = "save"
    <3>1. Save!Next  BY <1>2, <2>6 DEF MappingNext, Unmoved
    <3> QED  BY <1>3, <2>1, <2>6, <3>1, SaveStep DEF MappingInv
  <2> QED  BY <1>3, <2>1, <2>2, <2>3, <2>4, <2>5, <2>6 DEF MappingInv
<1> QED  BY <1>1, <1>2

\* The invariant of the composition.
THEOREM MappingIsConsistent == MappingSpec => []MappingInv
BY MappingInitially, MappingStep, PTL DEF MappingSpec

\* While stamps advance, no IMU sample is missing and no scan lasts one sample only, every
\* frame is estimated from its own scan and samples, for any period of more than one sample
\* and any times of the last points (sync_packages and main of laserMapping.cpp).
THEOREM FramesAreSteady == MappingSpec => []SteadyFrames
<1>1. MappingInv => SteadyFrames  BY FrontIsSteady DEF MappingInv, SteadyFrames
<1> QED  BY <1>1, MappingIsConsistent, PTL

\* Loop factors tie key frames of the graph to older ones, and between two frames poses,
\* clouds and graph are in step; a factor has its own measurement unless the queues were
\* torn, and a loop is not lost unless a frame took loops while it was queued, however the
\* threads interleave (saveKeyFramesAndFactor, addLoopFactor, performLoopClosure and
\* correctPoses of laserMapping.cpp).
THEOREM GraphIsInStep == MappingSpec => []GraphMatchesKeys
<1>1. MappingInv => GraphMatchesKeys  BY KeysMatch, LoopsMeasured DEF MappingInv, GraphMatchesKeys
<1> QED  BY <1>1, MappingIsConsistent, PTL

\* An exported voxel has no point from before its cell was last found empty, whatever the
\* capacities and the evidence of hits and rays (static_map_filter.hpp).
THEOREM ExportIsFresh == MappingSpec => []ExportIsOfThisLife
<1>1. MappingInv => ExportIsOfThisLife  BY ExportIsAlive DEF MappingInv, ExportIsOfThisLife
<1> QED  BY <1>1, MappingIsConsistent, PTL

\* A map is written only from all the scans that were to be captured, one worker saves at a
\* time, and SUCCEEDED and EXITED are true of the job, for any number of jobs, scans and
\* workers (scan_archive.cpp, save_map.py).
THEOREM SavesTellTheTruth == MappingSpec => []SavesAreTrue
<1>1. MappingInv => SavesAreTrue
  BY ArchiveIsWhole, SaveIsTrue DEF MappingInv, SavesAreTrue
<1> QED  BY <1>1, MappingIsConsistent, PTL

\* Ready stands for the newest initial pose, registered and inside the local map, and
\* odometry is of it, for any box, margin and number of axes
\* (laserMapping_relocalization.cpp, matching.hpp).
THEOREM OdometryIsOfNewestPose == MappingSpec => OdometryIsRegistered
<1>1. MappingInv /\ [MappingNext]_mapping =>
        [/\ ready' => /\ lio'.inited /\ filter'.base = guess'.id
                      /\ local'.inited /\ Lio!Mapped(filter'.pose, local'.origin)
         /\ odom' # odom => exit \/ (ready /\ odom'.base = guess.id)]_Lio!allVars
  BY LioMoves, LioStep DEF MappingInv, LioInv, Registered
<1> QED  BY <1>1, MappingIsConsistent, PTL
         DEF MappingSpec, OdometryIsRegistered, Lio!OdometryIsRegistered
=============================================================================
