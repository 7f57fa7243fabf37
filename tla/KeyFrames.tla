------------------------------ MODULE KeyFrames ------------------------------
(***************************************************************************)
(* The pose graph of the mapping node.  The main thread adds a key frame,  *)
(* its factor and those of the loops found meanwhile, optimises, and       *)
(* corrects the key poses; the loop thread copies the poses, looks for an  *)
(* old key frame near the newest one, matches the two and queues a factor. *)
(* The loop thread takes a mutex that the main thread does not take, so    *)
(* every step on a shared container is an action of its own.               *)
(*                                                                         *)
(* Key frames are numbered from 0.  A pose is the number of corrections it *)
(* has been through; matching may fail, and which old key frames are near  *)
(* enough and old enough is any choice.  A container is read as it is      *)
(* after a whole number of operations: the tearing of a vector that grows  *)
(* while it is copied is left out.  The measurement and the noise of a     *)
(* loop are told apart by the loop they are of; what is read beyond the    *)
(* end of their queues is of none.                                         *)
(***************************************************************************)
EXTENDS Naturals, Sequences, FiniteSets, SequencesExt

CONSTANTS MaxKeys, MaxCorrections   \* bounds

VARIABLES poses3, poses6,   \* cloudKeyPoses3D, cloudKeyPoses6D: key -> corrections
          clouds,           \* surfCloudKeyFrames: how many
          variables,        \* variables of the graph
          loops,            \* loop factors of the graph
          estimate,         \* corrections the optimised estimate has been through
          closed,           \* aLoopIsClosed
          rebuilds,         \* updateKdtreeCount
          indexQueue, poseQueue, noiseQueue,   \* of loops the thread has found
          container,        \* loopIndexContainer: the key frames with a loop
          main, loop,       \* program counters, and the locals of the loop thread
          torn,             \* the thread has queued a loop while a frame took some, and
                            \* the queues have not been empty since
          overlapped        \* the loops it was queueing then

keyVars == <<poses3, poses6, clouds>>
graphVars == <<variables, loops, estimate, closed>>
queueVars == <<indexQueue, poseQueue, noiseQueue>>
historyVars == <<torn, overlapped>>
frameVars == <<keyVars, graphVars, rebuilds, queueVars, container, main, loop, historyVars>>

mainPart == <<keyVars, graphVars, rebuilds, main>>
loopPart == <<container, loop>>
-----------------------------------------------------------------------------
NoLoop == <<0, 0>>

Go(place) == main' = [main EXCEPT !.at = place]

\* A frame that moved far enough: its odometry factor, perhaps one of the GPS.
AddKeyFrame(gps) ==
  /\ main.at = "idle" /\ variables < MaxKeys
  /\ gps => Len(poses3) > 0 /\ estimate < MaxCorrections
  /\ variables' = variables + 1
  /\ closed' = (closed \/ gps)
  /\ main' = [at |-> IF indexQueue = <<>> THEN "optimise" ELSE "loops", next |-> 1]
  /\ UNCHANGED <<keyVars, loops, estimate, rebuilds, queueVars, loopPart>>

Entry(queue, n) == IF n <= Len(queue) THEN queue[n] ELSE NoLoop

\* addLoopFactor reads entry after entry of the three queues.
ReadLoop ==
  /\ main.at = "loops" /\ main.next <= Len(indexQueue)
  /\ loops' = loops \cup {[pair |-> indexQueue[main.next], pose |-> Entry(poseQueue, main.next),
                           noise |-> Entry(noiseQueue, main.next), torn |-> torn]}
  /\ main' = [main EXCEPT !.next = @ + 1]
  /\ UNCHANGED <<keyVars, variables, estimate, closed, rebuilds, queueVars, loopPart>>

LeaveLoops == /\ main.at = "loops" /\ main.next > Len(indexQueue) /\ Go("indices")
              /\ UNCHANGED <<keyVars, graphVars, rebuilds, queueVars, loopPart>>
ClearIndices == /\ main.at = "indices" /\ indexQueue' = <<>> /\ Go("poses")
                /\ UNCHANGED <<keyVars, graphVars, rebuilds, poseQueue, noiseQueue, loopPart>>
ClearPoses == /\ main.at = "poses" /\ poseQueue' = <<>> /\ Go("noises")
              /\ UNCHANGED <<keyVars, graphVars, rebuilds, indexQueue, noiseQueue, loopPart>>
ClearNoises == /\ main.at = "noises" /\ noiseQueue' = <<>> /\ Go("optimise")
               /\ closed' = TRUE
               /\ UNCHANGED <<keyVars, variables, loops, estimate, rebuilds, indexQueue, poseQueue, loopPart>>

\* The optimiser moves old key frames only when a loop or the GPS says so.
Optimise == /\ main.at = "optimise"
            /\ closed => estimate < MaxCorrections
            /\ estimate' = IF closed THEN estimate + 1 ELSE estimate
            /\ poses3' = Append(poses3, estimate')
            /\ Go("push")
            /\ UNCHANGED <<poses6, clouds, variables, loops, closed, rebuilds, queueVars, loopPart>>

PushPose == /\ main.at = "push" /\ poses6' = Append(poses6, estimate) /\ Go("cloud")
            /\ UNCHANGED <<poses3, clouds, graphVars, rebuilds, queueVars, loopPart>>

PushCloud == /\ main.at = "cloud" /\ clouds' = clouds + 1 /\ Go("correct")
             /\ UNCHANGED <<poses3, poses6, graphVars, rebuilds, queueVars, loopPart>>

Corrected(poses) == [i \in DOMAIN poses |-> IF i <= variables THEN estimate ELSE poses[i]]

\* correctPoses, with the count of recontructIKdTree.
CorrectPoses ==
  /\ main.at = "correct" /\ Go("idle")
  /\ IF closed
       THEN /\ poses3' = Corrected(poses3) /\ poses6' = Corrected(poses6)
            /\ closed' = FALSE
            /\ rebuilds' = 1
       ELSE UNCHANGED <<poses3, poses6, closed, rebuilds>>
  /\ UNCHANGED <<clouds, variables, loops, estimate, queueVars, loopPart>>
-----------------------------------------------------------------------------
CopyPoses3 == /\ loop.at = "idle" /\ poses3 # <<>>
              /\ loop' = [loop EXCEPT !.at = "copy", !.copy3 = Len(poses3)]
              /\ UNCHANGED <<mainPart, queueVars, container>>
CopyPoses6 == /\ loop.at = "copy"
              /\ loop' = [loop EXCEPT !.at = "detect", !.copy6 = Len(poses6)]
              /\ UNCHANGED <<mainPart, queueVars, container>>

LatestKey == loop.copy3 - 1

\* Mutant of Detect: the newest key frame is remembered as soon as it is looked at.
DetectRemembered(pre) ==
  /\ loop.at = "detect"
  /\ container' = container \cup {LatestKey}
  /\ loop' = IF LatestKey \in container \/ pre = LatestKey
               THEN [loop EXCEPT !.at = "idle"]
               ELSE [loop EXCEPT !.at = "match", !.pair = <<LatestKey, pre>>]
  /\ UNCHANGED <<mainPart, queueVars>>

\* detectLoopClosureDistance finds nothing, or an older key frame.
Detect(pre) ==
  /\ loop.at = "detect"
  /\ loop' = IF LatestKey \in container \/ pre = LatestKey
               THEN [loop EXCEPT !.at = "idle"]
               ELSE [loop EXCEPT !.at = "match", !.pair = <<LatestKey, pre>>]
  /\ UNCHANGED <<mainPart, queueVars, container>>

\* Without a cloud of the newest key frame there is nothing to match.
HasCloud(key) == key < loop.copy6 /\ key < clouds

Match(good) ==
  /\ loop.at = "match"
  /\ loop' = [loop EXCEPT !.at = IF good /\ HasCloud(loop.pair[1]) THEN "index" ELSE "idle"]
  /\ UNCHANGED <<mainPart, queueVars, container>>

PushIndex == /\ loop.at = "index" /\ loop' = [loop EXCEPT !.at = "pose"]
             /\ indexQueue' = Append(indexQueue, loop.pair)
             /\ UNCHANGED <<mainPart, poseQueue, noiseQueue, container>>
PushLoopPose == /\ loop.at = "pose" /\ loop' = [loop EXCEPT !.at = "noise"]
                /\ poseQueue' = Append(poseQueue, loop.pair)
                /\ UNCHANGED <<mainPart, indexQueue, noiseQueue, container>>
PushNoise == /\ loop.at = "noise" /\ loop' = [loop EXCEPT !.at = "remember"]
             /\ noiseQueue' = Append(noiseQueue, loop.pair)
             /\ UNCHANGED <<mainPart, indexQueue, poseQueue, container>>
Remember == /\ loop.at = "remember" /\ loop' = [loop EXCEPT !.at = "idle"]
            /\ container' = container \cup {loop.pair[1]}
            /\ UNCHANGED <<mainPart, queueVars>>
-----------------------------------------------------------------------------
Init == /\ poses3 = <<>> /\ poses6 = <<>> /\ clouds = 0
        /\ variables = 0 /\ loops = {} /\ estimate = 0 /\ closed = FALSE
        /\ rebuilds = 0
        /\ indexQueue = <<>> /\ poseQueue = <<>> /\ noiseQueue = <<>>
        /\ container = {}
        /\ main = [at |-> "idle", next |-> 1]
        /\ loop = [at |-> "idle", copy3 |-> 0, copy6 |-> 0, pair |-> NoLoop]
        /\ torn = FALSE /\ overlapped = {}

Main == \/ \E gps \in BOOLEAN : AddKeyFrame(gps)
        \/ ReadLoop \/ LeaveLoops \/ ClearIndices \/ ClearPoses \/ ClearNoises
        \/ Optimise \/ PushPose \/ PushCloud \/ CorrectPoses

Loop == \/ CopyPoses3 \/ CopyPoses6
        \/ \E pre \in 0 .. loop.copy3 - 1 : Detect(pre)
        \/ \E good \in BOOLEAN : Match(good)
        \/ PushIndex \/ PushLoopPose \/ PushNoise \/ Remember

\* A frame takes loops while the thread is between the queues.
Overlap == main.at \in {"loops", "indices", "poses", "noises"} /\ loop.at \in {"pose", "noise"}
Emptied == /\ indexQueue = <<>> /\ poseQueue = <<>> /\ noiseQueue = <<>>
           /\ loop.at \notin {"pose", "noise"}

Observe == /\ torn' = (Overlap' \/ (torn /\ ~Emptied'))
           /\ overlapped' = IF Overlap' THEN overlapped \cup {loop'.pair} ELSE overlapped

Next == (Main \/ Loop) /\ Observe

Spec == Init /\ [][Next]_frameVars
-----------------------------------------------------------------------------
\* Whatever the loop thread copies in the middle of a frame, a loop factor ties a
\* key frame of the graph to an older one, and between two frames the poses, the
\* clouds and the graph have the same key frames and every pose is the optimised
\* one (laserMapping.cpp:658, :895, :931).
GraphMatchesKeys ==
  /\ \A f \in loops : f.pair[2] < f.pair[1] /\ f.pair[1] < variables
  /\ main.at = "idle" =>
       /\ Len(poses3) = variables /\ Len(poses6) = variables /\ clouds = variables
       /\ \A i \in DOMAIN poses3 : poses3[i] = estimate /\ poses6[i] = estimate

\* A loop factor has the measurement and the noise of its own key frames unless the
\* three queues were torn: the next frame that finds them at rest mends them.  A loop
\* that is remembered, so that it is never looked for again, becomes a factor or waits
\* for the next frame, unless a frame took loops while it was queued itself
\* (laserMapping.cpp:650-664, :1084-1089).
LoopsAreMeasured ==
  /\ \A f \in loops : f.torn \/ (f.pose = f.pair /\ f.noise = f.pair)
  /\ \A key \in container :
       \E p \in {f.pair : f \in loops} \cup Range(indexQueue) \cup overlapped : p[1] = key
=============================================================================
