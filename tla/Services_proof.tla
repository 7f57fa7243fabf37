---------------------------- MODULE Services_proof ----------------------------
(***************************************************************************)
(* Theorems about the components of MCServices, for every value of their   *)
(* constants.  Of the task: what it publishes is what its phase says it is *)
(* doing, only a command that changes starts a motion, and only a new      *)
(* mission, a takeoff or a landing rewinds one; the inductive invariant is *)
(* GoodTask(task).  Of the others: who says ready stands on live inputs,   *)
(* what is published is new, and the log accounts for its records.         *)
(***************************************************************************)
EXTENDS MCServices, TaskStages_proof, SequenceTheorems, FiniteSetTheorems

-----------------------------------------------------------------------------
(* The remote control behind the base system                               *)

Decoders == [valid : BOOLEAN, kill : BOOLEAN, stamp : Int, seen : Int, wall : Int]

RcTypes ==
    /\ tick \in Nat /\ due \subseteq Timers
    /\ mavros \in [connected : BOOLEAN, wall : Int] /\ livox \in Int
    /\ beat \in {"none", "ready", "not ready"}
    /\ decoder \in Decoders
    /\ heartbeat \in [ready : BOOLEAN, wall : Int]
    /\ state \in [valid : BOOLEAN, stamp : Int] /\ rcReady \in BOOLEAN
    /\ heard \in [stamp : Int, connected : Int]

\* How far the clock is ahead of the last run of a watchdog
Late(isDue) == IF isDue THEN 1 ELSE 0

\* A heartbeat that says ready rests on a connected flight controller.
Connected ==
    /\ heard.connected <= tick
    /\ mavros.connected => mavros.wall <= heard.connected
    /\ beat = "ready" => tick - heard.connected <= MavrosTimeout
    /\ heartbeat.ready => heartbeat.wall - heard.connected <= MavrosTimeout

RcAlive ==
    rcReady => /\ decoder.valid /\ ~decoder.kill
               /\ tick - decoder.stamp <= RcTimeout + Late("watchdog" \in due)
               /\ heartbeat.ready
               /\ tick - heartbeat.wall <= RcBase + Late("watchdog" \in due)

\* What was received in time was taken up, or refused for a newer one.
Received == heard.stamp <= decoder.seen

RcInv == RcTypes /\ Connected /\ RcAlive /\ Received

\* What the proofs about the remote control need of its constants
LEMMA RcConstants ==
    /\ MavrosTimeout \in Nat /\ LidarTimeout \in Nat /\ RcTimeout \in Nat /\ RcFuture \in Nat
    /\ RcBase \in Nat /\ "watchdog" \in Timers /\ "health" \in Timers
BY ServicesAssumptions DEF Rc!RcMonitorAssumption, Rc!BaseHealthAssumption

\* What the proofs below need of the types
LEMMA RcTyped ==
    ASSUME RcInv
    PROVE  /\ tick \in Nat /\ tick \in Int /\ decoder \in Decoders
           /\ decoder.seen \in Int /\ decoder.stamp \in Int /\ heartbeat.wall \in Int
           /\ heard.stamp \in Int /\ heard.connected \in Int
<1>1. tick \in Nat /\ decoder \in Decoders  BY DEF RcInv, RcTypes
<1>2. heartbeat.wall \in Int  BY DEF RcInv, RcTypes
<1>3. heard.stamp \in Int /\ heard.connected \in Int  BY DEF RcInv, RcTypes
<1>4. decoder.seen \in Int /\ decoder.stamp \in Int  BY <1>1 DEF Decoders
<1> QED  BY <1>1, <1>2, <1>3, <1>4

\* The Boolean and the record-valued variables of the remote control
LEMMA RcTypedFlags ==
    ASSUME RcInv
    PROVE  /\ heartbeat.ready \in BOOLEAN /\ rcReady \in BOOLEAN
           /\ state \in [valid : BOOLEAN, stamp : Int]
           /\ heard \in [stamp : Int, connected : Int]
BY DEF RcInv, RcTypes

\* The remote control's invariant holds when both nodes have just started.
LEMMA RcInitially == Rc!Init => RcInv
<1> SUFFICES ASSUME Rc!Init PROVE RcInv  OBVIOUS
<1> USE DEF Rc!Init, Rc!InitHealth, Rc!Never, Rc!NoBeat
<1>1. RcTypes
  <2>1. decoder \in Decoders  BY DEF Decoders
  <2>2. mavros \in [connected : BOOLEAN, wall : Int] /\ livox \in Int  OBVIOUS
  <2>3. rcReady \in BOOLEAN  OBVIOUS
  <2>6. heartbeat \in [ready : BOOLEAN, wall : Int]  OBVIOUS
  <2>4. state \in [valid : BOOLEAN, stamp : Int] /\ heard \in [stamp : Int, connected : Int]
    OBVIOUS
  <2>5. tick \in Nat /\ due \subseteq Timers /\ beat = "none"  OBVIOUS
  <2> QED  BY <2>1, <2>2, <2>3, <2>4, <2>5, <2>6 DEF RcTypes
<1>2. Connected /\ RcAlive /\ Received  BY RcConstants DEF Connected, RcAlive, Received
<1> QED  BY <1>1, <1>2 DEF RcInv

\* Looking at a measurement again keeps it, or makes it invalid.
LEMMA EvaluatedIs ==
    ASSUME NEW d \in Decoders,
           tick \in Nat
    PROVE  /\ Rc!Evaluated(d) \in
                Decoders
           /\ Rc!Evaluated(d).seen = d.seen
           /\ Rc!Evaluated(d).valid =>
                Rc!Evaluated(d) = d /\ tick - d.stamp <= RcTimeout
BY RcConstants DEF Rc!Evaluated, Rc!Invalid, Rc!InTime, Decoders

\* A measurement makes the decoder's state valid only if it is newer and in time.
LEMMA UpdatedIs ==
    ASSUME NEW d \in Decoders,
           NEW stamp \in Int, NEW payload, tick \in Nat
    PROVE  LET u == Rc!Updated(d, stamp, payload)
           IN  /\ u \in Decoders
               /\ u.seen >= d.seen /\ (Rc!InTime(stamp) => u.seen >= stamp)
               /\ u.valid => stamp > d.seen /\ u.stamp = stamp /\ Rc!InTime(stamp)
<1> DEFINE u == Rc!Updated(d, stamp, payload)
<1>1. CASE stamp <= d.seen \/ ~Rc!InTime(stamp)
  <2>1. u = [d EXCEPT !.valid = FALSE, !.kill = TRUE]  BY <1>1 DEF Rc!Updated, Rc!Invalid
  <2> HIDE DEF u
  <2>2. u \in Decoders /\ u.seen = d.seen /\ ~u.valid  BY <2>1 DEF Decoders
  <2>3. d.seen \in Int  BY DEF Decoders
  <2> QED  BY <1>1, <2>2, <2>3 DEF u
<1>2. CASE stamp > d.seen /\ Rc!InTime(stamp) /\ payload = "malformed"
  <2>1. ~(stamp <= d.seen)  BY <1>2 DEF Decoders
  <2>2. u = [[d EXCEPT !.valid = FALSE, !.kill = TRUE] EXCEPT !.seen = stamp]
    BY <1>2, <2>1 DEF Rc!Updated, Rc!Invalid
  <2> HIDE DEF u
  <2>3. u \in Decoders /\ u.seen = stamp /\ ~u.valid  BY <2>2 DEF Decoders
  <2>4. d.seen \in Int  BY DEF Decoders
  <2> QED  BY <1>2, <2>3, <2>4 DEF u
<1>3. CASE stamp > d.seen /\ Rc!InTime(stamp) /\ payload # "malformed"
  <2>1. ~(stamp <= d.seen)  BY <1>3 DEF Decoders
  <2> DEFINE killed == payload = "killed"
  <2>2. u = [valid |-> TRUE, kill |-> killed, stamp |-> stamp, seen |-> stamp, wall |-> tick]
    BY <1>3, <2>1 DEF Rc!Updated
  <2>3. killed \in BOOLEAN  OBVIOUS
  <2> HIDE DEF u, killed
  <2>4. u \in Decoders /\ u.seen = stamp /\ u.stamp = stamp  BY <2>2, <2>3 DEF Decoders
  <2>5. d.seen \in Int  BY DEF Decoders
  <2> QED  BY <1>3, <2>4, <2>5 DEF u
<1>4. d.seen \in Int  BY DEF Decoders
<1> QED  BY <1>1, <1>2, <1>3, <1>4

\* What is announced: valid states only of a valid decoder behind a fresh heartbeat.
LEMMA AnnounceIs ==
    ASSUME NEW d \in Decoders, NEW b, NEW new \in BOOLEAN, b.ready \in BOOLEAN,
           state \in [valid : BOOLEAN, stamp : Int], rcReady \in BOOLEAN, Rc!Announce(d, b, new)
    PROVE  /\ state' \in [valid : BOOLEAN, stamp : Int] /\ rcReady' \in BOOLEAN
           /\ rcReady' => d.valid /\ b.ready /\ tick - b.wall <= RcBase
           /\ rcReady' => ~d.kill \/ (rcReady /\ ~new)
           /\ state' # state /\ state'.valid => new /\ d.valid /\ state'.stamp = d.stamp
<1> DEFINE valid == d.valid /\ Rc!BaseFresh(b)
<1>0. d.valid \in BOOLEAN /\ d.kill \in BOOLEAN /\ d.stamp \in Int  BY DEF Decoders
<1>1. valid => b.ready /\ tick - b.wall <= RcBase  BY DEF Rc!BaseFresh
<1>2. valid \in BOOLEAN  BY DEF Rc!BaseFresh
<1>3. CASE valid /\ ~new
  <2>1. state' = state /\ rcReady' = rcReady  BY <1>3 DEF Rc!Announce
  <2>2. d.valid  BY <1>3
  <2> QED  BY <1>1, <1>3, <2>1, <2>2
<1>4. CASE ~(valid /\ ~new)
  <2>1. state' = [valid |-> valid, stamp |-> IF valid THEN d.stamp ELSE 0]
        /\ rcReady' = (valid /\ ~d.kill)
    BY <1>4 DEF Rc!Announce
  <2>6. rcReady' \in BOOLEAN /\ (rcReady' => valid) /\ (rcReady' => ~d.kill)
    BY <1>0, <1>2, <2>1
  <2> HIDE DEF valid
  <2>2. state' \in [valid : BOOLEAN, stamp : Int] /\ state'.valid = valid
    BY <1>0, <1>2, <2>1
  <2>3. valid => state'.stamp = d.stamp  BY <2>1
  <2>4. valid => new  BY <1>4, <1>2
  <2>5. valid => d.valid  BY DEF valid
  <2> QED  BY <1>1, <1>2, <2>2, <2>3, <2>4, <2>5, <2>6
<1> QED  BY <1>3, <1>4

\* A valid state published is of the measurement that has just been received.
IsNewMeasurement ==
    state' # state /\ state'.valid =>
        state'.stamp > heard.stamp /\ state'.stamp = heard'.stamp

\* A remote control message leaves the invariant, and brings only what is new.
LEMMA RcArrivesKeeps == ASSUME RcInv, Rc!RcArrives PROVE RcInv' /\ IsNewMeasurement
<1>1. PICK stamp \in Int, payload \in Rc!Payloads :
        LET d == Rc!Evaluated(Rc!Updated(Rc!Evaluated(decoder), stamp, payload))
        IN  /\ decoder' = d /\ Rc!Announce(d, heartbeat, TRUE)
            /\ heard' = IF Rc!InTime(stamp) /\ stamp > heard.stamp
                        THEN [heard EXCEPT !.stamp = stamp] ELSE heard
            /\ UNCHANGED <<Rc!healthVars, heartbeat>>
  <2>1. \A a, b : \A n \in a .. b : n \in Int  OBVIOUS
  <2> QED  BY <2>1 DEF Rc!RcArrives
<1> DEFINE first == Rc!Evaluated(decoder)
           second == Rc!Updated(first, stamp, payload)
           third == Rc!Evaluated(second)
<1>2. /\ first \in Decoders
      /\ first.seen = decoder.seen
  BY RcTyped, EvaluatedIs
<1> HIDE DEF first
<1>3. /\ second \in Decoders
      /\ second.seen >= decoder.seen /\ (Rc!InTime(stamp) => second.seen >= stamp)
      /\ second.valid => stamp > decoder.seen /\ second.stamp = stamp /\ Rc!InTime(stamp)
  BY <1>2, RcTyped, UpdatedIs
<1> HIDE DEF second
<1>4. /\ third \in Decoders
      /\ third.seen = second.seen
      /\ third.valid => third = second /\ tick - third.stamp <= RcTimeout
  BY <1>3, RcTyped, EvaluatedIs
<1> HIDE DEF third
<1>5. /\ decoder' = third /\ Rc!Announce(third, heartbeat, TRUE)
      /\ heard' = IF Rc!InTime(stamp) /\ stamp > heard.stamp
                  THEN [heard EXCEPT !.stamp = stamp] ELSE heard
      /\ UNCHANGED <<tick, due, mavros, livox, beat, heartbeat>>
  BY <1>1 DEF first, second, third, Rc!healthVars
<1>6. /\ state' \in [valid : BOOLEAN, stamp : Int] /\ rcReady' \in BOOLEAN
      /\ rcReady' => third.valid /\ heartbeat.ready /\ tick - heartbeat.wall <= RcBase
      /\ rcReady' => ~third.kill
      /\ state' # state /\ state'.valid => third.valid /\ state'.stamp = third.stamp
  BY <1>4, <1>5, RcTypedFlags, AnnounceIs
<1>7. /\ heard' \in [stamp : Int, connected : Int] /\ heard'.connected = heard.connected
      /\ heard'.stamp = IF Rc!InTime(stamp) /\ stamp > heard.stamp THEN stamp ELSE heard.stamp
  BY <1>5, RcTypedFlags
<1>8. RcTypes'  BY <1>4, <1>5, <1>6, <1>7 DEF RcInv, RcTypes
<1>9. Connected'  BY <1>5, <1>7 DEF RcInv, Connected
<1>10. RcAlive'
  <2>1. rcReady' => third.valid /\ ~third.kill /\ tick - third.stamp <= RcTimeout
    BY <1>4, <1>6
  <2>2. Late("watchdog" \in due') \in {0, 1}  BY DEF Late
  <2>3. tick \in Nat /\ third.stamp \in Int /\ heartbeat.wall \in Int
    BY <1>4, RcTyped DEF Decoders
  <2>4. /\ tick - third.stamp <= RcTimeout =>
            tick - third.stamp <= RcTimeout + Late("watchdog" \in due')
        /\ tick - heartbeat.wall <= RcBase =>
            tick - heartbeat.wall <= RcBase + Late("watchdog" \in due')
    BY <2>2, <2>3, RcConstants
  <2> QED  BY <1>5, <1>6, <2>1, <2>4 DEF RcAlive
<1>11. Received'
  <2>1. /\ heard.stamp \in Int /\ decoder.seen \in Int /\ second.seen \in Int
        /\ heard.stamp <= decoder.seen
    BY <1>3, RcTyped DEF RcInv, Received, Decoders
  <2>2. decoder'.seen = second.seen  BY <1>4, <1>5
  <2>3. heard'.stamp <= second.seen  BY <1>2, <1>3, <1>7, <2>1
  <2> QED  BY <2>2, <2>3 DEF Received
<1>12. IsNewMeasurement
  <2> SUFFICES ASSUME state' # state, state'.valid
               PROVE  state'.stamp > heard.stamp /\ state'.stamp = heard'.stamp
    BY DEF IsNewMeasurement
  <2>1. state'.stamp = stamp /\ stamp > decoder.seen /\ Rc!InTime(stamp)
    BY <1>3, <1>4, <1>6
  <2>2. heard.stamp <= decoder.seen /\ heard.stamp \in Int /\ decoder.seen \in Int
    BY RcTyped DEF RcInv, Received
  <2> QED  BY <1>7, <2>1, <2>2
<1> QED  BY <1>8, <1>9, <1>10, <1>11, <1>12 DEF RcInv

\* A heartbeat that arrives is one the sender could stand behind when it sent it.
LEMMA BaseArrivesKeeps == ASSUME RcInv, Rc!BaseArrives PROVE RcInv' /\ IsNewMeasurement
<1>1. /\ beat # "none" /\ beat' = "none"
      /\ heartbeat' = [ready |-> beat = "ready", wall |-> tick]
      /\ UNCHANGED <<tick, due, mavros, livox, heard>>
  BY DEF Rc!BaseArrives, Rc!NoBeat
<1>2. heartbeat' \in [ready : BOOLEAN, wall : Int]
      /\ heartbeat'.wall = tick /\ heartbeat'.ready = (beat = "ready")
  <2> DEFINE up == beat = "ready"
  <2>1. up \in BOOLEAN /\ tick \in Int  BY RcTyped
  <2>2. heartbeat' = [ready |-> up, wall |-> tick]  BY <1>1
  <2> HIDE DEF up
  <2>3. heartbeat' \in [ready : BOOLEAN, wall : Int] /\ heartbeat'.wall = tick
        /\ heartbeat'.ready = up
    BY <2>1, <2>2
  <2> QED  BY <2>3 DEF up
<1>3. Late("watchdog" \in due) \in {0, 1}  BY DEF Late
<1>4. CASE beat = "ready"
  <2>1. UNCHANGED <<decoder, state, rcReady>>  BY <1>4 DEF Rc!BaseArrives
  <2>2. RcTypes'  BY <1>1, <1>2, <2>1 DEF RcInv, RcTypes
  <2>3. Connected'  BY <1>1, <1>2, <1>4 DEF RcInv, Connected
  <2>4. RcAlive'
    <3>1. tick - tick <= RcBase + Late("watchdog" \in due)
      BY <1>3, RcTyped, RcConstants
    <3> QED  BY <1>1, <1>2, <1>4, <2>1, <3>1 DEF RcInv, RcAlive
  <2>5. Received' /\ IsNewMeasurement  BY <1>1, <2>1 DEF RcInv, Received, IsNewMeasurement
  <2> QED  BY <2>2, <2>3, <2>4, <2>5 DEF RcInv
<1>5. CASE beat # "ready"
  <2>1. decoder' = Rc!Evaluated(decoder) /\ Rc!Announce(decoder', heartbeat', FALSE)
    BY <1>5 DEF Rc!BaseArrives
  <2>2. /\ decoder' \in Decoders
        /\ decoder'.seen = decoder.seen
    BY <2>1, RcTyped, EvaluatedIs
  <2> DEFINE d == decoder'
             b == heartbeat'
  <2> HIDE DEF d, b
  <2>3. Rc!Announce(d, b, FALSE) /\ d \in Decoders /\ b.ready = FALSE
    BY <1>2, <1>5, <2>1, <2>2 DEF d, b
  <2>4. /\ state' \in [valid : BOOLEAN, stamp : Int] /\ rcReady' = FALSE
        /\ state' # state => ~state'.valid
    <3>1. b.ready \in BOOLEAN  BY <2>3
    <3>2. /\ state' \in [valid : BOOLEAN, stamp : Int] /\ rcReady' \in BOOLEAN
          /\ rcReady' => b.ready
          /\ state' # state /\ state'.valid => FALSE
      BY <2>3, <3>1, RcTypedFlags, AnnounceIs
    <3>3. state'.valid \in BOOLEAN  BY <3>2
    <3> QED  BY <2>3, <3>2, <3>3
  <2>5. RcTypes'  BY <1>1, <1>2, <2>2, <2>4 DEF RcInv, RcTypes
  <2>6. Connected'  BY <1>1, <1>2, <1>5 DEF RcInv, Connected
  <2>7. RcAlive' /\ Received'  BY <1>1, <2>2, <2>4 DEF RcInv, RcAlive, Received
  <2> QED  BY <2>4, <2>5, <2>6, <2>7 DEF RcInv, IsNewMeasurement
<1> QED  BY <1>4, <1>5

\* The watchdog withdraws what has grown old since its last run.
LEMMA RcWatchdogKeeps == ASSUME RcInv, Rc!Watchdog PROVE RcInv' /\ IsNewMeasurement
<1>1. /\ due' = due \ {"watchdog"} /\ decoder' = Rc!Evaluated(decoder)
      /\ Rc!Announce(decoder', heartbeat, FALSE)
      /\ UNCHANGED <<tick, mavros, livox, beat, heartbeat, heard>>
  BY DEF Rc!Watchdog
<1>2. /\ decoder' \in Decoders
      /\ decoder'.seen = decoder.seen
      /\ decoder'.valid => decoder' = decoder /\ tick - decoder.stamp <= RcTimeout
  BY <1>1, RcTyped, EvaluatedIs
<1> DEFINE d == decoder'
<1> HIDE DEF d
<1>3. Rc!Announce(d, heartbeat, FALSE) /\ d \in Decoders
  BY <1>1, <1>2 DEF d
<1>4. /\ state' \in [valid : BOOLEAN, stamp : Int] /\ rcReady' \in BOOLEAN
      /\ rcReady' => d.valid /\ heartbeat.ready /\ tick - heartbeat.wall <= RcBase
      /\ rcReady' => ~d.kill \/ rcReady
      /\ state' # state => ~state'.valid
  <2>1. /\ state' \in [valid : BOOLEAN, stamp : Int] /\ rcReady' \in BOOLEAN
        /\ rcReady' => d.valid /\ heartbeat.ready /\ tick - heartbeat.wall <= RcBase
        /\ rcReady' => ~d.kill \/ rcReady
        /\ state' # state /\ state'.valid => FALSE
    BY <1>3, RcTypedFlags, AnnounceIs
  <2> QED  BY <2>1
<1>5. RcTypes'  BY <1>1, <1>2, <1>4 DEF RcInv, RcTypes
<1>6. Connected' /\ Received'  BY <1>1, <1>2 DEF RcInv, Connected, Received
<1>7. RcAlive'
  <2>1. Late("watchdog" \in due') = 0  BY <1>1 DEF Late
  <2>2. rcReady' => decoder' = decoder /\ tick - decoder.stamp <= RcTimeout /\ decoder.valid
        /\ ~decoder.kill
    BY <1>2, <1>4 DEF d, RcInv, RcAlive
  <2>3. /\ RcTimeout + Late("watchdog" \in due') = RcTimeout
        /\ RcBase + Late("watchdog" \in due') = RcBase
    BY <2>1, RcConstants
  <2> QED  BY <1>1, <1>4, <2>2, <2>3 DEF RcAlive
<1> QED  BY <1>4, <1>5, <1>6, <1>7 DEF RcInv, IsNewMeasurement

\* A health report says ready only while the flight controller is connected.
LEMMA HealthKeeps == ASSUME RcInv, Rc!Health PROVE RcInv' /\ IsNewMeasurement
<1>1. /\ UNCHANGED <<decoder, heartbeat, state, rcReady>>
      /\ heard' = IF mavros'.connected /\ mavros'.wall = tick
                  THEN [heard EXCEPT !.connected = tick] ELSE heard
  BY DEF Rc!Health
<1>2. /\ heard' \in [stamp : Int, connected : Int] /\ heard'.stamp = heard.stamp
      /\ heard'.connected >= heard.connected /\ heard'.connected <= tick
      /\ mavros'.connected /\ mavros'.wall = tick => heard'.connected = tick
  <2>1. tick \in Nat /\ heard \in [stamp : Int, connected : Int] /\ heard.connected <= tick
    BY RcTyped, RcTypedFlags DEF RcInv, Connected
  <2>2. heard.connected \in Int  BY <2>1
  <2>3. CASE mavros'.connected /\ mavros'.wall = tick
    <3>1. heard' = [heard EXCEPT !.connected = tick]  BY <1>1, <2>3
    <3> QED  BY <2>1, <2>2, <3>1
  <2>4. CASE ~(mavros'.connected /\ mavros'.wall = tick)
    <3>1. heard' = heard  BY <1>1, <2>4
    <3> QED  BY <2>1, <2>2, <2>4, <3>1
  <2> QED  BY <2>3, <2>4
<1>3. IsNewMeasurement /\ Received'  BY <1>1, <1>2 DEF RcInv, IsNewMeasurement, Received
<1>4. CASE Rc!Tick
  <2>1. /\ due = {} /\ beat = "none" /\ tick' = tick + 1 /\ due' = Timers
        /\ UNCHANGED <<mavros, livox, beat>>
    BY <1>4 DEF Rc!Tick, Rc!NoBeat
  <2>2. RcTypes'  BY <1>1, <1>2, <2>1 DEF RcInv, RcTypes
  <2>3. Connected'
    <3>1. heard'.connected = heard.connected
          \/ (heard'.connected = tick /\ mavros.connected /\ mavros.wall = tick)
      BY <1>1, <2>1, RcTypedFlags
    <3>2. /\ heard'.connected <= tick + 1
          /\ mavros.connected => mavros.wall <= heard'.connected
      BY <1>2, <3>1, RcTyped DEF RcInv, Connected
    <3>3. heartbeat.ready => heartbeat.wall - heard'.connected <= MavrosTimeout
      BY <1>2, RcTyped, RcConstants DEF RcInv, Connected
    <3> QED  BY <1>1, <2>1, <3>2, <3>3 DEF Connected
  <2>4. Late("watchdog" \in due) = 0 /\ Late("watchdog" \in due') = 1
    BY <2>1, RcConstants DEF Late
  <2>5. RcAlive'
    <3>1. /\ tick - decoder.stamp <= RcTimeout + 0 => (tick + 1) - decoder.stamp <= RcTimeout + 1
          /\ tick - heartbeat.wall <= RcBase + 0 => (tick + 1) - heartbeat.wall <= RcBase + 1
      BY RcTyped, RcConstants
    <3> QED  BY <1>1, <2>1, <2>4, <3>1 DEF RcInv, RcAlive
  <2> QED  BY <1>3, <2>2, <2>3, <2>5 DEF RcInv
<1>5. CASE Rc!MavrosArrives
  <2>1. PICK c \in BOOLEAN : mavros' = [connected |-> c, wall |-> tick]
    BY <1>5 DEF Rc!MavrosArrives
  <2>2. UNCHANGED <<tick, due, livox, beat>>  BY <1>5 DEF Rc!MavrosArrives
  <2>3. mavros' \in [connected : BOOLEAN, wall : Int] /\ mavros'.connected = c
        /\ mavros'.wall = tick
    BY <2>1, RcTyped
  <2>4. RcTypes'  BY <1>1, <1>2, <2>2, <2>3 DEF RcInv, RcTypes
  <2>5. Connected'
    <3>1. /\ tick \in Nat /\ heard.connected \in Int /\ heard'.connected \in Int
          /\ heartbeat.wall \in Int
      BY <1>2, RcTyped
    <3>2. mavros'.connected => mavros'.wall <= heard'.connected  BY <1>2, <2>3, <3>1
    <3>3. beat = "ready" => tick - heard'.connected <= MavrosTimeout
      BY <1>2, <3>1, RcConstants DEF RcInv, Connected
    <3>4. heartbeat.ready => heartbeat.wall - heard'.connected <= MavrosTimeout
      BY <1>2, <3>1, RcConstants DEF RcInv, Connected
    <3> QED  BY <1>1, <1>2, <2>2, <3>2, <3>3, <3>4 DEF Connected
  <2>6. RcAlive'  BY <1>1, <2>2 DEF RcInv, RcAlive
  <2> QED  BY <1>3, <2>4, <2>5, <2>6 DEF RcInv
<1>6. CASE Rc!LivoxArrives \/ Rc!Publish \/ Rc!Silent
  <2>1. /\ UNCHANGED <<tick, mavros>> /\ livox' \in Int
        /\ due' \subseteq Timers /\ ("watchdog" \in due' <=> "watchdog" \in due)
        /\ beat' \in {"none", "ready", "not ready"}
        /\ beat' = "ready" => beat = "ready" \/ Rc!Healthy
    <3>1. tick \in Int /\ livox \in Int /\ beat \in {"none", "ready", "not ready"}
          /\ due \subseteq Timers
      <4>1. livox \in Int /\ beat \in {"none", "ready", "not ready"} /\ due \subseteq Timers
        BY DEF RcInv, RcTypes
      <4> QED  BY <4>1, RcTyped
    <3>2. CASE Rc!LivoxArrives
      <4>1. livox' = tick /\ UNCHANGED <<tick, due, mavros, beat>>
        BY <3>2 DEF Rc!LivoxArrives
      <4> QED  BY <3>1, <4>1
    <3>3. CASE Rc!Publish
      <4>1. /\ due' = due \ {"health"} /\ UNCHANGED <<tick, mavros, livox>>
            /\ beat' = IF Rc!Healthy THEN "ready" ELSE "not ready"
        BY <3>3 DEF Rc!Publish
      <4>2. beat' \in {"none", "ready", "not ready"} /\ (beat' = "ready" => Rc!Healthy)
        BY <4>1
      <4> QED  BY <3>1, <4>1, <4>2
    <3>4. CASE Rc!Silent
      <4>1. due' = due \ {"health"} /\ UNCHANGED <<tick, mavros, livox, beat>>
        BY <3>4 DEF Rc!Silent
      <4> QED  BY <3>1, <4>1
    <3> QED  BY <1>6, <3>2, <3>3, <3>4
  <2>2. RcTypes'  BY <1>1, <1>2, <2>1 DEF RcInv, RcTypes
  <2>3. Connected'
    <3>1. /\ tick \in Nat /\ heard.connected \in Int /\ heard'.connected \in Int
          /\ heartbeat.wall \in Int /\ mavros.wall \in Int
      <4>1. mavros.wall \in Int  BY DEF RcInv, RcTypes
      <4> QED  BY <1>2, <4>1, RcTyped
    <3>2. mavros'.connected => mavros'.wall <= heard'.connected
      <4>1. mavros' = mavros /\ (mavros.connected => mavros.wall <= heard.connected)
        BY <2>1 DEF RcInv, Connected
      <4> QED  BY <1>2, <3>1, <4>1
    <3>3. beat' = "ready" => tick - heard'.connected <= MavrosTimeout
      <4>1. Rc!Healthy => mavros.connected /\ tick - mavros.wall <= MavrosTimeout
        BY DEF Rc!Healthy
      <4> QED  BY <1>2, <2>1, <3>1, <4>1, RcConstants DEF RcInv, Connected
    <3>4. heartbeat.ready => heartbeat.wall - heard'.connected <= MavrosTimeout
      BY <1>2, <3>1, RcConstants DEF RcInv, Connected
    <3> QED  BY <1>1, <1>2, <2>1, <3>2, <3>3, <3>4 DEF Connected
  <2>4. Late("watchdog" \in due') = Late("watchdog" \in due)  BY <2>1 DEF Late
  <2>5. RcAlive'  BY <1>1, <2>1, <2>4 DEF RcInv, RcAlive
  <2> QED  BY <1>3, <2>2, <2>3, <2>5 DEF RcInv
<1> QED  BY <1>4, <1>5, <1>6 DEF Rc!Health

\* Each step of the remote control and of base health
LEMMA RcStep == ASSUME RcInv, Rc!Next PROVE RcInv' /\ IsNewMeasurement
BY RcArrivesKeeps, BaseArrivesKeeps, RcWatchdogKeeps, HealthKeeps DEF Rc!Next

\* The invariant says what a ready remote control stands on.
LEMMA RcIsBacked == RcInv => Rc!ReadyIsBacked
<1> SUFFICES ASSUME RcInv, rcReady PROVE Rc!ReadyIsBacked  BY DEF Rc!ReadyIsBacked
<1>1. Late("watchdog" \in due) \in {0, 1}  BY DEF Late
<1>2. tick - heard.connected <= MavrosTimeout + RcBase + 1
  <2>1. tick \in Nat /\ heartbeat.wall \in Int /\ heard.connected \in Int
    BY DEF RcInv, RcTypes
  <2>2. /\ tick - heartbeat.wall <= RcBase + Late("watchdog" \in due)
        /\ heartbeat.wall - heard.connected <= MavrosTimeout
    BY DEF RcInv, RcAlive, Connected
  <2> QED  BY <1>1, <2>1, <2>2, RcConstants
<1>3. /\ tick - decoder.stamp <= RcTimeout + 1 /\ tick - heartbeat.wall <= RcBase + 1
  <2>1. tick \in Nat /\ heartbeat.wall \in Int /\ decoder.stamp \in Int
    BY DEF RcInv, RcTypes, Decoders
  <2>2. /\ tick - heartbeat.wall <= RcBase + Late("watchdog" \in due)
        /\ tick - decoder.stamp <= RcTimeout + Late("watchdog" \in due)
    BY DEF RcInv, RcAlive
  <2> QED  BY <1>1, <2>1, <2>2, RcConstants
<1>4. decoder.valid /\ ~decoder.kill /\ heartbeat.ready  BY DEF RcInv, RcAlive
<1> QED  BY <1>2, <1>3, <1>4 DEF Rc!ReadyIsBacked
-----------------------------------------------------------------------------
(* The owner of the transform                                              *)

TfTypes ==
    /\ hour \in Nat /\ hour > 0 /\ watch \in BOOLEAN
    /\ cache \in [{"local", "global"} -> SUBSET Int]
    /\ stamps \in [{"local", "global"} -> Int] /\ void \in [{"local", "global"} -> Int]
    /\ enabled \in BOOLEAN /\ baseWall \in Int
    /\ last \in [stamp : Int, wall : Int] /\ tfReady \in BOOLEAN

TfAlive ==
    tfReady => /\ enabled /\ hour - baseWall <= TfBase + Late(watch)
               /\ last.wall # Tf!Never /\ hour - last.stamp <= TfAge + Late(watch)

\* The caches hold what came after the last reason to forget.
CachesAreNew ==
    \A i \in {"local", "global"} :
        /\ void[i] <= stamps[i]
        /\ \A s \in cache[i] : void[i] < s /\ s <= stamps[i]

TfInv == TfTypes /\ TfAlive /\ CachesAreNew

\* A transform published is of two estimates that came after the last reason to forget.
IsNewPair ==
    last'.stamp # last.stamp =>
        /\ last'.stamp > last.stamp
        /\ \A i \in {"local", "global"} : last'.stamp > void[i] /\ last'.stamp <= stamps'[i]

\* What the proofs about the transform broadcast need of its constants
LEMMA TfConstants == TfAge \in Nat /\ TfBase \in Nat
BY ServicesAssumptions DEF Tf!WorldTfAssumption

\* The broadcast's invariant holds when it has just started.
LEMMA TfInitially == Tf!Init => TfInv
<1> SUFFICES ASSUME Tf!Init PROVE TfInv  OBVIOUS
<1> USE DEF Tf!Init, Tf!Never, Tf!Empty, Tf!Inputs
<1>1. TfTypes
  <2>1. hour \in Nat /\ hour > 0  OBVIOUS
  <2>2. watch \in BOOLEAN /\ enabled \in BOOLEAN /\ tfReady \in BOOLEAN  OBVIOUS
  <2>3. cache \in [{"local", "global"} -> SUBSET Int]  OBVIOUS
  <2>4. stamps \in [{"local", "global"} -> Int] /\ void \in [{"local", "global"} -> Int]
    OBVIOUS
  <2>5. baseWall \in Int /\ last \in [stamp : Int, wall : Int]  OBVIOUS
  <2> QED  BY <2>1, <2>2, <2>3, <2>4, <2>5 DEF TfTypes
<1>2. TfAlive /\ CachesAreNew  BY DEF TfAlive, CachesAreNew
<1> QED  BY <1>1, <1>2 DEF TfInv

\* Forgetting leaves nothing to pair, and is not ready.
LEMMA InvalidateIs ==
    ASSUME TfTypes, NEW s \in [{"local", "global"} -> Int], Tf!Invalidate(s)
    PROVE  /\ cache' = [i \in {"local", "global"} |-> {}] /\ void' = s /\ tfReady' = FALSE
           /\ last' \in [stamp : Int, wall : Int] /\ last'.stamp = last.stamp
BY DEF Tf!Invalidate, Tf!Empty, Tf!Inputs, Tf!Never, TfTypes

\* A cache takes up at most the estimate that came.
LEMMA CachedIs ==
    ASSUME NEW i \in {"local", "global"}, NEW stamp
    PROVE  Tf!Cached(i, stamp) \subseteq cache[i] \cup {stamp}
BY DEF Tf!Cached

\* What a topic brings is cached, and a pair that is published is newer than the last.
LEMMA ReceiveKeeps == ASSUME TfInv, Tf!Receive PROVE TfInv' /\ IsNewPair
<1> USE DEF TfInv
<1>1. PICK i \in {"local", "global"}, stamp \in Int, good \in BOOLEAN :
        /\ IF Tf!Rejects(i, stamp) THEN Tf!Invalidate(stamps) /\ UNCHANGED stamps
           ELSE /\ stamps' = [stamps EXCEPT ![i] = stamp]
                /\ IF good THEN Tf!Pair(i, stamp) ELSE Tf!Invalidate(stamps')
        /\ UNCHANGED <<hour, watch, enabled, baseWall>>
  BY DEF Tf!Receive, Tf!Inputs, TfTypes
<1>2. CASE Tf!Rejects(i, stamp)
  <2>1. Tf!Invalidate(stamps) /\ UNCHANGED stamps  BY <1>1, <1>2
  <2>2. /\ cache' = [j \in {"local", "global"} |-> {}] /\ void' = stamps /\ tfReady' = FALSE
        /\ last' \in [stamp : Int, wall : Int] /\ last'.stamp = last.stamp
    BY <2>1, InvalidateIs DEF TfTypes
  <2>3. TfTypes'  BY <1>1, <2>1, <2>2 DEF TfTypes
  <2>4. CachesAreNew'  BY <2>1, <2>2 DEF CachesAreNew, TfTypes
  <2> QED  BY <2>2, <2>3, <2>4 DEF TfAlive, IsNewPair
<1>3. CASE ~Tf!Rejects(i, stamp)
  <2>1. /\ enabled /\ hour - baseWall <= TfBase
        /\ hour - stamp >= 0 /\ hour - stamp <= TfAge /\ stamp > stamps[i]
    BY <1>3, TfConstants DEF Tf!Rejects, Tf!Gates, Tf!Fresh, TfTypes
  <2>2. /\ stamps' = [stamps EXCEPT ![i] = stamp]
        /\ stamps' \in [{"local", "global"} -> Int]
        /\ stamps'[i] = stamp
        /\ \A j \in {"local", "global"} : j # i => stamps'[j] = stamps[j]
    BY <1>1, <1>3 DEF TfTypes
  <2>3. CASE ~good
    <3> DEFINE s == stamps'
    <3> HIDE DEF s
    <3>1. Tf!Invalidate(s) /\ s \in [{"local", "global"} -> Int]
      BY <1>1, <1>3, <2>2, <2>3 DEF s
    <3>2. /\ cache' = [j \in {"local", "global"} |-> {}] /\ void' = s /\ tfReady' = FALSE
          /\ last' \in [stamp : Int, wall : Int] /\ last'.stamp = last.stamp
      BY <3>1, InvalidateIs
    <3>3. TfTypes'  BY <1>1, <2>2, <3>1, <3>2 DEF TfTypes
    <3>4. CachesAreNew'  BY <3>1, <3>2 DEF CachesAreNew, s
    <3> QED  BY <3>2, <3>3, <3>4 DEF TfAlive, IsNewPair
  <2>4. CASE good
    <3> DEFINE both == [cache EXCEPT ![i] = Tf!Cached(i, stamp)]
               pairs == \A j \in {"local", "global"} : stamp \in both[j] /\ stamp > last.stamp
    <3>1. /\ both \in [{"local", "global"} -> SUBSET Int]
          /\ both[i] \subseteq cache[i] \cup {stamp}
          /\ \A j \in {"local", "global"} : j # i => both[j] = cache[j]
      BY CachedIs DEF TfTypes
    <3>2. IF pairs
          THEN /\ last' = [stamp |-> stamp, wall |-> hour] /\ tfReady' = TRUE
               /\ cache' = [j \in {"local", "global"} |-> {s \in both[j] : s > stamp}]
               /\ UNCHANGED void
          ELSE cache' = both /\ UNCHANGED <<last, tfReady, void>>
      BY <1>1, <1>3, <2>4 DEF Tf!Pair, Tf!Inputs
    <3> HIDE DEF both
    <3>3. \A j \in {"local", "global"} : \A s \in both[j] : void[j] < s /\ s <= stamps'[j]
      <4> SUFFICES ASSUME NEW j \in {"local", "global"}, NEW s \in both[j]
                   PROVE  void[j] < s /\ s <= stamps'[j]
        OBVIOUS
      <4>1. s \in Int /\ void[j] \in Int /\ stamps[j] \in Int /\ stamps'[j] \in Int
        BY <2>2, <3>1 DEF TfTypes
      <4>2. CASE j # i  BY <2>2, <3>1, <4>2 DEF CachesAreNew
      <4>3. CASE j = i
        <5>1. s \in cache[i] \/ s = stamp  BY <3>1, <4>3
        <5> QED  BY <2>1, <2>2, <4>1, <4>3, <5>1 DEF CachesAreNew
      <4> QED  BY <4>2, <4>3
    <3>4. /\ void' = void
          /\ \A j \in {"local", "global"} : cache'[j] \subseteq both[j]
          /\ cache' \in [{"local", "global"} -> SUBSET Int]
      BY <3>1, <3>2
    <3>5. last' \in [stamp : Int, wall : Int] /\ tfReady' \in BOOLEAN
      <4>1. /\ hour \in Int /\ last \in [stamp : Int, wall : Int] /\ tfReady \in BOOLEAN
        BY DEF TfTypes
      <4>2. CASE pairs
        <5>1. last' = [stamp |-> stamp, wall |-> hour] /\ tfReady' = TRUE  BY <3>2, <4>2
        <5> QED  BY <4>1, <5>1
      <4>3. CASE ~pairs
        <5>1. last' = last /\ tfReady' = tfReady  BY <3>2, <4>3
        <5> QED  BY <4>1, <5>1
      <4> QED  BY <4>2, <4>3
    <3>6. TfTypes'  BY <1>1, <2>2, <3>4, <3>5 DEF TfTypes
    <3>7. CachesAreNew'
      <4> SUFFICES ASSUME NEW j \in {"local", "global"}
                   PROVE  /\ void[j] <= stamps'[j]
                          /\ \A s \in cache'[j] : void[j] < s /\ s <= stamps'[j]
        BY <3>4 DEF CachesAreNew
      <4>1. void[j] \in Int /\ stamps[j] \in Int /\ stamps'[j] \in Int
            /\ void[j] <= stamps[j] /\ stamps[j] <= stamps'[j]
        BY <2>1, <2>2 DEF TfTypes, CachesAreNew
      <4> QED  BY <3>3, <3>4, <4>1
    <3>8. Late(watch) \in {0, 1} /\ Late(watch') = Late(watch)  BY <1>1 DEF Late
    <3>9. TfAlive'
      <4>1. CASE pairs
        <5>1. last'.wall = hour /\ last'.stamp = stamp  BY <3>2, <4>1
        <5> QED  BY <1>1, <2>1, <3>8, <5>1, TfConstants DEF TfAlive, TfTypes, Tf!Never
      <4>2. CASE ~pairs  BY <1>1, <3>2, <3>8, <4>2 DEF TfAlive
      <4> QED  BY <4>1, <4>2
    <3>10. IsNewPair
      <4>1. CASE pairs
        <5>1. last'.stamp = stamp /\ stamp > last.stamp
              /\ \A j \in {"local", "global"} : stamp \in both[j]
          BY <3>2, <4>1
        <5> QED  BY <3>3, <5>1 DEF IsNewPair
      <4>2. CASE ~pairs  BY <3>2, <4>2 DEF IsNewPair
      <4> QED  BY <4>1, <4>2
    <3> QED  BY <3>6, <3>7, <3>9, <3>10
  <2> QED  BY <2>3, <2>4
<1> QED  BY <1>2, <1>3

\* A gate that closes empties the caches; one that stays open leaves them.
LEMMA GatesKeep == ASSUME TfInv, Tf!Localized \/ Tf!Base PROVE TfInv' /\ IsNewPair
<1> USE DEF TfInv
<1>1. /\ UNCHANGED <<hour, watch, stamps>>
      /\ enabled' \in BOOLEAN /\ baseWall' \in Int
      /\ \/ Tf!Keep /\ (enabled => enabled') /\ baseWall' \in {baseWall, hour}
         \/ Tf!Invalidate(stamps)
  BY DEF Tf!Localized, Tf!Base, Tf!Never, TfTypes
<1>2. CASE Tf!Invalidate(stamps)
  <2>1. /\ cache' = [j \in {"local", "global"} |-> {}] /\ void' = stamps /\ tfReady' = FALSE
        /\ last' \in [stamp : Int, wall : Int] /\ last'.stamp = last.stamp
    BY <1>2, InvalidateIs DEF TfTypes
  <2>2. TfTypes'  BY <1>1, <2>1 DEF TfTypes
  <2>3. CachesAreNew'  BY <1>1, <2>1 DEF CachesAreNew, TfTypes
  <2> QED  BY <2>1, <2>2, <2>3 DEF TfAlive, IsNewPair
<1>3. CASE Tf!Keep /\ (enabled => enabled') /\ baseWall' \in {baseWall, hour}
  <2>1. UNCHANGED <<cache, last, tfReady, void>>  BY <1>3 DEF Tf!Keep
  <2>2. TfTypes'  BY <1>1, <2>1 DEF TfTypes
  <2>3. CachesAreNew'  BY <1>1, <2>1 DEF CachesAreNew
  <2>4. Late(watch) \in {0, 1} /\ Late(watch') = Late(watch)  BY <1>1 DEF Late
  <2>5. TfAlive'  BY <1>1, <1>3, <2>1, <2>4, TfConstants DEF TfAlive, TfTypes
  <2> QED  BY <2>1, <2>2, <2>3, <2>5 DEF IsNewPair
<1> QED  BY <1>1, <1>2, <1>3

\* The broadcast's watchdog withdraws readiness that has grown old.
LEMMA TfWatchdogKeeps == ASSUME TfInv, Tf!Watchdog PROVE TfInv' /\ IsNewPair
<1> USE DEF TfInv
<1>1. watch' = FALSE /\ UNCHANGED <<hour, stamps, enabled, baseWall>>  BY DEF Tf!Watchdog
<1>2. Late(watch') = 0  BY <1>1 DEF Late
<1>3. \/ Tf!Invalidate(stamps)
      \/ tfReady' = FALSE /\ UNCHANGED <<cache, last, void>>
      \/ /\ UNCHANGED <<cache, last, tfReady, void>> /\ last.wall # Tf!Never
         /\ Tf!Gates /\ ~Tf!Outlived
  BY DEF Tf!Watchdog, Tf!Keep
<1>4. CASE Tf!Invalidate(stamps)
  <2>1. /\ cache' = [j \in {"local", "global"} |-> {}] /\ void' = stamps /\ tfReady' = FALSE
        /\ last' \in [stamp : Int, wall : Int] /\ last'.stamp = last.stamp
    BY <1>4, InvalidateIs DEF TfTypes
  <2>2. TfTypes'  BY <1>1, <2>1 DEF TfTypes
  <2>3. CachesAreNew'  BY <1>1, <2>1 DEF CachesAreNew, TfTypes
  <2> QED  BY <2>1, <2>2, <2>3 DEF TfAlive, IsNewPair
<1>5. CASE tfReady' = FALSE /\ UNCHANGED <<cache, last, void>>
  BY <1>1, <1>5 DEF TfTypes, TfAlive, CachesAreNew, IsNewPair
<1>6. CASE /\ UNCHANGED <<cache, last, tfReady, void>> /\ last.wall # Tf!Never
           /\ Tf!Gates /\ ~Tf!Outlived
  <2>1. TfTypes' /\ CachesAreNew' /\ IsNewPair
    BY <1>1, <1>6 DEF TfTypes, CachesAreNew, IsNewPair
  <2>2. enabled /\ hour - baseWall <= TfBase /\ hour - last.stamp <= TfAge
    BY <1>6, TfConstants DEF Tf!Gates, Tf!Outlived, Tf!Fresh, TfTypes
  <2>3. TfAlive'  BY <1>1, <1>2, <1>6, <2>2, TfConstants DEF TfAlive, TfTypes
  <2> QED  BY <2>1, <2>3
<1> QED  BY <1>3, <1>4, <1>5, <1>6

\* Each step of the broadcast
LEMMA TfStep == ASSUME TfInv, Tf!Next PROVE TfInv' /\ IsNewPair
<1>1. CASE Tf!Tick
  <2>1. /\ ~watch /\ hour' = hour + 1 /\ watch' = TRUE
        /\ UNCHANGED <<cache, stamps, enabled, baseWall, last, tfReady, void>>
    BY <1>1 DEF Tf!Tick
  <2>2. Late(watch) = 0 /\ Late(watch') = 1  BY <2>1 DEF Late
  <2>3. TfTypes' /\ CachesAreNew' /\ IsNewPair
    BY <2>1 DEF TfInv, TfTypes, CachesAreNew, IsNewPair
  <2>4. TfAlive'  BY <2>1, <2>2, TfConstants DEF TfInv, TfAlive, TfTypes
  <2> QED  BY <2>3, <2>4 DEF TfInv
<1> QED  BY <1>1, ReceiveKeeps, GatesKeep, TfWatchdogKeeps DEF Tf!Next

\* The invariant says what a ready broadcast stands on.
LEMMA TfIsBacked == TfInv => Tf!ReadyIsBacked
<1> SUFFICES ASSUME TfInv, tfReady PROVE Tf!ReadyIsBacked  BY DEF Tf!ReadyIsBacked
<1>1. Late(watch) \in {0, 1}  BY DEF Late
<1> QED  BY <1>1, TfConstants DEF TfInv, TfTypes, TfAlive, Tf!ReadyIsBacked
-----------------------------------------------------------------------------
(* The odometry chain                                                      *)

TwoNodes == {"adapter", "relay"}

ChainTypes ==
    /\ clock \in Nat /\ timers \subseteq TwoNodes
    /\ gate \in [TwoNodes -> [base : BOOLEAN, wall : Int, localized : BOOLEAN]]
    /\ chainReady \in [TwoNodes -> BOOLEAN] /\ seen \in [TwoNodes -> Int]
    /\ sample \in [TwoNodes -> [stamp : Int, wall : Int]]
    /\ wire \in Seq(Int)

NodeAlive(n) ==
    chainReady[n] => /\ gate[n].base /\ gate[n].localized
                     /\ clock - gate[n].wall <= ChainBase + Late(n \in timers)
                     /\ clock - sample[n].stamp <= ChainAge + Late(n \in timers)

ChainInv == ChainTypes /\ \A n \in TwoNodes : NodeAlive(n)

\* What the proofs about the odometry chain need of its constants
LEMMA ChainConstants == ChainAge \in Nat /\ ChainBase \in Nat /\ ChainFuture \in Nat
BY ServicesAssumptions DEF Chain!OdometryChainAssumption

\* The chain's invariant holds when both of its nodes have just started.
LEMMA ChainInitially == Chain!Init => ChainInv
<1> SUFFICES ASSUME Chain!Init PROVE ChainInv  OBVIOUS
<1> USE DEF Chain!Init, Chain!Never, Chain!Nodes, Chain!NoSample, TwoNodes
<1>1. wire \in Seq(Int)  BY EmptySeq
<1>2. ChainTypes  BY <1>1 DEF ChainTypes
<1>3. \A n \in TwoNodes : NodeAlive(n)  BY DEF NodeAlive
<1> QED  BY <1>2, <1>3 DEF ChainInv

\* Open gates are up, localized, and heard of in time.
LEMMA OpenGates ==
    ASSUME ChainTypes, NEW n \in TwoNodes, Chain!GatesOpen(n)
    PROVE  gate[n].base /\ gate[n].localized /\ clock - gate[n].wall <= ChainBase
BY DEF Chain!GatesOpen

GateStates == [base : BOOLEAN, wall : Int, localized : BOOLEAN]

\* What a write to one or two fields of a gate leaves
LEMMA GateWritten ==
    ASSUME NEW g \in GateStates, NEW v, NEW w
    PROVE  /\ [g EXCEPT !.localized = v] = [base |-> g.base, wall |-> g.wall, localized |-> v]
           /\ [g EXCEPT !.base = v, !.wall = w]
                = [base |-> v, wall |-> w, localized |-> g.localized]
<1>1. [g EXCEPT !.localized = v] = [base |-> g.base, wall |-> g.wall, localized |-> v]
  BY DEF GateStates
<1> DEFINE a == [base |-> v, wall |-> g.wall, localized |-> g.localized]
<1>2. [g EXCEPT !.base = v] = a  BY DEF GateStates
<1>3. [a EXCEPT !.wall = w] = [base |-> v, wall |-> w, localized |-> g.localized]  OBVIOUS
<1> HIDE DEF a
<1> QED  BY <1>1, <1>2, <1>3

\* Writing a field of a node's gates is writing the gates.
LEMMA FieldWritten ==
    ASSUME NEW f \in [TwoNodes -> GateStates], NEW m \in TwoNodes, NEW v, NEW w
    PROVE  [f EXCEPT ![m].base = v, ![m].wall = w]
             = [f EXCEPT ![m] = [f[m] EXCEPT !.base = v, !.wall = w]]
<1> DEFINE a == [f[m] EXCEPT !.base = v]
           h == [f EXCEPT ![m] = a]
<1>1. h[m] = a  OBVIOUS
<1>2. [f EXCEPT ![m].base = v, ![m].wall = w] = [h EXCEPT ![m] = [a EXCEPT !.wall = w]]
  BY <1>1
<1>3. [f EXCEPT ![m] = [f[m] EXCEPT !.base = v, !.wall = w]]
        = [f EXCEPT ![m] = [a EXCEPT !.wall = w]]
  OBVIOUS
<1> HIDE DEF a
<1>4. [h EXCEPT ![m] = [a EXCEPT !.wall = w]] = [f EXCEPT ![m] = [a EXCEPT !.wall = w]]
  OBVIOUS
<1> QED  BY <1>2, <1>3, <1>4

\* A gate message may end the readiness of the node it reaches, and never gives it.
LEMMA GateArrivesKeeps == ASSUME ChainInv, Chain!GateArrives PROVE ChainInv'
<1> USE DEF ChainInv
<1>1. UNCHANGED <<clock, timers, seen, sample, wire>>  BY DEF Chain!GateArrives
<1>2. PICK m \in TwoNodes, v \in BOOLEAN, still \in BOOLEAN :
        /\ \/ gate' = [gate EXCEPT ![m].base = v, ![m].wall = clock]
           \/ gate' = [gate EXCEPT ![m].localized = v]
        /\ chainReady' = [chainReady EXCEPT ![m] = @ /\ v /\ still]
  <2>1. PICK m \in TwoNodes : Chain!BaseArrives(m) \/ Chain!LocalizationArrives(m)
    BY DEF Chain!GateArrives, Chain!Nodes, TwoNodes
  <2>2. CASE Chain!BaseArrives(m)
    <3>1. PICK v \in BOOLEAN :
            /\ gate' = [gate EXCEPT ![m].base = v, ![m].wall = clock]
            /\ chainReady' = [chainReady EXCEPT
                                ![m] = @ /\ v /\ (m = "relay" => Chain!GatesOpen(m)')]
      BY <2>2 DEF Chain!BaseArrives
    <3>2. (m = "relay" => Chain!GatesOpen(m)') \in BOOLEAN  OBVIOUS
    <3> QED  BY <3>1, <3>2
  <2>3. CASE Chain!LocalizationArrives(m)
    <3>1. PICK v \in BOOLEAN :
            /\ gate' = [gate EXCEPT ![m].localized = v]
            /\ chainReady' = [chainReady EXCEPT
                                ![m] = @ /\ v /\ (m = "relay" => Chain!GatesOpen(m)')]
      BY <2>3 DEF Chain!LocalizationArrives
    <3>2. (m = "relay" => Chain!GatesOpen(m)') \in BOOLEAN  OBVIOUS
    <3> QED  BY <3>1, <3>2
  <2> QED  BY <2>1, <2>2, <2>3
<1>7. /\ clock \in Int /\ gate \in [TwoNodes -> GateStates] /\ gate[m] \in GateStates
  BY DEF ChainTypes, GateStates
<1>8. PICK g \in GateStates :
        /\ gate' = [gate EXCEPT ![m] = g]
        /\ g.wall \in {gate[m].wall, clock}
        /\ \/ g.base = v /\ g.localized = gate[m].localized
           \/ g.base = gate[m].base /\ g.localized = v
  <2>1. CASE gate' = [gate EXCEPT ![m].base = v, ![m].wall = clock]
    <3> DEFINE g == [base |-> v, wall |-> clock, localized |-> gate[m].localized]
    <3>1. gate' = [gate EXCEPT ![m] = g]
      <4>1. gate' = [gate EXCEPT ![m] = [gate[m] EXCEPT !.base = v, !.wall = clock]]
        BY ONLY <1>7, <2>1, FieldWritten, m \in TwoNodes
      <4>2. [gate[m] EXCEPT !.base = v, !.wall = clock] = g
        BY ONLY <1>7, GateWritten
      <4> QED  BY ONLY <4>1, <4>2
    <3>2. g \in GateStates  BY <1>7 DEF GateStates
    <3> QED  BY <3>1, <3>2
  <2>2. CASE gate' = [gate EXCEPT ![m].localized = v]
    <3> DEFINE g == [base |-> gate[m].base, wall |-> gate[m].wall, localized |-> v]
    <3>1. gate' = [gate EXCEPT ![m] = g]
      BY <1>7, <2>2, GateWritten
    <3>2. g \in GateStates  BY <1>7 DEF GateStates
    <3> QED  BY <3>1, <3>2
  <2> QED  BY <1>2, <2>1, <2>2
<1>3. /\ gate' \in [TwoNodes -> GateStates] /\ gate'[m] = g
      /\ \A n \in TwoNodes : n # m => gate'[n] = gate[n]
  BY <1>7, <1>8
<1>4. /\ chainReady' \in [TwoNodes -> BOOLEAN]
      /\ chainReady'[m] = (chainReady[m] /\ v /\ still)
      /\ \A n \in TwoNodes : n # m => chainReady'[n] = chainReady[n]
  BY <1>2 DEF ChainTypes
<1>5. ChainTypes'  BY <1>1, <1>3, <1>4 DEF ChainTypes, GateStates
<1>6. ASSUME NEW n \in TwoNodes PROVE NodeAlive(n)'
  <2>1. CASE n # m  BY <1>1, <1>3, <1>4, <2>1 DEF NodeAlive
  <2>2. CASE n = m /\ chainReady'[m]
    <3>1. chainReady[m] /\ v  BY <1>4, <2>2
    <3>2. gate'[m].base /\ gate'[m].localized /\ gate'[m].wall \in {gate[m].wall, clock}
      <4>1. gate[m].base /\ gate[m].localized  BY <3>1 DEF NodeAlive
      <4> QED  BY <1>3, <1>8, <3>1, <4>1
    <3>3. Late(m \in timers) \in {0, 1}  BY DEF Late
    <3>4. clock - gate'[m].wall <= ChainBase + Late(m \in timers)
      BY <3>1, <3>2, <3>3, <2>2, ChainConstants DEF NodeAlive, ChainTypes
    <3> QED  BY <1>1, <2>2, <3>1, <3>2, <3>4 DEF NodeAlive
  <2>3. CASE n = m /\ ~chainReady'[m]  BY <2>3 DEF NodeAlive
  <2> QED  BY <2>1, <2>2, <2>3
<1> QED  BY <1>5, <1>6

\* A sample that is passed on is fresh, and the gates are open.
LEMMA PassedOn ==
    ASSUME ChainInv, NEW n \in TwoNodes, NEW stamp \in Int,
           Chain!GatesOpen(n), Chain!Fresh(stamp), UNCHANGED <<clock, timers, gate>>,
           chainReady' = [chainReady EXCEPT ![n] = TRUE],
           seen' = [seen EXCEPT ![n] = stamp],
           sample' = [sample EXCEPT ![n] = [stamp |-> stamp, wall |-> clock]],
           wire' \in Seq(Int)
    PROVE  ChainInv'
<1> USE DEF ChainInv
<1>1. ChainTypes'  BY DEF ChainTypes
<1>2. ASSUME NEW m \in TwoNodes PROVE NodeAlive(m)'
  <2>1. CASE m # n  BY <2>1 DEF NodeAlive, ChainTypes
  <2>2. CASE m = n
    <3>1. sample'[n].stamp = stamp /\ clock - stamp <= ChainAge
      BY DEF ChainTypes, Chain!Fresh
    <3>2. gate[n].base /\ gate[n].localized /\ clock - gate[n].wall <= ChainBase
      BY OpenGates
    <3>3. Late(n \in timers) \in {0, 1}  BY DEF Late
    <3>4. UNCHANGED <<clock, gate, timers>>  OBVIOUS
    <3>5. clock \in Int /\ gate[n].wall \in Int /\ stamp \in Int  BY DEF ChainTypes
    <3>6. \A t, a \in Int, limit \in Nat, late \in {0, 1} : t - a <= limit => t - a <= limit + late
      OBVIOUS
    <3>7. /\ clock - gate[n].wall <= ChainBase + Late(n \in timers)
          /\ clock - stamp <= ChainAge + Late(n \in timers)
      BY ONLY <3>1, <3>2, <3>3, <3>5, <3>6, ChainConstants
    <3> QED  BY <2>2, <3>1, <3>2, <3>4, <3>7 DEF NodeAlive
  <2> QED  BY <2>1, <2>2
<1> QED  BY <1>1, <1>2

\* A sample that is not passed on ends readiness, and nothing else changes.
LEMMA NotPassedOn ==
    ASSUME ChainInv, NEW n \in TwoNodes, UNCHANGED <<clock, timers, gate, seen, sample>>,
           chainReady' = [chainReady EXCEPT ![n] = FALSE], wire' \in Seq(Int)
    PROVE  ChainInv'
<1> USE DEF ChainInv
<1>1. ChainTypes'  BY DEF ChainTypes
<1>2. \A m \in TwoNodes : NodeAlive(m)'  BY DEF NodeAlive, ChainTypes
<1> QED  BY <1>1, <1>2

\* A pose the first node takes is fresh and passes open gates, or ends readiness.
LEMMA PoseArrivesKeeps == ASSUME ChainInv, Chain!PoseArrives PROVE ChainInv'
<1>1. UNCHANGED <<clock, timers, gate>>  BY DEF Chain!PoseArrives
<1>2. PICK stamp \in Int, good \in BOOLEAN :
        Chain!AdapterRejects(stamp, good) \/ Chain!AdapterPublishes(stamp, good)
  BY ChainConstants DEF Chain!PoseArrives, ChainInv, ChainTypes
<1>3. wire \in Seq(Int)  BY DEF ChainInv, ChainTypes
<1>4. CASE Chain!AdapterRejects(stamp, good)
  BY <1>1, <1>3, <1>4, NotPassedOn DEF Chain!AdapterRejects, TwoNodes
<1>5. CASE Chain!AdapterPublishes(stamp, good)
  <2>1. Len(wire) = MaxQueue => wire # <<>>
    BY ServicesAssumptions DEF Chain!OdometryChainAssumption
  <2>2. (IF Len(wire) = MaxQueue THEN Tail(wire) ELSE wire) \in Seq(Int)
    BY <1>3, <2>1, HeadTailProperties
  <2>3. wire' \in Seq(Int)
    BY <1>5, <2>2, AppendProperties DEF Chain!AdapterPublishes
  <2>4. /\ Chain!GatesOpen("adapter") /\ Chain!Fresh(stamp)
        /\ sample' = [sample EXCEPT !["adapter"] = [stamp |-> stamp, wall |-> clock]]
        /\ seen' = [seen EXCEPT !["adapter"] = stamp]
        /\ chainReady' = [chainReady EXCEPT !["adapter"] = TRUE]
    BY <1>5 DEF Chain!AdapterPublishes, Chain!Acceptable
  <2> QED  BY <1>1, <2>3, <2>4, PassedOn DEF TwoNodes
<1> QED  BY <1>2, <1>4, <1>5

\* So is one that the second node takes from the wire.
LEMMA RelayKeeps == ASSUME ChainInv, Chain!RelayTakes PROVE ChainInv'
<1> DEFINE stamp == Head(wire)
           through == Chain!GatesOpen("relay") /\ Chain!Fresh(stamp) /\ stamp > seen.relay
<1>1. /\ wire # <<>> /\ wire' = Tail(wire)
      /\ chainReady' = [chainReady EXCEPT !["relay"] = through]
      /\ through => /\ seen' = [seen EXCEPT !["relay"] = stamp]
                    /\ sample' = [sample EXCEPT !["relay"] = [stamp |-> stamp, wall |-> clock]]
      /\ ~through => UNCHANGED <<seen, sample>>
      /\ UNCHANGED <<clock, timers, gate>>
  BY DEF Chain!RelayTakes
<1>2. stamp \in Int /\ wire' \in Seq(Int)
  BY <1>1, HeadTailProperties DEF ChainInv, ChainTypes
<1>3. CASE through
  <2>1. Chain!GatesOpen("relay") /\ Chain!Fresh(stamp)  BY <1>3
  <2>2. chainReady' = [chainReady EXCEPT !["relay"] = TRUE]  BY <1>1, <1>3
  <2> HIDE DEF through, stamp
  <2> QED  BY <1>1, <1>2, <1>3, <2>1, <2>2, PassedOn DEF TwoNodes
<1>4. CASE ~through
  <2>1. through = FALSE  BY <1>4
  <2>2. chainReady' = [chainReady EXCEPT !["relay"] = FALSE]  BY <1>1, <2>1
  <2> HIDE DEF through, stamp
  <2> QED  BY <1>1, <1>2, <1>4, <2>2, NotPassedOn DEF TwoNodes
<1> QED  BY <1>3, <1>4

\* The watchdog of each node withdraws what has grown old since its last run.
LEMMA ChainWatchdogKeeps == ASSUME ChainInv, Chain!Watchdog PROVE ChainInv'
<1> USE DEF ChainInv
<1>1. PICK n \in TwoNodes :
        /\ timers' = timers \ {n}
        /\ chainReady' = [chainReady EXCEPT ![n] = @ /\ ~Chain!Stale(n) /\ Chain!GatesOpen(n)]
        /\ UNCHANGED <<clock, gate, seen, sample, wire>>
  BY DEF Chain!Watchdog, ChainTypes
<1>2. /\ chainReady' \in [TwoNodes -> BOOLEAN]
      /\ chainReady'[n] => chainReady[n] /\ ~Chain!Stale(n) /\ Chain!GatesOpen(n)
      /\ \A m \in TwoNodes : m # n => chainReady'[m] = chainReady[m]
  BY <1>1 DEF ChainTypes
<1>3. ChainTypes'  BY <1>1, <1>2 DEF ChainTypes
<1>4. ASSUME NEW m \in TwoNodes PROVE NodeAlive(m)'
  <2>1. CASE m # n
    <3>1. Late(m \in timers') = Late(m \in timers)  BY <1>1, <2>1 DEF Late
    <3> QED  BY <1>1, <1>2, <2>1, <3>1 DEF NodeAlive
  <2>2. CASE m = n /\ chainReady'[n]
    <3>1. Late(n \in timers') = 0  BY <1>1 DEF Late
    <3>2. gate[n].base /\ gate[n].localized /\ clock - gate[n].wall <= ChainBase
      BY <1>2, <2>2, OpenGates
    <3>3. clock - sample[n].stamp <= ChainAge
      BY <1>2, <2>2 DEF Chain!Stale, Chain!Fresh
    <3> QED  BY <1>1, <2>2, <3>1, <3>2, <3>3, ChainConstants DEF NodeAlive, ChainTypes
  <2>3. CASE m = n /\ ~chainReady'[n]  BY <2>3 DEF NodeAlive
  <2> QED  BY <2>1, <2>2, <2>3
<1> QED  BY <1>3, <1>4

\* Each step of the odometry chain
LEMMA ChainStep == ASSUME ChainInv, Chain!Next PROVE ChainInv'
<1>1. CASE Chain!FcuArrives
  <2>1. UNCHANGED <<clock, timers, gate, chainReady, seen, sample, wire>>
    BY <1>1 DEF Chain!FcuArrives
  <2> QED  BY <2>1 DEF ChainInv, ChainTypes, NodeAlive
<1>2. CASE Chain!Tick
  <2>1. /\ timers = {} /\ clock' = clock + 1 /\ timers' = TwoNodes
        /\ UNCHANGED <<gate, chainReady, seen, sample, wire>>
    BY <1>2 DEF Chain!Tick, Chain!Nodes, TwoNodes
  <2>2. ChainTypes'  BY <2>1 DEF ChainInv, ChainTypes
  <2>3. ASSUME NEW n \in TwoNodes PROVE NodeAlive(n)'
    <3>1. Late(n \in timers) = 0 /\ Late(n \in timers') = 1  BY <2>1 DEF Late
    <3> QED  BY <2>1, <3>1, ChainConstants DEF ChainInv, NodeAlive, ChainTypes
  <2> QED  BY <2>2, <2>3 DEF ChainInv
<1> QED  BY <1>1, <1>2, GateArrivesKeeps, PoseArrivesKeeps, RelayKeeps, ChainWatchdogKeeps
         DEF Chain!Next

\* The invariant says what a ready node of the chain stands on.
LEMMA ChainIsBacked == ChainInv => Chain!ReadyIsBacked
<1> SUFFICES ASSUME ChainInv, NEW n \in TwoNodes, chainReady[n]
             PROVE  /\ gate[n].base /\ gate[n].localized
                    /\ clock - gate[n].wall <= ChainBase + 1
                    /\ sample[n].stamp >= clock - ChainAge - 1
  BY DEF Chain!ReadyIsBacked, Chain!Nodes, TwoNodes
<1>1. Late(n \in timers) \in {0, 1}  BY DEF Late
<1> QED  BY <1>1, ChainConstants DEF ChainInv, ChainTypes, NodeAlive
-----------------------------------------------------------------------------
(* The terrain height                                                      *)

Samples == [stamp : Int, wall : Int]
Snapshots == [stamp : Int, odom : Samples, gen : Nat, revocation : Nat]

OdomStates == [history : Seq(Samples), watermark : Nat, stamp : Int, wall : Int]
CloudStates == [watermark : Int, stamp : Int, wall : Int, gen : Nat]
BaseStates == [ready : BOOLEAN, wall : Int]
Reasons == {"none", "base", "odom", "cloud", "stamp"}
Ats == {"idle", "waiting", "looking", "estimating"}
Callbacks == [Threads -> [at : Ats, snapshot : Snapshots]]

TerrainTypes ==
    /\ time \in Nat /\ watched \in BOOLEAN
    /\ odom \in OdomStates /\ cloud \in CloudStates /\ base \in BaseStates
    /\ revocations \in Nat /\ ready \in BOOLEAN
    /\ reason \in Reasons /\ basis \in Snapshots
    /\ callback \in Callbacks

\* The history holds nothing newer than the odometry last accepted.
HistoryIsOlder ==
    /\ odom.stamp <= odom.watermark
    /\ \A i \in DOMAIN odom.history : odom.history[i].stamp <= odom.stamp

TerrainAlive ==
    ready => /\ basis.revocation = revocations
             /\ base.ready /\ time - base.wall <= TerrainBase + Late(~watched)
             /\ time - odom.wall <= OdomTimeout + Late(~watched)
             /\ time - odom.stamp <= TerrainAge + Late(~watched)
             /\ time - cloud.wall <= CloudTimeout + Late(~watched)
             /\ time - cloud.stamp <= TerrainAge + Late(~watched)

TerrainInv == TerrainTypes /\ HistoryIsOlder /\ TerrainAlive

\* What the proofs about the terrain height need of its constants
LEMMA TerrainConstants ==
    /\ OdomTimeout \in Nat /\ CloudTimeout \in Nat /\ TerrainBase \in Nat
    /\ TerrainAge \in Nat /\ HistoryLimit \in Nat /\ HistoryLimit > 0
BY ServicesAssumptions DEF Terrain!TerrainAssumption

\* What the proofs below need of the types
LEMMA TerrainTyped ==
    ASSUME TerrainInv
    PROVE  /\ time \in Nat /\ time \in Int /\ revocations \in Nat
           /\ odom.history \in Seq(Samples) /\ odom.watermark \in Nat
           /\ odom.stamp \in Int /\ odom.wall \in Int
           /\ cloud.watermark \in Int /\ cloud.stamp \in Int /\ cloud.wall \in Int
           /\ cloud.gen \in Nat /\ base.wall \in Int
<1>1. time \in Nat /\ revocations \in Nat  BY DEF TerrainInv, TerrainTypes
<1>2. odom \in OdomStates /\ cloud \in CloudStates /\ base \in BaseStates
  BY DEF TerrainInv, TerrainTypes
<1>3. /\ odom.history \in Seq(Samples) /\ odom.watermark \in Nat
      /\ odom.stamp \in Int /\ odom.wall \in Int
  BY <1>2 DEF OdomStates
<1>4. cloud.watermark \in Int /\ cloud.stamp \in Int /\ cloud.wall \in Int /\ cloud.gen \in Nat
  BY <1>2 DEF CloudStates
<1>5. base.wall \in Int  BY <1>2 DEF BaseStates
<1> QED  BY <1>1, <1>3, <1>4, <1>5

\* What a callback carries is a snapshot.
LEMMA SnapshotsHeld == ASSUME TerrainInv, NEW t \in Threads PROVE callback[t].snapshot \in Snapshots
BY DEF TerrainInv, TerrainTypes, Callbacks

\* An age within a limit is within the limit and a tick.
LEMMA Slack ==
    \A t \in Int, a \in Int, limit \in Nat, late \in {0, 1} :
        /\ t - a <= limit => t - a <= limit + late
        /\ t - t <= limit + late
OBVIOUS

\* A watchdog is at most one tick late.
LEMMA LateIs == \A b : Late(b) \in {0, 1}
BY DEF Late

\* The terrain height's invariant holds when its node has just started.
LEMMA TerrainInitially == Terrain!Init => TerrainInv
<1> SUFFICES ASSUME Terrain!Init PROVE TerrainInv  OBVIOUS
<1> USE DEF Terrain!Init, Terrain!Never, Terrain!NoSample, Terrain!NoSnapshot, Terrain!Idle
<1>1. <<>> \in Seq(Samples)  BY EmptySeq
<1>2. basis \in Snapshots  BY DEF Snapshots, Samples
<1>3. callback \in Callbacks  BY DEF Callbacks, Ats, Snapshots, Samples
<1>4. odom \in OdomStates  BY <1>1 DEF OdomStates
<1>7. cloud \in CloudStates /\ base \in BaseStates  BY DEF CloudStates, BaseStates
<1>5. TerrainTypes  BY <1>2, <1>3, <1>4, <1>7 DEF TerrainTypes, Reasons
<1>6. HistoryIsOlder /\ TerrainAlive  BY DEF HistoryIsOlder, TerrainAlive
<1> QED  BY <1>5, <1>6 DEF TerrainInv

\* Odometry that arrives lengthens the history in order, or forgets it whole.
LEMMA OdomKeeps ==
    ASSUME TerrainInv, NEW st \in Int, NEW sound \in BOOLEAN, Terrain!OdomCallback(st, sound)
    PROVE  TerrainInv'
<1> DEFINE known == Terrain!StampOk(st)
           grows == st > odom.watermark
           smp == [stamp |-> st, wall |-> time]
           all == Append(odom.history, smp)
           over == Len(all) > HistoryLimit
<1>1. UNCHANGED <<time, watched, cloud, base, callback>>  BY DEF Terrain!OdomCallback
<1>2. CASE known /\ grows /\ sound
  <2>1. /\ odom' = [watermark |-> st, stamp |-> st, wall |-> time,
                    history |-> IF over THEN Tail(all) ELSE all]
        /\ UNCHANGED <<revocations, ready, reason, basis>>
    BY <1>2 DEF Terrain!OdomCallback, Terrain!outputVars
  <2>2. st > 0 /\ time - st <= TerrainAge /\ st > odom.watermark
    BY <1>2 DEF Terrain!StampOk
  <2>3. odom.history \in Seq(Samples)  BY TerrainTyped
  <2>4. smp \in Samples  BY TerrainTyped DEF Samples
  <2> HIDE DEF smp
  <2>5. /\ all \in Seq(Samples) /\ Len(all) = Len(odom.history) + 1
        /\ \A i \in 1 .. Len(odom.history) : all[i] = odom.history[i]
        /\ all[Len(odom.history) + 1] = smp
    BY <2>3, <2>4, AppendProperties
  <2>6. \A i \in DOMAIN all : all[i].stamp <= st
    <3> SUFFICES ASSUME NEW i \in 1 .. Len(odom.history) + 1 PROVE all[i].stamp <= st
      BY <2>5
    <3>1. CASE i \in 1 .. Len(odom.history)
      <4>1. odom.history[i] \in Samples /\ i \in DOMAIN odom.history  BY <2>3, <3>1
      <4>2. odom.history[i].stamp \in Int  BY <4>1 DEF Samples
      <4>3. odom.history[i].stamp <= odom.stamp /\ odom.stamp <= odom.watermark
        BY <4>1 DEF TerrainInv, HistoryIsOlder
      <4>5. \A a, b, c, d \in Int : a <= b /\ b <= c /\ d > c => a <= d  OBVIOUS
      <4>4. odom.history[i].stamp <= st
        <5>1. odom.watermark \in Int /\ odom.stamp \in Int  BY TerrainTyped
        <5> QED  BY <2>2, <4>2, <4>3, <4>5, <5>1
      <4> QED  BY <2>5, <3>1, <4>4
    <3>2. CASE i = Len(odom.history) + 1
      <4>1. smp.stamp = st  BY DEF smp
      <4> QED  BY <2>5, <3>2, <4>1
    <3> QED  BY <2>3, <3>1, <3>2
  <2> HIDE DEF all
  <2>7. all # <<>>  BY <2>3, <2>5
  <2>8. /\ Tail(all) \in Seq(Samples)
        /\ \A i \in DOMAIN Tail(all) : Tail(all)[i].stamp <= st
    <3>1. /\ Tail(all) \in Seq(Samples) /\ Len(Tail(all)) = Len(all) - 1
          /\ \A i \in 1 .. Len(Tail(all)) : Tail(all)[i] = all[i + 1]
      BY <2>5, <2>7, HeadTailProperties
    <3>2. \A i \in DOMAIN Tail(all) : i + 1 \in DOMAIN all
      BY <2>5, <3>1
    <3> QED  BY <2>6, <3>1, <3>2
  <2>9. /\ odom'.history \in Seq(Samples)
        /\ \A i \in DOMAIN odom'.history : odom'.history[i].stamp <= st
    BY <2>1, <2>5, <2>6, <2>8
  <2>10. odom'.stamp = st /\ odom'.wall = time /\ odom'.watermark = st  BY <2>1
  <2>14. odom' \in OdomStates
    <3> DEFINE kept == IF over THEN Tail(all) ELSE all
    <3>1. odom' = [watermark |-> st, stamp |-> st, wall |-> time, history |-> kept]
          /\ odom'.history = kept
      BY <2>1
    <3>2. kept \in Seq(Samples)  BY <2>9, <3>1
    <3>3. st \in Nat /\ time \in Int  BY <2>2, TerrainTyped
    <3> HIDE DEF kept
    <3> QED  BY <3>1, <3>2, <3>3 DEF OdomStates
  <2>11. TerrainTypes'  BY <1>1, <2>1, <2>14 DEF TerrainInv, TerrainTypes
  <2>12. HistoryIsOlder'  BY <2>9, <2>10 DEF HistoryIsOlder
  <2>13. TerrainAlive'
    <3>1. time - odom'.wall <= OdomTimeout + Late(~watched)
      BY <2>10, LateIs, Slack, TerrainTyped, TerrainConstants
    <3>2. time - odom'.stamp <= TerrainAge + Late(~watched)
      BY <2>2, <2>10, LateIs, Slack, TerrainTyped, TerrainConstants
    <3> QED  BY <1>1, <2>1, <3>1, <3>2 DEF TerrainInv, TerrainAlive
  <2> QED  BY <2>11, <2>12, <2>13 DEF TerrainInv
<1>3. CASE ~(known /\ grows /\ sound)
  <2>1. /\ revocations' = revocations + 1
        /\ odom' = [history |-> <<>>, stamp |-> 0, wall |-> Terrain!Never,
                    watermark |-> IF known /\ grows THEN st ELSE odom.watermark]
        /\ ready' = FALSE /\ UNCHANGED <<reason, basis>>
    BY <1>3 DEF Terrain!OdomCallback, Terrain!Invalid
  <2>2. known => st > 0  BY DEF Terrain!StampOk
  <2>3. (IF known /\ grows THEN st ELSE odom.watermark) \in Nat
    BY <2>2, TerrainTyped
  <2> HIDE DEF known, grows
  <2>4. <<>> \in Seq(Samples)  BY EmptySeq
  <2>5. odom' \in OdomStates /\ odom'.stamp = 0 /\ odom'.history = <<>> /\ odom'.watermark \in Nat
    BY <2>1, <2>3, <2>4 DEF Terrain!Never, OdomStates
  <2>8. revocations + 1 \in Nat  BY TerrainTyped
  <2>6. TerrainTypes'  BY <1>1, <2>1, <2>5, <2>8 DEF TerrainInv, TerrainTypes
  <2>7. HistoryIsOlder'  BY <2>5 DEF HistoryIsOlder
  <2> QED  BY <2>1, <2>6, <2>7 DEF TerrainInv, TerrainAlive
<1> QED  BY <1>2, <1>3

\* A report of the base system that is not ready revokes what was estimated before it.
LEMMA TerrainBaseKeeps ==
    ASSUME TerrainInv, NEW up \in BOOLEAN, Terrain!BaseCallback(up) PROVE TerrainInv'
<1>1. /\ base' = [ready |-> up, wall |-> time]
      /\ UNCHANGED <<time, watched, odom, cloud, callback>>
      /\ \/ up /\ UNCHANGED <<revocations, ready, reason, basis>>
         \/ revocations' = revocations + 1 /\ ready' = FALSE /\ UNCHANGED <<reason, basis>>
  BY DEF Terrain!BaseCallback, Terrain!outputVars, Terrain!Invalid
<1>2. TerrainTypes'
  <2>1. base' \in BaseStates  BY <1>1, TerrainTyped DEF BaseStates
  <2>2. revocations' \in Nat  BY <1>1, TerrainTyped
  <2> QED  BY <1>1, <2>1, <2>2 DEF TerrainInv, TerrainTypes
<1>3. HistoryIsOlder'  BY <1>1 DEF TerrainInv, HistoryIsOlder
<1>4. time - base'.wall <= TerrainBase + Late(~watched) /\ base'.ready = up
  BY <1>1, LateIs, Slack, TerrainTyped, TerrainConstants
<1>5. TerrainAlive'  BY <1>1, <1>4 DEF TerrainInv, TerrainAlive
<1> QED  BY <1>2, <1>3, <1>5 DEF TerrainInv

\* A callback that moves on is still one of the types.
LEMMA BecomeIs ==
    ASSUME TerrainInv, NEW t \in Threads, NEW at1 \in Ats, NEW s \in Snapshots,
           Terrain!Become(t, at1, s)
    PROVE  callback' \in Callbacks
<1>1. callback \in Callbacks  BY DEF TerrainInv, TerrainTypes
<1> QED  BY <1>1 DEF Terrain!Become, Callbacks

\* The empty snapshot is a snapshot.
LEMMA NoSnapshotIs == Terrain!NoSnapshot \in Snapshots
BY DEF Terrain!NoSnapshot, Terrain!NoSample, Terrain!Never, Snapshots, Samples

\* A cloud that arrives is accounted for before any of its work is done.
LEMMA CloudKeeps ==
    ASSUME TerrainInv, NEW t \in Threads, NEW st \in Int, NEW sound \in BOOLEAN,
           Terrain!CloudArrives(t, st, sound)
    PROVE  TerrainInv'
<1> DEFINE newer == Terrain!StampOk(st) /\ st > cloud.watermark
<1>1. /\ cloud' = [watermark |-> IF newer THEN st ELSE cloud.watermark,
                   stamp |-> IF newer /\ sound THEN st ELSE cloud.stamp,
                   wall |-> IF newer /\ sound THEN time ELSE cloud.wall,
                   gen |-> cloud.gen + 1]
      /\ UNCHANGED <<time, watched, odom, base, revocations>>
  BY DEF Terrain!CloudArrives
<1>2. newer => time - st <= TerrainAge  BY DEF Terrain!StampOk
<1>3. \/ /\ newer /\ sound /\ UNCHANGED <<ready, reason, basis>>
         /\ Terrain!Become(t, "waiting",
                [Terrain!NoSnapshot EXCEPT !.stamp = st, !.gen = cloud.gen + 1])
      \/ ready' = FALSE /\ UNCHANGED <<reason, basis, callback>>
  BY DEF Terrain!CloudArrives, Terrain!Invalid, Terrain!outputVars
<1> HIDE DEF newer
<1>4. cloud' \in CloudStates /\ (newer /\ sound => cloud'.stamp = st /\ cloud'.wall = time)
  <2> DEFINE mark == IF newer THEN st ELSE cloud.watermark
             stamp1 == IF newer /\ sound THEN st ELSE cloud.stamp
             wall1 == IF newer /\ sound THEN time ELSE cloud.wall
  <2>1. cloud' = [watermark |-> mark, stamp |-> stamp1, wall |-> wall1, gen |-> cloud.gen + 1]
    BY <1>1
  <2>2. mark \in Int /\ stamp1 \in Int /\ wall1 \in Int /\ cloud.gen + 1 \in Nat
    BY TerrainTyped
  <2>3. newer /\ sound => stamp1 = st /\ wall1 = time  OBVIOUS
  <2> HIDE DEF mark, stamp1, wall1
  <2> QED  BY <2>1, <2>2, <2>3 DEF CloudStates
<1>5. callback' \in Callbacks
  <2>1. [Terrain!NoSnapshot EXCEPT !.stamp = st, !.gen = cloud.gen + 1] \in Snapshots
    <3>1. cloud.gen + 1 \in Nat  BY TerrainTyped
    <3>2. \A g \in Nat, n \in Snapshots : [n EXCEPT !.stamp = st, !.gen = g] \in Snapshots
      BY DEF Snapshots
    <3> QED  BY <3>1, <3>2, NoSnapshotIs
  <2>2. CASE UNCHANGED callback  BY <2>2 DEF TerrainInv, TerrainTypes
  <2>3. CASE Terrain!Become(t, "waiting",
                [Terrain!NoSnapshot EXCEPT !.stamp = st, !.gen = cloud.gen + 1])
    BY <2>1, <2>3, BecomeIs DEF Ats
  <2> QED  BY <1>3, <2>2, <2>3
<1>6. TerrainTypes'  BY <1>1, <1>3, <1>4, <1>5 DEF TerrainInv, TerrainTypes
<1>7. HistoryIsOlder'  BY <1>1 DEF TerrainInv, HistoryIsOlder
<1>8. TerrainAlive'
  <2>2. CASE newer /\ sound /\ UNCHANGED <<ready, reason, basis>>
    <3>1. time - cloud'.wall <= CloudTimeout + Late(~watched)
      BY <1>4, <2>2, LateIs, Slack, TerrainTyped, TerrainConstants
    <3>2. time - cloud'.stamp <= TerrainAge + Late(~watched)
      BY <1>2, <1>4, <2>2, LateIs, Slack, TerrainTyped, TerrainConstants
    <3> QED  BY <1>1, <2>2, <3>1, <3>2 DEF TerrainInv, TerrainAlive
  <2>3. CASE ready' = FALSE  BY <2>3 DEF TerrainAlive
  <2> QED  BY <1>3, <2>2, <2>3
<1> QED  BY <1>6, <1>7, <1>8 DEF TerrainInv

\* What a thread does to the rest of the node when it drops its cloud: nothing, or it says
\* not ready, or it throws the odometry away as well.
DropsCloud ==
    \/ UNCHANGED <<odom, revocations, ready, reason, basis>>
    \/ ready' = FALSE /\ UNCHANGED <<odom, revocations, reason, basis>>
    \/ ready' = FALSE /\ UNCHANGED <<reason, basis>> /\ Terrain!ClearOdom

\* A callback that drops its cloud leaves the inputs alone, or withdraws readiness.
LEMMA DropKeeps ==
    ASSUME TerrainInv, DropsCloud, UNCHANGED <<time, watched, cloud, base>>,
           callback' \in Callbacks
    PROVE  TerrainInv'
<1>1. CASE UNCHANGED <<odom, revocations, ready, reason, basis>>
  BY <1>1 DEF TerrainInv, TerrainTypes, HistoryIsOlder, TerrainAlive
<1>2. CASE ready' = FALSE /\ UNCHANGED <<odom, revocations, reason, basis>>
  BY <1>2 DEF TerrainInv, TerrainTypes, HistoryIsOlder, TerrainAlive
<1>3. CASE ready' = FALSE /\ UNCHANGED <<reason, basis>> /\ Terrain!ClearOdom
  <2>1. <<>> \in Seq(Samples)  BY EmptySeq
  <2>2. /\ revocations' = revocations + 1
        /\ odom' = [odom EXCEPT !.history = <<>>, !.stamp = 0, !.wall = -100]
    BY <1>3 DEF Terrain!ClearOdom, Terrain!Never
  <2>3. /\ odom' \in OdomStates /\ odom'.history = <<>> /\ odom'.stamp = 0
        /\ odom'.watermark \in Nat
    <3>1. odom \in OdomStates  BY DEF TerrainInv, TerrainTypes
    <3>2. /\ odom.watermark \in Nat
          /\ odom' = [history |-> <<>>, watermark |-> odom.watermark, stamp |-> 0, wall |-> -100]
      BY <2>2, <3>1 DEF OdomStates
    <3> QED  BY <2>1, <3>2 DEF OdomStates
  <2>4. revocations' \in Nat  BY <2>2, TerrainTyped
  <2>5. TerrainTypes'  BY <1>3, <2>3, <2>4 DEF TerrainInv, TerrainTypes
  <2>6. HistoryIsOlder'  BY <2>3 DEF HistoryIsOlder
  <2> QED  BY <1>3, <2>5, <2>6 DEF TerrainInv, TerrainAlive
<1> QED  BY <1>1, <1>2, <1>3 DEF DropsCloud

\* A cloud is paired with a sample of the history it found.
LEMMA PairsKeep ==
    ASSUME TerrainInv, NEW t \in Threads, Terrain!CloudPairs(t) PROVE TerrainInv'
<1> DEFINE request == callback[t].snapshot
           matched == Terrain!Matching(request.stamp)
           smp == odom.history[CHOOSE i \in matched : TRUE]
           paired == [request EXCEPT !.odom = smp, !.revocation = revocations]
<1>1. /\ UNCHANGED <<time, watched, cloud, base>> /\ DropsCloud
      /\ \/ Terrain!Become(t, "idle", Terrain!NoSnapshot)
         \/ matched # {} /\ Terrain!Become(t, "looking", paired)
  BY DEF Terrain!CloudPairs, Terrain!Invalid, Terrain!outputVars, DropsCloud
<1>2. request \in Snapshots  BY SnapshotsHeld
<1>3. matched # {} => paired \in Snapshots
  <2> SUFFICES ASSUME matched # {} PROVE paired \in Snapshots  OBVIOUS
  <2>1. (CHOOSE i \in matched : TRUE) \in DOMAIN odom.history
    <3>1. matched \subseteq DOMAIN odom.history  BY DEF Terrain!Matching
    <3> HIDE DEF matched
    <3> QED  BY <3>1
  <2>2. smp \in Samples
    <3>1. odom.history \in Seq(Samples)  BY TerrainTyped
    <3> QED  BY <2>1, <3>1
  <2> HIDE DEF smp, request
  <2> QED  BY <1>2, <2>2, TerrainTyped DEF Snapshots
<1> HIDE DEF matched, paired
<1>4. callback' \in Callbacks
  BY <1>1, <1>3, BecomeIs, NoSnapshotIs DEF Ats
<1> QED  BY <1>1, <1>4, DropKeeps

\* A transform that is found, or fails, changes nothing that readiness stands on.
LEMMA LookedUpKeeps ==
    ASSUME TerrainInv, NEW t \in Threads, Terrain!LookedUp(t) \/ Terrain!Fails(t)
    PROVE TerrainInv'
<1>1. /\ UNCHANGED <<time, watched, cloud, base>> /\ DropsCloud
      /\ \/ Terrain!Become(t, "idle", Terrain!NoSnapshot)
         \/ Terrain!Become(t, "estimating", callback[t].snapshot)
  BY DEF Terrain!LookedUp, Terrain!Fails, Terrain!Recheck, Terrain!Invalid,
     Terrain!outputVars, Terrain!inputVars, DropsCloud
<1>2. callback[t].snapshot \in Snapshots  BY SnapshotsHeld
<1>3. callback' \in Callbacks
  BY <1>1, <1>2, BecomeIs, NoSnapshotIs DEF Ats
<1> QED  BY <1>1, <1>3, DropKeeps

\* A height is published for the current snapshot only, on inputs that are live.
LEMMA PublishKeeps ==
    ASSUME TerrainInv, NEW t \in Threads, NEW valid \in BOOLEAN, Terrain!Publish(t, valid)
    PROVE  TerrainInv'
<1> DEFINE s == callback[t].snapshot
<1>1. /\ UNCHANGED <<time, watched, cloud, base>>
      /\ Terrain!Become(t, "idle", Terrain!NoSnapshot)
      /\ \/ DropsCloud
         \/ /\ Terrain!SnapshotCurrent(s)
            /\ Terrain!BaseGateOpen /\ Terrain!OdomFresh(odom.wall) /\ Terrain!CloudFresh
            /\ Terrain!StampOk(s.odom.stamp) /\ Terrain!StampOk(s.stamp)
            /\ ready' = valid
            /\ reason' \in {"none", reason}
            /\ basis' = IF valid THEN s ELSE basis
            /\ UNCHANGED <<odom, revocations>>
  BY DEF Terrain!Publish, Terrain!Recheck, Terrain!Invalid, Terrain!outputVars, DropsCloud
<1>2. callback' \in Callbacks
  BY <1>1, BecomeIs, NoSnapshotIs DEF Ats
<1>3. s \in Snapshots  BY SnapshotsHeld
<1> HIDE DEF s
<1>4. CASE DropsCloud  BY <1>1, <1>2, <1>4, DropKeeps
<1>5. CASE ~DropsCloud
  <2>1. TerrainTypes'  BY <1>1, <1>2, <1>3, <1>5 DEF TerrainInv, TerrainTypes, Reasons
  <2>2. HistoryIsOlder'  BY <1>1, <1>5 DEF TerrainInv, HistoryIsOlder
  <2>3. TerrainAlive'
    <3> SUFFICES ASSUME valid = TRUE PROVE TerrainAlive'
      BY <1>1, <1>5 DEF TerrainAlive
    <3>1. /\ basis' = s /\ s.revocation = revocations /\ s.stamp = cloud.stamp
          /\ \E i \in DOMAIN odom.history : odom.history[i] = s.odom
      BY <1>1, <1>5 DEF Terrain!SnapshotCurrent
    <3>2. s.odom.stamp <= odom.stamp /\ s.odom.stamp \in Int
      BY <1>3, <3>1 DEF TerrainInv, HistoryIsOlder, Snapshots, Samples
    <3>3. time - s.odom.stamp <= TerrainAge /\ time - s.stamp <= TerrainAge
      BY <1>1, <1>5 DEF Terrain!StampOk
    <3>4. /\ base.ready /\ time - base.wall <= TerrainBase
          /\ time - odom.wall <= OdomTimeout /\ time - cloud.wall <= CloudTimeout
      BY <1>1, <1>5 DEF Terrain!BaseGateOpen, Terrain!OdomFresh, Terrain!CloudFresh
    <3>6. time - odom.stamp <= TerrainAge
      <4>1. \A n, a, b \in Int, limit \in Nat : a <= b /\ n - a <= limit => n - b <= limit
        OBVIOUS
      <4>2. time \in Int /\ odom.stamp \in Int /\ TerrainAge \in Nat
        BY TerrainTyped, TerrainConstants
      <4>3. s.odom.stamp \in Int /\ s.odom.stamp <= odom.stamp /\ time - s.odom.stamp <= TerrainAge
        BY <3>2, <3>3
      <4> QED  BY ONLY <4>1, <4>2, <4>3
    <3>7. UNCHANGED <<time, watched, odom, cloud, base, revocations>>  BY <1>1, <1>5
    <3>8. /\ time - base.wall <= TerrainBase + Late(~watched)
          /\ time - odom.wall <= OdomTimeout + Late(~watched)
          /\ time - odom.stamp <= TerrainAge + Late(~watched)
          /\ time - cloud.wall <= CloudTimeout + Late(~watched)
          /\ time - cloud.stamp <= TerrainAge + Late(~watched)
      BY <3>1, <3>3, <3>4, <3>6, LateIs, Slack, TerrainTyped, TerrainConstants
    <3> QED  BY <3>1, <3>4, <3>7, <3>8 DEF TerrainAlive
  <2> QED  BY <2>1, <2>2, <2>3 DEF TerrainInv
<1> QED  BY <1>4, <1>5

\* The terrain watchdog withdraws what has grown old since its last run.
LEMMA TerrainWatchdogKeeps == ASSUME TerrainInv, Terrain!Watchdog PROVE TerrainInv'
<1>1. watched' = TRUE /\ UNCHANGED <<time, odom, cloud, base, callback>>
  BY DEF Terrain!Watchdog, Terrain!inputVars
<1>2. Terrain!Complaint \in Reasons  BY DEF Terrain!Complaint, Reasons
<1>3. \/ /\ Terrain!Complaint # "none" /\ revocations' = revocations + 1
         /\ reason' = Terrain!Complaint /\ ready' = FALSE /\ UNCHANGED basis
      \/ /\ Terrain!Complaint = "none" \/ ~ready
         /\ UNCHANGED <<revocations, ready, reason, basis>>
  BY DEF Terrain!Watchdog, Terrain!outputVars
<1>7. revocations' \in Nat  BY <1>3, TerrainTyped
<1>4. TerrainTypes'  BY <1>1, <1>2, <1>3, <1>7 DEF TerrainInv, TerrainTypes
<1>5. HistoryIsOlder'  BY <1>1 DEF TerrainInv, HistoryIsOlder
<1>6. TerrainAlive'
  <2> SUFFICES ASSUME ready' PROVE TerrainAlive'  BY DEF TerrainAlive
  <2>1. ready /\ Terrain!Complaint = "none" /\ UNCHANGED <<revocations, ready, basis>>
    BY <1>3
  <2>2. /\ Terrain!BaseGateOpen /\ Terrain!OdomFresh(odom.wall) /\ Terrain!CloudFresh
        /\ Terrain!StampOk(odom.stamp) /\ Terrain!StampOk(cloud.stamp)
    BY <2>1 DEF Terrain!Complaint
  <2>3. /\ base.ready /\ time - base.wall <= TerrainBase
        /\ time - odom.wall <= OdomTimeout /\ time - cloud.wall <= CloudTimeout
        /\ time - odom.stamp <= TerrainAge /\ time - cloud.stamp <= TerrainAge
    BY <2>2 DEF Terrain!BaseGateOpen, Terrain!OdomFresh, Terrain!CloudFresh, Terrain!StampOk
  <2>4. /\ time - base.wall <= TerrainBase + Late(~watched')
        /\ time - odom.wall <= OdomTimeout + Late(~watched')
        /\ time - odom.stamp <= TerrainAge + Late(~watched')
        /\ time - cloud.wall <= CloudTimeout + Late(~watched')
        /\ time - cloud.stamp <= TerrainAge + Late(~watched')
    <3>1. Late(~watched') = 0  BY <1>1 DEF Late
    <3>2. /\ TerrainBase + 0 = TerrainBase /\ OdomTimeout + 0 = OdomTimeout
          /\ TerrainAge + 0 = TerrainAge /\ CloudTimeout + 0 = CloudTimeout
      BY TerrainConstants
    <3> QED  BY <2>3, <3>1, <3>2
  <2>5. basis.revocation = revocations  BY <2>1 DEF TerrainInv, TerrainAlive
  <2> QED  BY <1>1, <2>1, <2>3, <2>4, <2>5 DEF TerrainAlive
<1> QED  BY <1>4, <1>5, <1>6 DEF TerrainInv

\* Each step of the terrain height
LEMMA TerrainStep == ASSUME TerrainInv, Terrain!Next PROVE TerrainInv'
<1>1. CASE Terrain!Tick
  <2>1. /\ watched /\ time' = time + 1 /\ watched' = FALSE
        /\ UNCHANGED <<odom, cloud, base, revocations, ready, reason, basis, callback>>
    BY <1>1 DEF Terrain!Tick, Terrain!inputVars, Terrain!outputVars
  <2>2. Late(~watched) = 0 /\ Late(~watched') = 1  BY <2>1 DEF Late
  <2>5. time + 1 \in Nat  BY TerrainTyped
  <2>3. TerrainTypes' /\ HistoryIsOlder'
    BY <2>1, <2>5 DEF TerrainInv, TerrainTypes, HistoryIsOlder
  <2>4. TerrainAlive'
    <3>1. \A a \in Int, limit \in Nat : time - a <= limit + 0 => (time + 1) - a <= limit + 1
      BY TerrainTyped
    <3> SUFFICES ASSUME ready PROVE TerrainAlive'  BY <2>1 DEF TerrainAlive
    <3>2. /\ time - base.wall <= TerrainBase + 0
          /\ time - odom.wall <= OdomTimeout + 0 /\ time - odom.stamp <= TerrainAge + 0
          /\ time - cloud.wall <= CloudTimeout + 0 /\ time - cloud.stamp <= TerrainAge + 0
      BY <2>2 DEF TerrainInv, TerrainAlive
    <3>3. /\ (time + 1) - base.wall <= TerrainBase + 1
          /\ (time + 1) - odom.wall <= OdomTimeout + 1
          /\ (time + 1) - odom.stamp <= TerrainAge + 1
          /\ (time + 1) - cloud.wall <= CloudTimeout + 1
          /\ (time + 1) - cloud.stamp <= TerrainAge + 1
      BY <3>1, <3>2, TerrainTyped, TerrainConstants
    <3> QED  BY <2>1, <2>2, <3>3 DEF TerrainInv, TerrainAlive
  <2> QED  BY <2>3, <2>4 DEF TerrainInv
<1>2. \A st \in Terrain!Stamps : st \in Int
  <2>1. \A a, b : \A n \in a .. b : n \in Int  OBVIOUS
  <2> QED  BY <2>1 DEF Terrain!Stamps
<1>3. ASSUME NEW st \in Terrain!Stamps, NEW sound \in BOOLEAN,
             Terrain!OdomCallback(st, sound)
      PROVE  TerrainInv'
  BY <1>2, <1>3, OdomKeeps
<1>4. ASSUME NEW t \in Threads, NEW st \in Terrain!Stamps, NEW sound \in BOOLEAN,
             Terrain!CloudArrives(t, st, sound)
      PROVE  TerrainInv'
  BY <1>2, <1>4, CloudKeeps
<1> QED  BY <1>1, <1>3, <1>4, TerrainBaseKeeps, PairsKeep, LookedUpKeeps, PublishKeeps,
            TerrainWatchdogKeeps DEF Terrain!Next

\* The invariant says what a published height stands on.
LEMMA TerrainIsBacked == TerrainInv => Terrain!ReadyStandsOnLiveInputs
<1> SUFFICES ASSUME TerrainInv, ready PROVE Terrain!ReadyStandsOnLiveInputs
  BY DEF Terrain!ReadyStandsOnLiveInputs
<1>1. \A a \in Int, limit \in Nat : time - a <= limit + Late(~watched) => time - a <= limit + 1
  <2>1. \A t, a \in Int, limit \in Nat, late \in {0, 1} : t - a <= limit + late => t - a <= limit + 1
    OBVIOUS
  <2>2. time \in Int  BY TerrainTyped
  <2> QED  BY ONLY LateIs, <2>1, <2>2
<1>2. /\ basis.revocation = revocations /\ base.ready
      /\ time - base.wall <= TerrainBase + Late(~watched)
      /\ time - odom.wall <= OdomTimeout + Late(~watched)
      /\ time - odom.stamp <= TerrainAge + Late(~watched)
      /\ time - cloud.wall <= CloudTimeout + Late(~watched)
      /\ time - cloud.stamp <= TerrainAge + Late(~watched)
  BY DEF TerrainInv, TerrainAlive
<1>3. /\ time - base.wall <= TerrainBase + 1
      /\ time - odom.wall <= OdomTimeout + 1 /\ time - odom.stamp <= TerrainAge + 1
      /\ time - cloud.wall <= CloudTimeout + 1 /\ time - cloud.stamp <= TerrainAge + 1
  BY <1>1, <1>2, TerrainTyped, TerrainConstants
<1> QED  BY <1>2, <1>3 DEF Terrain!ReadyStandsOnLiveInputs
-----------------------------------------------------------------------------
(* The log                                                                 *)

Numbered == [number : Nat \ {0}, stream : {"event", "csv"}]
Chains == Seq(Seq(Nat)) \ {<<>>}

Count(w) == Cardinality({i \in DOMAIN w : w[i] # 0})

\* The files of a stream are the slices of what was written between some cuts, the newest
\* first, and reach back to the first record as long as there may be more of them.
Sliced(chain, w) ==
    \E cut \in [0 .. Len(chain) -> 0 .. Len(w)] :
        /\ cut[0] = Len(w)
        /\ \A k \in 0 .. Len(chain) : \A j \in 0 .. k : cut[k] <= cut[j]
        /\ \A k \in 1 .. Len(chain) : chain[k] = SubSeq(w, cut[k] + 1, cut[k - 1])
        /\ Len(chain) <= LogFiles => cut[Len(chain)] = 0

LogTypes ==
    /\ queue \in Seq(Numbered) /\ Len(queue) <= QueueLimit
    /\ dropped \in Nat /\ stopping \in BOOLEAN
    /\ hand \in [items : {<<>>} \cup {<<r>> : r \in Numbered}, drops : Nat]
    /\ files \in [{"event", "csv"} -> Chains]
    /\ offered \in Nat /\ reported \in Nat /\ failed \in Nat
    /\ written \in [{"event", "csv"} -> Seq(Nat)]
    /\ broken \subseteq {"event", "csv"}

Accounted ==
    /\ offered = Len(queue) + Len(hand.items) + Count(written["event"]) + Count(written["csv"])
                 + dropped + hand.drops + reported + failed
    /\ dropped > 0 => queue # <<>>

FilesAreSlices ==
    \A s \in {"event", "csv"} :
        Len(files[s]) <= LogFiles + 1 /\ Sliced(files[s], written[s])

LogInv == LogTypes /\ Accounted /\ FilesAreSlices

\* What the proofs about the log need of its constants
LEMMA LogConstants ==
    /\ QueueLimit \in Nat /\ QueueLimit > 0 /\ FileLimit \in Nat /\ FileLimit > 0
    /\ LogFiles \in Nat /\ LogFiles > 0
BY ServicesAssumptions DEF Logger!LoggerAssumption

\* Every set of numbers has a smallest one.
LEMMA Smallest ==
    ASSUME NEW T, T \subseteq Nat, T # {}
    PROVE  \E x \in T : \A y \in T : x <= y
<1>1. PICK x \in T : \A y \in T : ~(<<y, x>> \in OpToRel(<, Nat))
  BY NatLessThanWellFounded, WFMin
<1>2. ASSUME NEW y \in T PROVE x <= y
  <2>1. y \in Nat /\ x \in Nat  OBVIOUS
  <2>2. ~(y < x)
    <3>1. <<y, x>> \in Nat \X Nat  BY <2>1
    <3> QED  BY <1>1, <3>1 DEF OpToRel
  <2> QED  BY <2>1, <2>2
<1> QED  BY <1>2

\* The log's module counts as it is counted here.
LEMMA SameRecords ==
    ASSUME NEW s PROVE Logger!Records(s) = Count(written[s])
<1>1. \A S : Logger!Cardinality(S) = Cardinality(S)
  BY Zenon DEF Logger!IsFiniteSet, IsFiniteSet, Logger!Cardinality, Cardinality
<1> QED  BY <1>1 DEF Logger!Records, Count

\* A record appended counts unless it tells of drops.
LEMMA CountAppend ==
    ASSUME NEW w \in Seq(Nat), NEW x \in Nat
    PROVE  /\ Count(w) \in Nat
           /\ Count(Append(w, x)) = Count(w) + IF x = 0 THEN 0 ELSE 1
<1> DEFINE S == {i \in DOMAIN w : w[i] # 0}
           w2 == Append(w, x)
           S2 == {i \in DOMAIN w2 : w2[i] # 0}
<1>1. S \subseteq 1 .. Len(w)  OBVIOUS
<1>2. IsFiniteSet(1 .. Len(w))  BY FS_Interval
<1>3. IsFiniteSet(S)  BY <1>1, <1>2, FS_Subset
<1>4. Cardinality(S) \in Nat  BY <1>3, FS_CardinalityType
<1>5. /\ Len(w2) = Len(w) + 1 /\ w2 \in Seq(Nat)
      /\ \A i \in 1 .. Len(w) : w2[i] = w[i]
      /\ w2[Len(w) + 1] = x
  BY AppendProperties
<1> HIDE DEF w2
<1>6. DOMAIN w2 = 1 .. Len(w) + 1 /\ DOMAIN w = 1 .. Len(w)  BY <1>5
<1>7. S2 = IF x = 0 THEN S ELSE S \cup {Len(w) + 1}
  <2>1. ASSUME NEW i \in 1 .. Len(w) PROVE i \in S2 <=> i \in S  BY <1>5, <1>6
  <2>2. Len(w) + 1 \in S2 <=> x # 0  BY <1>5, <1>6
  <2>3. S2 \subseteq 1 .. Len(w) + 1  BY <1>6
  <2>4. \A i \in 1 .. Len(w) + 1 : i \in 1 .. Len(w) \/ i = Len(w) + 1  OBVIOUS
  <2> HIDE DEF S, S2
  <2>5. \A i : i \in S2 <=> (i \in S \/ (x # 0 /\ i = Len(w) + 1))
    <3> SUFFICES ASSUME NEW i PROVE i \in S2 <=> (i \in S \/ (x # 0 /\ i = Len(w) + 1))
      OBVIOUS
    <3>1. CASE i \in 1 .. Len(w)
      <4>1. i # Len(w) + 1  BY <3>1
      <4> QED  BY <2>1, <3>1, <4>1
    <3>2. CASE i = Len(w) + 1
      <4>1. i \notin 1 .. Len(w)  BY <3>2
      <4> QED  BY <1>1, <2>2, <3>2, <4>1
    <3>3. CASE i \notin 1 .. Len(w) /\ i # Len(w) + 1  BY <1>1, <2>3, <2>4, <3>3
    <3> QED  BY <3>1, <3>2, <3>3
  <2>6. CASE x = 0  BY <2>5, <2>6
  <2>7. CASE x # 0  BY <2>5, <2>7
  <2> QED  BY <2>6, <2>7
<1>8. Len(w) + 1 \notin S  BY <1>1
<1> HIDE DEF S, S2
<1>9. Cardinality(S2) = Cardinality(S) + IF x = 0 THEN 0 ELSE 1
  <2>1. CASE x = 0
    <3>1. S2 = S  BY <1>7, <2>1
    <3> QED  BY <1>4, <2>1, <3>1
  <2>2. CASE x # 0
    <3> DEFINE y == Len(w) + 1
    <3>1. S2 = S \cup {y}  BY <1>7, <2>2
    <3>2. y \notin S  BY <1>8
    <3> HIDE DEF y
    <3>3. Cardinality(S \cup {y}) = Cardinality(S) + 1  BY <1>3, <3>2, FS_AddElement
    <3> QED  BY <2>2, <3>1, <3>3
  <2> QED  BY <2>1, <2>2
<1> QED  BY <1>4, <1>9 DEF Count, S, S2, w2

\* How many records were written is a number.
LEMMA CountIsNat == \A w \in Seq(Nat) : Count(w) \in Nat
<1> SUFFICES ASSUME NEW w \in Seq(Nat) PROVE Count(w) \in Nat  OBVIOUS
<1> QED  BY CountAppend

\* So is how many the writer has in its hand.
LEMMA HandLength == LogTypes => Len(hand.items) \in Nat
<1> SUFFICES ASSUME LogTypes PROVE Len(hand.items) \in Nat  OBVIOUS
<1>1. hand.items = <<>> \/ \E r \in Numbered : hand.items = <<r>>  BY DEF LogTypes
<1> QED  BY <1>1, EmptySeq

\* Making room takes one record out of the queue.
LEMMA RoomMade ==
    ASSUME queue \in Seq(Numbered), queue # <<>>
    PROVE  Logger!MakeRoom \in Seq(Numbered) /\ Len(Logger!MakeRoom) = Len(queue) - 1
<1> DEFINE I == {i \in 1 .. Len(queue) : Logger!IsCsv(queue[i])}
           i == Logger!SelectInSeq(queue, Logger!IsCsv)
<1>1. CASE \E j \in DOMAIN queue : Logger!IsCsv(queue[j])
  <2>1. I # {}  BY <1>1
  <2>2. I \subseteq Nat  OBVIOUS
  <2>3. i = Logger!Min(I)  BY <2>1 DEF Logger!SelectInSeq
  <2>4. i \in I
    <3> HIDE DEF I, i
    <3>1. \E x \in I : \A y \in I : x <= y  BY <2>1, <2>2, Smallest
    <3> QED  BY <2>3, <3>1 DEF Logger!Min
  <2>5. i \in 1 .. Len(queue)  BY <2>4
  <2>6. Logger!MakeRoom = SubSeq(queue, 1, i - 1) \o SubSeq(queue, i + 1, Len(queue))
    BY <1>1 DEF Logger!MakeRoom, Logger!RemoveAt
  <2> HIDE DEF i
  <2>7. /\ SubSeq(queue, 1, i - 1) \in Seq(Numbered)
        /\ Len(SubSeq(queue, 1, i - 1)) = i - 1
    <3>1. \A j \in 1 .. i - 1 : queue[j] \in Numbered  BY <2>5
    <3> QED  BY <2>5, <3>1, SubSeqProperties
  <2>8. /\ SubSeq(queue, i + 1, Len(queue)) \in Seq(Numbered)
        /\ Len(SubSeq(queue, i + 1, Len(queue))) = Len(queue) - i
    <3>1. \A j \in i + 1 .. Len(queue) : queue[j] \in Numbered  BY <2>5
    <3> QED  BY <2>5, <3>1, SubSeqProperties
  <2> QED  BY <2>5, <2>6, <2>7, <2>8, ConcatProperties
<1>2. CASE ~\E j \in DOMAIN queue : Logger!IsCsv(queue[j])
  <2>1. Logger!MakeRoom = Tail(queue)  BY <1>2 DEF Logger!MakeRoom
  <2> QED  BY <2>1, HeadTailProperties
<1> QED  BY <1>1, <1>2

\* A record that is handed over is in the queue, or counted in place of one that is not.
LEMMA EnqueueIs ==
    ASSUME LogTypes, NEW r \in Numbered, Logger!Enqueue(r)
    PROVE  /\ queue' \in Seq(Numbered) /\ Len(queue') <= QueueLimit /\ dropped' \in Nat
           /\ Len(queue') + dropped' = Len(queue) + dropped + 1
           /\ queue' # <<>>
<1> USE DEF LogTypes
<1>1. CASE Len(queue) < QueueLimit
  <2>1. queue' = Append(queue, r) /\ dropped' = dropped  BY <1>1 DEF Logger!Enqueue
  <2>2. /\ Append(queue, r) \in Seq(Numbered) /\ Append(queue, r) # <<>>
        /\ Len(Append(queue, r)) = Len(queue) + 1
    <3>1. queue \in Seq(Numbered)  OBVIOUS
    <3> HIDE DEF LogTypes
    <3> QED  BY <3>1, AppendProperties
  <2> QED  BY <1>1, <2>1, <2>2, LogConstants
<1>2. CASE ~(Len(queue) < QueueLimit)
  <2>1. queue # <<>> /\ Len(queue) = QueueLimit  BY <1>2, LogConstants
  <2>2. dropped' = dropped + 1
        /\ queue' = IF Logger!IsCsv(r) THEN queue ELSE Append(Logger!MakeRoom, r)
    BY <1>2 DEF Logger!Enqueue
  <2>3. CASE Logger!IsCsv(r)  BY <2>1, <2>2, <2>3
  <2>4. CASE ~Logger!IsCsv(r)
    <3>1. Logger!MakeRoom \in Seq(Numbered) /\ Len(Logger!MakeRoom) = Len(queue) - 1
      BY <2>1, RoomMade
    <3>2. /\ Append(Logger!MakeRoom, r) \in Seq(Numbered)
          /\ Append(Logger!MakeRoom, r) # <<>>
          /\ Len(Append(Logger!MakeRoom, r)) = Len(Logger!MakeRoom) + 1
      BY <3>1, AppendProperties
    <3>3. queue' = Append(Logger!MakeRoom, r)  BY <2>2, <2>4
    <3>4. Len(queue) \in Nat /\ dropped \in Nat  OBVIOUS
    <3>5. Len(queue') = Len(queue)  BY <3>1, <3>2, <3>3, <3>4
    <3>6. queue' \in Seq(Numbered) /\ queue' # <<>>  BY <3>2, <3>3
    <3> HIDE DEF LogTypes
    <3>7. dropped' = dropped + 1  BY <2>2
    <3>8. Len(queue') <= QueueLimit /\ dropped' \in Nat
          /\ Len(queue') + dropped' = Len(queue) + dropped + 1
      BY ONLY <2>1, <3>4, <3>5, <3>7
    <3> QED  BY <3>6, <3>8
  <2> QED  BY <2>3, <2>4
<1> QED  BY <1>1, <1>2

\* Two sequences that agree between two places have the same slice there.
LEMMA SliceEqual ==
    ASSUME NEW u, NEW v, NEW m \in Nat, NEW n \in Nat,
           \A i \in m + 1 .. n : u[i] \in Nat /\ v[i] = u[i]
    PROVE  SubSeq(u, m + 1, n) = SubSeq(v, m + 1, n)
<1> DEFINE a == SubSeq(u, m + 1, n)
           b == SubSeq(v, m + 1, n)
<1>1. /\ a \in Seq(Nat) /\ Len(a) = IF m + 1 <= n THEN n - (m + 1) + 1 ELSE 0
      /\ \A i \in 1 .. n - (m + 1) + 1 : a[i] = u[m + 1 + i - 1]
  <2>1. \A i \in m + 1 .. n : u[i] \in Nat  OBVIOUS
  <2> QED  BY <2>1, SubSeqProperties
<1>2. /\ b \in Seq(Nat) /\ Len(b) = IF m + 1 <= n THEN n - (m + 1) + 1 ELSE 0
      /\ \A i \in 1 .. n - (m + 1) + 1 : b[i] = v[m + 1 + i - 1]
  <2>1. \A i \in m + 1 .. n : v[i] \in Nat  OBVIOUS
  <2> QED  BY <2>1, SubSeqProperties
<1> HIDE DEF a, b
<1>3. ASSUME NEW i \in 1 .. Len(a) PROVE a[i] = b[i]
  <2>1. i \in 1 .. n - (m + 1) + 1  BY <1>1
  <2>2. m + 1 + i - 1 \in m + 1 .. n  BY <2>1
  <2> QED  BY <1>1, <1>2, <2>1, <2>2
<1>4. a = b  BY <1>1, <1>2, <1>3, SeqEqual
<1> QED  BY <1>4 DEF a, b

\* What a slice is, from the elements before it.
LEMMA SliceIs ==
    ASSUME NEW w \in Seq(Nat), NEW m \in 0 .. Len(w), NEW n \in m .. Len(w)
    PROVE  /\ SubSeq(w, m + 1, n) \in Seq(Nat) /\ Len(SubSeq(w, m + 1, n)) = n - m
           /\ \A i \in 1 .. n - m : SubSeq(w, m + 1, n)[i] = w[m + i]
<1> DEFINE a == SubSeq(w, m + 1, n)
<1>1. \A i \in m + 1 .. n : w[i] \in Nat
  <2>1. \A i \in m + 1 .. n : i \in 1 .. Len(w)  OBVIOUS
  <2> QED  BY <2>1, ElementOfSeq
<1>2. /\ a \in Seq(Nat) /\ Len(a) = IF m + 1 <= n THEN n - (m + 1) + 1 ELSE 0
      /\ \A i \in 1 .. n - (m + 1) + 1 : a[i] = w[m + 1 + i - 1]
  BY <1>1, SubSeqProperties
<1> HIDE DEF a
<1>3. Len(a) = n - m  BY <1>2
<1>4. ASSUME NEW i \in 1 .. n - m PROVE a[i] = w[m + i]
  <2>1. i \in 1 .. n - (m + 1) + 1 /\ m + 1 + i - 1 = m + i  OBVIOUS
  <2> QED  BY <1>2, <2>1
<1>5. a \in Seq(Nat)  BY <1>2
<1> QED  BY <1>3, <1>4, <1>5 DEF a

\* The slices of a sequence with one more element are those of before, with the element in
\* the newest.
LEMMA SliceGrows ==
    ASSUME NEW chain \in Seq(Seq(Nat)), chain # <<>>, NEW w \in Seq(Nat), NEW x \in Nat,
           Sliced(chain, w)
    PROVE  Sliced([chain EXCEPT ![1] = Append(@, x)], Append(w, x))
<1> DEFINE n == Len(chain)
           w2 == Append(w, x)
           grown == [chain EXCEPT ![1] = Append(@, x)]
<1>1. PICK cut \in [0 .. n -> 0 .. Len(w)] :
        /\ cut[0] = Len(w)
        /\ \A k \in 0 .. n : \A j \in 0 .. k : cut[k] <= cut[j]
        /\ \A k \in 1 .. n : chain[k] = SubSeq(w, cut[k] + 1, cut[k - 1])
        /\ n <= LogFiles => cut[n] = 0
  BY DEF Sliced
<1>2. n \in Nat /\ n > 0 /\ Len(w) \in Nat  BY EmptySeq
<1>3. /\ w2 \in Seq(Nat) /\ Len(w2) = Len(w) + 1
      /\ \A i \in 1 .. Len(w) : w2[i] = w[i]
      /\ w2[Len(w) + 1] = x
  BY AppendProperties
<1>4. /\ chain[1] \in Seq(Nat) /\ Append(chain[1], x) \in Seq(Nat)
      /\ Len(Append(chain[1], x)) = Len(chain[1]) + 1
      /\ \A i \in 1 .. Len(chain[1]) : Append(chain[1], x)[i] = chain[1][i]
      /\ Append(chain[1], x)[Len(chain[1]) + 1] = x
  <2>1. chain[1] \in Seq(Nat)  BY <1>2
  <2> QED  BY <2>1, AppendProperties
<1>5. /\ grown \in Seq(Seq(Nat)) /\ Len(grown) = n
      /\ \A k \in 1 .. n : grown[k] = IF k = 1 THEN Append(chain[1], x) ELSE chain[k]
  <2> DEFINE longer == Append(chain[1], x)
  <2>1. longer \in Seq(Nat) /\ 1 \in 1 .. Len(chain)  BY <1>2, <1>4
  <2>2. grown = [chain EXCEPT ![1] = longer]  OBVIOUS
  <2> HIDE DEF longer, grown
  <2> QED  BY <2>1, <2>2, ExceptSeq DEF longer
<1> HIDE DEF n, w2, grown
<1> DEFINE cut2 == [k \in 0 .. n |-> IF k = 0 THEN Len(w) + 1 ELSE cut[k]]
<1>6. \A k \in 0 .. n : cut[k] \in Nat /\ cut[k] <= Len(w)
  <2>1. \A k \in 0 .. n : cut[k] \in 0 .. Len(w)  BY <1>1
  <2>2. \A c \in 0 .. Len(w) : c \in Nat /\ c <= Len(w)  BY <1>2
  <2> QED  BY <2>1, <2>2
<1>7. cut2 \in [0 .. n -> 0 .. Len(w2)]
  <2> SUFFICES ASSUME NEW k \in 0 .. n PROVE cut2[k] \in 0 .. Len(w2)  OBVIOUS
  <2>1. CASE k = 0
    <3>1. cut2[k] = Len(w) + 1  BY <2>1
    <3> HIDE DEF cut2
    <3> QED  BY <1>2, <1>3, <3>1
  <2>2. CASE k # 0
    <3>1. cut2[k] = cut[k]  BY <2>2
    <3> HIDE DEF cut2
    <3> QED  BY <1>2, <1>3, <1>6, <3>1
  <2> QED  BY <2>1, <2>2
<1>8. ASSUME NEW k \in 0 .. n, NEW j \in 0 .. k PROVE cut2[k] <= cut2[j]
  <2>1. j \in 0 .. n /\ (k = 0 => j = 0)  BY <1>2
  <2>2. cut[k] <= cut[j] /\ cut[k] \in Nat /\ cut[k] <= Len(w)  BY <1>1, <1>6
  <2> QED  BY <1>2, <2>1, <2>2
<1>9. ASSUME NEW k \in 1 .. n
      PROVE  grown[k] = SubSeq(w2, cut2[k] + 1, cut2[k - 1])
  <2>1. k - 1 \in 0 .. n /\ k \in 0 .. n  BY <1>2
  <2>2. cut2[k] = cut[k]  BY <2>1
  <2>3. CASE k = 1
    <3>1. cut2[k - 1] = Len(w) + 1 /\ cut[k - 1] = Len(w)  BY <1>1, <2>1, <2>3
    <3>2. cut[1] \in 0 .. Len(w) /\ cut[1] \in 0 .. Len(w2) /\ Len(w2) \in cut[1] .. Len(w2)
          /\ Len(w) \in cut[1] .. Len(w)
      BY <1>2, <1>3, <1>6, <2>1, <2>3
    <3>3. chain[1] = SubSeq(w, cut[1] + 1, Len(w))  BY <1>1, <2>3, <3>1
    <3>4. /\ Len(chain[1]) = Len(w) - cut[1]
          /\ \A i \in 1 .. Len(w) - cut[1] : chain[1][i] = w[cut[1] + i]
      <4> DEFINE u == SubSeq(w, cut[1] + 1, Len(w))
      <4>1. Len(u) = Len(w) - cut[1] /\ \A i \in 1 .. Len(w) - cut[1] : u[i] = w[cut[1] + i]
        BY <3>2, SliceIs
      <4>2. chain[1] = u  BY <3>3
      <4> HIDE DEF u
      <4> QED  BY <4>1, <4>2
    <3> DEFINE t == SubSeq(w2, cut[1] + 1, Len(w2))
    <3>5. /\ t \in Seq(Nat) /\ Len(t) = Len(w2) - cut[1]
          /\ \A i \in 1 .. Len(w2) - cut[1] : t[i] = w2[cut[1] + i]
      BY <1>3, <3>2, SliceIs
    <3> HIDE DEF t
    <3>6. ASSUME NEW i \in 1 .. Len(t)
          PROVE  t[i] = Append(chain[1], x)[i]
      <4> DEFINE c == cut[1]
                 l == Len(w)
      <4>3. c \in Nat /\ l \in Nat /\ c <= l /\ Len(w2) = l + 1 /\ Len(t) = Len(w2) - c
        BY <1>2, <1>3, <3>2, <3>5
      <4> HIDE DEF c, l
      <4>4. Len(t) = l + 1 - c  BY <4>3
      <4>5. i \in 1 .. l + 1 - c  BY <4>4
      <4>6. /\ i <= l - c => i \in 1 .. l - c /\ c + i \in 1 .. l /\ i \in 1 .. (l + 1) - c
            /\ i <= l - c \/ i = l - c + 1
        <5>1. \A a, d \in Nat : \A e \in 1 .. a + 1 - d :
                /\ e <= a - d => e \in 1 .. a - d /\ d + e \in 1 .. a /\ e \in 1 .. (a + 1) - d
                /\ e <= a - d \/ e = a - d + 1
          OBVIOUS
        <5> QED  BY <4>3, <4>5, <5>1
      <4>0. i \in 1 .. Len(w) + 1 - cut[1]  BY <4>5 DEF c, l
      <4>1. CASE i <= Len(w) - cut[1]
        <5>1. i \in 1 .. Len(w) - cut[1] /\ cut[1] + i \in 1 .. Len(w)
              /\ i \in 1 .. Len(w2) - cut[1]
          BY <4>1, <4>3, <4>6 DEF c, l
        <5>2. t[i] = w[cut[1] + i]  BY <1>3, <3>5, <5>1
        <5>3. Append(chain[1], x)[i] = chain[1][i]  BY <1>4, <3>4, <5>1
        <5> QED  BY <3>4, <5>1, <5>2, <5>3
      <4>2. CASE i = Len(w) - cut[1] + 1
        <5>1. cut[1] + i = Len(w) + 1 /\ i = Len(chain[1]) + 1
          <6>1. i = l - c + 1 /\ Len(chain[1]) = l - c  BY <3>4, <4>2 DEF c, l
          <6>2. c + i = l + 1  BY <4>3, <6>1
          <6> QED  BY <6>1, <6>2 DEF c, l
        <5>2. t[i] = w2[Len(w) + 1]  BY <1>3, <3>5, <4>0, <5>1
        <5> QED  BY <1>3, <1>4, <5>1, <5>2
      <4> QED  BY <4>1, <4>2, <4>6 DEF c, l
    <3>7. Append(chain[1], x) = t
      <4>1. Len(t) = Len(Append(chain[1], x))
        <5> DEFINE a == Len(w)
                   b == Len(w2)
                   c == cut[1]
                   d == Len(chain[1])
        <5>1. a \in Nat /\ b = a + 1 /\ c \in Nat /\ d = a - c /\ Len(t) = b - c
          BY <1>2, <1>3, <3>2, <3>4, <3>5
        <5>2. Len(Append(chain[1], x)) = d + 1  BY <1>4
        <5> HIDE DEF a, b, c, d
        <5> QED  BY <5>1, <5>2
      <4> QED  BY <1>4, <3>5, <3>6, <4>1, SeqEqual
    <3>8. grown[k] = Append(chain[1], x)  BY <1>5, <2>3
    <3> QED  BY <1>3, <2>2, <2>3, <3>1, <3>7, <3>8 DEF t
  <2>4. CASE k # 1
    <3>1. cut2[k - 1] = cut[k - 1]  BY <2>1, <2>4
    <3>2. chain[k] = SubSeq(w, cut[k] + 1, cut[k - 1])  BY <1>1
    <3>3. SubSeq(w, cut[k] + 1, cut[k - 1]) = SubSeq(w2, cut[k] + 1, cut[k - 1])
      <4>1. cut[k] \in Nat /\ cut[k - 1] \in Nat /\ cut[k - 1] <= Len(w)  BY <1>6, <2>1
      <4>2. ASSUME NEW i \in cut[k] + 1 .. cut[k - 1] PROVE w[i] \in Nat /\ w2[i] = w[i]
        <5>1. i \in 1 .. Len(w)  BY <1>2, <4>1
        <5> QED  BY <1>3, <5>1, ElementOfSeq
      <4> DEFINE m == cut[k]
                 h == cut[k - 1]
      <4>3. \A i \in m + 1 .. h : w[i] \in Nat /\ w2[i] = w[i]  BY <4>2
      <4>4. m \in Nat /\ h \in Nat  BY <4>1
      <4> HIDE DEF m, h
      <4>5. SubSeq(w, m + 1, h) = SubSeq(w2, m + 1, h)  BY <4>3, <4>4, SliceEqual
      <4> QED  BY <4>5 DEF m, h
    <3>4. grown[k] = chain[k]  BY <1>5, <2>4
    <3> QED  BY <2>2, <3>1, <3>2, <3>3, <3>4
  <2> QED  BY <2>3, <2>4
<1>10. n <= LogFiles => cut2[n] = 0  BY <1>1, <1>2
<1>11. cut2[0] = Len(w2)  BY <1>2, <1>3
<1> HIDE DEF cut2, n
<1>12. Sliced(grown, w2)
  <2>1. Len(grown) = n  BY <1>5
  <2> QED  BY <1>7, <1>8, <1>9, <1>10, <1>11, <2>1 DEF Sliced
<1> QED  BY <1>12 DEF grown, w2

\* A rotation moves the slices up by one, and forgets the oldest when there are too many.
LEMMA RotationKeeps ==
    ASSUME NEW chain \in Chains, NEW w \in Seq(Nat), Sliced(chain, w)
    PROVE  /\ Logger!Rotated(chain) \in Chains /\ Len(Logger!Rotated(chain)) <= LogFiles + 1
           /\ Sliced(Logger!Rotated(chain), w)
<1> DEFINE n == Len(chain)
           m == IF n < LogFiles THEN n ELSE LogFiles
           kept == SubSeq(chain, 1, m)
           moved == Logger!Rotated(chain)
<1>1. PICK cut \in [0 .. n -> 0 .. Len(w)] :
        /\ cut[0] = Len(w)
        /\ \A k \in 0 .. n : \A j \in 0 .. k : cut[k] <= cut[j]
        /\ \A k \in 1 .. n : chain[k] = SubSeq(w, cut[k] + 1, cut[k - 1])
        /\ n <= LogFiles => cut[n] = 0
  BY DEF Sliced
<1>2. chain \in Seq(Seq(Nat)) /\ n \in Nat /\ n > 0 /\ Len(w) \in Nat  BY EmptySeq DEF Chains
<1>3. m \in Nat /\ m > 0 /\ m <= n /\ m <= LogFiles /\ (m < LogFiles => m = n)
  BY <1>2, LogConstants
<1>4. moved = <<<<>>>> \o kept  BY DEF Logger!Rotated
<1> HIDE DEF n, m, moved
<1>5. /\ kept \in Seq(Seq(Nat)) /\ Len(kept) = m
      /\ \A k \in 1 .. m : kept[k] = chain[k]
  <2>1. \A k \in 1 .. m : k \in 1 .. Len(chain)  BY <1>2, <1>3 DEF n
  <2>2. \A k \in 1 .. m : chain[k] \in Seq(Nat)  BY <1>2, <2>1, ElementOfSeq
  <2>3. /\ kept \in Seq(Seq(Nat)) /\ Len(kept) = IF 1 <= m THEN m - 1 + 1 ELSE 0
        /\ \A k \in 1 .. m - 1 + 1 : kept[k] = chain[1 + k - 1]
    BY <1>3, <2>2, SubSeqProperties
  <2> HIDE DEF kept
  <2>4. Len(kept) = m  BY <1>3, <2>3
  <2>5. ASSUME NEW k \in 1 .. m PROVE kept[k] = chain[k]
    <3>1. k \in 1 .. m - 1 + 1 /\ 1 + k - 1 = k  BY <1>3
    <3> QED  BY <2>3, <3>1
  <2> QED  BY <2>3, <2>4, <2>5
<1> HIDE DEF kept
<1>6. <<<<>>>> \in Seq(Seq(Nat)) /\ Len(<<<<>>>>) = 1 /\ <<<<>>>>[1] = <<>>
  <2>1. <<>> \in Seq(Nat)  BY EmptySeq
  <2> QED  BY <2>1
<1>7. /\ moved \in Seq(Seq(Nat)) /\ Len(moved) = m + 1
      /\ \A k \in 1 .. m + 1 : moved[k] = IF k = 1 THEN <<>> ELSE chain[k - 1]
  <2> DEFINE none == <<<<>>>>
  <2>1. none \in Seq(Seq(Nat)) /\ Len(none) = 1 /\ none[1] = <<>>  BY <1>6
  <2> HIDE DEF none
  <2>2. /\ none \o kept \in Seq(Seq(Nat))
        /\ Len(none \o kept) = Len(none) + Len(kept)
        /\ \A k \in 1 .. Len(none) + Len(kept) :
              (none \o kept)[k] = IF k <= Len(none) THEN none[k] ELSE kept[k - Len(none)]
    BY <1>5, <2>1, ConcatProperties
  <2>3. moved = none \o kept  BY <1>4 DEF none
  <2>4. moved \in Seq(Seq(Nat)) /\ Len(moved) = m + 1  BY <1>3, <1>5, <2>1, <2>2, <2>3
  <2>5. ASSUME NEW k \in 1 .. m + 1 PROVE moved[k] = IF k = 1 THEN <<>> ELSE chain[k - 1]
    <3>1. k \in 1 .. Len(none) + Len(kept)  BY <1>3, <1>5, <2>1
    <3>2. CASE k = 1  BY <2>1, <2>2, <2>3, <3>1, <3>2
    <3>3. CASE k # 1
      <4>1. ~(k <= Len(none)) /\ k - Len(none) = k - 1 /\ k - 1 \in 1 .. m
        BY <1>3, <2>1, <3>3
      <4> QED  BY <1>5, <2>2, <2>3, <3>1, <3>3, <4>1
    <3> QED  BY <3>2, <3>3
  <2> QED  BY <2>4, <2>5
<1> DEFINE cut2 == [k \in 0 .. m + 1 |-> IF k = 0 THEN Len(w) ELSE cut[k - 1]]
<1>8. \A k \in 0 .. n : cut[k] \in 0 .. Len(w)  BY <1>1
<1>9. \A k \in 1 .. m + 1 : k - 1 \in 0 .. n  BY <1>2, <1>3
<1>10. cut2 \in [0 .. m + 1 -> 0 .. Len(w)]
  BY <1>2, <1>3, <1>8, <1>9
<1>11. ASSUME NEW k \in 0 .. m + 1, NEW j \in 0 .. k PROVE cut2[k] <= cut2[j]
  <2>1. CASE j = 0
    <3>1. cut2[j] = Len(w)  BY <1>3, <2>1
    <3>2. cut2[k] \in 0 .. Len(w)  BY <1>10
    <3>3. \A c \in 0 .. Len(w) : c <= Len(w)  BY <1>2
    <3> HIDE DEF cut2
    <3> QED  BY <3>1, <3>2, <3>3
  <2>2. CASE j # 0
    <3>1. /\ j \in 1 .. m + 1 /\ k \in 1 .. m + 1 /\ k - 1 \in 0 .. n /\ j - 1 \in 0 .. k - 1
          /\ k \in 0 .. m + 1 /\ j \in 0 .. m + 1
      BY <1>2, <1>3, <2>2
    <3>2. cut2[k] = cut[k - 1] /\ cut2[j] = cut[j - 1]  BY <1>3, <3>1
    <3>3. cut[k - 1] <= cut[j - 1]  BY <1>1, <3>1
    <3> QED  BY <3>2, <3>3
  <2> QED  BY <2>1, <2>2
<1>12. ASSUME NEW k \in 1 .. m + 1 PROVE moved[k] = SubSeq(w, cut2[k] + 1, cut2[k - 1])
  <2>1. k - 1 \in 0 .. n /\ k - 1 \in 0 .. m + 1 /\ k \in 0 .. m + 1  BY <1>2, <1>3
  <2>2. cut2[k] = cut[k - 1]  BY <1>3, <2>1
  <2>3. CASE k = 1
    <3>1. cut2[k - 1] = Len(w) /\ cut[k - 1] = Len(w)  BY <1>1, <1>3, <2>1, <2>3
    <3>2. SubSeq(w, Len(w) + 1, Len(w)) = <<>>  BY <1>2, SubSeqEmpty
    <3> QED  BY <1>7, <2>2, <2>3, <3>1, <3>2
  <2>4. CASE k # 1
    <3>1. k - 1 \in 1 .. n /\ (k - 1) - 1 \in 0 .. n  BY <1>2, <1>3, <2>4
    <3>2. cut2[k - 1] = cut[(k - 1) - 1]  BY <1>3, <2>1, <2>4
    <3>3. chain[k - 1] = SubSeq(w, cut[k - 1] + 1, cut[(k - 1) - 1])  BY <1>1, <3>1
    <3> QED  BY <1>7, <2>2, <2>4, <3>2, <3>3
  <2> QED  BY <2>3, <2>4
<1>13. cut2[0] = Len(w)  BY <1>3
<1>14. m + 1 <= LogFiles => cut2[m + 1] = 0
  <2> SUFFICES ASSUME m + 1 <= LogFiles PROVE cut2[m + 1] = 0  OBVIOUS
  <2>1. m = n /\ n <= LogFiles  BY <1>3, LogConstants
  <2>2. cut2[m + 1] = cut[m]  BY <1>3
  <2> QED  BY <1>1, <2>1, <2>2
<1> HIDE DEF cut2
<1>15. Sliced(moved, w)
  BY <1>7, <1>10, <1>11, <1>12, <1>13, <1>14 DEF Sliced
<1>16. moved # <<>>  BY <1>3, <1>7, EmptySeq
<1>17. Len(moved) <= LogFiles + 1  BY <1>3, <1>7, LogConstants
<1> QED  BY <1>7, <1>15, <1>16, <1>17 DEF moved, Chains

\* A write to a stream's files, with the rotation it may begin with.
LEMMA RecordWritten ==
    ASSUME NEW chain \in Chains, NEW w \in Seq(Nat), NEW x \in Nat,
           Len(chain) <= LogFiles + 1, Sliced(chain, w)
    PROVE  /\ Logger!WithRecord(chain, x) \in Chains
           /\ Len(Logger!WithRecord(chain, x)) <= LogFiles + 1
           /\ Sliced(Logger!WithRecord(chain, x), Append(w, x))
<1> DEFINE rotated == Logger!Rotate(chain)
<1>1. rotated \in Chains /\ Len(rotated) <= LogFiles + 1 /\ Sliced(rotated, w)
  <2>1. rotated = Logger!Rotated(chain) \/ rotated = chain  BY DEF Logger!Rotate
  <2> QED  BY <2>1, RotationKeeps
<1>2. Logger!WithRecord(chain, x) = [rotated EXCEPT ![1] = Append(@, x)]
  BY DEF Logger!WithRecord
<1> HIDE DEF rotated
<1>3. rotated \in Seq(Seq(Nat)) /\ rotated # <<>> /\ Len(rotated) \in Nat \ {0}
  BY <1>1, EmptySeq DEF Chains
<1>4. Sliced([rotated EXCEPT ![1] = Append(@, x)], Append(w, x))  BY <1>1, <1>3, SliceGrows
<1> DEFINE longer == Append(rotated[1], x)
<1>5. longer \in Seq(Nat)
  <2>1. rotated[1] \in Seq(Nat)  BY <1>3
  <2> QED  BY <2>1, AppendProperties
<1>6. [rotated EXCEPT ![1] = Append(@, x)] = [rotated EXCEPT ![1] = longer]  OBVIOUS
<1> HIDE DEF longer
<1>7. [rotated EXCEPT ![1] = longer] \in Seq(Seq(Nat))
      /\ Len([rotated EXCEPT ![1] = longer]) = Len(rotated)
  BY <1>3, <1>5, ExceptSeq
<1>8. [rotated EXCEPT ![1] = longer] # <<>>  BY <1>3, <1>7, EmptySeq
<1> QED  BY <1>1, <1>2, <1>4, <1>6, <1>7, <1>8 DEF Chains

\* The log begins in the invariant.
LEMMA LogInitially == Logger!Init => LogInv
<1> SUFFICES ASSUME Logger!Init PROVE LogInv  OBVIOUS
<1> USE DEF Logger!Init, Logger!Empty, Logger!Streams
<1>1. <<>> \in Seq(Numbered) /\ <<>> \in Seq(Nat) /\ Len(<<>>) = 0  BY EmptySeq
<1>2. <<<<>>>> \in Chains /\ Len(<<<<>>>>) = 1 /\ <<<<>>>>[1] = <<>>
  <2>1. <<<<>>>> \in Seq(Seq(Nat))  BY <1>1
  <2> QED  BY <2>1 DEF Chains
<1>3. LogTypes
  <2>1. files \in [{"event", "csv"} -> Chains]  BY <1>2
  <2>2. written \in [{"event", "csv"} -> Seq(Nat)]  BY <1>1
  <2>3. hand \in [items : {<<>>} \cup {<<r>> : r \in Numbered}, drops : Nat]  OBVIOUS
  <2>4. queue \in Seq(Numbered) /\ Len(queue) <= QueueLimit  BY <1>1, LogConstants
  <2> QED  BY <2>1, <2>2, <2>3, <2>4 DEF LogTypes
<1>4. Accounted
  <2>1. Count(<<>>) = 0
    <3>1. {i \in DOMAIN <<>> : <<>>[i] # 0} = {}  BY <1>1
    <3> QED  BY <3>1, FS_EmptySet DEF Count
  <2>2. written["event"] = <<>> /\ written["csv"] = <<>>  OBVIOUS
  <2>3. queue = <<>> /\ hand.items = <<>> /\ hand.drops = 0 /\ dropped = 0 /\ offered = 0
        /\ reported = 0 /\ failed = 0
    OBVIOUS
  <2> QED  BY <1>1, <2>1, <2>2, <2>3 DEF Accounted
<1>5. Sliced(<<<<>>>>, <<>>)
  <2> DEFINE cut == [k \in 0 .. 1 |-> 0]
             one == <<<<>>>>
             none == <<>>
  <2>1. cut \in [0 .. 1 -> 0 .. 0] /\ cut[0] = 0 /\ cut[1] = 0  OBVIOUS
  <2>2. Len(one) = 1 /\ Len(none) = 0 /\ one[1] = none  BY <1>1, <1>2
  <2>3. SubSeq(none, 1, 0) = none  BY SubSeqEmpty
  <2> HIDE DEF cut, one, none
  <2>4. \A k \in 0 .. 1 : \A j \in 0 .. k : cut[k] <= cut[j]
    <3>1. \A k \in 0 .. 1 : cut[k] = 0  BY <2>1
    <3>2. \A k \in 0 .. 1 : \A j \in 0 .. k : j \in 0 .. 1  OBVIOUS
    <3> QED  BY <3>1, <3>2
  <2>5. \A k \in 1 .. 1 : one[k] = SubSeq(none, cut[k] + 1, cut[k - 1])
    <3>1. one[1] = SubSeq(none, cut[1] + 1, cut[1 - 1])  BY <2>1, <2>2, <2>3
    <3> QED  BY <3>1
  <2>6. Sliced(one, none)  BY <2>1, <2>2, <2>4, <2>5 DEF Sliced
  <2> QED  BY <2>6 DEF one, none
<1>6. FilesAreSlices
  <2>1. \A s \in {"event", "csv"} : files[s] = <<<<>>>> /\ written[s] = <<>>  OBVIOUS
  <2> QED  BY <1>2, <1>5, <2>1, LogConstants DEF FilesAreSlices
<1> QED  BY <1>3, <1>4, <1>6 DEF LogInv

\* The three ways in which the sum of the records stays what it is: one more is handed over,
\* some are written or told of, some are lost.
LEMMA SumGrows ==
    ASSUME NEW o \in Int, NEW q \in Int, NEW h \in Int, NEW e \in Int, NEW c \in Int,
           NEW d \in Int, NEW g \in Int, NEW r \in Int, NEW f \in Int, NEW q1 \in Int,
           NEW d1 \in Int,
           o = q + h + e + c + d + g + r + f, q1 + d1 = q + d + 1
    PROVE  o + 1 = q1 + h + e + c + d1 + g + r + f
OBVIOUS

\* The account stays even when a record, or a notice of lost ones, is written.
LEMMA SumWritten ==
    ASSUME NEW o \in Int, NEW q \in Int, NEW h \in Int, NEW e \in Int, NEW c \in Int,
           NEW d \in Int, NEW g \in Int, NEW r \in Int, NEW f \in Int, NEW h1 \in Int,
           NEW e1 \in Int, NEW c1 \in Int, NEW g1 \in Int, NEW told \in Int, NEW one \in Int,
           o = q + h + e + c + d + g + r + f,
           e1 + c1 = e + c + one, h1 + g1 + told + one = h + g
    PROVE  o = q + h1 + e1 + c1 + d + g1 + (r + told) + f
OBVIOUS

\* The account stays even when a write fails.
LEMMA SumLost ==
    ASSUME NEW o \in Int, NEW q \in Int, NEW h \in Int, NEW e \in Int, NEW c \in Int,
           NEW d \in Int, NEW g \in Int, NEW r \in Int, NEW f \in Int, NEW h1 \in Int,
           NEW g1 \in Int, NEW lost \in Int,
           o = q + h + e + c + d + g + r + f, h1 + g1 + lost = h + g
    PROVE  o = q + h1 + e + c + d + g1 + r + (f + lost)
OBVIOUS

\* Handing a record over, and taking one to be written (SessionLogger::run).
LEMMA QueueMoves ==
    ASSUME LogInv, (\E s \in {"event", "csv"} : Logger!Log(s)) \/ Logger!TakeRecord
    PROVE  LogInv'
<1>1. LogTypes /\ Accounted /\ FilesAreSlices  BY DEF LogInv
<1>2. UNCHANGED <<stopping, files, written, reported, failed, broken>>
  BY DEF Logger!Log, Logger!TakeRecord, Logger!sinkVars
<1>3. FilesAreSlices'  BY <1>1, <1>2 DEF FilesAreSlices
<1>4. CASE \E s \in {"event", "csv"} : Logger!Log(s)
  <2>1. PICK s \in {"event", "csv"} : Logger!Log(s)  BY <1>4
  <2> DEFINE r == [number |-> offered + 1, stream |-> s]
  <2>2. offered' = offered + 1 /\ Logger!Enqueue(r) /\ hand' = hand  BY <2>1 DEF Logger!Log
  <2>3. r \in Numbered  BY <1>1 DEF Numbered, LogTypes
  <2> HIDE DEF r
  <2>4. /\ queue' \in Seq(Numbered) /\ Len(queue') <= QueueLimit /\ dropped' \in Nat
        /\ Len(queue') + dropped' = Len(queue) + dropped + 1
        /\ queue' # <<>>
    BY <1>1, <2>2, <2>3, EnqueueIs
  <2>5. LogTypes'  BY <1>1, <1>2, <2>2, <2>4 DEF LogTypes
  <2>6. Accounted'
    <3>1. /\ Len(queue') \in Nat /\ Len(queue) \in Nat /\ dropped \in Nat /\ hand.drops \in Nat
          /\ Len(hand.items) \in Nat /\ reported \in Nat /\ failed \in Nat /\ offered \in Nat
      BY <1>1, <2>4, HandLength DEF LogTypes
    <3>2. Count(written["event"]) \in Nat /\ Count(written["csv"]) \in Nat
      BY <1>1, CountIsNat DEF LogTypes
    <3>3. offered = Len(queue) + Len(hand.items) + Count(written["event"])
                      + Count(written["csv"]) + dropped + hand.drops + reported + failed
      BY <1>1 DEF Accounted
    <3>4. offered' = Len(queue') + Len(hand.items) + Count(written["event"])
                       + Count(written["csv"]) + dropped' + hand.drops + reported + failed
      <4>1. offered' = offered + 1  BY <2>2
      <4>2. Len(queue') + dropped' = Len(queue) + dropped + 1 /\ dropped' \in Nat  BY <2>4
      <4> DEFINE e == Count(written["event"])
                 c == Count(written["csv"])
                 h == Len(hand.items)
                 q == Len(queue)
                 q1 == Len(queue')
                 d1 == dropped'
                 g == hand.drops
      <4>3. /\ e \in Int /\ c \in Int /\ h \in Int /\ q \in Int /\ q1 \in Int /\ d1 \in Int
            /\ g \in Int /\ dropped \in Int /\ reported \in Int /\ failed \in Int
            /\ offered \in Int
        BY <3>1, <3>2, <4>2
      <4>4. offered = q + h + e + c + dropped + g + reported + failed  BY <3>3
      <4>5. q1 + d1 = q + dropped + 1  BY <4>2
      <4> HIDE DEF e, c, h, q, q1, d1, g
      <4>6. offered + 1 = q1 + h + e + c + d1 + g + reported + failed
        BY ONLY <4>3, <4>4, <4>5, SumGrows
      <4> QED  BY <4>1, <4>6 DEF e, c, h, q, q1, d1, g
    <3> QED  BY <1>2, <2>2, <2>4, <3>4 DEF Accounted
  <2> QED  BY <1>3, <2>5, <2>6 DEF LogInv
<1>5. CASE Logger!TakeRecord
  <2>1. /\ hand = Logger!Empty /\ queue # <<>> /\ queue' = Tail(queue) /\ dropped' = 0
        /\ hand' = [items |-> <<Head(queue)>>, drops |-> dropped] /\ offered' = offered
    BY <1>5 DEF Logger!TakeRecord, Logger!producerVars
  <2>2. /\ Tail(queue) \in Seq(Numbered) /\ Len(Tail(queue)) = Len(queue) - 1
        /\ Head(queue) \in Numbered /\ queue \in Seq(Numbered)
    BY <1>1, <2>1, HeadTailProperties DEF LogTypes
  <2>3. /\ hand' \in [items : {<<>>} \cup {<<r>> : r \in Numbered}, drops : Nat]
        /\ hand'.drops = dropped /\ hand'.items = <<Head(queue)>>
    BY <1>1, <2>1, <2>2 DEF LogTypes
  <2>4. Len(hand'.items) = 1  BY <2>3
  <2>5. hand.drops = 0 /\ hand.items = <<>>  BY <2>1 DEF Logger!Empty
  <2>6. Len(hand.items) = 0  BY <2>5, EmptySeq
  <2>7. LogTypes'
    <3>1. queue' \in Seq(Numbered) /\ Len(queue') <= QueueLimit
      <4>1. Len(queue) \in Nat /\ Len(queue) <= QueueLimit /\ QueueLimit \in Nat
        BY <1>1, <2>2, LogConstants DEF LogTypes
      <4> QED  BY <2>1, <2>2, <4>1
    <3> QED  BY <1>1, <1>2, <2>1, <2>3, <3>1 DEF LogTypes
  <2>8. Accounted'
    <3>1. /\ Len(queue) \in Nat /\ dropped \in Nat /\ reported \in Nat /\ failed \in Nat
          /\ offered \in Nat /\ Len(queue') = Len(queue) - 1
      BY <1>1, <2>1, <2>2 DEF LogTypes
    <3>2. Count(written["event"]) \in Nat /\ Count(written["csv"]) \in Nat
      BY <1>1, CountIsNat DEF LogTypes
    <3>3. offered = Len(queue) + 0 + Count(written["event"])
                      + Count(written["csv"]) + dropped + 0 + reported + failed
      BY <1>1, <2>5, <2>6 DEF Accounted
    <3>4. offered = Len(queue') + 1 + Count(written["event"])
                      + Count(written["csv"]) + 0 + dropped + reported + failed
      BY <3>1, <3>2, <3>3
    <3> QED  BY <1>2, <2>1, <2>3, <2>4, <3>4 DEF Accounted
  <2> QED  BY <1>3, <2>7, <2>8 DEF LogInv
<1> QED  BY <1>4, <1>5

\* A write of the log brings one record into a stream, and into its files.
LEMMA WriteKeeps ==
    ASSUME LogInv, NEW s \in {"event", "csv"}, NEW x \in Nat, NEW left, NEW told \in Nat,
           left \in [items : {<<>>} \cup {<<r>> : r \in Numbered}, drops : Nat],
           UNCHANGED <<queue, dropped, stopping, offered, failed, broken>>,
           files' = [files EXCEPT ![s] = Logger!WithRecord(@, x)],
           written' = [written EXCEPT ![s] = Append(@, x)],
           hand' = left, reported' = reported + told,
           Len(left.items) + left.drops + told + (IF x = 0 THEN 0 ELSE 1)
             = Len(hand.items) + hand.drops
    PROVE  LogInv'
<1>1. LogTypes /\ Accounted /\ FilesAreSlices  BY DEF LogInv
<1>2. /\ files[s] \in Chains /\ written[s] \in Seq(Nat)
      /\ Len(files[s]) <= LogFiles + 1 /\ Sliced(files[s], written[s])
  BY <1>1 DEF LogTypes, FilesAreSlices
<1> DEFINE chain == Logger!WithRecord(files[s], x)
           w == Append(written[s], x)
<1>3. chain \in Chains /\ Len(chain) <= LogFiles + 1 /\ Sliced(chain, w)
  BY <1>2, RecordWritten
<1>4. w \in Seq(Nat) /\ Count(w) = Count(written[s]) + IF x = 0 THEN 0 ELSE 1
  BY <1>2, AppendProperties, CountAppend
<1>5. files' = [files EXCEPT ![s] = chain] /\ written' = [written EXCEPT ![s] = w]  OBVIOUS
<1> HIDE DEF chain, w
<1>6. /\ files' \in [{"event", "csv"} -> Chains] /\ files'[s] = chain
      /\ \A t \in {"event", "csv"} : t # s => files'[t] = files[t]
  <2>1. files \in [{"event", "csv"} -> Chains]  BY <1>1 DEF LogTypes
  <2>2. chain \in Chains  BY <1>3
  <2> QED  BY ONLY s \in {"event", "csv"}, <1>5, <2>1, <2>2
<1>7. /\ written' \in [{"event", "csv"} -> Seq(Nat)] /\ written'[s] = w
      /\ \A t \in {"event", "csv"} : t # s => written'[t] = written[t]
  <2>1. written \in [{"event", "csv"} -> Seq(Nat)]  BY <1>1 DEF LogTypes
  <2>2. w \in Seq(Nat)  BY <1>4
  <2> QED  BY ONLY s \in {"event", "csv"}, <1>5, <2>1, <2>2
<1>8. LogTypes'
  <2>1. reported' \in Nat  BY <1>1 DEF LogTypes
  <2> QED  BY <1>1, <1>6, <1>7, <2>1 DEF LogTypes
<1>9. FilesAreSlices'
  <2> SUFFICES ASSUME NEW t \in {"event", "csv"}
               PROVE  Len(files'[t]) <= LogFiles + 1 /\ Sliced(files'[t], written'[t])
    BY DEF FilesAreSlices
  <2>1. CASE t = s  BY <1>3, <1>6, <1>7, <2>1
  <2>2. CASE t # s  BY <1>1, <1>6, <1>7, <2>2 DEF FilesAreSlices
  <2> QED  BY <2>1, <2>2
<1>10. Accounted'
  <2> DEFINE one == IF x = 0 THEN 0 ELSE 1
  <2>1. Count(written'["event"]) + Count(written'["csv"])
          = Count(written["event"]) + Count(written["csv"]) + one
    <3>1. Count(written["event"]) \in Nat /\ Count(written["csv"]) \in Nat /\ one \in Nat
      BY <1>1, CountIsNat DEF LogTypes
    <3>2. CASE s = "event"
      <4>1. Count(written'["event"]) = Count(written["event"]) + one
            /\ written'["csv"] = written["csv"]
        BY <1>4, <1>7, <3>2
      <4> HIDE DEF one
      <4> QED  BY <3>1, <4>1
    <3>3. CASE s = "csv"
      <4>1. Count(written'["csv"]) = Count(written["csv"]) + one
            /\ written'["event"] = written["event"]
        BY <1>4, <1>7, <3>3
      <4> HIDE DEF one
      <4> QED  BY <3>1, <4>1
    <3> QED  BY <3>2, <3>3
  <2>2. /\ Count(written["event"]) \in Nat /\ Count(written["csv"]) \in Nat /\ one \in Nat
        /\ Count(written'["event"]) \in Nat /\ Count(written'["csv"]) \in Nat
    BY <1>1, <1>7, CountIsNat DEF LogTypes
  <2>3. /\ Len(queue) \in Nat /\ dropped \in Nat /\ hand.drops \in Nat /\ Len(hand.items) \in Nat
        /\ reported \in Nat /\ failed \in Nat /\ offered \in Nat
        /\ left.drops \in Nat /\ Len(left.items) \in Nat
    <3>1. Len(left.items) \in Nat
      <4>1. left.items = <<>> \/ \E r \in Numbered : left.items = <<r>>  OBVIOUS
      <4> QED  BY <4>1, EmptySeq
    <3> QED  BY <1>1, <3>1, HandLength DEF LogTypes
  <2>4. offered = Len(queue) + Len(hand.items) + Count(written["event"])
                    + Count(written["csv"]) + dropped + hand.drops + reported + failed
    BY <1>1 DEF Accounted
  <2>5. Len(left.items) + left.drops + told + one = Len(hand.items) + hand.drops  OBVIOUS
  <2> HIDE DEF one
  <2>6. offered = Len(queue) + Len(left.items) + Count(written'["event"])
                    + Count(written'["csv"]) + dropped + left.drops + reported' + failed
    <3>1. reported' = reported + told /\ told \in Nat  OBVIOUS
    <3> DEFINE e == Count(written["event"])
               c == Count(written["csv"])
               e1 == Count(written'["event"])
               c1 == Count(written'["csv"])
               h == Len(hand.items)
               h1 == Len(left.items)
               q == Len(queue)
               g == hand.drops
               g1 == left.drops
    <3>2. /\ e \in Int /\ c \in Int /\ e1 \in Int /\ c1 \in Int /\ h \in Int /\ h1 \in Int
          /\ q \in Int /\ g \in Int /\ g1 \in Int /\ dropped \in Int /\ reported \in Int
          /\ failed \in Int /\ offered \in Int /\ told \in Int /\ one \in Int
      BY <2>2, <2>3
    <3>3. offered = q + h + e + c + dropped + g + reported + failed  BY <2>4
    <3>4. e1 + c1 = e + c + one /\ h1 + g1 + told + one = h + g  BY <2>1, <2>5
    <3> HIDE DEF e, c, e1, c1, h, h1, q, g, g1
    <3>5. offered = q + h1 + e1 + c1 + dropped + g1 + (reported + told) + failed
      BY ONLY <3>2, <3>3, <3>4, SumWritten
    <3> QED  BY <3>1, <3>5 DEF e1, c1, h1, q, g1
  <2> QED  BY <1>1, <2>6 DEF Accounted
<1> QED  BY <1>8, <1>9, <1>10 DEF LogInv

\* What is lost to a failure is counted.
LEMMA LossKeeps ==
    ASSUME LogInv, NEW left, NEW lost \in Nat, NEW closed \in SUBSET {"event", "csv"},
           left \in [items : {<<>>} \cup {<<r>> : r \in Numbered}, drops : Nat],
           UNCHANGED <<queue, dropped, stopping, offered, files, written, reported>>,
           hand' = left, failed' = failed + lost, broken' = closed,
           Len(left.items) + left.drops + lost = Len(hand.items) + hand.drops
    PROVE  LogInv'
<1>1. LogTypes /\ Accounted /\ FilesAreSlices  BY DEF LogInv
<1>2. LogTypes'
  <2>1. failed' \in Nat  BY <1>1 DEF LogTypes
  <2> QED  BY <1>1, <2>1 DEF LogTypes
<1>3. FilesAreSlices'  BY <1>1 DEF FilesAreSlices
<1>4. Accounted'
  <2>1. Count(written["event"]) \in Nat /\ Count(written["csv"]) \in Nat
    BY <1>1, CountIsNat DEF LogTypes
  <2>2. /\ Len(queue) \in Nat /\ dropped \in Nat /\ hand.drops \in Nat /\ Len(hand.items) \in Nat
        /\ reported \in Nat /\ failed \in Nat /\ offered \in Nat
        /\ left.drops \in Nat /\ Len(left.items) \in Nat
    <3>1. Len(left.items) \in Nat
      <4>1. left.items = <<>> \/ \E r \in Numbered : left.items = <<r>>  OBVIOUS
      <4> QED  BY <4>1, EmptySeq
    <3> QED  BY <1>1, <3>1, HandLength DEF LogTypes
  <2>3. offered = Len(queue) + Len(hand.items) + Count(written["event"])
                    + Count(written["csv"]) + dropped + hand.drops + reported + failed
    BY <1>1 DEF Accounted
  <2>4. offered = Len(queue) + Len(left.items) + Count(written["event"])
                    + Count(written["csv"]) + dropped + left.drops + reported + failed'
    <3>1. failed' = failed + lost /\ lost \in Nat  OBVIOUS
    <3>2. Len(left.items) + left.drops + lost = Len(hand.items) + hand.drops  OBVIOUS
    <3> DEFINE e == Count(written["event"])
               c == Count(written["csv"])
               h == Len(hand.items)
               h1 == Len(left.items)
               q == Len(queue)
               g == hand.drops
               g1 == left.drops
    <3>3. /\ e \in Int /\ c \in Int /\ h \in Int /\ h1 \in Int
          /\ q \in Int /\ g \in Int /\ g1 \in Int /\ dropped \in Int /\ reported \in Int
          /\ failed \in Int /\ offered \in Int /\ lost \in Int
      BY <2>1, <2>2
    <3>4. offered = q + h + e + c + dropped + g + reported + failed  BY <2>3
    <3>5. h1 + g1 + lost = h + g  BY <3>2
    <3> HIDE DEF e, c, h, h1, q, g, g1
    <3>6. offered = q + h1 + e + c + dropped + g1 + reported + (failed + lost)
      BY ONLY <3>3, <3>4, <3>5, SumLost
    <3> QED  BY <3>1, <3>6 DEF e, c, h1, q, g1
  <2> QED  BY <1>1, <2>4 DEF Accounted
<1> QED  BY <1>2, <1>3, <1>4 DEF LogInv

\* Each step of the log
LEMMA LogStep == ASSUME LogInv, Logger!Next PROVE LogInv'
<1>1. LogTypes /\ Accounted /\ FilesAreSlices  BY DEF LogInv
<1>2. CASE Logger!Stop
  <2>1. UNCHANGED <<queue, dropped, hand, offered, files, written, reported, failed, broken>>
        /\ stopping' = TRUE
    BY <1>2 DEF Logger!Stop, Logger!producerVars, Logger!sinkVars
  <2>2. LogTypes'  BY <1>1, <2>1 DEF LogTypes
  <2>3. Accounted' /\ FilesAreSlices'  BY <1>1, <2>1 DEF Accounted, FilesAreSlices
  <2> QED  BY <2>2, <2>3 DEF LogInv
<1>3. /\ hand = [items |-> hand.items, drops |-> hand.drops] /\ hand.drops \in Nat
      /\ hand.items = <<>> \/ \E r \in Numbered : hand.items = <<r>>
  BY <1>1 DEF LogTypes
<1>4. Len(hand.items) \in Nat  BY <1>1, HandLength
<1>5. ASSUME hand.items # <<>>
      PROVE  /\ Len(hand.items) = 1 /\ Head(hand.items) \in Numbered
             /\ Head(hand.items).number \in Nat \ {0}
             /\ Head(hand.items).stream \in {"event", "csv"}
  <2>1. PICK r \in Numbered : hand.items = <<r>>  BY <1>3, <1>5
  <2>2. Len(<<r>>) = 1 /\ Head(<<r>>) = r  OBVIOUS
  <2>3. r.number \in Nat \ {0} /\ r.stream \in {"event", "csv"}  BY DEF Numbered
  <2> QED  BY <2>1, <2>2, <2>3
<1> DEFINE rest == [items |-> hand.items, drops |-> 0]
           none == [items |-> <<>>, drops |-> 0]
<1>6. /\ rest \in [items : {<<>>} \cup {<<r>> : r \in Numbered}, drops : Nat]
      /\ rest.items = hand.items /\ rest.drops = 0
  BY <1>3
<1>7. /\ none \in [items : {<<>>} \cup {<<r>> : r \in Numbered}, drops : Nat]
      /\ none.items = <<>> /\ none.drops = 0 /\ Len(none.items) = 0
  BY EmptySeq
<1>8. CASE Logger!WriteDrops
  <2>1. /\ hand' = [hand EXCEPT !.drops = 0] /\ reported' = reported + hand.drops
        /\ files' = [files EXCEPT !["event"] = Logger!WithRecord(@, 0)]
        /\ written' = [written EXCEPT !["event"] = Append(@, 0)]
        /\ UNCHANGED <<queue, dropped, stopping, offered, failed, broken>>
    BY <1>8 DEF Logger!WriteDrops, Logger!producerVars
  <2>2. hand' = rest  BY <1>3, <2>1
  <2> HIDE DEF rest, none
  <2>3. Len(rest.items) + rest.drops + hand.drops + (IF 0 = 0 THEN 0 ELSE 1)
          = Len(hand.items) + hand.drops
    BY <1>3, <1>4, <1>6
  <2> QED  BY <1>3, <1>6, <2>1, <2>2, <2>3, WriteKeeps
<1>9. CASE Logger!WriteRecord
  <2> DEFINE r == Head(hand.items)
  <2>1. /\ hand.items # <<>> /\ hand.drops = 0
        /\ files' = [files EXCEPT ![r.stream] = Logger!WithRecord(@, r.number)]
        /\ written' = [written EXCEPT ![r.stream] = Append(@, r.number)]
        /\ hand' = Logger!Empty /\ reported' = reported
        /\ UNCHANGED <<queue, dropped, stopping, offered, failed, broken>>
    BY <1>9 DEF Logger!WriteRecord, Logger!producerVars
  <2>2. Len(hand.items) = 1 /\ r.number \in Nat /\ r.number # 0 /\ r.stream \in {"event", "csv"}
    BY <1>5, <2>1
  <2>3. hand' = none  BY <2>1 DEF Logger!Empty
  <2> DEFINE s == r.stream
             x == r.number
  <2>4. /\ files' = [files EXCEPT ![s] = Logger!WithRecord(@, x)]
        /\ written' = [written EXCEPT ![s] = Append(@, x)]
        /\ s \in {"event", "csv"} /\ x \in Nat /\ x # 0
    BY <2>1, <2>2
  <2> HIDE DEF rest, none, r, s, x
  <2>5. Len(none.items) + none.drops + 0 + (IF x = 0 THEN 0 ELSE 1)
          = Len(hand.items) + hand.drops
    BY <1>7, <2>1, <2>2, <2>4
  <2>6. reported' = reported + 0  BY <1>1, <2>1 DEF LogTypes
  <2> QED  BY <1>7, <2>1, <2>3, <2>4, <2>5, <2>6, WriteKeeps
<1>10. CASE Logger!LoseDrops
  <2>1. /\ hand' = [hand EXCEPT !.drops = 0] /\ failed' = failed + hand.drops
        /\ broken' = broken \cup {"event"}
        /\ UNCHANGED <<queue, dropped, stopping, offered, files, written, reported>>
    BY <1>10 DEF Logger!LoseDrops, Logger!producerVars
  <2>2. hand' = rest  BY <1>3, <2>1
  <2> HIDE DEF rest, none
  <2>3. Len(rest.items) + rest.drops + hand.drops = Len(hand.items) + hand.drops
    BY <1>3, <1>4, <1>6
  <2>4. broken' \in SUBSET {"event", "csv"}  BY <1>1, <2>1 DEF LogTypes
  <2> QED  BY <1>3, <1>6, <2>1, <2>2, <2>3, <2>4, LossKeeps
<1>11. CASE Logger!LoseRecord
  <2>1. /\ hand.items # <<>> /\ hand.drops = 0 /\ hand' = Logger!Empty /\ failed' = failed + 1
        /\ broken' = broken \cup {Head(hand.items).stream}
        /\ UNCHANGED <<queue, dropped, stopping, offered, files, written, reported>>
    BY <1>11 DEF Logger!LoseRecord, Logger!producerVars
  <2>2. hand' = none  BY <2>1 DEF Logger!Empty
  <2>3. broken' \in SUBSET {"event", "csv"}  BY <1>1, <1>5, <2>1 DEF LogTypes
  <2> HIDE DEF rest, none
  <2>4. Len(none.items) + none.drops + 1 = Len(hand.items) + hand.drops
    BY <1>5, <1>7, <2>1
  <2> QED  BY <1>7, <2>1, <2>2, <2>3, <2>4, LossKeeps
<1>12. CASE Logger!RotationThrows
  <2>1. /\ hand' = Logger!Empty /\ failed' = failed + hand.drops + Len(hand.items)
        /\ hand # Logger!Empty
        /\ broken' = broken \cup {IF hand.drops > 0 THEN "event" ELSE Head(hand.items).stream}
        /\ UNCHANGED <<queue, dropped, stopping, offered, files, written, reported>>
    BY <1>12 DEF Logger!RotationThrows, Logger!producerVars
  <2>2. hand' = none  BY <2>1 DEF Logger!Empty
  <2>3. broken' \in SUBSET {"event", "csv"}
    <3>1. hand.drops > 0 \/ hand.items # <<>>  BY <1>3, <2>1 DEF Logger!Empty
    <3>2. broken \in SUBSET {"event", "csv"}  BY <1>1 DEF LogTypes
    <3> QED  BY <1>5, <2>1, <3>1, <3>2
  <2> DEFINE lost == hand.drops + Len(hand.items)
  <2>4. failed' = failed + lost /\ lost \in Nat  BY <1>1, <1>3, <1>4, <2>1 DEF LogTypes
  <2>5. Len(none.items) + none.drops + lost = Len(hand.items) + hand.drops
    <3> HIDE DEF none
    <3> QED  BY <1>3, <1>4, <1>7
  <2> HIDE DEF rest, none, lost
  <2> QED  BY <1>7, <2>1, <2>2, <2>3, <2>4, <2>5, LossKeeps
<1> QED
  BY <1>2, <1>8, <1>9, <1>10, <1>11, <1>12, QueueMoves DEF Logger!Next, Logger!Streams

\* A sequence of sequences is flattened to the one that all its parts add up to.
LEMMA FlattenIs ==
    ASSUME NEW parts, Len(parts) \in Nat \ {0}, NEW h,
           h \in [1 .. Len(parts) -> Seq(Nat)],
           h[1] = parts[1],
           \A i \in 2 .. Len(parts) : h[i] = h[i - 1] \o parts[i]
    PROVE  Logger!FlattenSeq(parts) = h[Len(parts)]
<1> DEFINE n == Len(parts)
           F(g) == [i \in 1 .. n |-> IF i = 1 THEN parts[i] ELSE g[i - 1] \o parts[i]]
           flat == CHOOSE g : g = F(g)
<1>1. Logger!FlattenSeq(parts) = flat[n]
  <2>1. Len(parts) # 0  OBVIOUS
  <2> QED  BY <2>1, Zenon DEF Logger!FlattenSeq
<1>2. h = F(h)
  <2>1. ASSUME NEW i \in 1 .. n PROVE h[i] = IF i = 1 THEN parts[i] ELSE h[i - 1] \o parts[i]
    <3>1. CASE i = 1  BY <3>1
    <3>2. CASE i # 1
      <4>1. i \in 2 .. n  BY <3>2
      <4> QED  BY <3>2, <4>1
    <3> QED  BY <3>1, <3>2
  <2> HIDE DEF n
  <2>2. h = [i \in 1 .. n |-> h[i]]  BY DEF n
  <2> QED  BY <2>1, <2>2
<1>3. flat = F(flat)
  <2>1. \E g : g = F(g)  BY <1>2
  <2> QED  BY <2>1, Zenon
<1> HIDE DEF flat
<1>4. \A i \in 1 .. n : flat[i] = IF i = 1 THEN parts[i] ELSE flat[i - 1] \o parts[i]
  BY <1>3
<1> HIDE DEF F
<1>5. \A i \in 1 .. n : flat[i] = h[i]
  <2> DEFINE T == {i \in 1 .. n : flat[i] # h[i]}
  <2>1. SUFFICES ASSUME T # {} PROVE FALSE  OBVIOUS
  <2>2. T \subseteq Nat  OBVIOUS
  <2>3. PICK i \in T : \A j \in T : i <= j  BY <2>1, <2>2, Smallest
  <2>4. i \in 1 .. n /\ flat[i] # h[i]  BY <2>3
  <2>5. CASE i = 1  BY <1>4, <2>4, <2>5
  <2>6. CASE i # 1
    <3>1. i \in 2 .. n /\ i - 1 \in 1 .. n /\ ~(i <= i - 1)  BY <2>4, <2>6
    <3>2. i - 1 \notin T
      <4> HIDE DEF T
      <4> QED  BY <2>3, <3>1
    <3>3. flat[i - 1] = h[i - 1]  BY <3>1, <3>2
    <3>4. flat[i] = flat[i - 1] \o parts[i]  BY <1>4, <2>4, <2>6
    <3>5. h[i] = h[i - 1] \o parts[i]  BY <3>1
    <3> QED  BY <2>4, <3>3, <3>4, <3>5
  <2> QED  BY <2>5, <2>6
<1> QED  BY <1>1, <1>5

\* Slices, oldest first, add up to what lies between the outermost cuts.
LEMMA SlicesAddUp ==
    ASSUME NEW chain \in Chains, NEW w \in Seq(Nat),
           NEW cut \in [0 .. Len(chain) -> 0 .. Len(w)],
           cut[0] = Len(w),
           \A k \in 0 .. Len(chain) : \A j \in 0 .. k : cut[k] <= cut[j],
           \A k \in 1 .. Len(chain) : chain[k] = SubSeq(w, cut[k] + 1, cut[k - 1])
    PROVE  Logger!FlattenSeq(Logger!Reverse(chain)) = SubSeq(w, cut[Len(chain)] + 1, Len(w))
<1> DEFINE n == Len(chain)
           parts == Logger!Reverse(chain)
           h == [i \in 1 .. n |-> SubSeq(w, cut[n] + 1, cut[n - i])]
<1>1. chain \in Seq(Seq(Nat)) /\ n \in Nat \ {0} /\ Len(w) \in Nat  BY EmptySeq DEF Chains
<1>2. \A i \in 1 .. n : n - i + 1 \in 1 .. n /\ n - i \in 0 .. n /\ n - i + 1 \in 0 .. n
  BY <1>1
<1>3. parts = [i \in 1 .. n |-> chain[n - i + 1]]  BY DEF Logger!Reverse
<1>4. Len(parts) = n
  <2>1. parts \in Seq(Seq(Nat)) /\ DOMAIN parts = 1 .. n
    <3>1. \A i \in 1 .. n : chain[n - i + 1] \in Seq(Nat)
      <4> HIDE DEF n, parts
      <4> QED  BY <1>1, <1>2, ElementOfSeq DEF n
    <3>2. parts \in [1 .. n -> Seq(Nat)]  BY <1>3, <3>1
    <3> HIDE DEF parts, n
    <3>3. parts \in Seq(Seq(Nat))  BY <1>1, <3>2, SeqDef
    <3> QED  BY <3>2, <3>3
  <2>2. DOMAIN parts = 1 .. Len(parts) /\ Len(parts) \in Nat  BY <2>1, LenProperties
  <2> HIDE DEF parts, n
  <2> QED  BY <1>1, <2>1, <2>2
<1>5. \A i \in 1 .. n : parts[i] = chain[n - i + 1]  BY <1>3
<1> HIDE DEF parts
<1>6. \A k \in 0 .. n : cut[k] \in 0 .. Len(w) /\ cut[n] <= cut[k]
  <2>1. n \in 0 .. n  BY <1>1
  <2> QED  BY <2>1
<1>7. \A i \in 1 .. n : /\ parts[i] = SubSeq(w, cut[n - i + 1] + 1, cut[n - i])
                        /\ cut[n] <= cut[n - i + 1] /\ cut[n - i + 1] <= cut[n - i]
                        /\ cut[n - i] \in 0 .. Len(w) /\ cut[n - i + 1] \in 0 .. Len(w)
  <2> SUFFICES ASSUME NEW i \in 1 .. n
               PROVE  /\ parts[i] = SubSeq(w, cut[n - i + 1] + 1, cut[n - i])
                      /\ cut[n] <= cut[n - i + 1] /\ cut[n - i + 1] <= cut[n - i]
                      /\ cut[n - i] \in 0 .. Len(w) /\ cut[n - i + 1] \in 0 .. Len(w)
    OBVIOUS
  <2> DEFINE k == n - i + 1
  <2>1. k \in 1 .. n /\ k \in 0 .. n /\ k - 1 \in 0 .. k /\ k - 1 = n - i /\ k - 1 \in 0 .. n
    BY <1>1
  <2>2. parts[i] = chain[k]  BY <1>5
  <2> HIDE DEF k
  <2>3. chain[k] = SubSeq(w, cut[k] + 1, cut[k - 1])  BY <2>1
  <2>4. cut[k] <= cut[k - 1]  BY <2>1
  <2> QED  BY <1>6, <2>1, <2>2, <2>3, <2>4 DEF k
<1>8. h[1] = parts[1]
  <2>1. 1 \in 1 .. n /\ n - 1 + 1 = n  BY <1>1
  <2>2. h[1] = SubSeq(w, cut[n] + 1, cut[n - 1])  BY <2>1
  <2> QED  BY <1>7, <2>1, <2>2
<1>9. ASSUME NEW i \in 2 .. n PROVE h[i] = h[i - 1] \o parts[i]
  <2>1. i \in 1 .. n /\ i - 1 \in 1 .. n /\ n - (i - 1) = n - i + 1  BY <1>1
  <2>2. h[i] = SubSeq(w, cut[n] + 1, cut[n - i])  BY <2>1
  <2>3. h[i - 1] = SubSeq(w, cut[n] + 1, cut[n - i + 1])  BY <2>1
  <2>4. /\ parts[i] = SubSeq(w, cut[n - i + 1] + 1, cut[n - i])
        /\ cut[n] <= cut[n - i + 1] /\ cut[n - i + 1] <= cut[n - i]
        /\ cut[n - i] \in 0 .. Len(w) /\ cut[n - i + 1] \in 0 .. Len(w) /\ cut[n] \in 0 .. Len(w)
    <3>1. cut[n] \in 0 .. Len(w)
      <4>1. n \in 0 .. n  BY <1>1
      <4> QED  BY <1>6, <4>1
    <3> HIDE DEF n
    <3> QED  BY <1>7, <2>1, <3>1
  <2> DEFINE a == cut[n] + 1
             b == cut[n - i + 1]
             c == cut[n - i]
  <2>5. a \in 1 .. Len(w) + 1 /\ b \in a - 1 .. Len(w) /\ c \in b .. Len(w)
    <3>1. \A l \in Nat : \A p, q, r \in 0 .. l :
            p <= q /\ q <= r => p + 1 \in 1 .. l + 1 /\ q \in (p + 1) - 1 .. l /\ r \in q .. l
      OBVIOUS
    <3> DEFINE p == cut[n]
               l == Len(w)
    <3>2. p \in 0 .. l /\ b \in 0 .. l /\ c \in 0 .. l /\ p <= b /\ b <= c /\ l \in Nat
      BY <1>1, <2>4
    <3> HIDE DEF p, b, c, l
    <3>3. p + 1 \in 1 .. l + 1 /\ b \in (p + 1) - 1 .. l /\ c \in b .. l
      BY <3>1, <3>2
    <3> QED  BY <3>3 DEF p, l
  <2> HIDE DEF a, b, c, h
  <2>6. SubSeq(w, a, b) \o SubSeq(w, b + 1, c) = SubSeq(w, a, c)
    BY <2>5, ConcatAdjacentSubSeq
  <2> QED  BY <2>2, <2>3, <2>4, <2>6 DEF a, b, c
<1>10. h \in [1 .. n -> Seq(Nat)]
  <2> SUFFICES ASSUME NEW i \in 1 .. n PROVE SubSeq(w, cut[n] + 1, cut[n - i]) \in Seq(Nat)
    OBVIOUS
  <2>1. cut[n - i] \in 0 .. Len(w) /\ cut[n] \in 0 .. Len(w) /\ cut[n] <= cut[n - i]
    <3>1. n \in 0 .. n /\ n - i \in 0 .. n  BY <1>1, <1>2
    <3> HIDE DEF n
    <3> QED  BY <1>6, <3>1
  <2>2. cut[n - i] \in cut[n] .. Len(w)  BY <1>1, <2>1
  <2> QED  BY <2>1, <2>2, SliceIs
<1>11. h[n] = SubSeq(w, cut[n] + 1, Len(w))
  <2>1. n \in 1 .. n /\ n - n = 0  BY <1>1
  <2> QED  BY <2>1
<1> HIDE DEF h
<1>12. Logger!FlattenSeq(parts) = h[n]  BY <1>1, <1>4, <1>8, <1>9, <1>10, FlattenIs
<1> QED  BY <1>11, <1>12 DEF parts

\* The rest of a sequence is a suffix of it.
LEMMA RestIsSuffix ==
    ASSUME NEW w \in Seq(Nat), NEW m \in 0 .. Len(w)
    PROVE  Logger!IsSuffix(SubSeq(w, m + 1, Len(w)), w)
<1> DEFINE n == Len(w)
           rest == SubSeq(w, m + 1, n)
           l == n - m
<1>1. n \in Nat /\ m \in Nat /\ m <= n /\ n \in m .. Len(w)  OBVIOUS
<1>2. rest \in Seq(Nat) /\ Len(rest) = l /\ \A i \in 1 .. l : rest[i] = w[m + i]
  BY <1>1, SliceIs
<1> HIDE DEF rest
<1> DEFINE back == Logger!Reverse(rest)
           all == Logger!Reverse(w)
<1>3. back = [i \in 1 .. l |-> rest[l - i + 1]] /\ all = [i \in 1 .. n |-> w[n - i + 1]]
  BY <1>2 DEF Logger!Reverse
<1>4. \A i \in 1 .. l : /\ l - i + 1 \in 1 .. l /\ n - i + 1 \in 1 .. n /\ i \in 1 .. n
                        /\ m + (l - i + 1) = n - i + 1
  BY <1>1
<1>5. \A i \in 1 .. n : n - i + 1 \in 1 .. n  BY <1>1
<1>6. \A i \in 1 .. n : w[n - i + 1] \in Nat  BY <1>5, ElementOfSeq
<1>7. all \in [1 .. n -> Nat] /\ \A i \in 1 .. n : all[i] = w[n - i + 1]
  <2> HIDE DEF n, all
  <2> QED  BY <1>3, <1>6
<1>8. \A i \in 1 .. l : back[i] = rest[l - i + 1]
  <2> HIDE DEF n, l, back
  <2> QED  BY <1>3
<1>9. ASSUME NEW i \in 0 + 1 .. l PROVE back[i] \in Nat /\ all[i] = back[i]
  <2>1. i \in 1 .. l  BY <1>1
  <2>2. back[i] = w[n - i + 1]
    <3>1. back[i] = rest[l - i + 1]  BY <1>8, <2>1
    <3>2. rest[l - i + 1] = w[m + (l - i + 1)]  BY <1>2, <1>4, <2>1
    <3>3. m + (l - i + 1) = n - i + 1  BY <1>4, <2>1
    <3> HIDE DEF l, n, back
    <3> QED  BY <3>1, <3>2, <3>3
  <2>3. all[i] = w[n - i + 1] /\ w[n - i + 1] \in Nat  BY <1>4, <1>6, <1>7, <2>1
  <2> QED  BY <2>2, <2>3
<1>10. Len(back) = l /\ Len(all) = n
  <2>1. back \in [1 .. l -> Nat] /\ l \in Nat
    <3>1. \A i \in 1 .. l : rest[l - i + 1] \in Nat
      <4> HIDE DEF l
      <4> QED  BY <1>2, <1>4, ElementOfSeq
    <3>2. l \in Nat  BY <1>1
    <3> HIDE DEF l, back
    <3> QED  BY <1>3, <3>1, <3>2
  <2> HIDE DEF back, all, l, n
  <2>2. back \in Seq(Nat) /\ all \in Seq(Nat)  BY <1>1, <1>7, <2>1, SeqDef
  <2>3. /\ DOMAIN back = 1 .. Len(back) /\ Len(back) \in Nat
        /\ DOMAIN all = 1 .. Len(all) /\ Len(all) \in Nat
    BY <2>2, LenProperties
  <2>4. DOMAIN back = 1 .. l /\ DOMAIN all = 1 .. n  BY <1>7, <2>1
  <2>5. \A p, q \in Nat : 1 .. p = 1 .. q => p = q
    <3> SUFFICES ASSUME NEW p \in Nat, NEW q \in Nat, 1 .. p = 1 .. q PROVE p = q
      OBVIOUS
    <3>1. p > 0 => p \in 1 .. q  OBVIOUS
    <3>2. q > 0 => q \in 1 .. p  OBVIOUS
    <3> QED  BY <3>1, <3>2
  <2>6. l \in Nat /\ n \in Nat  BY <1>1, <2>1
  <2> QED  BY <2>3, <2>4, <2>5, <2>6
<1> HIDE DEF back, all
<1>11. SubSeq(back, 0 + 1, l) = SubSeq(all, 0 + 1, l)  BY <1>1, <1>9, SliceEqual
<1>12. Len(back) <= Len(all) /\ SubSeq(back, 1, Len(back)) = SubSeq(all, 1, Len(back))
  BY <1>1, <1>10, <1>11
<1> QED  BY <1>12 DEF Logger!IsSuffix, Logger!IsPrefix, back, all, rest

\* The invariant says what the log promises: the account, and the newest records.
LEMMA LogIsNewestOf == LogInv => Logger!AccountsForAll /\ Logger!LogIsNewest
<1> SUFFICES ASSUME LogInv PROVE Logger!AccountsForAll /\ Logger!LogIsNewest  OBVIOUS
<1>1. LogTypes /\ Accounted /\ FilesAreSlices  BY DEF LogInv
<1>2. Logger!AccountsForAll
  <2>1. /\ Logger!Records("event") = Count(written["event"])
        /\ Logger!Records("csv") = Count(written["csv"])
    BY SameRecords
  <2> QED  BY <1>1, <2>1 DEF Accounted, Logger!AccountsForAll
<1>3. ASSUME NEW s \in {"event", "csv"}
      PROVE  LET kept == Logger!FlattenSeq(Logger!Reverse(files[s]))
             IN  /\ Logger!IsSuffix(kept, written[s])
                 /\ kept # written[s] => Len(files[s]) = LogFiles + 1
  <2> DEFINE chain == files[s]
             w == written[s]
             n == Len(chain)
             kept == Logger!FlattenSeq(Logger!Reverse(chain))
  <2>1. /\ chain \in Chains /\ w \in Seq(Nat) /\ n <= LogFiles + 1 /\ Sliced(chain, w)
    BY <1>1 DEF LogTypes, FilesAreSlices
  <2> HIDE DEF chain, w
  <2>2. PICK cut \in [0 .. n -> 0 .. Len(w)] :
          /\ cut[0] = Len(w)
          /\ \A k \in 0 .. n : \A j \in 0 .. k : cut[k] <= cut[j]
          /\ \A k \in 1 .. n : chain[k] = SubSeq(w, cut[k] + 1, cut[k - 1])
          /\ n <= LogFiles => cut[n] = 0
    BY <2>1 DEF Sliced
  <2>3. n \in Nat /\ n \in 0 .. n /\ cut[n] \in 0 .. Len(w)
    <3>1. n \in Nat  BY <2>1 DEF Chains
    <3>2. n \in 0 .. n  BY <3>1
    <3> HIDE DEF n
    <3> QED  BY <2>2, <3>1, <3>2
  <2>4. kept = SubSeq(w, cut[n] + 1, Len(w))  BY <2>1, <2>2, SlicesAddUp
  <2> HIDE DEF kept
  <2>5. Logger!IsSuffix(kept, w)  BY <2>1, <2>3, <2>4, RestIsSuffix
  <2>6. ASSUME kept # w PROVE n = LogFiles + 1
    <3>1. CASE n <= LogFiles
      <4>1. kept = SubSeq(w, 1, Len(w))  BY <2>2, <2>4, <3>1
      <4>2. SubSeq(w, 1, Len(w)) = w  BY <2>1, SubSeqFull
      <4> QED  BY <2>6, <4>1, <4>2
    <3>2. CASE ~(n <= LogFiles)
      <4> HIDE DEF n
      <4> QED  BY <2>1, <2>3, <3>2, LogConstants
    <3> QED  BY <3>1, <3>2
  <2> QED  BY <2>5, <2>6 DEF kept, chain, w
<1>4. Logger!LogIsNewest  BY <1>3 DEF Logger!LogIsNewest, Logger!Streams
<1> QED  BY <1>2, <1>4
-----------------------------------------------------------------------------
(* The components together                                                 *)

ServicesInv == LogInv /\ TerrainInv /\ RcInv /\ ChainInv /\ TfInv

\* Each component's invariant is of its own variables alone.
LEMMA OthersStay ==
    /\ LogInv /\ UNCHANGED loggerVars => LogInv'
    /\ TerrainInv /\ UNCHANGED terrainVars => TerrainInv'
    /\ RcInv /\ UNCHANGED rcVars => RcInv'
    /\ ChainInv /\ UNCHANGED chainVars => ChainInv'
    /\ TfInv /\ UNCHANGED tfVars => TfInv'
<1>1. ASSUME LogInv, UNCHANGED loggerVars PROVE LogInv'
  <2>1. UNCHANGED <<queue, dropped, stopping, hand, files, offered, written, reported, failed,
                    broken>>
    BY <1>1 DEF loggerVars
  <2>2. LogTypes'  BY <1>1, <2>1 DEF LogInv, LogTypes
  <2>3. Accounted' /\ FilesAreSlices'  BY <1>1, <2>1 DEF LogInv, Accounted, FilesAreSlices
  <2> QED  BY <2>2, <2>3 DEF LogInv
<1>2. ASSUME TerrainInv, UNCHANGED terrainVars PROVE TerrainInv'
  <2>1. UNCHANGED <<time, watched, odom, cloud, base, revocations, ready, reason, basis, callback>>
    BY <1>2 DEF terrainVars
  <2>2. TerrainTypes'  BY <1>2, <2>1 DEF TerrainInv, TerrainTypes
  <2>3. HistoryIsOlder' /\ TerrainAlive'
    BY <1>2, <2>1 DEF TerrainInv, HistoryIsOlder, TerrainAlive
  <2> QED  BY <2>2, <2>3 DEF TerrainInv
<1>3. ASSUME RcInv, UNCHANGED rcVars PROVE RcInv'
  <2>1. UNCHANGED <<tick, due, mavros, livox, beat, decoder, heartbeat, state, rcReady, heard>>
    BY <1>3 DEF rcVars
  <2>2. RcTypes'  BY <1>3, <2>1 DEF RcInv, RcTypes
  <2>3. Connected' /\ RcAlive' /\ Received'
    BY <1>3, <2>1 DEF RcInv, Connected, RcAlive, Received
  <2> QED  BY <2>2, <2>3 DEF RcInv
<1>4. ASSUME ChainInv, UNCHANGED chainVars PROVE ChainInv'
  <2>1. UNCHANGED <<clock, timers, gate, chainReady, seen, sample, fcu, aligned, wire>>
    BY <1>4 DEF chainVars
  <2>2. ChainTypes'  BY <1>4, <2>1 DEF ChainInv, ChainTypes
  <2>3. \A n \in TwoNodes : NodeAlive(n)'  BY <1>4, <2>1 DEF ChainInv, NodeAlive
  <2> QED  BY <2>2, <2>3 DEF ChainInv
<1>5. ASSUME TfInv, UNCHANGED tfVars PROVE TfInv'
  <2>1. UNCHANGED <<hour, watch, cache, stamps, enabled, baseWall, last, tfReady, void>>
    BY <1>5 DEF tfVars
  <2>2. TfTypes'  BY <1>5, <2>1 DEF TfInv, TfTypes
  <2>3. TfAlive' /\ CachesAreNew'  BY <1>5, <2>1 DEF TfInv, TfAlive, CachesAreNew
  <2> QED  BY <2>2, <2>3 DEF TfInv
<1> QED  BY <1>1, <1>2, <1>3, <1>4, <1>5

\* Every component begins in its invariant.
LEMMA ServicesBegin == ServicesInit => ServicesInv
BY LogInitially, TerrainInitially, RcInitially, ChainInitially, TfInitially
   DEF ServicesInit, ServicesInv

\* One component moves at a time, and keeps its invariant.
LEMMA ServicesStep ==
    ASSUME ServicesInv, [ServicesNext]_services
    PROVE  /\ ServicesInv'
           /\ UNCHANGED rcVars \/ IsNewMeasurement
           /\ UNCHANGED tfVars \/ IsNewPair
<1>1. LogInv /\ TerrainInv /\ RcInv /\ ChainInv /\ TfInv  BY DEF ServicesInv
<1>2. /\ UNCHANGED loggerVars \/ Logger!Next
      /\ UNCHANGED terrainVars \/ Terrain!Next
      /\ UNCHANGED rcVars \/ Rc!Next
      /\ UNCHANGED chainVars \/ Chain!Next
      /\ UNCHANGED tfVars \/ Tf!Next
  BY DEF ServicesNext, Moves, services
<1>3. LogInv'  BY <1>1, <1>2, OthersStay, LogStep
<1>4. TerrainInv'  BY <1>1, <1>2, OthersStay, TerrainStep
<1>5. RcInv' /\ (UNCHANGED rcVars \/ IsNewMeasurement)  BY <1>1, <1>2, OthersStay, RcStep
<1>6. ChainInv'  BY <1>1, <1>2, OthersStay, ChainStep
<1>7. TfInv' /\ (UNCHANGED tfVars \/ IsNewPair)  BY <1>1, <1>2, OthersStay, TfStep
<1> QED  BY <1>3, <1>4, <1>5, <1>6, <1>7 DEF ServicesInv

\* The invariants of all five components hold together in every reachable state.
LEMMA ServicesAlways == ServicesSpec => []ServicesInv
<1>1. ServicesInit => ServicesInv  BY ServicesBegin
<1>2. ServicesInv /\ [ServicesNext]_services => ServicesInv'  BY ServicesStep
<1> QED  BY <1>1, <1>2, PTL DEF ServicesSpec

\* No record vanishes without the log saying so, though its queue overflows, writes fail and
\* rotations throw; and the files of a stream, however often rotated, hold its newest
\* records without a gap (offboard_node.cpp, SessionLogger).
THEOREM LogIsAccounted == ServicesSpec => []LogIsComplete
<1>1. ServicesInv => LogIsComplete  BY LogIsNewestOf DEF ServicesInv, LogIsComplete
<1> QED  BY <1>1, ServicesAlways, PTL

\* Whoever says ready has inputs that are no older than their timeouts and one run of the
\* watchdog, however callbacks, clouds and revocations interleave: the terrain height, the
\* remote control, both nodes of the odometry chain and the owner of the transform.
THEOREM ReadyIsAlive == ServicesSpec => []ReadyIsBacked
<1>1. ServicesInv => ReadyIsBacked
  BY TerrainIsBacked, RcIsBacked, ChainIsBacked, TfIsBacked DEF ServicesInv, ReadyIsBacked
<1> QED  BY <1>1, ServicesAlways, PTL

\* A valid state of the remote control is of a measurement newer than any received before,
\* and a transform of two estimates that came after the last reason to forget (rc.py,
\* world_tf_owner.py).
THEOREM OnlyNewEstimates == ServicesSpec => EstimatesAreNew
<1>1. ServicesInv /\ [ServicesNext]_services => [part = "rc" => Rc!NewMeasurement]_rcVars
  BY ServicesStep DEF IsNewMeasurement, Rc!NewMeasurement
<1>2. ServicesInv /\ [ServicesNext]_services => [part = "tf" => Tf!NewPair]_tfVars
  BY ServicesStep DEF IsNewPair, Tf!NewPair, Tf!Inputs
<1> QED  BY <1>1, <1>2, ServicesAlways, PTL DEF ServicesSpec, EstimatesAreNew
-----------------------------------------------------------------------------
(* The task                                                                *)

\* The invariant holds of every behaviour, whatever the loop passes to a tick.
LEMMA GoodAlways == Spec => []GoodTask(task)
<1>1. Init => GoodTask(task) BY InitialTaskGood DEF Init
<1>2. GoodTask(task) /\ [Next]_task => GoodTask(task)'
  <2> SUFFICES ASSUME GoodTask(task), [Next]_task PROVE GoodTask(task')
    OBVIOUS
  <2>1. ASSUME NEW command \in Commands \cup {None}, NEW f \in Feedbacks,
               TaskTick(command, f)
        PROVE  GoodTask(task')
    BY <2>1, TickMay, LoopAssumption DEF TaskTick, SameIntent
  <2>2. ASSUME NEW points \in Missions, NEW sequence \in BOOLEAN,
               LoadMission(points, sequence)
        PROVE  GoodTask(task')
    BY <2>2, LoadKeeps, LoopAssumption DEF LoadMission
  <2>3. CASE Elapse BY <2>3, ElapsedIs DEF Elapse
  <2>4. CASE UNCHANGED task BY <2>4
  <2> QED BY <2>1, <2>2, <2>3, <2>4 DEF Next
<1> QED BY <1>1, <1>2, PTL DEF Spec

-----------------------------------------------------------------------------
\* What the task publishes is what its phase says it is doing, whatever order
\* feedback, commands and missions came in: it guides to the point of the
\* mission it counts as current, and dwells only there.
THEOREM PublishedIntent == Spec => []IntentMatchesPhase
<1>1. GoodTask(task) => IntentMatchesPhase BY DEF GoodTask, IntentMatchesPhase
<1> QED BY <1>1, GoodAlways, PTL

\* A takeoff, a landing and a start or resumption of the mission each need the
\* command to change to its value after a 0: no feedback, however old or about
\* whatever intent, and no mission that arrives stands for one.
THEOREM CommandsStart == Spec => OnlyCommandsStartMotion
<1> DEFINE Started == /\ Issued("TAKEOFF") => Changed(1)
                      /\ Issued("TRACK") /\ task.phase # "GUIDING" => Changed(2)
                      /\ Issued("LAND") => Changed(3)
<1>1. GoodTask(task) /\ [Next]_task => [Started]_task
  <2> SUFFICES ASSUME GoodTask(task), [Next]_task, task' # task PROVE Started
    OBVIOUS
  <2>1. ASSUME NEW command \in Commands \cup {None}, NEW f \in Feedbacks,
               TaskTick(command, f)
        PROVE  Started
    <3>1. PICK u, v : /\ FeedbackMayDo(task, f, u) /\ CommandMayDo(u, f, v)
                      /\ task'.command = v.command
                      /\ task'.intent.kind = v.intent.kind
                      /\ task'.intent.id = v.intent.id
      BY <2>1, TickMay, LoopAssumption DEF TaskTick, SameIntent
    <3>2. u.command = task.command /\ u.zeroSeen = task.zeroSeen
      BY <3>1 DEF FeedbackMayDo
    <3>3. CASE SameIntent(u, v)
      BY <3>1, <3>3 DEF FeedbackMayDo, SameIntent, NewIntent, Issued
    <3>4. CASE ~SameIntent(u, v)
      BY <3>1, <3>2, <3>4 DEF CommandMayDo, NewIntent, Ordered, Issued, Changed
    <3> QED BY <3>3, <3>4
  <2>2. ASSUME NEW points \in Missions, NEW sequence \in BOOLEAN,
               LoadMission(points, sequence)
        PROVE  Started
    BY <2>2, LoadKeeps, LoopAssumption DEF LoadMission, SameIntent, NewIntent, Issued
  <2>3. CASE Elapse BY <2>3, ElapsedIs DEF Elapse, SameIntent, Issued
  <2> QED BY <2>1, <2>2, <2>3 DEF Next
<1> QED BY <1>1, GoodAlways, PTL DEF Spec, OnlyCommandsStartMotion

\* A pause, a timeout and a lost executor keep the progress of the mission: it
\* goes back only with a newly loaded mission, a takeoff or a completed landing.
THEOREM ProgressIsKept == Spec => ProgressSurvivesPause
<1> DEFINE Loads == \E points \in Missions, sequence \in BOOLEAN :
                        LoadMission(points, sequence)
           Kept == task'.index < task.index =>
                       \/ Loads \/ Issued("TAKEOFF")
                       \/ task.phase = "LAND_REQUEST" /\ Issued("WAIT")
<1>1. GoodTask(task) /\ [Next]_task => [Kept]_task
  <2> SUFFICES ASSUME GoodTask(task), [Next]_task, ~Loads, task'.index < task.index
               PROVE  \/ Issued("TAKEOFF")
                      \/ task.phase = "LAND_REQUEST" /\ Issued("WAIT")
    OBVIOUS
  <2>1. task.index \in Nat /\ task.intent.id \in Nat
    BY DEF GoodTask, TaskStates, IntentStates
  <2>2. ASSUME NEW command \in Commands \cup {None}, NEW f \in Feedbacks,
               TaskTick(command, f)
        PROVE  \/ Issued("TAKEOFF")
               \/ task.phase = "LAND_REQUEST" /\ Issued("WAIT")
    <3>1. PICK u, v : /\ FeedbackMayDo(task, f, u) /\ CommandMayDo(u, f, v)
                      /\ task'.index = v.index
                      /\ task'.intent.kind = v.intent.kind
                      /\ task'.intent.id = v.intent.id
      BY <2>2, TickMay, LoopAssumption DEF TaskTick, SameIntent
    <3>2. /\ u.index \in Nat /\ v.index \in Nat /\ u.intent.id \in Nat
          /\ u.intent.id \in {task.intent.id, task.intent.id + 1}
      BY <3>1 DEF FeedbackMayDo, CommandMayDo, GoodTask, TaskStates, IntentStates, SameIntent,
         NewIntent
    <3>3. CASE v.index < u.index
      BY <2>1, <3>1, <3>2, <3>3 DEF CommandMayDo, NewIntent, Issued
    <3>4. CASE u.index < task.index
      <4>1. /\ task.phase = "LAND_REQUEST" /\ NewIntent(task, u, "WAIT")
            /\ ~f.sensors.armed
        BY <3>1, <3>4 DEF FeedbackMayDo
      <4>2. SameIntent(u, v) \/ NewIntent(u, v, "WAIT") \/ NewIntent(u, v, "TAKEOFF")
        BY <3>1, <4>1 DEF CommandMayDo
      <4> QED BY <2>1, <3>1, <4>1, <4>2 DEF SameIntent, NewIntent, Issued
    <3> QED BY <2>1, <3>1, <3>2, <3>3, <3>4
  <2>3. CASE Elapse BY <2>1, <2>3, ElapsedIs DEF Elapse
  <2>4. CASE UNCHANGED task BY <2>1, <2>4
  <2> QED BY <2>2, <2>3, <2>4 DEF Next
<1> QED BY <1>1, GoodAlways, PTL DEF Spec, ProgressSurvivesPause
=============================================================================
