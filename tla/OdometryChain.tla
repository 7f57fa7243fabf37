----------------------------- MODULE OdometryChain -----------------------------
(***************************************************************************)
(* From the pose of FAST-LIO to the external odometry of the flight        *)
(* controller: fastlio_odometry_adapter.py turns it into the pose of the   *)
(* vehicle, external_odometry_relay.py lets it through to MAVROS.  Each    *)
(* node has its own gates, stamps and watchdog; its callbacks hold one     *)
(* lock, so each is a step.  Time advances in ticks, and each watchdog     *)
(* runs once in a tick.                                                    *)
(***************************************************************************)
EXTENDS Integers, Sequences

CONSTANTS MaxAge,       \* timeouts/max_odom_age, in ticks
          Future,       \* timeouts/future_tolerance
          BaseTimeout,  \* timeouts/base_ready
          StateTimeout, \* how old the state of the flight controller may be
          MaxTime,      \* bound on the clock
          MaxQueue      \* bound on the samples between the nodes (queue_size)

OdometryChainAssumption ==
    /\ {MaxAge, Future, BaseTimeout, StateTimeout} \subseteq Nat
    /\ {MaxTime, MaxQueue} \subseteq Nat \ {0}

VARIABLES now, due,
          gate,      \* per node: base_ready, when it was received, localization_ready
          ready,     \* per node: the last ready published
          seen,      \* per node: last_stamp_ns
          sample,    \* per node: last_sample_stamp and _wall
          fcu,       \* fcu_state and fcu_attitude, with when they were received
          aligned,   \* q_output_map is set
          wire       \* body odometry on its way from the adapter to the relay

vars == <<now, due, gate, ready, seen, sample, fcu, aligned, wire>>

Nodes == {"adapter", "relay"}
Never == -100
NoSample == [stamp |-> Never, wall |-> Never]
NoFcu == [connected |-> FALSE, armed |-> FALSE, stateWall |-> Never,
          attitude |-> Never, attitudeWall |-> Never]

-----------------------------------------------------------------------------
(* Gates *)

\* _gates_open; the input contract is confirmed.
GatesOpen(n) == gate[n].base /\ now - gate[n].wall <= BaseTimeout /\ gate[n].localized

Fresh(stamp) == -Future <= now - stamp /\ now - stamp <= MaxAge

\* _base_ready_callback
BaseArrives(n) ==
    \E b \in BOOLEAN :
        /\ gate' = [gate EXCEPT ![n].base = b, ![n].wall = now]
        /\ ready' = [ready EXCEPT ![n] = @ /\ b /\ (n = "relay" => GatesOpen(n)')]

\* _localization_ready_callback
LocalizationArrives(n) ==
    \E l \in BOOLEAN :
        /\ gate' = [gate EXCEPT ![n].localized = l]
        /\ ready' = [ready EXCEPT ![n] = @ /\ l /\ (n = "relay" => GatesOpen(n)')]

GateArrives ==
    /\ UNCHANGED <<now, due, seen, sample, fcu, aligned, wire>>
    /\ \E n \in Nodes : BaseArrives(n) \/ LocalizationArrives(n)

-----------------------------------------------------------------------------
(* The adapter *)

\* Once the rotation is fixed nothing reads the flight controller, which is forgotten.
FcuArrives ==
    /\ ~aligned
    /\ \/ \E c, a \in BOOLEAN : fcu' = [fcu EXCEPT !.connected = c, !.armed = a, !.stateWall = now]
       \/ \E stamp \in (now - 1) .. now :
             fcu' = [fcu EXCEPT !.attitude = stamp, !.attitudeWall = now]
    /\ UNCHANGED <<now, due, gate, ready, seen, sample, aligned, wire>>

\* _align_pose, the first time: a connected and disarmed flight controller.
MayAlign ==
    /\ fcu.connected /\ ~fcu.armed /\ now - fcu.stateWall <= StateTimeout
    /\ now - fcu.attitudeWall <= MaxAge /\ Fresh(fcu.attitude)

\* Before the values: gates, stamp and age.
Acceptable(stamp) == GatesOpen("adapter") /\ stamp > seen.adapter /\ Fresh(stamp)

AdapterRejects(stamp, good) ==
    /\ ~(Acceptable(stamp) /\ good /\ (aligned \/ MayAlign))
    /\ ready' = [ready EXCEPT !.adapter = FALSE]
    /\ UNCHANGED <<aligned, fcu, wire, sample, seen>>

AdapterPublishes(stamp, good) ==
    /\ Acceptable(stamp) /\ good /\ (aligned \/ MayAlign)
    /\ aligned' = TRUE /\ fcu' = NoFcu
    /\ wire' = Append(IF Len(wire) = MaxQueue THEN Tail(wire) ELSE wire, stamp)
    /\ sample' = [sample EXCEPT !.adapter = [stamp |-> stamp, wall |-> now]]
    /\ seen' = [seen EXCEPT !.adapter = stamp]
    /\ ready' = [ready EXCEPT !.adapter = TRUE]

\* _odometry_callback of the adapter: a sample of FAST-LIO, with frames and
\* values that are good or not.
PoseArrives ==
    /\ \E stamp \in (now - MaxAge) .. (now + Future + 1), good \in BOOLEAN :
          stamp > 0 /\ (AdapterRejects(stamp, good) \/ AdapterPublishes(stamp, good))
    /\ UNCHANGED <<now, due, gate>>

-----------------------------------------------------------------------------
(* The relay *)

\* _odometry_callback of the relay; the adapter's values are always valid.
RelayTakes ==
    /\ wire # <<>> /\ wire' = Tail(wire)
    /\ LET stamp == Head(wire)
           through == GatesOpen("relay") /\ Fresh(stamp) /\ stamp > seen.relay
       IN  /\ ready' = [ready EXCEPT !.relay = through]
           /\ IF through
              THEN /\ seen' = [seen EXCEPT !.relay = stamp]
                   /\ sample' = [sample EXCEPT !.relay = [stamp |-> stamp, wall |-> now]]
              ELSE UNCHANGED <<seen, sample>>
    /\ UNCHANGED <<now, due, gate, fcu, aligned>>

\* Mutant of Stale: the watchdog looks at the receipt only.
StaleByReceipt(n) == now - sample[n].wall > MaxAge

Stale(n) == now - sample[n].wall > MaxAge \/ ~Fresh(sample[n].stamp)

Watchdog ==
    \E n \in due :
        /\ due' = due \ {n}
        /\ ready' = [ready EXCEPT ![n] = @ /\ ~Stale(n) /\ GatesOpen(n)]
        /\ UNCHANGED <<now, gate, seen, sample, fcu, aligned, wire>>

Tick == /\ now < MaxTime /\ due = {}
        /\ now' = now + 1 /\ due' = Nodes
        /\ UNCHANGED <<gate, ready, seen, sample, fcu, aligned, wire>>

Init ==
    /\ now = 1 /\ due = {}
    /\ gate = [n \in Nodes |-> [base |-> FALSE, wall |-> Never, localized |-> FALSE]]
    /\ ready = [n \in Nodes |-> FALSE] /\ seen = [n \in Nodes |-> 0] /\ sample = [n \in Nodes |-> NoSample]
    /\ fcu = NoFcu /\ aligned = FALSE /\ wire = <<>>

Next == GateArrives \/ FcuArrives \/ PoseArrives \/ RelayTakes \/ Watchdog \/ Tick

Spec == Init /\ [][Next]_vars

-----------------------------------------------------------------------------

\* What the flight controller is told to trust stands on a sample, on a base
\* heartbeat and on a localization that are still good, in both nodes
\* (fastlio_odometry_adapter.py:128-162, external_odometry_relay.py:42-99).
ReadyIsBacked ==
    \A n \in Nodes : ready[n] =>
        /\ gate[n].base /\ gate[n].localized
        /\ now - gate[n].wall <= BaseTimeout + 1
        /\ sample[n].stamp >= now - MaxAge - 1
=============================================================================
