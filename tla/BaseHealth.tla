------------------------------ MODULE BaseHealth ------------------------------
(***************************************************************************)
(* The heartbeat of the base system (health.py, base_health_monitor.py):   *)
(* it says ready while MAVROS reports a connected flight controller and    *)
(* the lidar sends points.  Time advances in ticks of the publishing       *)
(* period; a timer that is due runs, and a heartbeat that is out arrives,  *)
(* before the clock goes on.                                               *)
(***************************************************************************)
EXTENDS Integers

CONSTANTS MavrosTimeout, LidarTimeout,  \* in ticks
          MaxTime,                      \* bound on the clock
          Timers                        \* the timers that run once in a tick

BaseHealthAssumption ==
    {MavrosTimeout, LidarTimeout, MaxTime} \subseteq Nat \ {0} /\ "health" \in Timers

VARIABLES now,     \* the clock
          due,     \* timers that have still to run in this tick
          mavros,  \* _mavros_connected and _last_mavros_time
          livox,   \* _last_livox_time
          beat     \* the heartbeat under way to its subscriber

healthVars == <<now, due, mavros, livox, beat>>

Never == -100
NoBeat == "none"

Tick == /\ now < MaxTime /\ due = {} /\ beat = NoBeat
        /\ now' = now + 1 /\ due' = Timers
        /\ UNCHANGED <<mavros, livox, beat>>

MavrosArrives == /\ \E c \in BOOLEAN : mavros' = [connected |-> c, wall |-> now]
                 /\ UNCHANGED <<now, due, livox, beat>>

LivoxArrives == /\ livox' = now
                /\ UNCHANGED <<now, due, mavros, beat>>

\* BaseHealth.evaluate
Healthy == /\ mavros.connected /\ now - mavros.wall <= MavrosTimeout
           /\ now - livox <= LidarTimeout

Publish == /\ "health" \in due /\ due' = due \ {"health"}
           /\ beat' = IF Healthy THEN "ready" ELSE "not ready"
           /\ UNCHANGED <<now, mavros, livox>>

\* The monitor is gone: nothing is published any more in this tick.
Silent == /\ "health" \in due /\ due' = due \ {"health"}
          /\ UNCHANGED <<now, mavros, livox, beat>>

InitHealth == /\ now = 0 /\ due = {} /\ beat = NoBeat
              /\ mavros = [connected |-> FALSE, wall |-> Never] /\ livox = Never
=============================================================================
