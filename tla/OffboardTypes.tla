--------------------------- MODULE OffboardTypes ---------------------------
(***************************************************************************)
(* Vocabulary shared by the two halves of ducted_offboard: flight phases,  *)
(* intent and service kinds, the sensor summary and the clock.             *)
(*                                                                         *)
(* Time.  The code stores absolute steady-clock stamps and compares        *)
(* now - stamp with a configured limit.  A model variable holds that       *)
(* difference instead: an age in ticks, None (the code's -1) when the      *)
(* stamp is not set, frozen one tick after the largest limit it is         *)
(* compared with.  A deadline is the number of ticks left to it.           *)
(***************************************************************************)
EXTENDS Integers

CONSTANTS TaskTimeout,          \* task_timeout: lease of an accepted intent
          ArrivalDwell,         \* arrival_dwell
          Waypoints             \* the task points of a mission

ASSUME LeaseAssumption == TaskTimeout \in Nat /\ ArrivalDwell \in Nat

None == -1

Phases == {"BOOT_WAIT_ZERO", "IDLE_GROUND", "OFFBOARD_REQUEST", "ARMING",
           "TAKEOFF", "GUIDING", "PAUSED", "HOLDING", "LAND_REQUEST",
           "LANDING", "WAIT_DISARM", "ERROR"}

IntentKinds == {"WAIT", "TAKEOFF", "HOLD", "TRACK", "LAND"}
ActionKinds == {"SET_OFFBOARD", "ARM", "SET_LAND", "DISARM"}
Modes == {"OFFBOARD", "AUTO.LAND", "OTHER"}

\* Pose4d values told apart, as <<name, generation of the takeoff point it is
\* relative to>>: the pose measured now, the takeoff point raised by
\* takeoff_height, the default Pose4d{}, and resolved waypoints (0 for one given in odom).
Here == <<"HERE", 0>>
Climb == <<"CLIMB", 0>>
Zero == <<"ZERO", 0>>
Targets == Waypoints \X Nat
Poses == Targets \cup {Here, Climb, Zero}

\* An age that is compared with limit, and its value one tick later.
Age(limit) == None .. (limit + 1)
Older(age, limit) == IF age \in 0..limit THEN age + 1 ELSE age
Closer(left) == IF left > 0 THEN left - 1 ELSE left

\* What sensorSnapshot hands to a tick.  fcu: "stale" when state_fresh is
\* false, "lost" when it is true and connected is not.  motion: the pose and
\* the velocity are fresh.  on_ground implies extended_fresh in the code, and
\* is only read together with it.  near: withinArrival of the reader's target.
SensorStates == [fcu : {"up", "lost", "stale"}, motion : BOOLEAN,
                 grounded : BOOLEAN, armed : BOOLEAN, mode : Modes,
                 near : BOOLEAN]

StateFresh(s) == s.fcu # "stale"
Healthy(s) == s.fcu = "up" /\ s.motion
WithinArrival(s) == Healthy(s) /\ s.near

\* ExecutionIntent, with issued_at as an age.
IntentStates == [kind : IntentKinds, generation : Nat, id : Nat,
                 target : Poses, age : Age(TaskTimeout)]
Fresh(i) == i.age \in 0..TaskTimeout
NoIntent == [kind |-> "WAIT", generation |-> 0, id |-> 0, target |-> Zero,
             age |-> None]
=============================================================================
