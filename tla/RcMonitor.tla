------------------------------- MODULE RcMonitor -------------------------------
(***************************************************************************)
(* The decoder of the remote control and its node (rc.py, rc_monitor.py)   *)
(* behind the heartbeat of the base system.  The node publishes the        *)
(* decoded state of each measurement, invalidates it on loss, and says     *)
(* ready while the pilot's kill switch is off.  Its callbacks and its      *)
(* watchdog hold one lock; each is a step.                                 *)
(***************************************************************************)
EXTENDS BaseHealth

CONSTANTS Timeout,      \* rc timeout, in ticks
          Future,       \* future_tolerance
          BaseTimeout   \* base_timeout

RcMonitorAssumption ==
    {Timeout, Future, BaseTimeout} \subseteq Nat /\ "watchdog" \in Timers

VARIABLES decoder,  \* latest, seen_stamp and last_wall of RCDecoder
          base,     \* base_ready and base_wall
          state,    \* the last RCState published
          ready,    \* the last ready published
          heard     \* newest stamp received in time, and the last tick MAVROS was connected (history)

vars == <<healthVars, decoder, base, state, ready, heard>>

\* What a measurement carries: bounded channels with the kill switch off or on,
\* or a payload the decoder refuses.
Payloads == {"free", "killed", "malformed"}

-----------------------------------------------------------------------------
(* RCDecoder *)

InTime(stamp) == -Future <= now - stamp /\ now - stamp <= Timeout

Invalid(d) == [d EXCEPT !.valid = FALSE, !.kill = TRUE]

Evaluated(d) ==
    IF d.valid /\ ~(now - d.wall <= Timeout /\ InTime(d.stamp)) THEN Invalid(d) ELSE d

\* RCDecoder.update
Updated(d, stamp, payload) ==
    IF stamp <= d.seen \/ ~InTime(stamp) THEN Invalid(d)
    ELSE IF payload = "malformed" THEN [Invalid(d) EXCEPT !.seen = stamp]
    ELSE [valid |-> TRUE, kill |-> payload = "killed", stamp |-> stamp, seen |-> stamp, wall |-> now]

-----------------------------------------------------------------------------
(* RCMonitor *)

BaseFresh(b) == b.ready /\ now - b.wall <= BaseTimeout

\* _publish: a valid state goes out only with a new measurement.
Announce(d, b, new) ==
    LET valid == d.valid /\ BaseFresh(b)
    IN  IF valid /\ ~new THEN UNCHANGED <<state, ready>>
        ELSE state' = [valid |-> valid, stamp |-> IF valid THEN d.stamp ELSE 0] /\ ready' = (valid /\ ~d.kill)

RcArrives == \E stamp \in (now - Timeout - 1) .. (now + Future + 1), payload \in Payloads :
    /\ stamp > 0
    /\ LET d == Evaluated(Updated(Evaluated(decoder), stamp, payload))
       IN  decoder' = d /\ Announce(d, base, TRUE)
    /\ heard' = IF InTime(stamp) /\ stamp > heard.stamp THEN [heard EXCEPT !.stamp = stamp] ELSE heard
    /\ UNCHANGED <<healthVars, base>>

BaseArrives ==
    /\ beat # NoBeat /\ beat' = NoBeat
    /\ base' = [ready |-> beat = "ready", wall |-> now]
    /\ IF beat = "ready" THEN UNCHANGED <<decoder, state, ready>>
       ELSE decoder' = Evaluated(decoder) /\ Announce(decoder', base', FALSE)
    /\ UNCHANGED <<now, due, mavros, livox, heard>>

Watchdog ==
    /\ "watchdog" \in due /\ due' = due \ {"watchdog"}
    /\ decoder' = Evaluated(decoder) /\ Announce(decoder', base, FALSE)
    /\ UNCHANGED <<now, mavros, livox, beat, base, heard>>

Health ==
    /\ Tick \/ MavrosArrives \/ LivoxArrives \/ Publish \/ Silent
    /\ heard' = IF mavros'.connected /\ mavros'.wall = now THEN [heard EXCEPT !.connected = now] ELSE heard
    /\ UNCHANGED <<decoder, base, state, ready>>

Init ==
    /\ InitHealth
    /\ decoder = [valid |-> FALSE, kill |-> TRUE, stamp |-> 0, seen |-> 0, wall |-> Never]
    /\ base = [ready |-> FALSE, wall |-> Never]
    /\ state = [valid |-> FALSE, stamp |-> 0] /\ ready = FALSE
    /\ heard = [stamp |-> 0, connected |-> Never]

Next == RcArrives \/ BaseArrives \/ Watchdog \/ Health

Spec == Init /\ [][Next]_vars

-----------------------------------------------------------------------------

\* Ready stands on a measurement, on a heartbeat and, through the heartbeat, on
\* a connected flight controller, each of them no older than its timeout and
\* the tick its watchdog may take (rc_monitor.py:52-74, health.py:34-52).
ReadyIsBacked ==
    ready => /\ decoder.valid /\ ~decoder.kill
             /\ now - decoder.stamp <= Timeout + 1
             /\ base.ready /\ now - base.wall <= BaseTimeout + 1
             /\ now - heard.connected <= MavrosTimeout + BaseTimeout + 1

\* "Each valid state must correspond to one new RC measurement", and "an older
\* switch state arriving afterward must not become valid again"
\* (rc_monitor.py:64-66, rc.py:87-88).
NewMeasurement ==
    state' # state /\ state'.valid =>
        state'.stamp > heard.stamp /\ state'.stamp = heard'.stamp
=============================================================================
