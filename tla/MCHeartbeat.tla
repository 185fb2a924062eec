---------------------------- MODULE MCHeartbeat ----------------------------
(***************************************************************************)
(* Instances of HeartbeatRunner for TLC: the interval's wake and an event  *)
(* of the same target, and an urgent wake of one session.                  *)
(***************************************************************************)
EXTENDS HeartbeatRunner, TLC

CONSTANTS all, session, interval, event, urgent

MCTarget == (interval :> all) @@ (event :> all) @@ (urgent :> session)
MCPriority == (interval :> 1) @@ (event :> 2) @@ (urgent :> 3)
MCCoalesce == (interval :> 0) @@ (event :> 0) @@ (urgent :> 0)
=============================================================================
