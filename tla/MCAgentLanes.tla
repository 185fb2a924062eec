---------------------------- MODULE MCAgentLanes ----------------------------
(***************************************************************************)
(* Instances of AgentLanes for TLC.                                        *)
(***************************************************************************)
EXTENDS AgentLanes, TLC

CONSTANTS s1, r1, c, cs, cr, main, sess, cron, nested

\* A cron run (cron slot, session slot, inner run) beside a run of main.
MCCronParents == {c, cs, s1}
MCCronChild == (c :> cs) @@ (cs :> cr) @@ (s1 :> r1)
MCCronLane == (c :> cron) @@ (cs :> sess) @@ (cr :> cron)
              @@ (s1 :> sess) @@ (r1 :> main)

=============================================================================
