--------------------------- MODULE MCCommandQueue ---------------------------
(***************************************************************************)
(* Instances of CommandQueue for TLC.                                       *)
(***************************************************************************)
EXTENDS CommandQueue, TLC

CONSTANTS e1, e2, e3, main, probe

\* Two calls on one lane, so that a queue builds up behind a running task,
\* and one on a probe lane.
MCLaneOf == (e1 :> main) @@ (e2 :> main) @@ (e3 :> probe)

\* A limit below zero, which the code clamps, and one above the default.
MCLevels == {-1, 2}

=============================================================================
