--------------------------- MODULE MCAccessTracker ---------------------------
(***************************************************************************)
(* Instances of AccessTracker for TLC: accesses of two documents.           *)
(***************************************************************************)
EXTENDS AccessTracker, TLC

CONSTANTS a1, a2, a3, a4, x, y

MCDocumentOf == (a1 :> x) @@ (a2 :> y) @@ (a3 :> x) @@ (a4 :> y)

=============================================================================
