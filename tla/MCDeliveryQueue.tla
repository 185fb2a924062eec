--------------------------- MODULE MCDeliveryQueue ---------------------------
(***************************************************************************)
(* Instances of DeliveryQueue for TLC.                                     *)
(***************************************************************************)
EXTENDS DeliveryQueue, TLC

CONSTANTS d1, d2, reconnect

MCMatches == reconnect :> {d1, d2}
MCMatches1 == reconnect :> {d1}

\* Every kind the code can make of one delivery.
MCAllKinds == {k \in SUBSET Traits : "sentinel" \in k => k \cap {"bestEffort", "required"} = {}}
MCPlain == {{}}

=============================================================================
