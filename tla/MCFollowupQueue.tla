-------------------------- MODULE MCFollowupQueue --------------------------
(***************************************************************************)
(* Instances of FollowupQueue for TLC.                                     *)
(***************************************************************************)
EXTENDS FollowupQueue, TLC

CONSTANTS d1, d2, d3, d4, m1, m2, m3, m4, alice, bob

\* Three messages, of two senders and two routes; the fourth delivery repeats
\* the second.
MCMessage == (d1 :> m1) @@ (d2 :> m2) @@ (d3 :> m3) @@ (d4 :> m2)
MCSender == (m1 :> alice) @@ (m2 :> bob) @@ (m3 :> bob)
MCRoute == (m1 :> "chat") @@ (m2 :> "chat") @@ (m3 :> "thread")

\* Four messages of one sender and one route, queued one by one.
MCDistinct == (d1 :> m1) @@ (d2 :> m2) @@ (d3 :> m3) @@ (d4 :> m4)
MCOneSender == [m \in {m1, m2, m3, m4} |-> alice]
MCOneRoute == [m \in {m1, m2, m3, m4} |-> "chat"]

Collect == [mode |-> "collect", policy |-> "summarize"]
Followup == [mode |-> "followup", policy |-> "summarize"]
Refuse == [mode |-> "followup", policy |-> "new"]

MCSettings == (d1 :> {Collect}) @@ (d2 :> {Followup})
              @@ (d3 :> {Collect, Refuse}) @@ (d4 :> {Collect})
MCDefaults == [d \in {d1, d2, d3, d4} |-> {Followup}]

=============================================================================
