---------------------------- MODULE CallContract ----------------------------
(***************************************************************************)
(* What a caller of enqueueCommandInLane may rely on, without slots,        *)
(* limits, generations or waiters: calls of one lane begin in the order     *)
(* they were accepted, each at most once; a call that is refused or cleared *)
(* never begins; a promise is answered once, with what happened.            *)
(***************************************************************************)
EXTENDS Integers, Sequences

CONSTANTS Lanes, Calls, LaneOf, Timed

VARIABLES line,     \* accepted calls of a lane that have not begun
          body,     \* idle, running, settled
          promise   \* none, pending, or the caller's answer

vars == <<line, body, promise>>

Init ==
  /\ line = [l \in Lanes |-> <<>>]
  /\ body = [c \in Calls |-> "idle"]
  /\ promise = [c \in Calls |-> "none"]

\* A part at the front of each of the lines ln begins to run.
Begin(ln, bod) ==
  \E n \in [Lanes -> UNION {0..Len(ln[l]) : l \in Lanes}] :
    /\ \A l \in Lanes : n[l] <= Len(ln[l])
    /\ line' = [l \in Lanes |-> SubSeq(ln[l], n[l] + 1, Len(ln[l]))]
    /\ body' = [c \in Calls |->
          IF \E i \in 1..n[LaneOf[c]] : ln[LaneOf[c]][i] = c THEN "running" ELSE bod[c]]

Accept(c) ==
  /\ promise[c] = "none"
  /\ promise' = [promise EXCEPT ![c] = "pending"]
  /\ Begin([line EXCEPT ![LaneOf[c]] = Append(@, c)], body)

Refuse(c) ==
  /\ promise[c] = "none"
  /\ promise' = [promise EXCEPT ![c] = "refused"]
  /\ UNCHANGED <<line, body>>

Finish(c) ==
  /\ body[c] = "running" /\ promise[c] = "pending"
  /\ \E outcome \in {"resolved", "rejected"} :
       promise' = [promise EXCEPT ![c] = outcome]
  /\ Begin(line, [body EXCEPT ![c] = "settled"])

GiveUp(c) ==
  /\ c \in Timed /\ body[c] = "running" /\ promise[c] = "pending"
  /\ promise' = [promise EXCEPT ![c] = "timedOut"]
  /\ Begin(line, body)

EndLate(c) ==
  /\ body[c] = "running" /\ promise[c] = "timedOut"
  /\ body' = [body EXCEPT ![c] = "settled"]
  /\ UNCHANGED <<line, promise>>

Dismiss(l) ==
  /\ line' = [line EXCEPT ![l] = <<>>]
  /\ promise' = [c \in Calls |->
        IF \E i \in 1..Len(line[l]) : line[l][i] = c THEN "cleared" ELSE promise[c]]
  /\ UNCHANGED body

Proceed ==
  /\ Begin(line, body)
  /\ UNCHANGED promise

Next ==
  \/ \E c \in Calls : Accept(c) \/ Refuse(c) \/ Finish(c) \/ GiveUp(c) \/ EndLate(c)
  \/ \E l \in Lanes : Dismiss(l)
  \/ Proceed

Spec == Init /\ [][Next]_vars

=============================================================================
