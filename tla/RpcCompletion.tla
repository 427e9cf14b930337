--------------------------- MODULE RpcCompletion ---------------------------
(***************************************************************************)
(* What a call promises its user (docs/rpc-semantics.md), with nothing of  *)
(* sockets, timers or loops.  A call is pending; the first thing that can  *)
(* end it decides its outcome, once; the controller then shows that        *)
(* outcome, and only then does the closure run, exactly once.  A call may  *)
(* be decided as cancelled only if its user asked for it.                  *)
(***************************************************************************)
CONSTANTS Outcomes, Success, Cancelled

VARIABLES
  phase,     \* "pending", "decided", "shown" or "completed"
  outcome,   \* what was decided
  shown,     \* what the controller shows
  asked      \* the user has cancelled

vars == <<phase, outcome, shown, asked>>

Init ==
  /\ phase = "pending"
  /\ outcome = Success
  /\ shown = Success
  /\ asked = FALSE

Cancel ==
  /\ phase # "completed" /\ ~asked
  /\ asked' = TRUE
  /\ UNCHANGED <<phase, outcome, shown>>

Decide ==
  /\ phase = "pending"
  /\ \E e \in Outcomes : (e = Cancelled => asked) /\ outcome' = e
  /\ phase' = "decided"
  /\ UNCHANGED <<shown, asked>>

Show ==
  /\ phase = "decided"
  /\ shown' = outcome
  /\ phase' = "shown"
  /\ UNCHANGED <<outcome, asked>>

RunClosure ==
  /\ phase = "shown"
  /\ phase' = "completed"
  /\ UNCHANGED <<outcome, shown, asked>>

Next == Cancel \/ Decide \/ Show \/ RunClosure

Safety == Init /\ [][Next]_vars

Fairness == WF_vars(Decide \/ Show \/ RunClosure)

Spec == Safety /\ Fairness
=============================================================================
