------------------------- MODULE OrderStateMachine -------------------------
(***************************************************************************)
(* The order state machine every live order goes through                   *)
(* (src/live/state/orderStateMachine.js).  The module has no state of its  *)
(* own: it defines the transition relation, and how a transition request   *)
(* acts on an order record.  A rejected request is not an error: it leaves *)
(* the record as it was, as the code's { ok: false } results do.           *)
(***************************************************************************)

Absent         == "ABSENT"          \* no record under this order id yet
SignalDetected == "SIGNAL_DETECTED" \* registered, submission in flight
OrderPlaced    == "ORDER_PLACED"    \* accepted by the exchange
PartialFill    == "PARTIAL_FILL"
Filled         == "FILLED"
Cancelled      == "CANCELLED"
Failed         == "FAILED"

Terminal == {Filled, Cancelled, Failed}

(***************************************************************************)
(* IDLE is created and left again within one synchronous step of each of   *)
(* its users, so no other code can observe it; Absent stands for both "no  *)
(* record" and that transient state.                                       *)
(***************************************************************************)
Working == {OrderPlaced, PartialFill}
Open    == {SignalDetected} \cup Working
States  == {Absent} \cup Open \cup Terminal

IsTerminalState(s) == s \in Terminal

Allowed ==
  {<<Absent, SignalDetected>>}
    \cup ({SignalDetected} \X {OrderPlaced, Failed})
    \cup (Working \X ({PartialFill} \cup Terminal))

(* Three ways the relation could be wrong, for the mutation runs. *)
CanReopen(from, to)       == <<from, to>> \in Allowed \cup {<<Cancelled, PartialFill>>}
CanCancelPending(from, to) == <<from, to>> \in Allowed \cup {<<SignalDetected, Cancelled>>}
CannotFail(from, to)      == <<from, to>> \in Allowed \ {<<SignalDetected, Failed>>}

CanTransition(from, to) == <<from, to>> \in Allowed

(* The state an order is in after code asked for a transition to `to`. *)
TransitionOrder(from, to) == IF CanTransition(from, to) THEN to ELSE from

=============================================================================
