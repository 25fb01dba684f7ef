---------------------------- MODULE OrderLedger ----------------------------
(***************************************************************************)
(* What the order bookkeeping of the live runtime promises, with none of   *)
(* its machinery: an order is entered once, under one signal; it is either *)
(* refused or becomes a working order; a closed order stays closed and its *)
(* id is never used again; and while an order of a signal is open, no      *)
(* second one is entered for that signal.                                  *)
(***************************************************************************)
CONSTANTS OrderIds, Keys, None

VARIABLES
  status,   \* status[id]: where the order is in its life
  signal    \* signal[id]: the signal key it was entered for

ledgerVars == <<status, signal>>

IsOpen(id) == status[id] \in {"pending", "working"}

Init ==
  /\ status = [id \in OrderIds |-> "absent"]
  /\ signal = [id \in OrderIds |-> None]

Enter(id, key) ==
  /\ status[id] = "absent"
  /\ \A other \in OrderIds : IsOpen(other) => signal[other] # key
  /\ status' = [status EXCEPT ![id] = "pending"]
  /\ signal' = [signal EXCEPT ![id] = key]

Settle(id, outcome) ==
  /\ status[id] = "pending"
  /\ status' = [status EXCEPT ![id] = outcome]
  /\ UNCHANGED signal

(* Any number of working orders may close together: cancel-all does that. *)
Close(ids) ==
  /\ \A id \in ids : status[id] = "working"
  /\ status' = [id \in OrderIds |-> IF id \in ids THEN "closed" ELSE status[id]]
  /\ UNCHANGED signal

Next ==
  \/ \E id \in OrderIds, key \in Keys : Enter(id, key)
  \/ \E id \in OrderIds, outcome \in {"working", "closed"} : Settle(id, outcome)
  \/ \E ids \in SUBSET OrderIds : Close(ids)

Spec == Init /\ [][Next]_ledgerVars

=============================================================================
