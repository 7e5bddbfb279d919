--------------------------- MODULE SessionLedger ---------------------------
(***************************************************************************)
(* What a billing session promises the account it charges: the contract    *)
(* behind BillingSettler (relay/common/billing.go) with the legs, the      *)
(* retries and the choice of a funding source taken away.                  *)
(*                                                                         *)
(* A request is idle until money is held for it, or refused with none of   *)
(* it held.  Its hold may be raised and a raise undone.  It ends either by *)
(* one charge of exactly the billed quota, whatever was held before, or by *)
(* a return that may take several steps, only ever gives back, and is over *)
(* only when nothing is held any more.  There is no way from one end to    *)
(* the other.                                                              *)
(***************************************************************************)
EXTENDS Integers

CONSTANT Requests

VARIABLES
    phase,   \* where a request is in its life
    funds,   \* quota currently taken from the account on its behalf
    bill     \* quota its settlement reports as charged

vars == <<phase, funds, bill>>

Phases == {"idle", "refused", "held", "charged", "returning", "returned"}

Init ==
    /\ phase = [r \in Requests |-> "idle"]
    /\ funds = [r \in Requests |-> 0]
    /\ bill = [r \in Requests |-> 0]

(* r moves from one of the phases in from to phase to; the others stay. *)
Moves(r, from, to) ==
    /\ phase[r] \in from
    /\ phase' = [phase EXCEPT ![r] = to]
    /\ funds' = [funds EXCEPT ![r] = funds'[r]]
    /\ bill' = [bill EXCEPT ![r] = bill'[r]]

Hold(r) ==
    /\ Moves(r, {"idle", "held"}, "held")
    /\ funds'[r] >= funds[r]
    /\ bill'[r] = bill[r]

Unhold(r) ==
    /\ Moves(r, {"held"}, "held")
    /\ funds'[r] \in 0..funds[r]
    /\ bill'[r] = bill[r]

Refuse(r) ==
    /\ Moves(r, {"idle"}, "refused")
    /\ UNCHANGED <<funds, bill>>

Charge(r) ==
    /\ Moves(r, {"idle", "held"}, "charged")
    /\ bill'[r] \in Nat
    /\ funds'[r] = bill'[r]

Return(r) ==
    /\ Moves(r, {"held", "returning"}, "returning")
    /\ funds'[r] \in 0..funds[r]
    /\ bill'[r] = bill[r]

Returned(r) ==
    /\ funds[r] = 0
    /\ Moves(r, {"returning"}, "returned")
    /\ UNCHANGED <<funds, bill>>

Next ==
    \E r \in Requests :
        Hold(r) \/ Unhold(r) \/ Refuse(r) \/ Charge(r) \/ Return(r) \/ Returned(r)

Spec == Init /\ [][Next]_vars
=============================================================================
