--------------------------- MODULE BillingLedger ---------------------------
(***************************************************************************)
(* The billing session of module BillingSession implements the contract of *)
(* module SessionLedger: its legs, retries and rollbacks are stuttering or *)
(* permitted steps of the contract.                                        *)
(***************************************************************************)
EXTENDS BillingSession

(* The phase of the contract a session is in, by the leg it executes next.
   A charge counts from the commit of the funding leg on (fundingSettled): the
   key leg that follows never undoes it. *)
PhaseOf(r) ==
    CASE r.pc \in {"new", "checkWallet", "preToken", "preFunding", "preRollback"} -> "idle"
      [] r.pc \in {"rejected", "keyHeld"} -> "refused"
      [] r.pc \in {"open", "rsvToken", "rsvRollback", "overage"} -> "held"
      [] r.pc \in {"setToken", "settled"} -> "charged"
      [] r.pc \in {"refund", "partRefund"} -> "returning"
      [] r.pc = "refunded" -> "returned"

Ledger == INSTANCE SessionLedger WITH
    Requests <- Sessions,
    phase <- [s \in Sessions |-> PhaseOf(sess[s])],
    funds <- [s \in Sessions |-> posted[s].wallet + posted[s].sub],
    bill <- [s \in Sessions |-> IF Charged(sess[s]) THEN sess[s].arg ELSE 0]

(* However the legs of concurrent sessions interleave and fail, each request
   sees the contract of BillingSettler: money is held before it is charged, the
   charge is exactly the quota Settle was given even when a subscription's
   overage moved to the wallet, a return only gives back and ends at zero, and
   nothing leads from a charge to a return or back. *)
ImplementsLedger == Ledger!Spec
=============================================================================
