-------------------------- MODULE MCBillingOutbox --------------------------
(* An instance of BillingOutbox for TLC. *)
EXTENDS BillingOutbox

AllTimings == TimingType
=============================================================================
