--------------------------- MODULE MCRelayBilling ---------------------------
(* Instances of RelayBilling for TLC. *)
EXTENDS RelayBilling

AllKinds == {"auto", "fixed"} \X {"http", "realtime"}
FixedRealtime == {<<"fixed", "realtime">>}
=============================================================================
