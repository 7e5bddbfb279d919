-------------------------- MODULE MCBillingLedger --------------------------
(* Instances of BillingSession, with the refinement of BillingLedger, for TLC. *)
EXTENDS BillingLedger, TLC

CONSTANTS s1, s2

TwoSessions == {s1, s2}
SessionSymmetry == Permutations(Sessions)
OneLimitedSub == <<2>>
TwoSubs == <<1, 2>>
AllPrefs == {"subscription_only", "wallet_only", "wallet_first", "subscription_first"}
=============================================================================
