------------------------------ MODULE Invoice -------------------------------
(***************************************************************************)
(* What a direct crypto invoice promises its buyer and everybody who reads *)
(* its status: it opens once, it may expire, be cancelled or be paid, an   *)
(* expired one may still be paid (the transfer was mined in time), a paid  *)
(* and a cancelled one are final, and quota is credited exactly when it    *)
(* becomes paid.  Invoices are independent of each other.                  *)
(***************************************************************************)
EXTENDS Naturals

CONSTANT Orders

VARIABLES status,  \* status[o]: none, pending, expired, cancelled or paid
          credits  \* credits[o]: how often its quota was credited

vars == <<status, credits>>

Init ==
  /\ status = [o \in Orders |-> "none"]
  /\ credits = [o \in Orders |-> 0]

Moves(o, from, to) == status[o] \in from /\ status'[o] = to

Stays(o) == status'[o] = status[o] /\ credits'[o] = credits[o]
Opens(o) == Moves(o, {"none"}, "pending") /\ credits'[o] = credits[o]
Expires(o) == Moves(o, {"pending"}, "expired") /\ credits'[o] = credits[o]
Cancels(o) == Moves(o, {"pending"}, "cancelled") /\ credits'[o] = credits[o]
IsPaid(o) ==
  Moves(o, {"pending", "expired"}, "paid") /\ credits'[o] = credits[o] + 1

Next ==
  \A o \in Orders :
    Stays(o) \/ Opens(o) \/ Expires(o) \/ Cancels(o) \/ IsPaid(o)

Spec == Init /\ [][Next]_vars
=============================================================================
