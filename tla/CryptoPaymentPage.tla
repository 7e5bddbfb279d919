------------------------- MODULE CryptoPaymentPage --------------------------
(***************************************************************************)
(* The page of one direct crypto invoice in the buyer's browser            *)
(* (direct-crypto-payment-page.tsx), which polls the invoice's status and  *)
(* can cancel it, composed with the invoice it polls: the server's side is *)
(* Invoice, which DirectCrypto implements.                                 *)
(*                                                                         *)
(* A poll joins the GET that is in flight (api.get), so that there is one  *)
(* GET at a time.  Of the sequence numbers of the waiting polls it matters *)
(* only which one is the last.                                             *)
(***************************************************************************)
EXTENDS Naturals

CONSTANTS Order,      \* the invoice
          MaxFaults,  \* bound on failed requests
          MaxCancels  \* bound on presses of the cancel button

VARIABLES
  status, credits,  \* the invoice
  late,    \* the clocks that have passed the deadline: server's and page's
  shown,   \* payment.status, "loading" before the first answer
  stopped, \* terminalRef: the timer polls no more
  polls,   \* the polls that wait: the last one, and superseded ones
  get,     \* the GET in flight and the status the server read for it
  cancel,  \* the POST of cancelPayment
  left     \* what is left of the bounds

vars == <<status, credits, late, shown, stopped, polls, get, cancel, left>>

Bill == INSTANCE Invoice WITH Orders <- {Order}

State == status[Order]
NoGet == [phase |-> "none", status |-> "none"]

Spend(what) == /\ left[what] > 0
               /\ left' = [left EXCEPT ![what] = @ - 1]

(* The invoice is open when its page is opened, and the effect polls. *)
Init ==
  /\ status = [o \in {Order} |-> "pending"] /\ credits = [o \in {Order} |-> 0]
  /\ late = {}
  /\ shown = "loading" /\ stopped = FALSE
  /\ polls = {"last"} /\ get = [NoGet EXCEPT !.phase = "sent"]
  /\ cancel = "idle"
  /\ left = [faults |-> MaxFaults, cancels |-> MaxCancels]

-----------------------------------------------------------------------------
(* The server.                                                              *)

DeadlinePasses(clock) ==
  /\ clock \notin late
  /\ late' = late \cup {clock}
  /\ UNCHANGED <<status, credits, shown, stopped, polls, get, cancel, left>>

(* A watcher, the sweep or another page of the buyer changes the invoice. *)
InvoiceMoves ==
  /\ status' \in [{Order} -> {"paid", "cancelled", "expired"}]
  /\ credits' \in {credits, [credits EXCEPT ![Order] = @ + 1]}
  /\ \/ Bill!IsPaid(Order)
     \/ Bill!Cancels(Order)
     \/ Bill!Expires(Order) /\ "server" \in late
  /\ UNCHANGED <<late, shown, stopped, polls, get, cancel, left>>

(* GetDirectCryptoPaymentStatus: reading a pending invoice past its        *)
(* deadline expires it.                                                    *)
StatusRead == IF State = "pending" /\ "server" \in late THEN "expired"
                                                        ELSE State
ServerReads ==
  /\ get.phase = "sent"
  /\ status' = [o \in {Order} |-> StatusRead]
  /\ get' = [phase |-> "read", status |-> StatusRead]
  /\ UNCHANGED <<credits, late, shown, stopped, polls, cancel, left>>

(* The server cancels a pending invoice; one that is cancelled already is  *)
(* fine, another one is refused.                                           *)
CancelLands ==
  /\ cancel = "sent"
  /\ status' = [o \in {Order} |-> IF State = "pending" THEN "cancelled"
                                                       ELSE State]
  /\ cancel' = IF State \in {"pending", "cancelled"} THEN "done" ELSE "refused"
  /\ UNCHANGED <<credits, late, shown, stopped, polls, get, left>>

-----------------------------------------------------------------------------
(* The page.                                                                *)

(* An invoice is "failed" when its payment arrived for an account that is  *)
(* deleted for good, whose owner reads no page: Invoice leaves it out.     *)
IsTerminal(s) == s \in {"paid", "expired", "failed", "cancelled"}

(* The timer: another poll, which supersedes the one that waits. *)
Poll ==
  /\ ~stopped
  /\ polls' = {"last"} \cup (IF polls = {} THEN {} ELSE {"superseded"})
  /\ get' = IF get.phase = "none" THEN [NoGet EXCEPT !.phase = "sent"] ELSE get
  /\ UNCHANGED <<status, credits, late, shown, stopped, cancel, left>>

(* The waiting polls get the answer and only the last one applies it. *)
AppliedFirstOnly(waiting) == waiting = {"last"}
Applied(waiting) == "last" \in waiting
GetAnswers ==
  /\ get.phase = "read"
  /\ get' = NoGet /\ polls' = {}
  /\ shown' = IF Applied(polls) THEN get.status ELSE shown
  /\ stopped' = (stopped \/ (Applied(polls) /\ IsTerminal(get.status)))
  /\ UNCHANGED <<status, credits, late, cancel, left>>

GetFails ==
  /\ get.phase # "none"
  /\ Spend("faults")
  /\ get' = NoGet /\ polls' = {}
  /\ UNCHANGED <<status, credits, late, shown, stopped, cancel>>

(* The button is there while the page says pending and its own clock has   *)
(* not passed the deadline.                                                *)
CancelPayment ==
  /\ cancel = "idle"
  /\ shown = "pending" /\ "page" \notin late
  /\ Spend("cancels")
  /\ cancel' = "sent"
  /\ UNCHANGED <<status, credits, late, shown, stopped, polls, get>>

(* The answer of the POST; polling goes on until a poll says cancelled. *)
AfterCancel(answer) == IF answer = "done" THEN "cancelled" ELSE shown
CancelAnswered ==
  /\ cancel \in {"done", "refused"}
  /\ cancel' = "idle"
  /\ shown' = AfterCancel(cancel)
  /\ UNCHANGED <<status, credits, late, stopped, polls, get, left>>

CancelFails ==
  /\ cancel # "idle"
  /\ Spend("faults")
  /\ cancel' = "idle"
  /\ UNCHANGED <<status, credits, late, shown, stopped, polls, get>>

Next ==
  \/ \E clock \in {"server", "page"} : DeadlinePasses(clock)
  \/ InvoiceMoves \/ ServerReads \/ CancelLands
  \/ Poll \/ GetAnswers \/ GetFails
  \/ CancelPayment \/ CancelAnswered \/ CancelFails

Spec == Init /\ [][Next]_vars

-----------------------------------------------------------------------------
(* The page says paid or cancelled only of an invoice that is, and stops   *)
(* polling only when the invoice is closed, whatever answers of polls and  *)
(* of the cancel button cross each other (poll, cancelPayment).            *)
ShownIsTrue ==
  /\ shown \in {"paid", "cancelled"} => State = shown
  /\ stopped => State # "pending"
=============================================================================
