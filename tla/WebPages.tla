------------------------------ MODULE WebPages ------------------------------
(***************************************************************************)
(* One browser tab with one page of the web interface open: a section of   *)
(* the system settings, the billing history dialog, or the page of a       *)
(* crypto payment.  The pages share the API client (lib/api.ts) and no     *)
(* state; a page that is not open has none.                                *)
(***************************************************************************)
EXTENDS Integers, FiniteSets

CONSTANTS Keys, Values, First, Stored, NoValue, MaxEdits, MaxSaves, MaxOthers,
          MaxFetches, MaxPutFaults, MaxGetFaults                  \* SettingsForm
CONSTANTS Orders, Pages, Filters, FirstFilter, None, MaxMoves,
          MaxPosts                                                \* BillingHistory
CONSTANTS Order, MaxCancels                                       \* CryptoPaymentPage
CONSTANTS MaxFaults,    \* bound on the failed requests of these two
          Closed        \* the state of a page that is not open

ASSUME WebPagesAssumption ==
  /\ First \in Values /\ NoValue \notin Values
  /\ Stored \in [Keys -> [Values -> Values]]
  /\ Pages \in Nat \ {0} /\ FirstFilter \in Filters /\ None \notin Orders
  /\ {MaxEdits, MaxSaves, MaxOthers, MaxFetches, MaxPutFaults, MaxGetFaults,
      MaxMoves, MaxPosts, MaxCancels, MaxFaults} \subseteq Nat

VARIABLES page
VARIABLES server, cache, form, refs, save,
          section, typed, submitted, unread, readStale
VARIABLES settled, query, loading, sequence, fetches,
          gets, ops, confirm, newest
VARIABLES status, credits, late, stopped, polls, cancel
VARIABLES get, shown, left      \* of the page that is open

settingsOnly == <<server, cache, form, refs, save,
                  section, typed, submitted, unread, readStale>>
historyOnly == <<settled, query, loading, sequence, fetches,
                 gets, ops, confirm, newest>>
paymentOnly == <<status, credits, late, stopped, polls, cancel>>
historyVars == <<historyOnly, shown, left>>
paymentVars == <<paymentOnly, get, shown, left>>
vars == <<page, settingsOnly, historyOnly, paymentOnly, get, shown, left>>

Settings == INSTANCE SettingsForm
History  == INSTANCE BillingHistory
Payment  == INSTANCE CryptoPaymentPage

NoSettings ==
  /\ server = Closed /\ cache = Closed /\ form = Closed
  /\ refs = Closed /\ save = Closed /\ section = Closed
  /\ typed = Closed /\ submitted = Closed
  /\ unread = Closed /\ readStale = Closed
NoHistory ==
  /\ settled = Closed /\ query = Closed /\ loading = Closed
  /\ sequence = Closed /\ fetches = Closed /\ gets = Closed
  /\ ops = Closed /\ confirm = Closed /\ newest = Closed
NoPayment ==
  /\ status = Closed /\ credits = Closed /\ late = Closed
  /\ stopped = Closed /\ polls = Closed /\ cancel = Closed

Init ==
  \/ page = "settings" /\ Settings!Init /\ NoHistory /\ NoPayment /\ shown = Closed
  \/ page = "history" /\ History!Init /\ NoSettings /\ NoPayment /\ get = Closed
  \/ page = "payment" /\ Payment!Init /\ NoSettings /\ NoHistory

Next ==
  \/ page = "settings" /\ Settings!Next
     /\ UNCHANGED <<page, historyOnly, paymentOnly, shown>>
  \/ page = "history" /\ History!Next
     /\ UNCHANGED <<page, settingsOnly, paymentOnly, get>>
  \/ page = "payment" /\ Payment!Next
     /\ UNCHANGED <<page, settingsOnly, historyOnly>>

Spec == Init /\ [][Next]_vars

(* A request that was sent is answered, and the timer of the payment page   *)
(* fires until it is stopped.                                               *)
Fairness ==
  /\ \A q \in [page : 1 .. Pages, filter : Filters] :
       WF_historyVars(page = "history" /\ History!QueryMoves(q))
  /\ \A b \in {"complete", "check"} :
       WF_historyVars(page = "history" /\ History!ButtonMoves(b))
  /\ WF_paymentVars(page = "payment" /\ Payment!Poll)
  /\ WF_paymentVars(page = "payment" /\ Payment!ServerReads)
  /\ WF_paymentVars(page = "payment" /\ Payment!GetAnswers)

FairSpec == Spec /\ Fairness

-----------------------------------------------------------------------------
(* A page shows what the server has: at rest the clean fields of a settings *)
(* form show what is stored, or in a section with stable defaults what its  *)
(* own last save submitted (use-settings-form.ts), the billing history      *)
(* shows the answer to the newest fetch (isCurrentBillingHistoryRequest),   *)
(* and the payment page says paid or cancelled only of an invoice that is   *)
(* (poll and cancelPayment), although answers come late and out of order.   *)
ShownIsTrue ==
  /\ page = "settings" => Settings!CleanFieldsShowStored
  /\ page = "history" => History!NewestFetchShown
  /\ page = "payment" => Payment!ShownIsTrue

(* A save sends only what the user typed (use-settings-form.ts; see         *)
(* SettingsForm).                                                           *)
OnlyTypedIsSent == [][page = "settings" => Settings!SendsOnlyTyped]_vars

(* Nothing waits for ever.  The skeleton of the history gives way to a list *)
(* and a pressed button is released, although fetches are retired by moves  *)
(* and by the refreshes of two buttons, and share their GETs (the finally   *)
(* blocks of fetchBillingHistory and of the handlers).  The payment page    *)
(* learns that the invoice was paid or cancelled, and a cancelled one stays *)
(* cancelled on it, although polls supersede each other and an answer read  *)
(* before the cancellation may show it pending once more (poll,             *)
(* cancelPayment).  Excepted is a page that was told "expired": it stops,   *)
(* and does not see the invoice paid by a transfer that was mined in time   *)
(* (isUSDTTrc20TerminalStatus).                                             *)
InvoiceIs(s) == page = "payment" /\ Payment!State = s
PageSays(s) == page = "payment" /\ shown = s
EveryWaitEnds ==
  /\ (page = "history" /\ loading) ~> (page = "history" /\ ~loading)
  /\ \A b \in {"complete", "check"} :
       (page = "history" /\ ops[b].phase # "idle")
         ~> (page = "history" /\ ops[b].phase = "idle")
  /\ InvoiceIs("paid") ~> (PageSays("paid") \/ PageSays("expired"))
  /\ InvoiceIs("cancelled") ~> []PageSays("cancelled")
=============================================================================
