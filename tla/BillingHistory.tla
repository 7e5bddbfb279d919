--------------------------- MODULE BillingHistory ---------------------------
(***************************************************************************)
(* The billing history dialog of the wallet page: the hook                 *)
(* useBillingHistory, whose fetches carry a sequence number and whose      *)
(* buttons (complete an order, check a payment) post and then fetch again, *)
(* and the shared api.get, which answers every fetch of a query from the   *)
(* one GET of that query that is in flight.                                *)
(*                                                                         *)
(* A query is a page and a filter (the page size and the keyword, which    *)
(* are handled alike).  Of an order only whether it is settled matters;    *)
(* every order matches every query.                                        *)
(***************************************************************************)
EXTENDS Integers, FiniteSets

CONSTANTS Orders,     \* the orders of the history
          Pages,      \* the number of pages
          Filters,    \* the filters the user chooses from
          FirstFilter,\* the filter the dialog opens with
          None,       \* no order
          MaxMoves,   \* bound on the changes of page and filter
          MaxPosts,   \* bound on the button presses
          MaxFaults   \* bound on failed requests

VARIABLES
  settled,   \* the orders the server has settled
  query,     \* the page and the filter of the current render
  shown,     \* records: what the list holds and the query it was read for
  loading,   \* the loading flag
  sequence,  \* requestSequenceRef
  fetches,   \* the fetches that wait on a GET
  gets,      \* inFlightGet: for each query the GET in flight
  ops,       \* the two buttons: the post under way and the query its closure
             \* fetches afterwards
  confirm,   \* confirmTradeNo: the order the confirm dialog is open for
  newest,    \* history: the query of the latest fetch
  left       \* what is left of the bounds

vars == <<settled, query, shown, loading, sequence, fetches, gets, ops,
          confirm, newest, left>>

Queries == [page : 1 .. Pages, filter : Filters]
Opened == [page |-> 1, filter |-> FirstFilter]
Buttons == {"complete", "check"}

NoGet == [phase |-> "none", settled |-> {}]
Idle == [phase |-> "idle", order |-> None, query |-> Opened]

Spend(what) == /\ left[what] > 0
               /\ left' = [left EXCEPT ![what] = @ - 1]

-----------------------------------------------------------------------------
(* Fetching.                                                                *)

(* api.get: the GET of this query that is in flight, or a new one. *)
Joined(q) == IF gets[q].phase = "none"
             THEN [gets EXCEPT ![q].phase = "sent"] ELSE gets

(* fetchBillingHistory up to its await, for the query of its closure, with *)
(* n the sequence number it takes; `by' is the button that awaits it.      *)
Fetch(q, n, by) ==
  /\ sequence' = n
  /\ loading' = TRUE
  /\ fetches' = fetches \cup {[sequence |-> n, query |-> q, by |-> by]}
  /\ gets' = Joined(q)
  /\ newest' = q

(* The mount, whose effect fetches for the first time. *)
Init ==
  /\ settled = {} /\ query = Opened
  /\ shown = [query |-> Opened, settled |-> {}, failed |-> TRUE]
  /\ loading = TRUE /\ sequence = 1
  /\ fetches = {[sequence |-> 1, query |-> Opened, by |-> "effect"]}
  /\ gets = [q \in Queries |-> IF q = Opened THEN [NoGet EXCEPT !.phase = "sent"]
                                             ELSE NoGet]
  /\ ops = [b \in Buttons |-> Idle]
  /\ confirm = None /\ newest = Opened
  /\ left = [moves |-> MaxMoves, posts |-> MaxPosts, faults |-> MaxFaults]

(* A render with another query: the effect's cleanup takes a sequence      *)
(* number, which retires the fetch under way, and the effect fetches.      *)
Cleanup == sequence + 1

Moves(q) ==
  /\ Spend("moves")
  /\ q # query
  /\ query' = q
  /\ Fetch(q, Cleanup + 1, "effect")
  /\ UNCHANGED <<settled, shown, ops, confirm>>

(* The page buttons, which are there while a list is shown. *)
HandlePageChange ==
  /\ confirm = None
  /\ ~loading /\ ~shown.failed
  /\ \E p \in {query.page - 1, query.page + 1} \cap (1 .. Pages) :
       Moves([query EXCEPT !.page = p])

(* handlePageSizeChange and handleSearch: back to the first page. *)
HandleFilter ==
  /\ confirm = None
  /\ \E f \in Filters \ {query.filter} : Moves([page |-> 1, filter |-> f])

ServerReads(q) ==
  /\ gets[q].phase = "sent"
  /\ gets' = [gets EXCEPT ![q] = [phase |-> "read", settled |-> settled]]
  /\ UNCHANGED <<settled, query, shown, loading, sequence, fetches, ops,
                 confirm, newest, left>>

IsCurrentAlways(n) == TRUE
IsCurrentBillingHistoryRequest(n) == n = sequence

(* The GET of a query settles and every fetch that waits on it goes on: a  *)
(* fetch that was retired does nothing, the current one shows its answer   *)
(* (an empty list after a failure) and ends the loading; the button that   *)
(* awaits a fetch is released with it, and a completed order closes the    *)
(* confirm dialog.                                                         *)
EndsLoading(f) == \E g \in f : IsCurrentBillingHistoryRequest(g.sequence)
LoadingAfter(f) == loading /\ ~EndsLoading(f)

GetSettles(q, list) ==
  LET waiting == {f \in fetches : f.query = q}
      released == {f.by : f \in waiting} \cap Buttons
  IN  /\ gets' = [gets EXCEPT ![q] = NoGet]
      /\ fetches' = fetches \ waiting
      /\ shown' = IF \E f \in waiting :
                       IsCurrentBillingHistoryRequest(f.sequence)
                  THEN list ELSE shown
      /\ loading' = LoadingAfter(waiting)
      /\ ops' = [b \in Buttons |-> IF b \in released THEN Idle ELSE ops[b]]
      /\ confirm' = IF "complete" \in released THEN None ELSE confirm
      /\ UNCHANGED <<settled, query, sequence, newest>>

GetAnswers(q) ==
  /\ gets[q].phase = "read"
  /\ GetSettles(q, [query |-> q, settled |-> gets[q].settled,
                    failed |-> FALSE])
  /\ UNCHANGED left

GetFails(q) ==
  /\ gets[q].phase # "none"
  /\ Spend("faults")
  /\ GetSettles(q, [query |-> q, settled |-> {}, failed |-> TRUE])

-----------------------------------------------------------------------------
(* The buttons.  A list that is loading shows none of them.                 *)

Pressable(o) == ~loading /\ ~shown.failed /\ o \notin shown.settled

(* The button is pressed: its handler holds the fetch of this render. *)
Posts(b, o) ==
  /\ ops[b].phase = "idle"
  /\ Spend("posts")
  /\ ops' = [ops EXCEPT ![b] = [phase |-> "sent", order |-> o,
                                query |-> query]]

HandleCheckPayment(o) ==
  /\ confirm = None
  /\ Pressable(o)
  /\ Posts("check", o)
  /\ UNCHANGED <<settled, query, shown, loading, sequence, fetches, gets,
                 confirm, newest>>

AskConfirm(o) ==
  /\ confirm = None
  /\ Pressable(o) /\ ops["complete"].phase = "idle"
  /\ confirm' = o
  /\ UNCHANGED <<settled, query, shown, loading, sequence, fetches, gets, ops,
                 newest, left>>

HandleCompleteOrder ==
  /\ confirm # None
  /\ Posts("complete", confirm)
  /\ UNCHANGED <<settled, query, shown, loading, sequence, fetches, gets,
                 confirm, newest>>

(* Escape closes the confirm dialog, a post under way goes on. *)
Dismiss ==
  /\ confirm # None
  /\ confirm' = None
  /\ UNCHANGED <<settled, query, shown, loading, sequence, fetches, gets, ops,
                 newest, left>>

(* The server handles the post.  Checking a payment settles the order if   *)
(* the provider has been paid.                                             *)
PostLands(b) ==
  /\ ops[b].phase = "sent"
  /\ ops' = [ops EXCEPT ![b].phase = "landed"]
  /\ settled' \in {settled \cup {ops[b].order}}
                    \cup (IF b = "check" THEN {settled} ELSE {})
  /\ UNCHANGED <<query, shown, loading, sequence, fetches, gets, confirm,
                 newest, left>>

(* The post succeeded: the list is refreshed for the query of the closure. *)
RefreshQuery(b) == ops[b].query
RefreshAfter(b) ==
  /\ ops[b].phase = "landed"
  /\ ops' = [ops EXCEPT ![b].phase = "refreshing"]
  /\ Fetch(RefreshQuery(b), sequence + 1, b)
  /\ UNCHANGED <<settled, query, shown, confirm, left>>

(* The post failed, or its answer was lost: no refresh. *)
PostFails(b) ==
  /\ ops[b].phase \in {"sent", "landed"}
  /\ Spend("faults")
  /\ ops' = [ops EXCEPT ![b] = Idle]
  /\ UNCHANGED <<settled, query, shown, loading, sequence, fetches, gets,
                 confirm, newest>>

Next ==
  \/ HandlePageChange \/ HandleFilter \/ HandleCompleteOrder \/ Dismiss
  \/ \E o \in Orders : HandleCheckPayment(o) \/ AskConfirm(o)
  \/ \E q \in Queries : ServerReads(q) \/ GetAnswers(q) \/ GetFails(q)
  \/ \E b \in Buttons : PostLands(b) \/ RefreshAfter(b) \/ PostFails(b)

Spec == Init /\ [][Next]_vars

(* What has to happen: axios either resolves or rejects a request that the  *)
(* browser has sent, and the handler goes on.                               *)
QueryMoves(q) == ServerReads(q) \/ GetAnswers(q)
ButtonMoves(b) == PostLands(b) \/ RefreshAfter(b)

-----------------------------------------------------------------------------
(* When nothing is loading, the list is the answer to the newest fetch,    *)
(* whatever older answers arrived before or after it                       *)
(* (isCurrentBillingHistoryRequest).                                       *)
NewestFetchShown == ~loading => shown.query = newest
=============================================================================
