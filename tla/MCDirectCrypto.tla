--------------------------- MODULE MCDirectCrypto ---------------------------
(***************************************************************************)
(* Direct crypto payments for TLC: two watchers of one invoice whose       *)
(* window closes, successive invoices of one buyer on TRON, invoices of    *)
(* two buyers on TON or Solana, transfers that come before their invoice,  *)
(* and a watcher whose passes fail.                                        *)
(***************************************************************************)
EXTENDS DirectCrypto, TLC

CONSTANTS o1, o2

OneBuyer == o1 :> "alice" @@ o2 :> "alice"
TwoBuyers == o1 :> "alice" @@ o2 :> "bob"
OneWatcher == {CHOOSE w \in Watchers : TRUE}

TwoWatchers == [orders |-> {o1}, buyer |-> OneBuyer, watchers |-> Watchers, live |-> TRUE,
                window |-> 1, overlap |-> 1, maxNow |-> 3, maxFaults |-> 0, maxEarly |-> 0]
Successive == [TwoWatchers EXCEPT !.orders = Orders, !.watchers = OneWatcher,
                                  !.window = 3, !.overlap = 3]
Snapshots == [TwoWatchers EXCEPT !.orders = Orders, !.buyer = TwoBuyers,
                                 !.watchers = OneWatcher, !.live = FALSE, !.maxNow = 2]
Premature == [Snapshots EXCEPT !.orders = {o1}, !.maxEarly = 1]
Failing == [Successive EXCEPT !.orders = {o1}, !.maxFaults = 1, !.maxEarly = 1]

FiveWorlds == {TwoWatchers, Successive, Snapshots, Premature, Failing}

Symmetry == Permutations(Watchers) \cup Permutations(Amounts)
=============================================================================
