------------------------- MODULE RelayBillingProofs -------------------------
(***************************************************************************)
(* What the billing of a relay request promises, for any reserves, prices, *)
(* fee, number of attempts and length of a realtime connection: at most    *)
(* one attempt was billed upstream or shown, the consume logs report what  *)
(* was taken, and a failure that was not billed is free.                   *)
(*                                                                         *)
(* The request runs in one goroutine, so the invariant says of each place  *)
(* of it what the money, the session and the logs are there.  Until a      *)
(* settlement the session holds what RelayInfo says (Holding), exactly the *)
(* reserve unless a realtime connection raised it (Reserved); whoever      *)
(* settles leaves a log of exactly what is held, and takes away the        *)
(* session that the deferred refund would return (Settled).                *)
(***************************************************************************)
EXTENDS RelayBilling, TLAPS

Refundable == info.billing /\ ses.state = "open"

\* The session holds what RelayInfo says, and the reserve at least.
Holding ==
    /\ ses.taken = info.finalPre /\ info.finalPre >= req.reserve /\ ~info.settled
    /\ Refundable \/ (~info.billing /\ ses.state = "none" /\ info.finalPre = 0)

Reserved == Holding /\ info.finalPre = req.reserve

Untouched == logs = NoLogs /\ fee = 0 /\ ~pending /\ ~lost

AtStart ==
    /\ Untouched /\ spent = 0 /\ att = FreshAttempt
    /\ info = [billing |-> FALSE, finalPre |-> 0, settled |-> FALSE]
    /\ ses = [state |-> "none", taken |-> 0]

AtAttempt == Reserved /\ Untouched /\ spent = 0

AtHandler == Reserved /\ Untouched /\ spent = 0 /\ att.err = "none" /\ ~att.handled /\ ~Realtime

AtStream ==
    /\ Holding /\ Untouched /\ Realtime
    /\ IF att.usage THEN spent = 1 ELSE spent = 0 /\ info.finalPre = req.reserve
    /\ (att.known <=> att.usage) /\ ~att.handled
    /\ att.err # "violation" /\ att.errOutcome = "unknown"

\* The attempt whose settlement or log is under way was shown or billed.
Served == /\ spent <= 1 /\ att.err # "violation"
          /\ att.err = "none" \/ (Realtime /\ att.usage)

AtSettle == Holding /\ Untouched /\ Served

AtRecord ==
    /\ Untouched /\ Served /\ att.logQuota = ses.taken
    /\ info.settled => ses.state # "open"

\* A failed attempt that nobody has settled, and one its handler settled.
FailedUnsettled ==
    /\ ~att.handled /\ Reserved /\ Untouched
    /\ spent = 1 => Outcome(att) # "nonbillable"

FailedHandled ==
    /\ att.handled /\ Realtime /\ Outcome(att) = "billable"
    /\ fee = 0 /\ ~pending /\ logs.charged = -1 /\ logs.refund = -1 /\ logs.fee = -1
    /\ logs.usage = ses.taken \/ (lost /\ logs.usage = -1)
    /\ info.settled => ses.state # "open"

AtFailed == att.err # "none" /\ spent <= 1 /\ (FailedUnsettled \/ FailedHandled)

Billed == spent <= 1 /\ att.outcome = "billable" /\ att.err = "plain"

AtStage == Reserved /\ Untouched /\ Billed

Staged ==
    /\ fee = 0 /\ pending /\ ~lost
    /\ logs.usage = -1 /\ logs.refund = -1 /\ logs.fee = -1 /\ logs.charged >= ses.taken

AtSettleCharged == Reserved /\ Staged /\ Billed /\ logs.charged >= ChargedAttemptQuota

AtFinal == Staged /\ Billed /\ att.logQuota = ses.taken /\ ~Refundable

\* The log of a charge reports what is held, unless it could not be made durable
\* or is still the intent; and only a fixed group's realtime request may yet be
\* refunded.
Settled ==
    /\ fee = 0 /\ logs.refund = -1 /\ logs.fee = -1
    /\ \/ ~pending /\ logs.usage = ses.taken /\ logs.charged = -1
       \/ ~pending /\ logs.usage = -1 /\ logs.charged = ses.taken
       \/ ~pending /\ logs.usage = -1 /\ logs.charged = -1 /\ lost
       \/ pending /\ logs.usage = -1 /\ logs.charged >= ses.taken
    /\ Refundable => ~AutoGroup /\ Realtime /\ logs.charged = -1

AtDeferred == \/ Reserved /\ Untouched /\ spent <= 1
              \/ Settled /\ Billed

AtRefundLog ==
    /\ spent <= 1 /\ fee = 0 /\ ~pending
    /\ logs.charged = -1 /\ logs.refund = -1 /\ logs.fee = -1
    /\ AutoGroup \/ ~Realtime => logs.usage = -1

AtFeeStage == Untouched /\ spent <= 1 /\ ses.taken = 0

AtFeeCommit ==
    /\ fee = 0 /\ ~pending /\ ~lost /\ spent <= 1 /\ ses.taken = 0
    /\ logs = [NoLogs EXCEPT !.fee = 0]

AtDone == ReportedWasTaken /\ UnbilledFailureIsFree

PlaceInv ==
    /\ pc = "start" => AtStart
    /\ pc = "attempt" => AtAttempt
    /\ pc = "handler" => AtHandler
    /\ pc = "stream" => AtStream
    /\ pc = "settle" => AtSettle
    /\ pc = "record" => AtRecord
    /\ pc = "failed" => AtFailed
    /\ pc = "stage" => AtStage
    /\ pc = "settleCharged" => AtSettleCharged
    /\ pc = "final" => AtFinal
    /\ pc = "deferred" => AtDeferred
    /\ pc = "refundLog" => AtRefundLog
    /\ pc = "feeStage" => AtFeeStage
    /\ pc = "feeCommit" => AtFeeCommit
    /\ pc = "done" => AtDone

IndInv ==
    /\ TypeOK /\ PlaceInv
    /\ spent <= 1 /\ IntentCoversTaken /\ FeeOnlyAfterBaseReturned
    /\ fee > 0 => pc \in {"done", "crashed"}

(***************************************************************************)
(* Operators.                                                              *)
(***************************************************************************)
LEMMA ReportedIs ==
    ASSUME NEW x \in Int
    PROVE  Reported(x) = IF x > 0 THEN x ELSE 0
  <1>1. \E m \in {x, 0} : \A y \in {x, 0} : m >= y
    OBVIOUS
  <1>2. /\ Reported(x) \in {x, 0}
        /\ \A y \in {x, 0} : Reported(x) >= y
    BY <1>1 DEF Reported, Max
  <1> QED BY <1>2

LEMMA MaxOfThree ==
    ASSUME NEW x \in Int, NEW y \in Int, NEW z \in Int
    PROVE  /\ Max({x, y, z}) \in {x, y, z}
           /\ Max({x, y, z}) >= x /\ Max({x, y, z}) >= y /\ Max({x, y, z}) >= z
  <1>1. \E m \in {x, y, z} : \A n \in {x, y, z} : m >= n
    OBVIOUS
  <1>2. /\ Max({x, y, z}) \in {x, y, z}
        /\ \A n \in {x, y, z} : Max({x, y, z}) >= n
    BY <1>1 DEF Max
  <1> QED BY <1>2

\* A failed attempt with evidence of billing, and one that showed an answer, are
\* not taken for an attempt that cost nothing.
LEMMA EvidenceCounts ==
    ASSUME NEW a \in AttemptType, a.err # "violation"
    PROVE  /\ a.marked \/ a.usage => Outcome(a) = "billable"
           /\ a.errOutcome = "billable" => Outcome(a) = "billable"
           /\ a.responded => Outcome(a) # "nonbillable"
  <1>1. Outcome(a) = ClassifyAttempt(a)
    BY DEF Outcome
  <1>2. a.marked \in BOOLEAN /\ a.usage \in BOOLEAN /\ a.responded \in BOOLEAN /\ a.known \in BOOLEAN
    BY DEF AttemptType
  <1>3. a.marked \/ a.usage => ClassifyAttempt(a) = "billable"
    BY <1>2 DEF ClassifyAttempt
  <1>4. a.errOutcome = "billable" => ClassifyAttempt(a) = "billable"
    BY <1>2 DEF ClassifyAttempt
  <1>5. a.responded => ClassifyAttempt(a) # "nonbillable"
    BY <1>2 DEF ClassifyAttempt
  <1> QED BY <1>1, <1>3, <1>4, <1>5

LEMMA Amounts ==
    ASSUME TypeOK
    PROVE  /\ req.reserve \in Nat /\ info.finalPre \in Nat /\ ses.taken \in Nat
           /\ att.actual \in Nat /\ att.est \in Nat /\ att.cost \in Nat /\ att.logQuota \in Nat
           /\ logs.usage \in Int /\ logs.charged \in Int /\ logs.refund \in Int /\ logs.fee \in Int
           /\ ReservedQuota \in Nat /\ ChargedAttemptQuota \in Nat
           /\ fee \in Nat /\ spent \in Nat /\ MaxRetry \in Nat
  <1>1. /\ req.reserve \in Nat /\ info.finalPre \in Nat /\ ses.taken \in Nat
        /\ att.actual \in Nat /\ att.est \in Nat /\ att.cost \in Nat /\ att.logQuota \in Nat
    BY DEF TypeOK, AttemptType
  <1>2. logs.usage \in Int /\ logs.charged \in Int /\ logs.refund \in Int /\ logs.fee \in Int
    BY DEF TypeOK, LogQuota
  <1>3. ReservedQuota \in Nat /\ ChargedAttemptQuota \in Nat
    BY <1>1 DEF ReservedQuota, ChargedAttemptQuota
  <1>4. fee \in Nat /\ spent \in Nat /\ MaxRetry \in Nat
    BY ConstantsAssumption DEF TypeOK
  <1> QED BY <1>1, <1>2, <1>3, <1>4

\* The step that ends in a place establishes what holds there.
LEMMA Arrive ==
    ASSUME TypeOK', PlaceInv', spent' <= 1, pending' => logs'.charged >= ses'.taken, fee' = 0
    PROVE  IndInv'
  BY DEF IndInv, IntentCoversTaken, FeeOnlyAfterBaseReturned

LEMMA FreshTyped == FreshAttempt \in AttemptType
  BY ConstantsAssumption DEF FreshAttempt, AttemptType, Outcomes

LEMMA InitInv == Init => IndInv
  <1> SUFFICES ASSUME Init PROVE IndInv
    OBVIOUS
  <1>1. req \in [mode : {"auto", "fixed"}, format : {"http", "realtime"}, reserve : Nat]
    <2>1. PICK k \in Kinds, n \in Quotas : req = [mode |-> k[1], format |-> k[2], reserve |-> n]
      BY DEF Init
    <2>2. k[1] \in {"auto", "fixed"} /\ k[2] \in {"http", "realtime"} /\ n \in Nat
      BY ConstantsAssumption
    <2> QED BY <2>1, <2>2
  <1>2. TypeOK
    <2>1. pc \in Places /\ logs \in [usage : LogQuota, charged : LogQuota, refund : LogQuota, fee : LogQuota]
      BY DEF Init, Places, NoLogs, LogQuota
    <2>2. info \in [billing : BOOLEAN, finalPre : Nat, settled : BOOLEAN]
      BY DEF Init
    <2>3. ses \in [state : {"none", "open", "settled", "refunded"}, taken : Nat]
      BY DEF Init
    <2>4. retry \in 0..MaxRetry /\ spent \in 0..(MaxRetry + 1) /\ fee \in Nat /\ breached \in Nat
      BY ConstantsAssumption DEF Init
    <2>5. att \in AttemptType /\ pending \in BOOLEAN /\ lost \in BOOLEAN
      BY FreshTyped DEF Init
    <2> QED BY <1>1, <2>1, <2>2, <2>3, <2>4, <2>5 DEF TypeOK
  <1>3. AtStart
    BY DEF Init, AtStart, Untouched
  <1> QED BY <1>2, <1>3 DEF Init, IndInv, PlaceInv, IntentCoversTaken,
                            FeeOnlyAfterBaseReturned

(***************************************************************************)
(* Until an attempt has an outcome.                                        *)
(***************************************************************************)
LEMMA PreConsumeInv == IndInv /\ PreConsume => IndInv'
  <1> SUFFICES ASSUME IndInv, PreConsume PROVE IndInv'
    OBVIOUS
  <1>1. TypeOK /\ AtStart
    BY DEF IndInv, PlaceInv, PreConsume
  <1>2. /\ pc' = "attempt" /\ UNCHANGED <<req, retry, att, logs, fee, pending, lost, spent, breached>>
        /\ req.reserve \in Nat
    BY <1>1, Amounts DEF PreConsume, Goto
  <1>3. /\ info'.finalPre = req.reserve /\ ~info'.settled /\ ses'.taken = req.reserve
        /\ Refundable' \/ (~info'.billing /\ ses'.state = "none" /\ req.reserve = 0)
    <2>1. CASE req.reserve = 0
      BY <1>1, <2>1 DEF PreConsume, AtStart
    <2>2. CASE req.reserve # 0
      <3>1. info' = [info EXCEPT !.billing = TRUE, !.finalPre = req.reserve]
        BY <2>2 DEF PreConsume
      <3>2. ses' = [state |-> "open", taken |-> req.reserve]
        BY <2>2 DEF PreConsume
      <3>3. info'.billing = TRUE /\ info'.finalPre = req.reserve /\ info'.settled = FALSE
        BY <1>1, <3>1 DEF AtStart
      <3> QED BY <3>2, <3>3 DEF Refundable
    <2> QED BY <2>1, <2>2
  <1>4. TypeOK'
    <2>1. info' \in [billing : BOOLEAN, finalPre : Nat, settled : BOOLEAN]
      BY <1>1, <1>2 DEF TypeOK, PreConsume
    <2>2. ses' \in [state : {"none", "open", "settled", "refunded"}, taken : Nat]
      BY <1>1, <1>2 DEF TypeOK, PreConsume
    <2> QED BY <1>1, <1>2, <2>1, <2>2 DEF TypeOK, Places
  <1>5. AtAttempt'
    BY <1>1, <1>2, <1>3 DEF AtStart, AtAttempt, Reserved, Holding, Untouched
  <1>6. PlaceInv'
    BY <1>2, <1>5 DEF PlaceInv
  <1> QED BY <1>1, <1>2, <1>4, <1>6, Arrive DEF AtStart, Untouched

LEMMA RefusedInv == IndInv /\ PreConsumeRefused => IndInv'
  <1> SUFFICES ASSUME IndInv, PreConsumeRefused PROVE IndInv'
    OBVIOUS
  <1>1. TypeOK /\ AtStart
    BY DEF IndInv, PlaceInv, PreConsumeRefused
  <1>2. /\ pc' = "done"
        /\ UNCHANGED <<req, retry, att, info, ses, logs, fee, pending, lost, spent, breached>>
    BY DEF PreConsumeRefused, Goto
  <1>3. TypeOK'
    BY <1>1, <1>2 DEF TypeOK, Places
  <1>4. LogSum' = 0 /\ ses'.taken = 0 /\ fee' = 0
    <2>1. Reported(-1) = 0
      BY ReportedIs
    <2> QED BY <1>1, <1>2, <2>1 DEF AtStart, Untouched, NoLogs, LogSum
  <1>5. AtDone'
    BY <1>4 DEF AtDone, ReportedWasTaken, NeverUnderReported, NeverOverReported,
                UnbilledFailureIsFree
  <1>6. PlaceInv'
    BY <1>2, <1>5 DEF PlaceInv
  <1> QED BY <1>1, <1>2, <1>3, <1>6, Arrive DEF AtStart, Untouched

LEMMA BeginInv == ASSUME IndInv, NEW n \in Quotas, NEW shown \in BOOLEAN, BeginAttempt(n, shown)
                  PROVE  IndInv'
  <1>1. TypeOK /\ AtAttempt
    BY DEF IndInv, PlaceInv, BeginAttempt
  <1>2. UNCHANGED <<req, retry, info, ses, logs, fee, pending, lost, spent, breached>>
    BY DEF BeginAttempt
  <1>3. att' = [FreshAttempt EXCEPT !.est = n, !.responded = shown]
    BY DEF BeginAttempt
  <1>4. /\ att' \in AttemptType /\ att'.err = "none" /\ att'.errOutcome = "unknown"
        /\ ~att'.handled /\ ~att'.usage /\ ~att'.known
    <2>1. n \in Nat
      BY ConstantsAssumption
    <2>2. att' \in AttemptType
      BY <1>3, <2>1, FreshTyped DEF AttemptType
    <2> QED BY <1>3, <2>2 DEF FreshAttempt
  <1>5. pc' = IF Realtime THEN "stream" ELSE "handler"
    BY DEF BeginAttempt, Goto
  <1>6. TypeOK'
    BY <1>1, <1>2, <1>4, <1>5 DEF TypeOK, Places
  <1>7. Reserved' /\ Untouched' /\ spent' = 0
    BY <1>1, <1>2 DEF AtAttempt, Reserved, Holding, Refundable, Untouched
  <1>8. CASE Realtime
    <2>1. AtStream'
      BY <1>2, <1>4, <1>7, <1>8 DEF AtStream, Reserved, Realtime
    <2>2. PlaceInv'
      BY <1>5, <1>8, <2>1 DEF PlaceInv
    <2> QED BY <1>6, <1>7, <2>2, Arrive DEF Untouched
  <1>9. CASE ~Realtime
    <2>1. AtHandler'
      BY <1>2, <1>4, <1>7, <1>9 DEF AtHandler, Realtime
    <2>2. PlaceInv'
      BY <1>5, <1>9, <2>1 DEF PlaceInv
    <2> QED BY <1>6, <1>7, <2>2, Arrive DEF Untouched
  <1> QED BY <1>8, <1>9

LEMMA NoAttemptInv == IndInv /\ (NoChannel \/ NoBody) => IndInv'
  <1> SUFFICES ASSUME IndInv, NoChannel \/ NoBody PROVE IndInv'
    OBVIOUS
  <1>1. TypeOK /\ AtAttempt
    BY DEF IndInv, PlaceInv, NoChannel, NoBody
  <1>2. UNCHANGED <<req, info, ses, logs, fee, pending, lost, spent, breached>>
    BY DEF NoChannel, NoBody
  <1>3. att' \in AttemptType
    <2>1. CASE NoBody
      BY <2>1, FreshTyped DEF NoBody, AttemptType
    <2>2. CASE NoChannel
      <3>1. att.responded \in BOOLEAN
        BY <1>1 DEF TypeOK, AttemptType
      <3>2. "nonbillable" \in Outcomes /\ "unknown" \in Outcomes
        BY DEF Outcomes
      <3>3. CASE AutoGroup
        BY <2>2, <3>1, <3>2, <3>3, FreshTyped DEF NoChannel, AttemptType
      <3>4. CASE ~AutoGroup
        BY <2>2, <3>1, <3>2, <3>4, FreshTyped DEF NoChannel, AttemptType
      <3> QED BY <3>3, <3>4
    <2> QED BY <2>1, <2>2
  <1>4. retry' \in 0..MaxRetry /\ pc' \in {"attempt", "deferred"}
    BY <1>1, ConstantsAssumption DEF NoChannel, NoBody, Goto, TypeOK
  <1>5. TypeOK'
    BY <1>1, <1>2, <1>3, <1>4 DEF TypeOK, Places
  <1>6. Reserved' /\ Untouched' /\ spent' = 0
    BY <1>1, <1>2 DEF AtAttempt, Reserved, Holding, Refundable, Untouched
  <1>7. PlaceInv'
    BY <1>4, <1>6 DEF PlaceInv, AtAttempt, AtDeferred
  <1> QED BY <1>5, <1>6, <1>7, Arrive DEF Untouched

LEMMA HandlerSucceedsInv == ASSUME IndInv, NEW n \in Quotas, HandlerSucceeds(n) PROVE IndInv'
  <1>1. TypeOK /\ AtHandler
    BY DEF IndInv, PlaceInv, HandlerSucceeds
  <1>2. UNCHANGED <<req, retry, info, ses, logs, fee, pending, lost, breached>> /\ pc' = "settle"
    BY DEF HandlerSucceeds, Goto
  <1>3. att' = [att EXCEPT !.dispatched = TRUE, !.responded = TRUE, !.cost = n]
    BY DEF HandlerSucceeds
  <1>4. att' \in AttemptType /\ att'.err = "none"
    <2>1. n \in Nat /\ att \in AttemptType
      BY <1>1, ConstantsAssumption DEF TypeOK
    <2>2. att' \in AttemptType
      BY <1>3, <2>1 DEF AttemptType
    <2>3. att.err = "none"
      BY <1>1 DEF AtHandler
    <2> QED BY <1>3, <2>1, <2>2, <2>3 DEF AttemptType
  <1>5. spent' = 1
    BY <1>1 DEF HandlerSucceeds, AtHandler
  <1>6. TypeOK'
    BY <1>1, <1>2, <1>4, <1>5, ConstantsAssumption DEF TypeOK, Places
  <1>7. AtSettle'
    BY <1>1, <1>2, <1>4, <1>5
       DEF AtHandler, AtSettle, Reserved, Holding, Refundable, Untouched, Served
  <1>8. PlaceInv'
    BY <1>2, <1>7 DEF PlaceInv
  <1> QED BY <1>5, <1>6, <1>7, <1>8, Arrive DEF AtSettle, Untouched

\* What a failed attempt leaves, and the verdict on one that was seen.
LEMMA FailsTyped ==
    ASSUME TypeOK, NEW d \in FailedAttempts,
           att' = [att EXCEPT !.dispatched = d.dispatched, !.marked = d.marked,
                              !.usage = d.usage, !.known = d.known, !.actual = d.actual,
                              !.responded = att.responded \/ d.responded, !.err = d.err,
                              !.errOutcome = d.errOutcome, !.retryable = d.retryable]
    PROVE  /\ att' \in AttemptType /\ att'.handled = att.handled /\ att'.err = d.err
           /\ att'.marked = d.marked /\ att'.usage = d.usage
           /\ att'.err \in {"plain", "violation"} /\ (d.responded => att'.responded)
  <1>1. /\ d.dispatched \in BOOLEAN /\ d.marked \in BOOLEAN /\ d.usage \in BOOLEAN
        /\ d.known \in BOOLEAN /\ d.responded \in BOOLEAN /\ d.retryable \in BOOLEAN
        /\ d.err \in {"plain", "violation"} /\ d.errOutcome \in Outcomes
        /\ d.actual \in Quotas \cup {0}
    BY DEF FailedAttempts
  <1>2. d.actual \in Nat
    BY <1>1, ConstantsAssumption
  <1>3. att \in AttemptType
    BY DEF TypeOK
  <1>4. (att.responded \/ d.responded) \in BOOLEAN
    OBVIOUS
  <1>5. att' \in AttemptType
    <2> DEFINE half == [att EXCEPT !.dispatched = d.dispatched, !.marked = d.marked,
                                   !.usage = d.usage, !.known = d.known, !.actual = d.actual]
    <2>1. half \in AttemptType /\ half.responded = att.responded
      BY <1>1, <1>2, <1>3 DEF AttemptType
    <2>2. att' = [half EXCEPT !.responded = att.responded \/ d.responded, !.err = d.err,
                              !.errOutcome = d.errOutcome, !.retryable = d.retryable]
      OBVIOUS
    <2> HIDE DEF half
    <2> QED BY <1>1, <1>4, <2>1, <2>2 DEF AttemptType
  <1>6. /\ att'.handled = att.handled /\ att'.err = d.err
        /\ att'.marked = d.marked /\ att'.usage = d.usage
    BY <1>3 DEF AttemptType
  <1>7. d.responded => att'.responded
    BY <1>3 DEF AttemptType
  <1> QED BY <1>1, <1>5, <1>6, <1>7

LEMMA HandlerFailsInv == IndInv /\ HandlerFails => IndInv'
  <1> SUFFICES ASSUME IndInv, HandlerFails PROVE IndInv'
    OBVIOUS
  <1>1. TypeOK /\ AtHandler
    BY DEF IndInv, PlaceInv, HandlerFails
  <1>2. UNCHANGED <<req, retry, info, ses, logs, fee, pending, lost>> /\ pc' = "failed"
    BY DEF HandlerFails, Goto
  <1>3. PICK d \in FailedAttempts :
            /\ att' = [att EXCEPT !.dispatched = d.dispatched, !.marked = d.marked,
                                  !.usage = d.usage, !.known = d.known, !.actual = d.actual,
                                  !.responded = att.responded \/ d.responded, !.err = d.err,
                                  !.errOutcome = d.errOutcome, !.retryable = d.retryable]
            /\ spent' = IF Visible(d) /\ d.err = "plain" THEN spent + 1 ELSE spent
            /\ breached' = IF Visible(d) /\ d.err = "violation" THEN breached + 1 ELSE breached
    BY DEF HandlerFails
  <1>4. /\ att' \in AttemptType /\ att'.handled = att.handled /\ att'.err = d.err
        /\ att'.marked = d.marked /\ att'.usage = d.usage
        /\ att'.err \in {"plain", "violation"} /\ (d.responded => att'.responded)
    BY <1>1, <1>3, FailsTyped
  <1>5. /\ spent' = IF Visible(d) /\ d.err = "plain" THEN 1 ELSE 0
        /\ breached' \in Nat
    BY <1>1, <1>3 DEF AtHandler, TypeOK
  <1>6. TypeOK'
    BY <1>1, <1>2, <1>4, <1>5, ConstantsAssumption DEF TypeOK, Places
  <1>7. Visible(d) /\ d.err = "plain" => Outcome(att') # "nonbillable"
    BY <1>4, EvidenceCounts DEF Visible
  <1>8. FailedUnsettled'
    <2>1. Reserved' /\ Untouched'
      BY <1>1, <1>2 DEF AtHandler, Reserved, Holding, Refundable, Untouched
    <2>2. ~att'.handled
      BY <1>1, <1>4 DEF AtHandler
    <2> QED BY <1>5, <1>7, <2>1, <2>2 DEF FailedUnsettled
  <1>9. PlaceInv'
    BY <1>2, <1>4, <1>5, <1>8 DEF PlaceInv, AtFailed
  <1> QED BY <1>5, <1>6, <1>8, <1>9, Arrive DEF FailedUnsettled, Untouched

(***************************************************************************)
(* The realtime connection.                                                *)
(***************************************************************************)
LEMMA StreamUsageInv ==
    ASSUME IndInv, NEW q \in Quotas, NEW res \in {"ok", "refused", "unresolved"},
           StreamUsage(q, res)
    PROVE  IndInv'
  <1> DEFINE used == att.actual + q
  <1>1. TypeOK /\ AtStream
    BY DEF IndInv, PlaceInv, StreamUsage
  <1>2. UNCHANGED <<pc, req, retry, logs, fee, pending, lost, breached>> /\ pc = "stream"
    BY DEF StreamUsage
  <1>3. used \in Nat /\ att \in AttemptType /\ att.uses + 1 \in 0..MaxUse
    BY <1>1, ConstantsAssumption, Amounts DEF TypeOK, StreamUsage, AttemptType
  <1>4. att' = [att EXCEPT !.dispatched = TRUE, !.known = TRUE, !.usage = TRUE,
                           !.actual = used, !.uses = att.uses + 1,
                           !.unres = att.unres \/ res = "unresolved",
                           !.err = IF res = "ok" THEN att.err ELSE "plain"]
    BY DEF StreamUsage
  <1>5. (IF res = "ok" THEN att.err ELSE "plain") \in {"none", "plain"}
    BY <1>1, <1>3 DEF AtStream, AttemptType
  <1>6. /\ att' \in AttemptType
        /\ att'.usage = TRUE /\ att'.known = TRUE /\ att'.handled = att.handled
        /\ att'.err \in {"none", "plain"} /\ att'.errOutcome = att.errOutcome
    <2>1. (att.unres \/ res = "unresolved") \in BOOLEAN
      OBVIOUS
    <2> HIDE DEF used
    <2>2. att' \in AttemptType
      BY ZenonT(60), <1>3, <1>4, <1>5, <2>1 DEF AttemptType
    <2>3. /\ att'.usage = TRUE /\ att'.known = TRUE /\ att'.handled = att.handled
          /\ att'.errOutcome = att.errOutcome
      BY <1>3, <1>4 DEF AttemptType
    <2>4. att'.err = IF res = "ok" THEN att.err ELSE "plain"
      BY <1>3, <1>4 DEF AttemptType
    <2> QED BY <1>5, <2>2, <2>3, <2>4
  <1>7. spent' = 1
    BY <1>1 DEF StreamUsage, AtStream
  <1>8. \/ UNCHANGED <<info, ses>>
        \/ /\ info' = [info EXCEPT !.billing = TRUE, !.finalPre = used]
           /\ ses' = [state |-> "open", taken |-> used]
           /\ IF info.billing THEN used > info.finalPre ELSE used > 0
    BY DEF StreamUsage
  <1>9. /\ info' \in [billing : BOOLEAN, finalPre : Nat, settled : BOOLEAN]
        /\ ses' \in [state : {"none", "open", "settled", "refunded"}, taken : Nat]
        /\ Holding'
    <2> HIDE DEF used
    <2>1. /\ info \in [billing : BOOLEAN, finalPre : Nat, settled : BOOLEAN]
          /\ ses \in [state : {"none", "open", "settled", "refunded"}, taken : Nat]
          /\ Holding /\ req.reserve \in Nat
      BY <1>1, Amounts DEF TypeOK, AtStream
    <2>2. CASE UNCHANGED <<info, ses>>
      BY <1>2, <2>1, <2>2 DEF Holding, Refundable
    <2>3. CASE /\ info' = [info EXCEPT !.billing = TRUE, !.finalPre = used]
               /\ ses' = [state |-> "open", taken |-> used]
               /\ IF info.billing THEN used > info.finalPre ELSE used > 0
      <3>1. info' \in [billing : BOOLEAN, finalPre : Nat, settled : BOOLEAN]
        BY <1>3, <2>1, <2>3
      <3>2. ses' \in [state : {"none", "open", "settled", "refunded"}, taken : Nat]
        BY <1>3, <2>3
      <3>3. info'.billing = TRUE /\ info'.finalPre = used /\ info'.settled = info.settled
        BY <2>1, <2>3
      <3>4. ses'.state = "open" /\ ses'.taken = used
        BY <2>3
      <3>5. used >= req.reserve
        BY <1>3, <2>1, <2>3 DEF Holding, Refundable
      <3> QED BY <1>2, <2>1, <3>1, <3>2, <3>3, <3>4, <3>5 DEF Holding, Refundable
    <2> QED BY <1>8, <2>2, <2>3
  <1>10. TypeOK'
    BY <1>1, <1>2, <1>6, <1>7, <1>9, ConstantsAssumption DEF TypeOK
  <1>11. AtStream'
    BY <1>1, <1>2, <1>6, <1>7, <1>9 DEF AtStream, Untouched, Realtime
  <1>12. PlaceInv'
    BY <1>2, <1>11 DEF PlaceInv
  <1> QED BY <1>7, <1>10, <1>11, <1>12, Arrive DEF AtStream, Untouched

LEMMA StreamEndsInv ==
    ASSUME IndInv, NEW clean \in BOOLEAN, NEW n \in Quotas, StreamEnds(clean, n)
    PROVE  IndInv'
  <1>1. TypeOK /\ AtStream
    BY DEF IndInv, PlaceInv, StreamEnds
  <1>2. UNCHANGED <<req, retry, info, ses, logs, fee, pending, lost, breached>> /\ pc' = "settle"
    BY DEF StreamEnds, Goto
  <1>3. att' = [att EXCEPT !.cost = n, !.err = IF clean THEN "none" ELSE "plain"]
    BY DEF StreamEnds
  <1>4. /\ att' \in AttemptType /\ att'.usage = att.usage
        /\ att'.err = IF clean THEN "none" ELSE "plain"
    <2>1. n \in Nat /\ att \in AttemptType
      BY <1>1, ConstantsAssumption DEF TypeOK
    <2>2. CASE clean
      BY <1>3, <2>1, <2>2 DEF AttemptType
    <2>3. CASE ~clean
      BY <1>3, <2>1, <2>3 DEF AttemptType
    <2> QED BY <2>2, <2>3
  <1>5. spent' = 1
    BY <1>1 DEF StreamEnds, AtStream
  <1>6. TypeOK'
    BY <1>1, <1>2, <1>4, <1>5, ConstantsAssumption DEF TypeOK, Places
  <1>7. ~clean => att.usage
    BY <1>1 DEF StreamEnds, AtStream
  <1>8. AtSettle'
    BY <1>1, <1>2, <1>4, <1>5, <1>7
       DEF AtStream, AtSettle, Holding, Refundable, Untouched, Served, Realtime
  <1>9. PlaceInv'
    BY <1>2, <1>8 DEF PlaceInv
  <1> QED BY <1>5, <1>6, <1>8, <1>9, Arrive DEF AtSettle, Untouched

LEMMA StreamFailsInv == ASSUME IndInv, NEW d \in Breaks, StreamFailsEarly(d) PROVE IndInv'
  <1>1. TypeOK /\ AtStream
    BY DEF IndInv, PlaceInv, StreamFailsEarly
  <1>2. UNCHANGED <<req, retry, info, ses, logs, fee, pending, lost, breached>> /\ pc' = "failed"
    BY DEF StreamFailsEarly, Goto
  <1>3. att' = [att EXCEPT !.err = "plain", !.errOutcome = d.errOutcome, !.dispatched = d.dispatched,
                           !.responded = att.responded \/ d.responded,
                           !.retryable = d.retryable]
    BY DEF StreamFailsEarly
  <1>4. /\ att' \in AttemptType /\ att'.err = "plain" /\ att'.handled = att.handled
        /\ d.responded => att'.responded
    <2>1. /\ d.dispatched \in BOOLEAN /\ d.retryable \in BOOLEAN /\ d.errOutcome \in Outcomes
          /\ (att.responded \/ d.responded) \in BOOLEAN /\ att \in AttemptType
      BY <1>1 DEF Breaks, TypeOK, Outcomes
    <2>2. att' \in AttemptType
      BY ZenonT(60), <1>3, <2>1 DEF AttemptType
    <2>3. att'.err = "plain" /\ att'.handled = att.handled
      BY <1>3, <2>1 DEF AttemptType
    <2>4. d.responded => att'.responded
      BY <1>3, <2>1 DEF AttemptType
    <2> QED BY <2>2, <2>3, <2>4
  <1>5. ~att.usage /\ spent' = IF d.responded THEN 1 ELSE 0
    BY <1>1 DEF StreamFailsEarly, AtStream
  <1>6. TypeOK'
    BY <1>1, <1>2, <1>4, <1>5, ConstantsAssumption DEF TypeOK, Places
  <1>7. d.responded => Outcome(att') # "nonbillable"
    BY <1>4, EvidenceCounts
  <1>8. FailedUnsettled'
    <2>1. Reserved' /\ Untouched'
      BY <1>1, <1>2, <1>5 DEF AtStream, Reserved, Holding, Refundable, Untouched
    <2>2. ~att'.handled
      BY <1>1, <1>4 DEF AtStream
    <2> QED BY <1>5, <1>7, <2>1, <2>2 DEF FailedUnsettled
  <1>9. PlaceInv'
    BY <1>2, <1>4, <1>5, <1>8 DEF PlaceInv, AtFailed
  <1> QED BY <1>5, <1>6, <1>8, <1>9, Arrive DEF FailedUnsettled, Untouched

(***************************************************************************)
(* The settlement of a served attempt, and its log.                        *)
(***************************************************************************)
\* What a settlement that did not commit reports is what stays held.
LEMMA HeldIsTaken == TypeOK /\ Holding => HeldReserve = ses.taken
  <1> SUFFICES ASSUME TypeOK, Holding PROVE HeldReserve = ses.taken
    OBVIOUS
  <1> DEFINE held == IF info.billing THEN ses.taken ELSE 0
  <1>1. /\ ReservedQuota \in Nat /\ ReservedQuota <= info.finalPre
        /\ info.finalPre \in Nat /\ info.finalPre = ses.taken
    BY Amounts DEF Holding, ReservedQuota
  <1>2. held \in Nat /\ held <= ses.taken
    BY <1>1
  <1>3. HeldReserve = Max({ReservedQuota, info.finalPre, held})
    BY DEF HeldReserve
  <1> HIDE DEF held
  <1>4. /\ HeldReserve \in {ReservedQuota, info.finalPre, held}
        /\ HeldReserve >= info.finalPre
    BY <1>1, <1>2, <1>3, MaxOfThree
  <1> QED BY <1>1, <1>2, <1>4

\* A settlement that commits, or that has nothing to do, leaves the charge taken,
\* and nothing for the deferred refund.
LEMMA SettleTakes ==
    ASSUME TypeOK, Holding, NEW a \in Nat, NEW res \in Results, SettleBilling(a, res)
    PROVE  /\ info' \in [billing : BOOLEAN, finalPre : Nat, settled : BOOLEAN]
           /\ ses' \in [state : {"none", "open", "settled", "refunded"}, taken : Nat]
           /\ res # "failed" => ses'.taken = a /\ ses'.state # "open"
           /\ res = "failed" => UNCHANGED <<ses, info>>
  <1>1. /\ info \in [billing : BOOLEAN, finalPre : Nat, settled : BOOLEAN]
        /\ ses \in [state : {"none", "open", "settled", "refunded"}, taken : Nat]
    BY DEF TypeOK
  <1>2. CASE /\ res # "failed" /\ info' = [info EXCEPT !.settled = TRUE]
             /\ ses' = [state |-> IF info.billing THEN "settled" ELSE ses.state, taken |-> a]
    <2>1. info' \in [billing : BOOLEAN, finalPre : Nat, settled : BOOLEAN]
      BY <1>1, <1>2
    <2>2. ~info.billing => ses.state = "none"
      BY DEF Holding, Refundable
    <2>3. CASE info.billing
      BY <1>1, <1>2, <2>1, <2>3
    <2>4. CASE ~info.billing
      BY <1>1, <1>2, <2>1, <2>2, <2>4
    <2> QED BY <2>3, <2>4
  <1>3. CASE /\ IF info.billing \/ a # info.finalPre THEN res = "failed" ELSE res = "ok"
             /\ UNCHANGED <<ses, info>>
    BY <1>1, <1>3 DEF Holding, Refundable
  <1> QED BY <1>2, <1>3 DEF SettleBilling

LEMMA SettleInv ==
    ASSUME IndInv, NEW res \in Results, SettleSuccessfulBilling(res)
    PROVE  IndInv'
  <1>1. TypeOK /\ AtSettle
    BY DEF IndInv, PlaceInv, SettleSuccessfulBilling
  <1>2. UNCHANGED <<req, retry, logs, fee, pending, lost, spent, breached>> /\ pc' = "record"
    BY DEF SettleSuccessfulBilling, Goto
  <1>3. Holding /\ SettleBilling(att.cost, res) /\ att.cost \in Nat /\ ses.taken \in Nat
    BY <1>1, Amounts DEF SettleSuccessfulBilling, AtSettle
  <1>4. /\ info' \in [billing : BOOLEAN, finalPre : Nat, settled : BOOLEAN]
        /\ ses' \in [state : {"none", "open", "settled", "refunded"}, taken : Nat]
        /\ res # "failed" => ses'.taken = att.cost /\ ses'.state # "open"
        /\ res = "failed" => UNCHANGED <<ses, info>>
    BY <1>1, <1>3, SettleTakes
  <1> DEFINE logged == IF res = "failed" THEN HeldReserve ELSE att.cost
             err == res # "ok"
  <1>5. logged = ses'.taken /\ logged \in Nat
    BY <1>1, <1>3, <1>4, HeldIsTaken
  <1>6. err \in BOOLEAN
    OBVIOUS
  <1>7. att' = [att EXCEPT !.logQuota = logged, !.settleErr = err]
    BY DEF SettleSuccessfulBilling
  <1> HIDE DEF logged, err
  <1>8. /\ att' \in AttemptType /\ att'.logQuota = logged /\ att'.err = att.err
        /\ att'.usage = att.usage
    <2>1. att \in AttemptType
      BY <1>1 DEF TypeOK
    <2> QED BY <1>5, <1>6, <1>7, <2>1 DEF AttemptType
  <1>9. TypeOK'
    BY <1>1, <1>2, <1>4, <1>8 DEF TypeOK, Places
  <1>10. AtRecord'
    <2>1. Untouched' /\ Served'
      BY <1>1, <1>2, <1>8 DEF AtSettle, Untouched, Served, Realtime
    <2>2. info'.settled => ses'.state # "open"
      BY <1>3, <1>4 DEF Holding
    <2> QED BY <1>5, <1>8, <2>1, <2>2 DEF AtRecord
  <1>11. PlaceInv'
    BY <1>2, <1>10 DEF PlaceInv
  <1> QED BY <1>9, <1>10, <1>11, Arrive DEF AtRecord, Untouched, Served

\* The log of a served attempt tells what was taken, or is lost.
LEMMA RecordsTyped ==
    ASSUME TypeOK, AtRecord, NEW w \in Written, Records(w)
    PROVE  /\ logs' \in [usage : LogQuota, charged : LogQuota, refund : LogQuota, fee : LogQuota]
           /\ lost' \in BOOLEAN
           /\ logs'.charged = -1 /\ logs'.refund = -1 /\ logs'.fee = -1
           /\ logs'.usage = ses.taken \/ (lost' /\ logs'.usage = -1)
           /\ UNCHANGED <<req, retry, info, ses, fee, pending, spent, breached>>
  <1>1. /\ logs = NoLogs /\ att.logQuota = ses.taken /\ ses.taken \in LogQuota
        /\ lost = FALSE
    BY Amounts DEF AtRecord, Untouched, LogQuota, TypeOK
  <1>2. CASE w = "lost"
    BY <1>1, <1>2 DEF Records, NoLogs, LogQuota
  <1>3. CASE w # "lost"
    BY <1>1, <1>3 DEF Records, NoLogs, LogQuota
  <1> QED BY <1>2, <1>3 DEF Records

LEMMA UsageLogSum ==
    ASSUME NEW l, NEW taken \in Nat, l.charged = -1, l.refund = -1, l.fee = -1,
           l.usage = taken \/ l.usage = -1
    PROVE  /\ l.usage = taken =>
              Reported(l.usage) + Reported(l.charged) + Reported(l.refund) + Reported(l.fee) = taken
           /\ l.usage = -1 =>
              Reported(l.usage) + Reported(l.charged) + Reported(l.refund) + Reported(l.fee) = 0
  <1>1. Reported(-1) = 0 /\ Reported(taken) = taken
    BY ReportedIs
  <1> QED BY <1>1

\* A served request ends with its log.
LEMMA ServedDone ==
    ASSUME TypeOK, AtRecord, NEW w \in Written, Records(w), TypeOK', att'.err = "none",
           pc' = "done"
    PROVE  IndInv'
  <1>1. /\ logs'.charged = -1 /\ logs'.refund = -1 /\ logs'.fee = -1
        /\ logs'.usage = ses.taken \/ (lost' /\ logs'.usage = -1)
        /\ UNCHANGED <<req, retry, info, ses, fee, pending, spent, breached>>
    BY RecordsTyped
  <1>2. fee' = 0 /\ ~pending' /\ spent' <= 1 /\ ses.taken \in Nat
    BY <1>1, Amounts DEF AtRecord, Untouched, Served
  <1>3. LogSum' = ses.taken \/ (LogSum' = 0 /\ lost')
    BY <1>1, <1>2, UsageLogSum DEF LogSum
  <1>4. AtDone'
    BY <1>1, <1>2, <1>3 DEF AtDone, ReportedWasTaken, NeverUnderReported, NeverOverReported,
                            UnbilledFailureIsFree
  <1>5. PlaceInv'
    BY <1>4 DEF PlaceInv
  <1> QED BY <1>2, <1>5, Arrive

LEMMA RecordTextInv == ASSUME IndInv, NEW w \in Written, RecordTextLog(w) PROVE IndInv'
  <1>1. TypeOK /\ AtRecord /\ Records(w) /\ att' = att /\ pc' = "done"
    BY DEF IndInv, PlaceInv, RecordTextLog, Records, Goto
  <1>2. TypeOK'
    BY <1>1, RecordsTyped DEF TypeOK, Places
  <1>3. att'.err = "none"
    BY <1>1 DEF RecordTextLog, AtRecord, Served
  <1> QED BY <1>1, <1>2, <1>3, ServedDone

LEMMA RecordRealtimeInv == ASSUME IndInv, NEW w \in Written, RecordRealtimeLog(w) PROVE IndInv'
  <1>1. TypeOK /\ AtRecord /\ Records(w) /\ Realtime /\ att \in AttemptType
    BY DEF IndInv, PlaceInv, RecordRealtimeLog, Records, TypeOK
  <1>2. /\ logs' \in [usage : LogQuota, charged : LogQuota, refund : LogQuota, fee : LogQuota]
        /\ lost' \in BOOLEAN
        /\ logs'.charged = -1 /\ logs'.refund = -1 /\ logs'.fee = -1
        /\ logs'.usage = ses.taken \/ (lost' /\ logs'.usage = -1)
        /\ UNCHANGED <<req, retry, info, ses, fee, pending, spent, breached>>
    BY <1>1, RecordsTyped
  <1>3. CASE att.err = "none" /\ att' = [att EXCEPT !.handled = TRUE] /\ pc' = "done"
    <2>1. att' \in AttemptType /\ att'.err = "none"
      BY <1>1, <1>3 DEF AttemptType
    <2>2. TypeOK'
      BY <1>1, <1>2, <1>3, <2>1 DEF TypeOK, Places
    <2> QED BY <1>1, <1>3, <2>1, <2>2, ServedDone
  <1>4. CASE /\ att' = [att EXCEPT !.handled = TRUE, !.err = "plain",
                          !.errOutcome = IF att.err = "none" THEN "billable" ELSE att.errOutcome]
             /\ pc' = "failed"
    <2>1. /\ att' \in AttemptType /\ att'.err = "plain" /\ att'.handled
          /\ att'.usage = att.usage /\ (att.err = "none" => att'.errOutcome = "billable")
      <3>1. "billable" \in Outcomes
        BY DEF Outcomes
      <3>2. CASE att.err = "none"
        BY <1>1, <1>4, <3>1, <3>2 DEF AttemptType
      <3>3. CASE att.err # "none"
        BY <1>1, <1>4, <3>3 DEF AttemptType
      <3> QED BY <3>2, <3>3
    <2>2. Outcome(att') = "billable"
      <3>1. att.err = "none" \/ att.usage
        BY <1>1 DEF AtRecord, Served
      <3> QED BY <2>1, <3>1, EvidenceCounts
    <2>3. TypeOK'
      BY <1>1, <1>2, <1>4, <2>1 DEF TypeOK, Places
    <2>4. FailedHandled'
      BY <1>1, <1>2, <2>1, <2>2 DEF AtRecord, Untouched, FailedHandled, Realtime
    <2>5. spent' <= 1 /\ ~pending' /\ fee' = 0
      BY <1>1, <1>2 DEF AtRecord, Served, Untouched
    <2>6. PlaceInv'
      BY <1>4, <2>1, <2>4, <2>5 DEF PlaceInv, AtFailed
    <2> QED BY <2>3, <2>5, <2>6, Arrive
  <1> QED BY <1>3, <1>4 DEF RecordRealtimeLog, Goto

(***************************************************************************)
(* The verdict on a failed attempt, and its charge.                        *)
(***************************************************************************)
LEMMA OutcomeTyped == ASSUME NEW a \in AttemptType PROVE Outcome(a) \in Outcomes
  <1>1. a.errOutcome \in Outcomes
    BY DEF AttemptType
  <1> QED BY <1>1 DEF Outcome, ClassifyAttempt, Outcomes

\* The next attempt follows on one that cost nothing and that nobody saw.
LEMMA DecideInv == IndInv /\ Decide => IndInv'
  <1> SUFFICES ASSUME IndInv, Decide PROVE IndInv'
    OBVIOUS
  <1> DEFINE outcome == Outcome(att)
  <1>1. TypeOK /\ AtFailed /\ att \in AttemptType /\ spent \in Nat
    BY Amounts DEF IndInv, PlaceInv, Decide, TypeOK
  <1>2. UNCHANGED <<req, ses, logs, fee, pending, lost, spent, breached>>
    BY DEF Decide
  <1>3. outcome \in Outcomes
    BY <1>1, OutcomeTyped
  <1>4. att' = [att EXCEPT !.outcome = outcome]
    BY DEF Decide
  <1>5. outcome = "billable" => att.err = "plain"
    <2>1. att.err = "violation" => outcome = "nonbillable"
      BY DEF Outcome
    <2>2. att.err \in {"none", "plain", "violation"} /\ att.err # "none"
      BY <1>1 DEF AtFailed, AttemptType
    <2> QED BY <2>1, <2>2
  <1>6. \/ ShouldCharge(outcome) /\ pc' = (IF info.settled THEN "deferred" ELSE "stage")
           /\ UNCHANGED <<retry, info>>
        \/ ShouldRetry(outcome) /\ pc' = "attempt" /\ retry' = retry + 1 /\ UNCHANGED info
        \/ /\ ~ShouldCharge(outcome) /\ pc' = "deferred" /\ UNCHANGED retry
           /\ AutoGroup /\ att.handled /\ ~info.settled => info' = [info EXCEPT !.billing = FALSE]
           /\ ~(AutoGroup /\ att.handled /\ ~info.settled) => info' = info
    <2>1. CASE ShouldCharge(outcome)
      BY <2>1 DEF Decide, Goto
    <2>2. CASE ~ShouldCharge(outcome) /\ ShouldRetry(outcome)
      BY <2>2 DEF Decide, Goto
    <2>3. CASE ~ShouldCharge(outcome) /\ ~ShouldRetry(outcome)
      BY <2>3 DEF Decide, Goto
    <2> QED BY <2>1, <2>2, <2>3
  <1> HIDE DEF outcome
  <1>7. att' \in AttemptType /\ att'.outcome = outcome /\ att'.err = att.err
    BY <1>1, <1>3, <1>4 DEF AttemptType
  <1>8. CASE FailedUnsettled
    <2>1. info' = info
      BY <1>6, <1>8 DEF FailedUnsettled
    <2>2. Reserved' /\ Untouched' /\ spent' <= 1 /\ ~info.settled
      BY <1>1, <1>2, <1>8, <2>1
         DEF AtFailed, FailedUnsettled, Reserved, Holding, Refundable, Untouched
    <2>3. CASE ShouldCharge(outcome) /\ pc' = (IF info.settled THEN "deferred" ELSE "stage")
               /\ UNCHANGED <<retry, info>>
      <3>1. pc' = "stage" /\ outcome = "billable"
        BY <2>2, <2>3 DEF ShouldCharge
      <3>2. AtStage'
        BY <1>5, <1>7, <2>2, <3>1 DEF AtStage, Billed
      <3>3. TypeOK'
        BY <1>1, <1>2, <1>7, <2>1, <2>3, <3>1 DEF TypeOK, Places
      <3>4. PlaceInv'
        BY <3>1, <3>2 DEF PlaceInv
      <3> QED BY <2>2, <3>3, <3>4, Arrive DEF Untouched
    <2>4. CASE ShouldRetry(outcome) /\ pc' = "attempt" /\ retry' = retry + 1 /\ UNCHANGED info
      <3>1. spent' = 0
        BY <1>1, <1>2, <1>8, <2>2, <2>4 DEF ShouldRetry, FailedUnsettled, outcome
      <3>2. AtAttempt'
        BY <2>2, <3>1 DEF AtAttempt
      <3>3. TypeOK'
        BY <1>1, <1>2, <1>7, <2>4, ConstantsAssumption DEF TypeOK, Places, ShouldRetry
      <3>4. PlaceInv'
        BY <2>4, <3>2 DEF PlaceInv
      <3> QED BY <2>2, <3>3, <3>4, Arrive DEF Untouched
    <2>5. CASE pc' = "deferred" /\ UNCHANGED retry
      <3>1. AtDeferred'
        BY <2>2 DEF AtDeferred
      <3>2. TypeOK'
        BY <1>1, <1>2, <1>7, <2>1, <2>5 DEF TypeOK, Places
      <3>3. PlaceInv'
        BY <2>5, <3>1 DEF PlaceInv
      <3> QED BY <2>2, <3>2, <3>3, Arrive DEF Untouched
    <2> QED BY <1>6, <2>3, <2>4, <2>5
  <1>9. CASE FailedHandled
    <2>1. outcome = "billable" /\ att.handled /\ Realtime
      BY <1>9 DEF FailedHandled, outcome
    <2>2. /\ pc' = "deferred" /\ UNCHANGED retry
          /\ AutoGroup /\ ~info.settled => info' = [info EXCEPT !.billing = FALSE]
          /\ ~(AutoGroup /\ ~info.settled) => info' = info
      BY <1>6, <2>1 DEF ShouldCharge, ShouldRetry
    <2>3. info \in [billing : BOOLEAN, finalPre : Nat, settled : BOOLEAN]
      BY <1>1 DEF TypeOK
    <2>4. /\ info' \in [billing : BOOLEAN, finalPre : Nat, settled : BOOLEAN]
          /\ Refundable' => ~AutoGroup
      <3>1. CASE AutoGroup /\ ~info.settled
        <4>1. info' = [info EXCEPT !.billing = FALSE]
          BY <2>2, <3>1
        <4>2. info'.billing = FALSE
          BY <2>3, <4>1
        <4> QED BY <2>3, <4>1, <4>2 DEF Refundable
      <3>2. CASE ~(AutoGroup /\ ~info.settled)
        <4>1. info' = info
          BY <2>2, <3>2
        <4>2. AutoGroup => ses.state # "open"
          BY <1>9, <3>2 DEF FailedHandled
        <4> QED BY <1>2, <2>3, <4>1, <4>2 DEF Refundable
      <3> QED BY <3>1, <3>2
    <2>5. Settled'
      BY <1>2, <1>9, <2>1, <2>4 DEF FailedHandled, Settled, AutoGroup, Realtime
    <2>6. Billed' /\ spent' <= 1
      BY <1>1, <1>2, <1>5, <1>7, <2>1 DEF Billed, AtFailed
    <2>7. TypeOK'
      BY <1>1, <1>2, <1>7, <2>2, <2>4 DEF TypeOK, Places
    <2>8. PlaceInv'
      BY <2>2, <2>5, <2>6 DEF PlaceInv, AtDeferred
    <2> QED BY <1>2, <1>9, <2>6, <2>7, <2>8, Arrive DEF FailedHandled
  <1> QED BY <1>1, <1>8, <1>9 DEF AtFailed

\* The intent covers the reserve and the price.
LEMMA PendingCovers ==
    ASSUME TypeOK
    PROVE  /\ PendingQuota \in Nat /\ PendingQuota >= ChargedAttemptQuota
           /\ PendingQuota >= info.finalPre
  <1>1. ChargedAttemptQuota \in Nat /\ ReservedQuota \in Nat /\ info.finalPre \in Nat
    BY Amounts
  <1>2. PendingQuota = Max({ChargedAttemptQuota, ReservedQuota, info.finalPre})
    BY DEF PendingQuota
  <1>3. /\ PendingQuota \in {ChargedAttemptQuota, ReservedQuota, info.finalPre}
        /\ PendingQuota >= ChargedAttemptQuota /\ PendingQuota >= info.finalPre
    <2>1. \A x, y, z \in Nat : /\ Max({x, y, z}) \in {x, y, z}
                               /\ Max({x, y, z}) >= x /\ Max({x, y, z}) >= z
      BY MaxOfThree
    <2> QED BY <1>1, <1>2, <2>1
  <1> QED BY <1>1, <1>3

LEMMA StageInv == IndInv /\ StageIntent => IndInv'
  <1> SUFFICES ASSUME IndInv, StageIntent PROVE IndInv'
    OBVIOUS
  <1>1. TypeOK /\ AtStage
    BY DEF IndInv, PlaceInv, StageIntent
  <1>2. /\ UNCHANGED <<req, retry, att, info, ses, fee, lost, spent, breached>>
        /\ pc' = "settleCharged" /\ pending' = TRUE
        /\ logs' = [logs EXCEPT !.charged = PendingQuota]
    BY DEF StageIntent, Goto
  <1>3. PendingQuota \in Nat /\ PendingQuota >= ChargedAttemptQuota /\ PendingQuota >= ses.taken
    BY <1>1, PendingCovers DEF AtStage, Reserved, Holding
  <1>4. /\ logs' \in [usage : LogQuota, charged : LogQuota, refund : LogQuota, fee : LogQuota]
        /\ logs'.usage = -1 /\ logs'.refund = -1 /\ logs'.fee = -1
        /\ logs'.charged = PendingQuota
    <2>1. logs = NoLogs /\ PendingQuota \in LogQuota
      BY <1>1, <1>3 DEF AtStage, Untouched, LogQuota
    <2> QED BY <1>2, <2>1 DEF NoLogs, LogQuota
  <1>5. TypeOK'
    BY <1>1, <1>2, <1>4 DEF TypeOK, Places
  <1>6. ChargedAttemptQuota' = ChargedAttemptQuota
    BY <1>2 DEF ChargedAttemptQuota
  <1>7. Reserved' /\ Billed'
    BY <1>1, <1>2 DEF AtStage, Reserved, Holding, Refundable, Billed
  <1>8. Staged' /\ spent' <= 1
    BY <1>1, <1>2, <1>3, <1>4 DEF AtStage, Untouched, Staged, Billed
  <1>9. PlaceInv'
    BY <1>2, <1>3, <1>4, <1>6, <1>7, <1>8 DEF PlaceInv, AtSettleCharged
  <1> QED BY <1>5, <1>8, <1>9, Arrive DEF Staged

LEMMA StageFailsInv == IndInv /\ StageIntentFails => IndInv'
  <1> SUFFICES ASSUME IndInv, StageIntentFails PROVE IndInv'
    OBVIOUS
  <1>1. TypeOK /\ AtStage
    BY DEF IndInv, PlaceInv, StageIntentFails
  <1>2. /\ UNCHANGED <<req, retry, att, ses, logs, fee, pending, spent, breached>>
        /\ pc' = "deferred" /\ lost' = TRUE /\ info' = [info EXCEPT !.billing = FALSE]
    BY DEF StageIntentFails, Goto
  <1>3. info' \in [billing : BOOLEAN, finalPre : Nat, settled : BOOLEAN] /\ ~Refundable'
    BY <1>1, <1>2 DEF TypeOK, Refundable
  <1>4. TypeOK'
    BY <1>1, <1>2, <1>3 DEF TypeOK, Places
  <1>5. Settled' /\ Billed'
    BY <1>1, <1>2, <1>3 DEF AtStage, Untouched, NoLogs, Settled, Billed
  <1>6. PlaceInv'
    BY <1>2, <1>5 DEF PlaceInv, AtDeferred
  <1> QED BY <1>1, <1>2, <1>4, <1>5, <1>6, Arrive DEF AtStage, Untouched, Billed

LEMMA SettleChargedInv == ASSUME IndInv, NEW res \in Results, SettleChargedAttempt(res) PROVE IndInv'
  <1>1. TypeOK /\ AtSettleCharged /\ att \in AttemptType
    BY DEF IndInv, PlaceInv, SettleChargedAttempt, TypeOK
  <1>2. UNCHANGED <<req, retry, logs, fee, pending, lost, spent, breached>> /\ pc' = "final"
    BY DEF SettleChargedAttempt, Goto
  <1>3. /\ Holding /\ info.finalPre = req.reserve /\ Staged /\ Billed
        /\ logs.charged >= ChargedAttemptQuota /\ ChargedAttemptQuota \in Nat
        /\ ses.taken \in Nat /\ ses.taken = info.finalPre
    BY <1>1, Amounts DEF AtSettleCharged, Reserved, Holding
  <1>4. PICK quota \in Nat :
            /\ att' = [att EXCEPT !.logQuota = quota]
            /\ info' \in [billing : BOOLEAN, finalPre : Nat, settled : BOOLEAN]
            /\ ses' \in [state : {"none", "open", "settled", "refunded"}, taken : Nat]
            /\ ses'.taken = quota /\ ~Refundable' /\ logs.charged >= quota
    <2>1. CASE res # "failed"
      <3>1. SettleBilling(ChargedAttemptQuota, res) /\ att' = [att EXCEPT !.logQuota = ChargedAttemptQuota]
        BY <2>1 DEF SettleChargedAttempt
      <3>2. /\ info' \in [billing : BOOLEAN, finalPre : Nat, settled : BOOLEAN]
            /\ ses' \in [state : {"none", "open", "settled", "refunded"}, taken : Nat]
            /\ ses'.taken = ChargedAttemptQuota /\ ses'.state # "open"
        BY <1>1, <1>3, <2>1, <3>1, SettleTakes
      <3> QED BY <1>3, <3>1, <3>2 DEF Refundable
    <2>2. CASE res = "failed"
      <3> DEFINE kept == IF ReservedQuota = 0 THEN info.finalPre ELSE ReservedQuota
      <3>1. /\ ses' = ses /\ info' = [info EXCEPT !.billing = FALSE]
            /\ att' = [att EXCEPT !.logQuota = kept]
        BY <2>2 DEF SettleChargedAttempt
      <3>2. kept = ses.taken
        BY <1>3 DEF ReservedQuota
      <3>3. info' \in [billing : BOOLEAN, finalPre : Nat, settled : BOOLEAN] /\ ~Refundable'
        BY <1>1, <3>1 DEF TypeOK, Refundable
      <3>4. ses \in [state : {"none", "open", "settled", "refunded"}, taken : Nat]
        BY <1>1 DEF TypeOK
      <3> HIDE DEF kept
      <3> QED BY <1>3, <3>1, <3>2, <3>3, <3>4 DEF Staged
    <2> QED BY <2>1, <2>2
  <1>5. /\ att' \in AttemptType /\ att'.logQuota = quota /\ att'.err = att.err
        /\ att'.outcome = att.outcome
    BY <1>1, <1>4 DEF AttemptType
  <1>6. TypeOK'
    BY <1>1, <1>2, <1>4, <1>5 DEF TypeOK, Places
  <1>7. Staged' /\ Billed'
    BY <1>2, <1>3, <1>4, <1>5 DEF Staged, Billed
  <1>8. PlaceInv'
    BY <1>2, <1>4, <1>5, <1>7 DEF PlaceInv, AtFinal
  <1> QED BY <1>6, <1>7, <1>8, Arrive DEF Staged, Billed

LEMMA FinalizeInv == IndInv /\ (FinalizeIntent \/ FinalizeIntentFails) => IndInv'
  <1> SUFFICES ASSUME IndInv, FinalizeIntent \/ FinalizeIntentFails PROVE IndInv'
    OBVIOUS
  <1>1. TypeOK /\ AtFinal
    BY DEF IndInv, PlaceInv, FinalizeIntent, FinalizeIntentFails
  <1>2. UNCHANGED <<req, retry, att, info, ses, fee, lost, spent, breached>> /\ pc' = "deferred"
    BY DEF FinalizeIntent, FinalizeIntentFails, Goto
  <1>3. /\ ~Refundable' /\ Billed' /\ Staged /\ fee' = 0
        /\ logs \in [usage : LogQuota, charged : LogQuota, refund : LogQuota, fee : LogQuota]
    BY <1>1, <1>2 DEF AtFinal, Refundable, Billed, Staged, TypeOK
  <1>4. /\ logs' \in [usage : LogQuota, charged : LogQuota, refund : LogQuota, fee : LogQuota]
        /\ pending' \in BOOLEAN
        /\ logs'.usage = -1 /\ logs'.refund = -1 /\ logs'.fee = -1
        /\ \/ ~pending' /\ logs'.charged = ses'.taken
           \/ pending' /\ logs'.charged >= ses'.taken
    <2>1. CASE FinalizeIntent
      <3>1. att.logQuota \in LogQuota /\ att.logQuota = ses.taken
        BY <1>1, Amounts DEF AtFinal, LogQuota
      <3>2. logs' = [logs EXCEPT !.charged = att.logQuota] /\ pending' = FALSE
        BY <2>1 DEF FinalizeIntent
      <3> QED BY <1>2, <1>3, <3>1, <3>2 DEF Staged
    <2>2. CASE FinalizeIntentFails
      BY <1>2, <1>3, <2>2 DEF FinalizeIntentFails, Staged
    <2> QED BY <2>1, <2>2
  <1>5. TypeOK'
    BY <1>1, <1>2, <1>4 DEF TypeOK, Places
  <1>6. Settled'
    BY <1>3, <1>4 DEF Settled
  <1>7. PlaceInv'
    BY <1>2, <1>3, <1>6 DEF PlaceInv, AtDeferred
  <1> QED BY <1>3, <1>4, <1>5, <1>7, Arrive DEF Billed

(***************************************************************************)
(* The deferred refund, and the violation fee.                             *)
(***************************************************************************)
\* Where a request ends without an error of its refund, its logs and its money.
LEMMA DoneBalanced ==
    ASSUME TypeOK', pc' = "done", Settled, Billed', spent' <= 1, TypeOK,
           UNCHANGED <<req, logs, fee, pending, lost, breached>>,
           ses'.taken = ses.taken \/ (Refundable /\ ses'.taken = 0)
    PROVE  IndInv'
  <1>1. /\ ses.taken \in Nat /\ fee' = 0 /\ logs.refund = -1 /\ logs.fee = -1
        /\ logs.usage \in Int /\ logs.charged \in Int
    BY Amounts DEF Settled
  <1>2. /\ Reported(-1) = 0 /\ Reported(ses.taken) = ses.taken
        /\ Reported(logs.charged) = IF logs.charged > 0 THEN logs.charged ELSE 0
        /\ Reported(logs.usage) = IF logs.usage > 0 THEN logs.usage ELSE 0
    BY <1>1, ReportedIs
  <1>3. LogSum' = Reported(logs.usage) + Reported(logs.charged) /\ LogSum' \in Nat
    BY <1>1, <1>2 DEF LogSum
  <1>4. /\ ~lost => LogSum' >= ses.taken
        /\ ~pending => LogSum' <= ses.taken
    BY <1>1, <1>2, <1>3 DEF Settled
  <1>5. ses'.taken <= ses.taken /\ ses'.taken \in Nat
    BY <1>1
  <1>6. req.mode = "auto" \/ req.format = "http" => ses'.taken = ses.taken
    BY DEF Settled, AutoGroup, Realtime
  <1>7. ReportedWasTaken'
    <2>1. NeverUnderReported'
      BY <1>1, <1>3, <1>4, <1>5 DEF NeverUnderReported
    <2>2. req.mode = "auto" \/ req.format = "http" => NeverOverReported'
      BY <1>1, <1>3, <1>4, <1>5, <1>6 DEF NeverOverReported
    <2> QED BY <2>1, <2>2 DEF ReportedWasTaken
  <1>8. AtDone'
    BY <1>7 DEF AtDone, UnbilledFailureIsFree, Billed
  <1>9. PlaceInv'
    BY <1>8 DEF PlaceInv
  <1>10. pending' => logs'.charged >= ses'.taken
    BY <1>1, <1>5 DEF Settled
  <1> QED BY <1>1, <1>9, <1>10, Arrive

LEMMA RefundInv == IndInv /\ DeferredRefund => IndInv'
  <1> SUFFICES ASSUME IndInv, DeferredRefund PROVE IndInv'
    OBVIOUS
  <1>1. TypeOK /\ AtDeferred
    BY DEF IndInv, PlaceInv, DeferredRefund
  <1>2. UNCHANGED <<req, retry, att, info, logs, fee, pending, lost, spent, breached>>
    BY DEF DeferredRefund
  <1>3. /\ Refundable => ses' = [state |-> "refunded", taken |-> 0]
        /\ ~Refundable => ses' = ses
        /\ pc' = IF Violation /\ FeeQuota > 0 THEN "feeStage" ELSE "done"
    BY DEF DeferredRefund, Refundable, Goto
  <1>4. ses' \in [state : {"none", "open", "settled", "refunded"}, taken : Nat]
    BY <1>1, <1>3 DEF TypeOK
  <1>5. TypeOK'
    BY <1>1, <1>2, <1>3, <1>4 DEF TypeOK, Places
  <1>6. CASE Reserved /\ Untouched /\ spent <= 1
    <2>1. ses'.taken = 0
      BY <1>3, <1>6 DEF Reserved, Holding
    <2>2. Untouched' /\ fee' = 0 /\ ~pending' /\ spent' <= 1
      BY <1>2, <1>6 DEF Untouched
    <2>3. LogSum' = 0
      <3>1. Reported(-1) = 0
        BY ReportedIs
      <3> QED BY <2>2, <3>1 DEF Untouched, NoLogs, LogSum
    <2>4. AtDone'
      BY <2>1, <2>2, <2>3 DEF AtDone, ReportedWasTaken, NeverUnderReported, NeverOverReported,
                              UnbilledFailureIsFree
    <2>5. AtFeeStage'
      BY <2>1, <2>2 DEF AtFeeStage
    <2>6. PlaceInv'
      BY <1>3, <2>4, <2>5 DEF PlaceInv
    <2> QED BY <1>5, <2>2, <2>6, Arrive
  <1>7. CASE Settled /\ Billed
    <2>1. pc' = "done"
      BY <1>3, <1>7 DEF Billed, Violation
    <2>2. Billed' /\ spent' <= 1
      BY <1>2, <1>7 DEF Billed
    <2>3. ses'.taken = ses.taken \/ (Refundable /\ ses'.taken = 0)
      BY <1>3
    <2> QED BY <1>1, <1>2, <1>5, <1>7, <2>1, <2>2, <2>3, DoneBalanced
  <1> QED BY <1>1, <1>6, <1>7 DEF AtDeferred

LEMMA RefundFailsInv ==
    ASSUME IndInv, NEW left \in 0..ses.taken, DeferredRefundFails(left)
    PROVE  IndInv'
  <1>1. TypeOK /\ AtDeferred /\ Refundable /\ ses.taken \in Nat
    BY Amounts DEF IndInv, PlaceInv, DeferredRefundFails, Refundable
  <1>2. /\ UNCHANGED <<req, retry, att, info, logs, fee, pending, lost, spent, breached>>
        /\ pc' = "refundLog" /\ ses' = [ses EXCEPT !.taken = left]
    BY DEF DeferredRefundFails, Goto
  <1>3. left \in Nat
    BY <1>1
  <1>4. TypeOK'
    BY <1>1, <1>2, <1>3 DEF TypeOK, Places
  <1>5. AtRefundLog'
    <2>1. CASE Reserved /\ Untouched /\ spent <= 1
      BY <1>2, <2>1 DEF Untouched, NoLogs, AtRefundLog
    <2>2. CASE Settled /\ Billed
      <3>1. ~AutoGroup /\ Realtime /\ logs.charged = -1 /\ ~pending
        BY <1>1, <2>2 DEF Settled
      <3>2. /\ spent <= 1 /\ fee = 0 /\ logs.refund = -1 /\ logs.fee = -1
        BY <2>2 DEF Settled, Billed
      <3> QED BY <1>2, <3>1, <3>2 DEF AtRefundLog, AutoGroup, Realtime
    <2> QED BY <1>1, <2>1, <2>2 DEF AtDeferred
  <1>6. PlaceInv'
    BY <1>2, <1>5 DEF PlaceInv
  <1> QED BY <1>4, <1>5, <1>6, Arrive DEF AtRefundLog

LEMMA HeldReserveInv == ASSUME IndInv, NEW w \in Written, RecordHeldReserve(w) PROVE IndInv'
  <1>1. TypeOK /\ AtRefundLog /\ ses.taken \in Nat /\ logs.usage \in Int
    BY Amounts DEF IndInv, PlaceInv, RecordHeldReserve
  <1>2. UNCHANGED <<req, retry, att, info, ses, fee, pending, spent, breached>> /\ pc' = "done"
    BY DEF RecordHeldReserve, Goto
  <1>3. logs \in [usage : LogQuota, charged : LogQuota, refund : LogQuota, fee : LogQuota]
    BY <1>1 DEF TypeOK
  <1>4. /\ logs' \in [usage : LogQuota, charged : LogQuota, refund : LogQuota, fee : LogQuota]
        /\ lost' \in BOOLEAN
        /\ logs'.usage = logs.usage /\ logs'.charged = -1 /\ logs'.fee = -1
        /\ logs'.refund = ses.taken \/ (lost' /\ logs'.refund = -1)
    <2>1. CASE w = "lost"
      BY <1>1, <1>3, <2>1 DEF RecordHeldReserve, AtRefundLog
    <2>2. CASE w # "lost"
      <3>1. logs' = [logs EXCEPT !.refund = ses.taken] /\ ses.taken \in LogQuota
        BY <1>1, <2>2 DEF RecordHeldReserve, LogQuota
      <3>2. lost' \in BOOLEAN
        BY <1>1 DEF RecordHeldReserve, TypeOK
      <3> QED BY <1>1, <1>3, <3>1, <3>2 DEF AtRefundLog
    <2> QED BY <2>1, <2>2
  <1>5. TypeOK'
    BY <1>1, <1>2, <1>4 DEF TypeOK, Places
  <1>6. fee' = 0 /\ ~pending' /\ spent' <= 1
    BY <1>1, <1>2 DEF AtRefundLog
  <1>7. /\ LogSum' = Reported(logs.usage) + Reported(logs'.refund)
        /\ Reported(logs.usage) = IF logs.usage > 0 THEN logs.usage ELSE 0
        /\ logs'.refund = ses.taken => Reported(logs'.refund) = ses.taken
        /\ logs'.refund = -1 => Reported(logs'.refund) = 0
    <2>1. Reported(-1) = 0 /\ Reported(ses.taken) = ses.taken
      BY <1>1, ReportedIs
    <2>2. Reported(logs.usage) = IF logs.usage > 0 THEN logs.usage ELSE 0
      BY <1>1, ReportedIs
    <2>3. Reported(logs'.refund) \in Int
      BY <1>1, <1>4, <2>1
    <2> QED BY <1>1, <1>4, <2>1, <2>2, <2>3 DEF LogSum
  <1>8. NeverUnderReported'
    BY <1>1, <1>2, <1>4, <1>6, <1>7 DEF NeverUnderReported
  <1>9. req.mode = "auto" \/ req.format = "http" => NeverOverReported'
    <2>1. req.mode = "auto" \/ req.format = "http" => logs.usage = -1
      BY <1>1 DEF AtRefundLog, AutoGroup, Realtime
    <2> QED BY <1>1, <1>2, <1>4, <1>6, <1>7, <2>1 DEF NeverOverReported
  <1>10. UnbilledFailureIsFree'
    BY <1>1, <1>4 DEF UnbilledFailureIsFree
  <1>11. PlaceInv'
    BY <1>2, <1>8, <1>9, <1>10 DEF PlaceInv, AtDone, ReportedWasTaken
  <1> QED BY <1>5, <1>6, <1>11, Arrive

\* The end of a request that is fined, or whose fine failed: the fee is reported,
\* and nothing else was taken.
LEMMA FineDone ==
    ASSUME TypeOK', pc' = "done", ses'.taken = 0, ~pending', spent' <= 1,
           logs'.usage = -1, logs'.charged = -1, logs'.refund = -1,
           logs'.fee = fee' \/ (logs'.fee = -1 /\ fee' = 0)
    PROVE  IndInv'
  <1>1. fee' \in Nat
    BY DEF TypeOK
  <1>2. Reported(-1) = 0 /\ Reported(fee') = fee'
    BY <1>1, ReportedIs
  <1>3. LogSum' = fee'
    BY <1>1, <1>2 DEF LogSum
  <1>4. AtDone'
    <2>1. \A n \in Nat : 0 + n = n /\ n <= n /\ n >= n
      OBVIOUS
    <2>2. ses'.taken + fee' = fee' /\ LogSum' <= fee' /\ LogSum' >= fee'
      BY <1>1, <1>3, <2>1, Zenon
    <2>3. NeverUnderReported' /\ NeverOverReported'
      BY <2>2 DEF NeverUnderReported, NeverOverReported
    <2> QED BY <2>3 DEF AtDone, ReportedWasTaken, UnbilledFailureIsFree
  <1>5. PlaceInv'
    BY <1>4 DEF PlaceInv
  <1> QED BY <1>5 DEF IndInv, IntentCoversTaken, FeeOnlyAfterBaseReturned

LEMMA StageFeeInv == ASSUME IndInv, NEW ok \in BOOLEAN, StageFee(ok) PROVE IndInv'
  <1>1. TypeOK /\ AtFeeStage
    BY DEF IndInv, PlaceInv, StageFee
  <1>2. UNCHANGED <<req, retry, att, info, ses, fee, pending, lost, spent, breached>>
    BY DEF StageFee
  <1>3. logs = NoLogs /\ fee' = 0 /\ ~pending' /\ ~lost' /\ spent' <= 1 /\ ses'.taken = 0
    BY <1>1, <1>2 DEF AtFeeStage, Untouched
  <1>4. CASE ok
    <2>1. logs' = [NoLogs EXCEPT !.fee = 0] /\ pc' = "feeCommit"
      BY <1>3, <1>4 DEF StageFee, Goto
    <2>2. TypeOK'
      BY <1>1, <1>2, <2>1 DEF TypeOK, Places, NoLogs, LogQuota
    <2>3. PlaceInv'
      BY <1>3, <2>1 DEF PlaceInv, AtFeeCommit
    <2> QED BY <1>3, <2>2, <2>3, Arrive
  <1>5. CASE ~ok
    <2>1. logs' = logs /\ pc' = "done"
      BY <1>5 DEF StageFee, Goto
    <2>2. TypeOK'
      BY <1>1, <1>2, <2>1 DEF TypeOK, Places
    <2> QED BY <1>3, <2>1, <2>2, FineDone DEF NoLogs
  <1> QED BY <1>4, <1>5

LEMMA CommitFeeInv == IndInv /\ (CommitViolationFee \/ CommitViolationFeeFails) => IndInv'
  <1> SUFFICES ASSUME IndInv, CommitViolationFee \/ CommitViolationFeeFails PROVE IndInv'
    OBVIOUS
  <1>1. TypeOK /\ AtFeeCommit
    BY DEF IndInv, PlaceInv, CommitViolationFee, CommitViolationFeeFails
  <1>2. UNCHANGED <<req, retry, att, info, ses, pending, lost, spent, breached>> /\ pc' = "done"
    BY DEF CommitViolationFee, CommitViolationFeeFails, Goto
  <1>3. PICK n \in Nat : fee' = n /\ logs' = [logs EXCEPT !.fee = n]
    <2>1. CASE CommitViolationFee
      BY <2>1, ConstantsAssumption DEF CommitViolationFee
    <2>2. CASE CommitViolationFeeFails
      BY <1>1, <2>2 DEF CommitViolationFeeFails, AtFeeCommit
    <2> QED BY <2>1, <2>2
  <1>4. logs' = [usage |-> -1, charged |-> -1, refund |-> -1, fee |-> n]
    BY <1>1, <1>3 DEF AtFeeCommit, NoLogs
  <1>5. TypeOK'
    BY <1>1, <1>2, <1>3, <1>4 DEF TypeOK, Places, LogQuota
  <1>6. ses'.taken = 0 /\ ~pending' /\ spent' <= 1
    BY <1>1, <1>2 DEF AtFeeCommit
  <1> QED BY <1>2, <1>3, <1>4, <1>5, <1>6, FineDone

(***************************************************************************)
(* Every step, and what follows.                                           *)
(***************************************************************************)
LEMMA CrashInv == IndInv /\ Crash => IndInv'
  <1> SUFFICES ASSUME IndInv, Crash PROVE IndInv'
    OBVIOUS
  <1>1. /\ pc' = "crashed"
        /\ UNCHANGED <<req, retry, att, info, ses, logs, fee, pending, lost, spent, breached>>
    BY DEF Crash, Goto
  <1>2. TypeOK'
    BY <1>1 DEF IndInv, TypeOK, Places
  <1>3. PlaceInv'
    BY <1>1 DEF PlaceInv
  <1> QED BY <1>1, <1>2, <1>3 DEF IndInv, IntentCoversTaken,
                                  FeeOnlyAfterBaseReturned

LEMMA StutterInv == IndInv /\ UNCHANGED vars => IndInv'
  <1> SUFFICES ASSUME IndInv, UNCHANGED vars PROVE IndInv'
    OBVIOUS
  <1>1. UNCHANGED <<pc, req, retry, att, info, ses, logs, fee, pending, lost, spent, breached>>
    BY DEF vars
  <1>2. TypeOK'
    BY <1>1 DEF IndInv, TypeOK
  <1>3. Untouched' = Untouched /\ Holding' = Holding /\ Reserved' = Reserved /\ Refundable' = Refundable
    BY <1>1 DEF Untouched, Reserved, Holding, Refundable
  <1>4. /\ (pc = "start" => AtStart)' /\ (pc = "attempt" => AtAttempt)'
        /\ (pc = "handler" => AtHandler)' /\ (pc = "stream" => AtStream)'
    BY <1>1, <1>3 DEF IndInv, PlaceInv, AtStart, AtAttempt, AtHandler, AtStream, Realtime
  <1>5. /\ (pc = "settle" => AtSettle)' /\ (pc = "record" => AtRecord)'
    BY <1>1, <1>3 DEF IndInv, PlaceInv, AtSettle, AtRecord, Served, Realtime
  <1>6. (pc = "failed" => AtFailed)'
    BY <1>1, <1>3 DEF IndInv, PlaceInv, AtFailed, FailedUnsettled, FailedHandled, Realtime
  <1>7. /\ (pc = "stage" => AtStage)' /\ (pc = "settleCharged" => AtSettleCharged)'
        /\ (pc = "final" => AtFinal)'
    <2>1. Billed' = Billed /\ Staged' = Staged /\ ChargedAttemptQuota' = ChargedAttemptQuota
      BY <1>1 DEF Billed, Staged, ChargedAttemptQuota
    <2> QED BY <1>1, <1>3, <2>1 DEF IndInv, PlaceInv, AtStage, AtSettleCharged, AtFinal
  <1>8. /\ (pc = "deferred" => AtDeferred)' /\ (pc = "refundLog" => AtRefundLog)'
    BY <1>1, <1>3 DEF IndInv, PlaceInv, AtDeferred, AtRefundLog, Settled, Billed, AutoGroup, Realtime
  <1>9. /\ (pc = "feeStage" => AtFeeStage)' /\ (pc = "feeCommit" => AtFeeCommit)'
    BY <1>1, <1>3 DEF IndInv, PlaceInv, AtFeeStage, AtFeeCommit
  <1>10. (pc = "done" => AtDone)'
    <2>1. LogSum' = LogSum
      BY <1>1 DEF LogSum
    <2> QED BY <1>1, <2>1 DEF IndInv, PlaceInv, AtDone, ReportedWasTaken, NeverUnderReported,
                              NeverOverReported, UnbilledFailureIsFree
  <1>11. PlaceInv'
    BY <1>4, <1>5, <1>6, <1>7, <1>8, <1>9, <1>10 DEF PlaceInv
  <1> QED BY <1>1, <1>2, <1>11 DEF IndInv, IntentCoversTaken,
                                   FeeOnlyAfterBaseReturned

LEMMA StepInv == IndInv /\ [Next]_vars => IndInv'
  <1> SUFFICES ASSUME IndInv, [Next]_vars PROVE IndInv'
    OBVIOUS
  <1>1. CASE Step
    <2>1. CASE PreConsume \/ PreConsumeRefused \/ NoChannel \/ NoBody
      BY <2>1, PreConsumeInv, RefusedInv, NoAttemptInv
    <2>2. CASE \E n \in Quotas, shown \in BOOLEAN : BeginAttempt(n, shown)
      BY <2>2, BeginInv
    <2>3. CASE HandlerFails \/ \E n \in Quotas : HandlerSucceeds(n)
      BY <2>3, HandlerFailsInv, HandlerSucceedsInv
    <2>4. CASE \E q \in Quotas, res \in {"ok", "refused", "unresolved"} : StreamUsage(q, res)
      BY <2>4, StreamUsageInv
    <2>5. CASE \E clean \in BOOLEAN, n \in Quotas : StreamEnds(clean, n)
      BY <2>5, StreamEndsInv
    <2>6. CASE \E d \in Breaks : StreamFailsEarly(d)
      BY <2>6, StreamFailsInv
    <2>7. CASE \E res \in Results : SettleSuccessfulBilling(res) \/ SettleChargedAttempt(res)
      BY <2>7, SettleInv, SettleChargedInv
    <2>8. CASE \E w \in Written : RecordTextLog(w) \/ RecordRealtimeLog(w) \/ RecordHeldReserve(w)
      BY <2>8, RecordTextInv, RecordRealtimeInv, HeldReserveInv
    <2>9. CASE Decide \/ StageIntent \/ StageIntentFails \/ FinalizeIntent \/ FinalizeIntentFails
      BY <2>9, DecideInv, StageInv, StageFailsInv, FinalizeInv
    <2>10. CASE DeferredRefund \/ \E left \in 0..ses.taken : DeferredRefundFails(left)
      BY <2>10, RefundInv, RefundFailsInv
    <2>11. CASE \/ \E ok \in BOOLEAN : StageFee(ok)
                \/ CommitViolationFee \/ CommitViolationFeeFails
      BY <2>11, StageFeeInv, CommitFeeInv
    <2> QED BY <1>1, <2>1, <2>2, <2>3, <2>4, <2>5, <2>6, <2>7, <2>8, <2>9, <2>10, <2>11 DEF Step
  <1>2. CASE Done \/ UNCHANGED vars
    BY <1>2, StutterInv DEF Done
  <1> QED BY <1>1, <1>2, CrashInv DEF Next

\* In a fixed group, nothing was billed or shown with a violation until the
\* attempt that is not tried again.
BreachInv ==
    /\ pc \in {"start", "attempt", "handler", "stream", "settle", "record"} => breached = 0
    /\ pc = "failed" => breached = 0 \/ ~att.retryable
    /\ spent + breached <= 1

LEMMA BreachStep ==
    ASSUME IndInv, IndInv', [Next]_vars, req.mode = "fixed", BreachInv
    PROVE  BreachInv'
  <1>1. /\ spent \in Nat /\ spent' \in Nat /\ spent' <= 1
        /\ breached \in Nat /\ breached' \in Nat
    BY ConstantsAssumption DEF IndInv, TypeOK
  <1>2. CASE HandlerFails
    <2>1. PICK d \in FailedAttempts :
            /\ att' = [att EXCEPT !.dispatched = d.dispatched, !.marked = d.marked,
                                  !.usage = d.usage, !.known = d.known, !.actual = d.actual,
                                  !.responded = att.responded \/ d.responded, !.err = d.err,
                                  !.errOutcome = d.errOutcome, !.retryable = d.retryable]
            /\ spent' = IF Visible(d) /\ d.err = "plain" THEN spent + 1 ELSE spent
            /\ breached' = IF Visible(d) /\ d.err = "violation" THEN breached + 1 ELSE breached
      BY <1>2 DEF HandlerFails
    <2>2. pc' = "failed" /\ spent = 0 /\ breached = 0
      BY <1>2 DEF HandlerFails, Goto, IndInv, PlaceInv, AtHandler, BreachInv
    <2>3. att'.retryable = d.retryable
      BY <2>1 DEF IndInv, TypeOK, AttemptType
    <2>4. d.err = "violation" => ~d.retryable
      BY DEF FailedAttempts
    <2> QED BY <1>1, <2>1, <2>2, <2>3, <2>4 DEF BreachInv
  <1>3. CASE Decide
    <2>1. pc = "failed" /\ UNCHANGED <<spent, breached>>
      BY <1>3 DEF Decide
    <2>2. pc' \in {"attempt", "stage", "deferred"} /\ (pc' = "attempt" => att.retryable)
      BY <1>3 DEF Decide, Goto, ShouldRetry, AutoGroup
    <2> QED BY <2>1, <2>2 DEF BreachInv
  <1>4. CASE /\ pc \in {"start", "attempt", "handler", "stream", "settle", "record"}
             /\ breached' = breached
    <2>1. breached = 0
      BY <1>4 DEF BreachInv
    <2>2. breached' = 0
      BY <1>4, <2>1
    <2>3. \A m, n \in Nat : m <= 1 /\ n = 0 => m + n <= 1
      OBVIOUS
    <2>4. spent' + breached' <= 1
      BY <1>1, <2>2, <2>3
    <2> QED BY <2>2, <2>4 DEF BreachInv
  <1>5. CASE /\ pc \notin {"start", "attempt", "handler", "stream", "settle", "record", "failed"}
             /\ pc' \notin {"start", "attempt", "handler", "stream", "settle", "record", "failed"}
             /\ UNCHANGED <<spent, breached>>
    BY <1>5 DEF BreachInv
  <1>6. CASE pc' = "crashed" /\ UNCHANGED <<spent, breached>>
    BY <1>6 DEF BreachInv
  <1>7. CASE UNCHANGED vars
    BY <1>7 DEF vars, BreachInv
  <1>8. CASE Crash \/ Done
    BY <1>6, <1>7, <1>8 DEF Crash, Done, Goto
  <1>9. CASE \/ PreConsume \/ PreConsumeRefused \/ NoChannel \/ NoBody
             \/ \E n \in Quotas, shown \in BOOLEAN : BeginAttempt(n, shown)
             \/ \E n \in Quotas : HandlerSucceeds(n)
    BY <1>4, <1>9 DEF PreConsume, PreConsumeRefused, NoChannel, NoBody, BeginAttempt, HandlerSucceeds
  <1>10. CASE \/ \E q \in Quotas, res \in {"ok", "refused", "unresolved"} : StreamUsage(q, res)
              \/ \E clean \in BOOLEAN, n \in Quotas : StreamEnds(clean, n)
              \/ \E d \in Breaks : StreamFailsEarly(d)
    BY <1>4, <1>10 DEF StreamUsage, StreamEnds, StreamFailsEarly
  <1>11. CASE \/ \E res \in Results : SettleSuccessfulBilling(res)
              \/ \E w \in Written : RecordTextLog(w) \/ RecordRealtimeLog(w)
    BY <1>4, <1>11 DEF SettleSuccessfulBilling, RecordTextLog, RecordRealtimeLog, Records
  <1>12. CASE \/ StageIntent \/ StageIntentFails \/ FinalizeIntent \/ FinalizeIntentFails
              \/ \E res \in Results : SettleChargedAttempt(res)
    BY <1>5, <1>12 DEF StageIntent, StageIntentFails, FinalizeIntent, FinalizeIntentFails,
                       SettleChargedAttempt, Goto
  <1>13. CASE \/ DeferredRefund
              \/ \E left \in 0..ses.taken : DeferredRefundFails(left)
              \/ \E w \in Written : RecordHeldReserve(w)
    BY <1>5, <1>13 DEF DeferredRefund, DeferredRefundFails, RecordHeldReserve, Goto
  <1>14. CASE \/ \E ok \in BOOLEAN : StageFee(ok)
              \/ CommitViolationFee \/ CommitViolationFeeFails
    BY <1>5, <1>14 DEF StageFee, CommitViolationFee, CommitViolationFeeFails, Goto
  <1>15. CASE Step
    BY <1>15, <1>2, <1>3, <1>9, <1>10, <1>11, <1>12, <1>13, <1>14 DEF Step
  <1> QED BY <1>7, <1>8, <1>15 DEF Next

LEMMA ModeStays == IndInv /\ [Next]_vars => req' = req
  <1> SUFFICES ASSUME [Next]_vars PROVE req' = req
    OBVIOUS
  <1>1. CASE \/ PreConsume \/ PreConsumeRefused \/ NoChannel \/ NoBody \/ HandlerFails \/ Decide
             \/ \E n \in Quotas, shown \in BOOLEAN : BeginAttempt(n, shown)
             \/ \E n \in Quotas : HandlerSucceeds(n)
    BY <1>1 DEF PreConsume, PreConsumeRefused, NoChannel, NoBody, BeginAttempt, HandlerSucceeds,
                HandlerFails, Decide
  <1>2. CASE \/ \E q \in Quotas, res \in {"ok", "refused", "unresolved"} : StreamUsage(q, res)
             \/ \E clean \in BOOLEAN, n \in Quotas : StreamEnds(clean, n)
             \/ \E d \in Breaks : StreamFailsEarly(d)
             \/ \E res \in Results : SettleSuccessfulBilling(res)
             \/ \E w \in Written : RecordTextLog(w) \/ RecordRealtimeLog(w)
    BY <1>2 DEF StreamUsage, StreamEnds, StreamFailsEarly, SettleSuccessfulBilling, RecordTextLog,
                RecordRealtimeLog, Records
  <1>3. CASE \/ StageIntent \/ StageIntentFails \/ FinalizeIntent \/ FinalizeIntentFails
             \/ \E res \in Results : SettleChargedAttempt(res)
             \/ DeferredRefund
             \/ \E left \in 0..ses.taken : DeferredRefundFails(left)
             \/ \E w \in Written : RecordHeldReserve(w)
             \/ \E ok \in BOOLEAN : StageFee(ok)
             \/ CommitViolationFee \/ CommitViolationFeeFails
    BY <1>3 DEF StageIntent, StageIntentFails, FinalizeIntent, FinalizeIntentFails,
                SettleChargedAttempt, DeferredRefund, DeferredRefundFails, RecordHeldReserve,
                StageFee, CommitViolationFee, CommitViolationFeeFails
  <1>4. CASE Crash \/ Done \/ UNCHANGED vars
    BY <1>4 DEF Crash, Done, vars
  <1> QED BY <1>1, <1>2, <1>3, <1>4 DEF Next, Step

LEMMA Inductive == Spec => []IndInv
  BY InitInv, StepInv, PTL DEF Spec

\* Money and logs agree at the end of every request, whichever of its calls and
\* writes fail: nothing taken goes unreported unless its log could not be made
\* durable, and nothing is reported that was returned, fixed groups' realtime
\* requests excepted (SettleBilling, SettleChargedAttemptError, the deferred
\* refund of Relay and RemainingHolds).
THEOREM LogsMatchMoney == Spec => []ReportedWasTaken
  <1>1. IndInv => ReportedWasTaken
    <2> SUFFICES ASSUME IndInv PROVE ReportedWasTaken
      OBVIOUS
    <2>1. CASE pc = "done"
      BY <2>1 DEF IndInv, PlaceInv, AtDone
    <2>2. CASE pc # "done"
      BY <2>2 DEF ReportedWasTaken, NeverUnderReported, NeverOverReported
    <2> QED BY <2>1, <2>2
  <1> QED BY <1>1, Inductive, PTL

\* The staged intent of a charged attempt covers what is taken, wherever the
\* process dies (SettleChargedAttemptError).
THEOREM IntentCovers == Spec => []IntentCoversTaken
  BY Inductive, PTL DEF IndInv

\* A request that fails without a billable attempt, a failed refund or a lost log
\* ends with nothing taken (ClassifyAttempt, the deferred refund of Relay).
THEOREM UnbilledIsFree == Spec => []UnbilledFailureIsFree
  <1>1. IndInv => UnbilledFailureIsFree
    <2> SUFFICES ASSUME IndInv PROVE UnbilledFailureIsFree
      OBVIOUS
    <2>1. CASE pc = "done"
      BY <2>1 DEF IndInv, PlaceInv, AtDone
    <2>2. CASE pc # "done"
      BY <2>2 DEF UnbilledFailureIsFree
    <2> QED BY <2>1, <2>2
  <1> QED BY <1>1, Inductive, PTL

\* However many groups or channels a request tries, one attempt at most was
\* billed upstream or shown to its client: in a fixed group among all of them, in
\* Auto among those that did not end in a usage violation, which Auto tries again
\* whatever was billed or shown (ClassifyAttempt, ShouldRetryAttempt,
\* ShouldRetryAutoAttempt).
THEOREM OneSpentAttempt == Spec => []AtMostOneSpentAttempt
  <1> DEFINE Both == IndInv /\ (req.mode = "fixed" => BreachInv)
  <1>1. Init => Both
    <2> SUFFICES ASSUME Init PROVE BreachInv
      BY InitInv
    <2> QED BY DEF Init, BreachInv
  <1>2. Both /\ [Next]_vars => Both'
    BY StepInv, BreachStep, ModeStays
  <1>3. Both => AtMostOneSpentAttempt
    BY DEF IndInv, BreachInv, AtMostOneSpentAttempt
  <1> QED BY <1>1, <1>2, <1>3, PTL DEF Spec

\* The violation fee is taken only when nothing of the base request is
\* (ChargeViolationFeeIfNeeded).
THEOREM FeeAfterRefund == Spec => []FeeOnlyAfterBaseReturned
  BY Inductive, PTL DEF IndInv

=============================================================================
