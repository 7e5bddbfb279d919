-------------------------- MODULE AsyncTaskProofs ---------------------------
(***************************************************************************)
(* For any number of passes, requests and deliveries, any charge and any   *)
(* actual quota: one decision at most is taken about the charge of a task, *)
(* and the stage of a refund tells what was returned.                      *)
(*                                                                         *)
(* A decision is taken by whoever moves the row from an open to a terminal *)
(* status, so that a second one needs a row that left a terminal status:   *)
(* passes only ever compare with an open one (ListedOpen), and what was    *)
(* decided shows in the row (DecidedInv).  That the deliveries of a refund *)
(* do not repeat a stage needs that a transaction between its read and its *)
(* write finds the stage it read (WritesInTurn), whether because the       *)
(* database serialises them or because there is one delivery at a time     *)
(* (OneDelivery); and that nobody is settling the same charge              *)
(* (SettlesAlone).                                                         *)
(***************************************************************************)
EXTENDS AsyncTask, TLAPS

Settles(a) == poll[a].step \in {"settle", "token"}

\* Before a decision nothing has moved, and nobody is about to move anything.
UndecidedInv ==
    bills = 0 =>
        /\ taken = Charged /\ event = NoEvent /\ logs = 0
        /\ \A w \in Workers : work[w] = "idle"
        /\ \A a \in Actors : ~Settles(a)

EventInv == event.due => event.stage # "none"

\* Where users' requests do not write the row:
\* whoever compares with a status compares with an open one,
ListedOpen == \A a \in Actors : poll[a].step \in {"listed", "answered"} => poll[a].seen \notin Terminal

\* and the one decision there is has closed the row.
DecidedInv == bills <= 1 /\ (bills > 0 => status \in Terminal)

\* A charge that is being settled is not being refunded, and settled once.
SettlesAlone ==
    /\ \A a, b \in Actors : Settles(a) /\ Settles(b) => a = b
    /\ \A a \in Actors : Settles(a) => event = NoEvent /\ \A w \in Workers : work[w] = "idle"
    /\ \A a \in Actors : poll[a].step = "settle" => taken = Charged
    /\ \A a \in Actors : poll[a].step = "token" => Held > 0

ClosedInv == ListedOpen /\ DecidedInv /\ SettlesAlone

Writing(w) == work[w] \in {"fundingWrite", "tokenWrite"}

\* A refund transaction is alone between its read and its write, and its stage is
\* still the one it read.
WritesInTurn ==
    /\ \A v, w \in Workers : Writing(v) /\ Writing(w) => v = w
    /\ \A w \in Workers : /\ work[w] = "fundingWrite" => event.stage = "pending"
                          /\ work[w] = "tokenWrite" => event.stage = "funding_done"

\* Deliveries that end within their claim take turns.
OneDelivery ==
    ~world.overlap =>
        /\ \A v, w \in Workers : Busy(v) /\ Busy(w) => v = w
        /\ \A w \in Workers : Busy(w) => ~event.due

\* A delivery past the refund has nothing left to return.
PaidOut ==
    \A w \in Workers :
        /\ Busy(w) /\ event.stage = "none" => taken = Nothing
        /\ work[w] \in {"count", "create", "delete"} => event.stage \in {"token_done", "none"}

RefundInv == WritesInTurn /\ OneDelivery /\ PaidOut

IndInv ==
    /\ TypeOK /\ EventInv /\ UndecidedInv /\ StageTellsRefund
    /\ ~world.realtime => ClosedInv
    /\ ~world.realtime /\ (world.overlap => world.serialised) => RefundInv

Steps == {"idle", "listed", "answered", "settle", "token", "audit"}
Polls == [step : Steps, seen : Statuses \cup {""}, answer : Answers \cup {NoAnswer}, delta : Int]
Amounts == [wallet : Int, subscription : Int, token : Int]
Stages == {"none", "pending", "funding_done", "token_done"}
Jobs == {"idle", "loop", "funding", "fundingWrite", "token", "tokenWrite", "count", "create",
         "delete"}

\* The settings in which the stage is promised to tell.
Promised == ~world.realtime /\ (world.overlap => world.serialised)

\* What the stage tells, stage by stage.
LEMMA StageByStage ==
    ASSUME TypeOK
    PROVE  StageTellsRefund <=>
             (Promised =>
                /\ event.stage = "pending" => taken = Charged
                /\ event.stage = "funding_done" => taken = [Nothing EXCEPT !.token = Quota]
                /\ event.stage = "token_done" => taken = Nothing
                /\ event.stage = "none" => Held > 0 \/ taken = Nothing)
  BY DEF TypeOK, StageTellsRefund, Promised

LEMMA World ==
    ASSUME TypeOK
    PROVE  /\ world.wallet \in Nat /\ world.subscription \in Nat /\ Quota \in Nat /\ Quota > 0
           /\ world.realtime \in BOOLEAN /\ world.overlap \in BOOLEAN /\ world.serialised \in BOOLEAN
           /\ Charged \in Amounts
           /\ Idle \in Polls /\ NoEvent \in [stage : Stages, due : BOOLEAN]
           /\ poll \in [Actors -> Polls]
  <1>1. world \in Settings /\ world.wallet + world.subscription > 0
    BY WorldsAssumption DEF TypeOK
  <1>2. /\ world.wallet \in Nat /\ world.subscription \in Nat
        /\ world.realtime \in BOOLEAN /\ world.overlap \in BOOLEAN /\ world.serialised \in BOOLEAN
    BY <1>1 DEF Settings
  <1>3. Quota \in Nat /\ Quota > 0
    BY <1>1, <1>2 DEF Quota
  <1>4. Charged \in Amounts
    BY <1>2, <1>3 DEF Charged, Amounts
  <1>5. Idle \in Polls /\ NoEvent \in [stage : Stages, due : BOOLEAN]
    BY DEF Idle, Polls, Steps, NoEvent, Stages
  <1>6. poll \in [Actors -> Polls]
    BY DEF TypeOK, Polls, Steps
  <1> QED BY <1>2, <1>3, <1>4, <1>5, <1>6

\* The types of what a step writes.
LEMMA TypeStep ==
    ASSUME TypeOK, UNCHANGED world, funds' \in Funds, status' \in Statuses, complete' \in BOOLEAN,
           poll' \in [Actors -> Polls], event' \in [stage : Stages, due : BOOLEAN],
           work' \in [Workers -> Jobs], taken' \in Amounts, logs' \in Nat, bills' \in Nat
    PROVE  TypeOK'
  <1>1. Answers' = Answers
    BY DEF Answers
  <1> QED BY <1>1 DEF TypeOK, Polls, Steps, Amounts, Stages, Jobs

LEMMA Types ==
    ASSUME TypeOK
    PROVE  /\ status \in Statuses /\ complete \in BOOLEAN
           /\ event \in [stage : Stages, due : BOOLEAN]
           /\ work \in [Workers -> Jobs] /\ taken \in Amounts /\ logs \in Nat /\ bills \in Nat
           /\ funds \in Funds
  BY DEF TypeOK, Amounts, Stages, Jobs

\* A task was submitted and charged, and nobody has looked at it yet.
LEMMA InitInv == Init => IndInv
  <1> SUFFICES ASSUME Init PROVE IndInv
    OBVIOUS
  <1>1. world \in Settings /\ world.wallet + world.subscription > 0
    BY WorldsAssumption DEF Init
  <1>2. world.wallet \in Nat /\ world.subscription \in Nat /\ Quota \in Nat
    BY <1>1 DEF Settings, Quota
  <1>3. Idle \in Polls /\ NoEvent \in [stage : Stages, due : BOOLEAN] /\ Charged \in Amounts
    BY <1>2 DEF Idle, Polls, Steps, NoEvent, Stages, Charged, Amounts
  <1>4. poll \in [Actors -> Polls] /\ \A a \in Actors : poll[a].step = "idle"
    BY <1>3 DEF Init, Idle
  <1>5. work \in [Workers -> Jobs] /\ \A w \in Workers : work[w] = "idle"
    BY DEF Init, Jobs
  <1>6. status \in Statuses /\ complete \in BOOLEAN
    BY DEF Init, Statuses
  <1>6a. funds \in Funds
    BY DEF Init, Funds
  <1>7. TypeOK
    BY <1>3, <1>4, <1>5, <1>6, <1>6a DEF Init, TypeOK, Polls, Steps, Amounts, Stages, Jobs
  <1>8. EventInv /\ UndecidedInv
    BY <1>4, <1>5 DEF Init, EventInv, NoEvent, UndecidedInv, Settles
  <1>9. Held > 0
    BY <1>1, <1>2 DEF Init, Held, Charged
  <1>10. StageTellsRefund
    <2>1. event.stage = "none"
      BY DEF Init, NoEvent
    <2> QED BY <1>7, <1>9, <2>1, StageByStage
  <1>11. ClosedInv
    BY <1>4 DEF Init, ClosedInv, ListedOpen, DecidedInv, SettlesAlone, Settles
  <1>12. RefundInv
    BY <1>5 DEF RefundInv, WritesInTurn, OneDelivery, PaidOut, Writing, Busy
  <1> QED BY <1>7, <1>8, <1>10, <1>11, <1>12 DEF IndInv

(***************************************************************************)
(* Passes and requests.                                                    *)
(***************************************************************************)
\* Whoever finds an open row as it read it is the first to decide.
LEMMA WinnerIsFirst ==
    ASSUME IndInv, NEW a \in Actors, poll[a].step \in {"listed", "answered"}, Won(a),
           ~world.realtime
    PROVE  bills = 0
  BY Types DEF IndInv, ClosedInv, ListedOpen, DecidedInv, Won

LEMMA PollMoves ==
    ASSUME TypeOK, NEW a \in Actors, NEW r \in Polls, poll' = [poll EXCEPT ![a] = r]
    PROVE  /\ poll' \in [Actors -> Polls] /\ poll'[a] = r
           /\ \A b \in Actors \ {a} : poll'[b] = poll[b]
  BY World

\* Steps that decide nothing and move no quota.
LEMMA PassInv ==
    ASSUME IndInv, NEW a \in Actors, NEW r \in Polls, poll' = [poll EXCEPT ![a] = r],
           UNCHANGED <<event, work, taken, logs, bills, funds, world>>,
           status' \in Statuses, complete' \in BOOLEAN,
           ~world.realtime /\ bills > 0 /\ status \in Terminal => status' \in Terminal,
           r.step \notin {"settle", "token"},
           ~world.realtime /\ r.step \in {"listed", "answered"} => r.seen \notin Terminal
    PROVE  IndInv'
  <1>0. TypeOK
    BY DEF IndInv
  <1>1. /\ poll' \in [Actors -> Polls] /\ poll'[a] = r
        /\ \A b \in Actors \ {a} : poll'[b] = poll[b]
    BY <1>0, PollMoves
  <1>2. TypeOK'
    BY <1>0, <1>1, Types, TypeStep
  <1>3. \A b \in Actors : Settles(b)' => Settles(b) /\ poll'[b] = poll[b]
    BY <1>1 DEF Settles
  <1>4. Charged' = Charged /\ Quota' = Quota /\ Held' = Held
    BY DEF Charged, Quota, Held
  <1>5. EventInv' /\ UndecidedInv'
    BY <1>3, <1>4 DEF IndInv, EventInv, UndecidedInv
  <1>6. StageTellsRefund'
    BY <1>4 DEF IndInv, StageTellsRefund
  <1>7. ~world.realtime => ClosedInv'
    <2> SUFFICES ASSUME ~world.realtime PROVE ClosedInv'
      OBVIOUS
    <2>1. ListedOpen'
      BY <1>1 DEF IndInv, ClosedInv, ListedOpen
    <2>2. DecidedInv'
      BY DEF IndInv, ClosedInv, DecidedInv
    <2>3. SettlesAlone'
      BY <1>3, <1>4 DEF IndInv, ClosedInv, SettlesAlone, Settles
    <2> QED BY <2>1, <2>2, <2>3 DEF ClosedInv
  <1>8. Promised => RefundInv'
    BY <1>4 DEF IndInv, Promised, RefundInv, WritesInTurn, OneDelivery, PaidOut, Writing, Busy
  <1> QED BY <1>2, <1>5, <1>6, <1>7, <1>8 DEF IndInv, Promised

\* The decision of a winner.
LEMMA DecisionInv ==
    ASSUME IndInv, NEW a \in Actors, NEW r \in Polls, poll' = [poll EXCEPT ![a] = r],
           r.step \in {"idle", "settle", "audit"}, ~world.realtime => bills = 0,
           UNCHANGED <<work, taken, logs, funds, world>>, bills' = bills + 1,
           status' \in Terminal, complete' \in BOOLEAN,
           \/ event' = event
           \/ r.step = "idle" /\ event' = [stage |-> "pending", due |-> TRUE]
    PROVE  IndInv'
  <1>0. TypeOK
    BY DEF IndInv
  <1>1. /\ poll' \in [Actors -> Polls] /\ poll'[a] = r
        /\ \A b \in Actors \ {a} : poll'[b] = poll[b]
    BY <1>0, PollMoves
  <1>2. TypeOK'
    <2>1. event' \in [stage : Stages, due : BOOLEAN]
      <3>1. [stage |-> "pending", due |-> TRUE] \in [stage : Stages, due : BOOLEAN]
        BY DEF Stages
      <3>2. event \in [stage : Stages, due : BOOLEAN]
        BY <1>0, Types
      <3> QED BY <3>1, <3>2
    <2>2. bills' \in Nat /\ status' \in Statuses
      BY <1>0, Types DEF Statuses
    <2> QED BY <1>0, <1>1, <2>1, <2>2, Types, TypeStep
  <1>3. Charged' = Charged /\ Quota' = Quota /\ Held' = Held
    BY DEF Charged, Quota, Held
  <1>4. EventInv' /\ UndecidedInv'
    BY <1>0, Types DEF IndInv, EventInv, UndecidedInv
  <1>5. ASSUME ~world.realtime PROVE StageTellsRefund' /\ ClosedInv' /\ RefundInv'
    <2>1. /\ taken = Charged /\ event = NoEvent /\ bills = 0
          /\ \A w \in Workers : work[w] = "idle"
          /\ \A b \in Actors : ~Settles(b)
      BY <1>5 DEF IndInv, UndecidedInv
    <2>2. Held > 0
      <3>1. Held = Quota
        BY <2>1 DEF Held, Charged, Quota
      <3> QED BY <1>0, <3>1, World
    <2>3. event'.stage \in {"none", "pending"}
      BY <2>1 DEF NoEvent
    <2>4. StageTellsRefund'
      BY <1>3, <2>1, <2>2, <2>3 DEF StageTellsRefund
    <2>5. \A b \in Actors : Settles(b)' => b = a /\ r.step = "settle" /\ event' = event
      BY <1>1, <2>1 DEF Settles
    <2>6. SettlesAlone'
      BY <1>1, <1>3, <2>1, <2>5 DEF SettlesAlone, Settles
    <2>7. ListedOpen' /\ DecidedInv'
      BY <1>1, <1>5, <2>1 DEF IndInv, ClosedInv, ListedOpen, DecidedInv
    <2>8. RefundInv'
      BY <2>1 DEF RefundInv, WritesInTurn, OneDelivery, PaidOut, Writing, Busy
    <2> QED BY <2>4, <2>6, <2>7, <2>8 DEF ClosedInv
  <1>6. ASSUME world.realtime PROVE StageTellsRefund'
    BY <1>6 DEF StageTellsRefund
  <1> QED BY <1>2, <1>4, <1>5, <1>6 DEF IndInv

\* What an actor writes when the row is the one it read.
LEMMA RowWritten ==
    ASSUME IndInv, NEW a \in Actors, poll[a].step \in {"listed", "answered"},
           NEW new, NEW done \in BOOLEAN, Won(a) => new \in Statuses, WriteRow(a, new, done)
    PROVE  /\ status' \in Statuses /\ complete' \in BOOLEAN
           /\ ~world.realtime /\ status \in Terminal => status' \in Terminal
  <1>0. TypeOK
    BY DEF IndInv
  <1>1. status' \in Statuses /\ complete' \in BOOLEAN
    BY <1>0, Types DEF WriteRow, taskVars
  <1>2. ~world.realtime /\ status \in Terminal => status' \in Terminal
    BY DEF IndInv, ClosedInv, ListedOpen, WriteRow, Won, taskVars
  <1> QED BY <1>1, <1>2

LEMMA AnswerKnown ==
    ASSUME TypeOK, NEW a \in Actors
    PROVE  /\ poll[a] \in Polls /\ poll[a].answer.failed \in BOOLEAN
           /\ Won(a) => NewStatus(a) \in Statuses
  <1>1. poll[a] \in Polls
    BY World
  <1>2. poll[a].answer \in [status : Statuses \cup {""}, failed : BOOLEAN, unbilled : BOOLEAN]
    <2>1. Answers \subseteq [status : Statuses \cup {""}, failed : BOOLEAN, unbilled : BOOLEAN]
      BY DEF Answers
    <2>2. NoAnswer \in [status : Statuses \cup {""}, failed : BOOLEAN, unbilled : BOOLEAN]
      BY DEF NoAnswer
    <2>3. poll[a].answer \in Answers \cup {NoAnswer}
      BY <1>1 DEF Polls
    <2> QED BY <2>1, <2>2, <2>3
  <1>3. poll[a].answer.failed \in BOOLEAN
    BY <1>2
  <1>4. ASSUME Won(a) PROVE NewStatus(a) \in Statuses
    <2>1. poll[a].seen \in Statuses
      BY <1>4, Types DEF Won
    <2> QED BY <1>2, <2>1 DEF NewStatus
  <1> QED BY <1>1, <1>3, <1>4

\* A record of a pass with another step is one of a pass.
LEMMA GoesTo ==
    ASSUME TypeOK, NEW a \in Actors, NEW step \in Steps, Goto(a, step)
    PROVE  \E r \in Polls : poll' = [poll EXCEPT ![a] = r] /\ r.step = step
  <1>1. poll[a] \in Polls
    BY World
  <1>2. [poll[a] EXCEPT !.step = step] \in Polls /\ [poll[a] EXCEPT !.step = step].step = step
    BY <1>1 DEF Polls
  <1>3. poll' = [poll EXCEPT ![a] = [poll[a] EXCEPT !.step = step]]
    BY DEF Goto
  <1> QED BY <1>2, <1>3

LEMMA IdleStep ==
    ASSUME TypeOK
    PROVE  Idle \in Polls /\ Idle.step = "idle"
  BY World DEF Idle

LEMMA ListInv ==
    ASSUME IndInv, NEW p \in Actors, ListTask(p)
    PROVE  IndInv'
  <1>0. TypeOK
    BY DEF IndInv
  <1> DEFINE r == [Idle EXCEPT !.step = "listed", !.seen = status]
  <1>1. r \in Polls /\ r.step = "listed" /\ r.seen = status
    BY <1>0, Types, IdleStep DEF Polls, Steps, Idle
  <1>2. poll' = [poll EXCEPT ![p] = r] /\ status \notin Terminal
    BY DEF ListTask
  <1>3. UNCHANGED <<status, complete, event, work, taken, logs, bills, funds, world>>
    BY DEF ListTask
  <1> HIDE DEF r
  <1> QED BY <1>0, <1>1, <1>2, <1>3, Types, PassInv

LEMMA FetchInv ==
    ASSUME IndInv, NEW p \in Actors, FetchTask(p)
    PROVE  IndInv'
  <1>0. TypeOK
    BY DEF IndInv
  <1>1. PICK x \in Answers : poll' = [poll EXCEPT ![p].step = "answered", ![p].answer = x]
    BY DEF FetchTask
  <1>2. poll[p] \in Polls /\ poll[p].step = "listed"
    BY <1>0, World DEF FetchTask, At
  <1> DEFINE r == [poll[p] EXCEPT !.step = "answered", !.answer = x]
  <1>3. r \in Polls /\ r.step = "answered" /\ r.seen = poll[p].seen
    BY <1>2 DEF Polls, Steps
  <1>4. poll' = [poll EXCEPT ![p] = r]
    BY <1>0, <1>1, World
  <1>5. ~world.realtime => r.seen \notin Terminal
    BY <1>2, <1>3 DEF IndInv, ClosedInv, ListedOpen
  <1>6. UNCHANGED <<status, complete, event, work, taken, logs, bills, funds, world>>
    BY DEF FetchTask
  <1> HIDE DEF r
  <1> QED BY <1>0, <1>3, <1>4, <1>5, <1>6, Types, PassInv

LEMMA EndInv ==
    ASSUME IndInv, NEW p \in Actors, PassFails(p) \/ KeepCharge(p)
    PROVE  IndInv'
  <1>0. TypeOK
    BY DEF IndInv
  <1>1. /\ poll' = [poll EXCEPT ![p] = Idle]
        /\ UNCHANGED <<status, complete, event, work, taken, logs, bills, funds, world>>
    BY DEF PassFails, KeepCharge, Ends
  <1> QED BY <1>0, <1>1, Types, IdleStep, PassInv

\* An answer that does not finish the task, and the one a user's request writes.
LEMMA AnswerInv ==
    ASSUME IndInv, NEW p \in Actors, UpdateUnfinished(p) \/ UserUpdates(p)
    PROVE  IndInv'
  <1>0. TypeOK
    BY DEF IndInv
  <1>1. /\ poll[p].step = "answered" /\ poll' = [poll EXCEPT ![p] = Idle]
        /\ UNCHANGED <<event, work, taken, logs, bills, funds, world>>
    BY DEF UpdateUnfinished, UserUpdates, Answered, At, Ends
  <1>2. PICK done \in BOOLEAN : WriteRow(p, NewStatus(p), done)
    <2>1. poll[p].answer.failed \in BOOLEAN /\ (NewStatus(p) \in Terminal) \in BOOLEAN
      BY <1>0, AnswerKnown
    <2> QED BY <2>1 DEF UpdateUnfinished, UserUpdates
  <1>3. Won(p) => NewStatus(p) \in Statuses
    BY <1>0, AnswerKnown
  <1>4. /\ status' \in Statuses /\ complete' \in BOOLEAN
        /\ ~world.realtime /\ status \in Terminal => status' \in Terminal
    BY <1>1, <1>2, <1>3, RowWritten
  <1> QED BY <1>0, <1>1, <1>4, IdleStep, PassInv

LEMMA BulkInv ==
    ASSUME IndInv, NEW p \in Actors, BulkFailure(p)
    PROVE  IndInv'
  <1>0. TypeOK
    BY DEF IndInv
  <1>1. /\ poll' = [poll EXCEPT ![p] = Idle] /\ status' = "FAILURE" /\ complete' = TRUE
        /\ UNCHANGED <<event, work, taken, logs, bills, funds, world>>
    BY DEF BulkFailure, Ends
  <1>2. status' \in Statuses /\ status' \in Terminal /\ complete' \in BOOLEAN
    BY <1>1 DEF Statuses, Terminal
  <1> QED BY <1>0, <1>1, <1>2, IdleStep, PassInv

LEMMA UserReadInv ==
    ASSUME IndInv, NEW u \in Actors, UserReads(u)
    PROVE  IndInv'
  <1>0. TypeOK
    BY DEF IndInv
  <1>1. PICK x \in Answers :
            poll' = [poll EXCEPT ![u] = [Idle EXCEPT !.step = "answered", !.seen = status,
                                                     !.answer = x]]
    BY DEF UserReads
  <1> DEFINE r == [Idle EXCEPT !.step = "answered", !.seen = status, !.answer = x]
  <1>2. r \in Polls /\ r.step = "answered"
    BY <1>0, Types, IdleStep DEF Polls, Steps, Idle
  <1>3. world.realtime /\ UNCHANGED <<status, complete, event, work, taken, logs, bills, funds, world>>
    BY DEF UserReads
  <1>4. poll' = [poll EXCEPT ![u] = r]
    BY <1>1
  <1> HIDE DEF r
  <1> QED BY <1>0, <1>2, <1>3, <1>4, Types, PassInv

\* A terminal answer or the sweep: the winner decides, and nobody else.
LEMMA LoserInv ==
    ASSUME IndInv, NEW p \in Actors, ~Won(p), NEW new, NEW done, WriteRow(p, new, done),
           Decide(p), Ends(p), UNCHANGED <<event, work, taken, logs, funds, world>>
    PROVE  IndInv'
  <1>0. TypeOK
    BY DEF IndInv
  <1>1. UNCHANGED <<status, complete, event, work, taken, logs, bills, funds, world>>
    BY DEF WriteRow, Decide, taskVars
  <1>2. poll' = [poll EXCEPT ![p] = Idle]
    BY DEF Ends
  <1> QED BY <1>0, <1>1, <1>2, Types, IdleStep, PassInv

LEMMA FinishInv ==
    ASSUME IndInv, NEW p \in Actors,
           UpdateSuccess(p) \/ UpdateRetained(p) \/ UpdateRefunded(p) \/ SweepTimedOut(p)
    PROVE  IndInv'
  <1>0. TypeOK
    BY DEF IndInv
  <1>1. poll[p].step \in {"listed", "answered"}
    BY DEF UpdateSuccess, UpdateRetained, UpdateRefunded, SweepTimedOut, Finishes, Answered, At
  <1>2. PICK new \in Terminal : WriteRow(p, new, TRUE)
    BY DEF UpdateSuccess, UpdateRetained, UpdateRefunded, SweepTimedOut, Finishes, Terminal
  <1>3. Decide(p) /\ UNCHANGED <<work, taken, logs, funds, world>>
    BY DEF UpdateSuccess, UpdateRetained, UpdateRefunded, SweepTimedOut
  <1>4. CASE ~Won(p)
    <2>1. Ends(p) /\ event' = event
      BY <1>4 DEF UpdateSuccess, UpdateRetained, UpdateRefunded, SweepTimedOut
    <2> QED BY <1>2, <1>3, <1>4, <2>1, LoserInv
  <1>5. CASE Won(p)
    <2>1. bills' = bills + 1 /\ status' \in Terminal /\ complete' \in BOOLEAN
      BY <1>2, <1>3, <1>5 DEF WriteRow, Decide
    <2>2. ~world.realtime => bills = 0
      BY <1>1, <1>5, WinnerIsFirst
    <2>3. CASE UpdateRefunded(p)
      <3>1. poll' = [poll EXCEPT ![p] = Idle] /\ event' = [stage |-> "pending", due |-> TRUE]
        BY <1>5, <2>3 DEF UpdateRefunded, Ends
      <3> QED BY <1>0, <1>3, <2>1, <2>2, <3>1, IdleStep, DecisionInv
    <2>4. CASE UpdateSuccess(p) \/ UpdateRetained(p) \/ SweepTimedOut(p)
      <3>1. event' = event /\ (Ends(p) \/ Goto(p, "settle") \/ Goto(p, "audit"))
        BY <1>5, <2>4 DEF UpdateSuccess, UpdateRetained, SweepTimedOut
      <3>2. \E r \in Polls : /\ poll' = [poll EXCEPT ![p] = r]
                             /\ r.step \in {"idle", "settle", "audit"}
        BY <1>0, <3>1, IdleStep, GoesTo DEF Ends, Steps
      <3> QED BY <1>3, <2>1, <2>2, <3>1, <3>2, DecisionInv
    <2> QED BY <2>3, <2>4
  <1> QED BY <1>4, <1>5

(***************************************************************************)
(* The settlement of a finished task.                                      *)
(***************************************************************************)
\* Whoever settles goes on or ends, and the sources still hold something.
LEMMA SettleInv ==
    ASSUME IndInv, NEW p \in Actors, Settles(p), NEW r \in Polls,
           poll' = [poll EXCEPT ![p] = r], r.step \in {"idle", "token"},
           taken' \in Amounts, ~world.realtime => Held' > 0,
           UNCHANGED <<status, complete, event, work, logs, bills, funds, world>>
    PROVE  IndInv'
  <1>0. TypeOK
    BY DEF IndInv
  <1>1. /\ poll' \in [Actors -> Polls] /\ poll'[p] = r
        /\ \A b \in Actors \ {p} : poll'[b] = poll[b]
    BY <1>0, PollMoves
  <1>2. TypeOK'
    BY <1>0, <1>1, Types, TypeStep
  <1>3. bills # 0 /\ EventInv' /\ UndecidedInv'
    BY DEF IndInv, EventInv, UndecidedInv
  <1>4. ASSUME ~world.realtime PROVE StageTellsRefund' /\ ClosedInv' /\ RefundInv'
    <2>1. /\ event = NoEvent
          /\ \A w \in Workers : work[w] = "idle"
          /\ \A b \in Actors : Settles(b) => b = p
      BY <1>4 DEF IndInv, ClosedInv, SettlesAlone
    <2>2. \A b \in Actors : Settles(b)' => b = p /\ r.step = "token"
      BY <1>1, <2>1 DEF Settles
    <2>3. SettlesAlone'
      BY <1>1, <1>4, <2>1, <2>2 DEF SettlesAlone, Settles
    <2>4. ListedOpen' /\ DecidedInv'
      BY <1>1, <1>4 DEF IndInv, ClosedInv, ListedOpen, DecidedInv
    <2>5. StageTellsRefund'
      BY <1>4, <2>1 DEF StageTellsRefund, NoEvent
    <2>6. RefundInv'
      BY <2>1 DEF RefundInv, WritesInTurn, OneDelivery, PaidOut, Writing, Busy
    <2> QED BY <2>3, <2>4, <2>5, <2>6 DEF ClosedInv
  <1>5. ASSUME world.realtime PROVE StageTellsRefund'
    BY <1>5 DEF StageTellsRefund
  <1> QED BY <1>2, <1>3, <1>4, <1>5 DEF IndInv

LEMMA FundingSettled ==
    ASSUME IndInv, NEW p \in Actors, SettleFunding(p)
    PROVE  IndInv'
  <1>0. TypeOK
    BY DEF IndInv
  <1>1. PICK actual \in Actuals :
            /\ taken' = [taken EXCEPT ![Source] = @ + (actual - Quota)]
            /\ poll' = [poll EXCEPT ![p].step = "token", ![p].delta = actual - Quota]
    BY DEF SettleFunding
  <1>2. actual \in Nat \ {0} /\ actual - Quota \in Int
    BY <1>0, ActualsAssumption, World
  <1> DEFINE r == [poll[p] EXCEPT !.step = "token", !.delta = actual - Quota]
  <1>3. poll[p] \in Polls /\ poll[p].step = "settle"
    BY <1>0, World DEF SettleFunding, At
  <1>4. r \in Polls /\ r.step = "token"
    BY <1>2, <1>3 DEF Polls, Steps
  <1>5. poll' = [poll EXCEPT ![p] = r]
    BY <1>0, <1>1, World
  <1>6. Source \in {"wallet", "subscription"} /\ taken \in Amounts
    BY <1>0, Types DEF Source
  <1>7. taken' \in Amounts /\ Held' = Held + (actual - Quota)
    <2>1. CASE Source = "wallet"
      BY <1>1, <1>2, <1>6, <2>1 DEF Held, Amounts
    <2>2. CASE Source = "subscription"
      BY <1>1, <1>2, <1>6, <2>2 DEF Held, Amounts
    <2> QED BY <1>6, <2>1, <2>2
  <1>8. ~world.realtime => Held' > 0
    <2>1. ~world.realtime => Held = Quota
      BY <1>3 DEF IndInv, ClosedInv, SettlesAlone, Held, Charged, Quota
    <2> QED BY <1>0, <1>2, <1>7, <2>1, World
  <1>9. Settles(p) /\ UNCHANGED <<status, complete, event, work, logs, bills, funds, world>>
    BY <1>3 DEF Settles, SettleFunding
  <1> HIDE DEF r
  <1> QED BY <1>4, <1>5, <1>7, <1>8, <1>9, SettleInv

LEMMA TokenSettled ==
    ASSUME IndInv, NEW p \in Actors, SettleToken(p)
    PROVE  IndInv'
  <1>0. TypeOK
    BY DEF IndInv
  <1>1. poll[p] \in Polls /\ poll[p].step = "token"
    BY <1>0, World DEF SettleToken, At
  <1>2. taken' \in Amounts /\ Held' = Held
    <2>1. taken \in Amounts /\ poll[p].delta \in Int
      BY <1>0, <1>1, Types DEF Polls
    <2>2. taken' = [taken EXCEPT !.token = @ + poll[p].delta]
      BY DEF SettleToken
    <2> QED BY <2>1, <2>2 DEF Amounts, Held
  <1>3. ~world.realtime => Held' > 0
    BY <1>1, <1>2 DEF IndInv, ClosedInv, SettlesAlone
  <1>4. /\ Settles(p) /\ poll' = [poll EXCEPT ![p] = Idle]
        /\ UNCHANGED <<status, complete, event, work, logs, bills, funds, world>>
    BY <1>1 DEF Settles, SettleToken, Ends
  <1> QED BY <1>0, <1>2, <1>3, <1>4, IdleStep, SettleInv

(***************************************************************************)
(* The deliveries of a refund.                                             *)
(***************************************************************************)
\* A delivery exists because of a decision, which was not to settle.
LEMMA WorkInv ==
    ASSUME IndInv, event # NoEvent \/ \E w \in Workers : work[w] # "idle",
           UNCHANGED <<status, complete, poll, bills, funds, world>>,
           work' \in [Workers -> Jobs], event' \in [stage : Stages, due : BOOLEAN],
           taken' \in Amounts, logs' \in Nat, EventInv',
           Promised => StageTellsRefund' /\ RefundInv'
    PROVE  IndInv'
  <1>0. TypeOK
    BY DEF IndInv
  <1>1. TypeOK'
    BY <1>0, World, Types, TypeStep
  <1>2. UndecidedInv'
    BY DEF IndInv, UndecidedInv
  <1>3. ASSUME ~world.realtime PROVE ClosedInv'
    <2>1. \A a \in Actors : ~Settles(a)'
      BY <1>3 DEF IndInv, ClosedInv, SettlesAlone, Settles
    <2>2. SettlesAlone'
      BY <2>1 DEF SettlesAlone, Settles
    <2> QED BY <1>3, <2>2 DEF IndInv, ClosedInv, ListedOpen, DecidedInv
  <1>4. StageTellsRefund'
    <2>1. CASE Promised
      BY <2>1
    <2>2. CASE ~Promised
      <3>1. ~(~world.realtime /\ (world.overlap => world.serialised))'
        BY <2>2 DEF Promised
      <3> QED BY <3>1 DEF StageTellsRefund
    <2> QED BY <2>1, <2>2
  <1> QED BY <1>1, <1>2, <1>3, <1>4 DEF IndInv, Promised

LEMMA JobMoves ==
    ASSUME TypeOK, NEW w \in Workers, NEW j \in Jobs, Do(w, j)
    PROVE  /\ work' \in [Workers -> Jobs] /\ work'[w] = j
           /\ \A v \in Workers \ {w} : work'[v] = work[v]
  BY Types DEF Do

\* Steps of a delivery that neither move quota nor touch the event.
LEMMA JobInv ==
    ASSUME IndInv, NEW w \in Workers, Busy(w), NEW j \in Jobs, Do(w, j),
           UNCHANGED <<status, complete, poll, event, taken, bills, funds, world>>, logs' \in Nat,
           j \in {"fundingWrite", "tokenWrite"} => Free,
           j = "fundingWrite" => event.stage = "pending",
           j = "tokenWrite" => event.stage = "funding_done",
           Promised /\ j \in {"count", "create", "delete"} => event.stage \in {"token_done", "none"}
    PROVE  IndInv'
  <1>0. TypeOK
    BY DEF IndInv
  <1>1. /\ work' \in [Workers -> Jobs] /\ work'[w] = j
        /\ \A v \in Workers \ {w} : work'[v] = work[v]
    BY <1>0, JobMoves
  <1>2. EventInv'
    BY DEF IndInv, EventInv
  <1>3. StageTellsRefund'
    <2>1. Charged' = Charged /\ Quota' = Quota /\ Held' = Held
      BY DEF Charged, Quota, Held
    <2> QED BY <2>1 DEF IndInv, StageTellsRefund
  <1>4. ASSUME Promised PROVE RefundInv'
    <2>1. RefundInv
      BY <1>4 DEF IndInv, Promised
    <2>2. ASSUME NEW v \in Workers, v # w, Writing(v), j \in {"fundingWrite", "tokenWrite"}
          PROVE  FALSE
      <3>1. world.serialised => work[v] \notin {"fundingWrite", "tokenWrite"}
        BY <2>2 DEF Free
      <3>2. ~world.serialised => ~world.overlap
        BY <1>4 DEF Promised
      <3>3. Busy(v)
        BY <2>2 DEF Writing, Busy
      <3> QED BY <2>1, <2>2, <3>1, <3>2, <3>3 DEF RefundInv, OneDelivery, Writing
    <2>3. WritesInTurn'
      BY <1>1, <2>1, <2>2 DEF RefundInv, WritesInTurn, Writing
    <2>4. OneDelivery'
      BY <1>1, <2>1 DEF RefundInv, OneDelivery, Busy
    <2>5. PaidOut'
      BY <1>1, <1>4, <2>1 DEF RefundInv, PaidOut, Busy
    <2> QED BY <2>3, <2>4, <2>5 DEF RefundInv
  <1>5. \E v \in Workers : work[v] # "idle"
    BY DEF Busy
  <1> QED BY <1>0, <1>1, <1>2, <1>3, <1>4, <1>5, Types, WorkInv

LEMMA ReadInv ==
    ASSUME IndInv, NEW w \in Workers, ReadStage(w) \/ FundingRead(w) \/ TokenRead(w)
    PROVE  IndInv'
  <1>0. TypeOK /\ event.stage \in Stages
    BY Types DEF IndInv
  <1>1. Busy(w) /\ UNCHANGED <<status, complete, poll, event, taken, logs, bills, funds, world>>
    BY DEF ReadStage, FundingRead, TokenRead, Busy
  <1>2. PICK j \in Jobs : /\ Do(w, j)
                          /\ j \in {"fundingWrite", "tokenWrite"} => Free
                          /\ j = "fundingWrite" => event.stage = "pending"
                          /\ j = "tokenWrite" => event.stage = "funding_done"
                          /\ j \in {"count", "create", "delete"} => event.stage = "token_done"
    <2>1. CASE ReadStage(w)
      BY <1>0, <2>1 DEF ReadStage, Jobs, Stages
    <2>2. CASE FundingRead(w)
      BY <1>0, <2>2 DEF FundingRead, Jobs
    <2>3. CASE TokenRead(w)
      BY <1>0, <2>3 DEF TokenRead, Jobs
    <2> QED BY <2>1, <2>2, <2>3
  <1> QED BY <1>0, <1>1, <1>2, Types, JobInv

LEMMA LogInv ==
    ASSUME IndInv, NEW w \in Workers, CountLogs(w) \/ CreateLog(w) \/ DeliveryFails(w) \/ FundingRefused(w)
    PROVE  IndInv'
  <1>0. TypeOK /\ logs \in Nat
    BY Types DEF IndInv
  <1>1. /\ Busy(w) /\ UNCHANGED <<status, complete, poll, event, taken, bills, funds, world>>
        /\ logs' \in Nat
    BY <1>0 DEF CountLogs, CreateLog, DeliveryFails, FundingRefused, Refused, Busy
  <1>2. PICK j \in Jobs : /\ Do(w, j) /\ j \in {"create", "delete", "idle"}
                          /\ j # "idle" => work[w] \in {"count", "create"}
    BY DEF CountLogs, CreateLog, DeliveryFails, FundingRefused, Jobs
  <1>3. Promised /\ j # "idle" => event.stage \in {"token_done", "none"}
    BY <1>2 DEF IndInv, Promised, RefundInv, PaidOut
  <1> QED BY <1>1, <1>2, <1>3, JobInv

LEMMA ClaimInv ==
    ASSUME IndInv, NEW w \in Workers, Claim(w)
    PROVE  IndInv'
  <1>0. TypeOK /\ event \in [stage : Stages, due : BOOLEAN]
    BY Types DEF IndInv
  <1>1. /\ ~Busy(w) /\ event.due /\ Do(w, "loop")
        /\ UNCHANGED <<status, complete, poll, taken, logs, bills, funds, world>>
    BY DEF Claim
  <1>2. event' \in [stage : Stages, due : BOOLEAN] /\ event'.stage = event.stage /\ ~event'.due
    BY <1>0 DEF Claim
  <1>3. event.stage # "none"
    BY <1>1 DEF IndInv, EventInv
  <1>4. /\ work' \in [Workers -> Jobs] /\ work'[w] = "loop"
        /\ \A v \in Workers \ {w} : work'[v] = work[v]
    BY <1>0, <1>1, JobMoves DEF Jobs
  <1>5. EventInv'
    BY <1>2 DEF EventInv
  <1>6. ASSUME Promised PROVE StageTellsRefund' /\ RefundInv'
    <2>1. RefundInv /\ StageTellsRefund
      BY <1>6 DEF IndInv, Promised
    <2>2. StageTellsRefund'
      <3>1. Charged' = Charged /\ Quota' = Quota /\ Held' = Held
        BY <1>1 DEF Charged, Quota, Held
      <3> QED BY <1>1, <1>2, <2>1, <3>1 DEF StageTellsRefund
    <2>3. WritesInTurn'
      BY <1>2, <1>4, <2>1 DEF RefundInv, WritesInTurn, Writing
    <2>4. OneDelivery'
      BY <1>1, <1>2, <1>4, <2>1 DEF RefundInv, OneDelivery, Busy
    <2>5. PaidOut'
      BY <1>1, <1>2, <1>3, <1>4, <2>1 DEF RefundInv, PaidOut, Busy
    <2> QED BY <2>2, <2>3, <2>4, <2>5 DEF RefundInv
  <1>7. event # NoEvent
    BY <1>3 DEF NoEvent
  <1> QED BY <1>0, <1>1, <1>2, <1>4, <1>5, <1>6, <1>7, Types, WorkInv

LEMMA DueInv ==
    ASSUME IndInv, Due
    PROVE  IndInv'
  <1>0. TypeOK /\ event \in [stage : Stages, due : BOOLEAN]
    BY Types DEF IndInv
  <1>1. /\ event.stage # "none" /\ (world.overlap \/ \A w \in Workers : ~Busy(w))
        /\ UNCHANGED <<status, complete, poll, work, taken, logs, bills, funds, world>>
    BY DEF Due
  <1>2. event' \in [stage : Stages, due : BOOLEAN] /\ event'.stage = event.stage
    BY <1>0 DEF Due
  <1>3. EventInv'
    BY <1>1, <1>2 DEF EventInv
  <1>4. ASSUME Promised PROVE StageTellsRefund' /\ RefundInv'
    <2>1. RefundInv /\ StageTellsRefund
      BY <1>4 DEF IndInv, Promised
    <2>2. StageTellsRefund'
      <3>1. Charged' = Charged /\ Quota' = Quota /\ Held' = Held
        BY <1>1 DEF Charged, Quota, Held
      <3> QED BY <1>1, <1>2, <2>1, <3>1 DEF StageTellsRefund
    <2>3. WritesInTurn' /\ PaidOut'
      BY <1>1, <1>2, <2>1 DEF RefundInv, WritesInTurn, PaidOut, Writing, Busy
    <2>4. OneDelivery'
      BY <1>1, <2>1 DEF RefundInv, OneDelivery, Busy
    <2> QED BY <2>2, <2>3, <2>4 DEF RefundInv
  <1>5. event # NoEvent
    BY <1>1 DEF NoEvent
  <1> QED BY <1>0, <1>1, <1>2, <1>3, <1>4, <1>5, Types, WorkInv

\* A transaction that returns quota and moves the event on by one stage.
LEMMA RefundStep ==
    ASSUME IndInv, NEW w \in Workers, Writing(w), Do(w, "loop"), NEW from, NEW to \in Stages,
           to # "none", Advance(from, to), taken' \in Amounts,
           UNCHANGED <<status, complete, poll, logs, bills, funds, world>>,
           Promised => /\ event.stage = from /\ from \in {"pending", "funding_done"}
                       /\ event'.stage = to => StageTellsRefund'
    PROVE  IndInv'
  <1>0. TypeOK /\ event \in [stage : Stages, due : BOOLEAN]
    BY Types DEF IndInv
  <1>1. Busy(w)
    BY DEF Writing, Busy
  <1>2. /\ event' \in [stage : Stages, due : BOOLEAN] /\ event'.due = event.due
        /\ event'.stage = IF event.stage = from THEN to ELSE event.stage
    BY <1>0 DEF Advance
  <1>3. EventInv'
    BY <1>2 DEF IndInv, EventInv
  <1>4. /\ work' \in [Workers -> Jobs] /\ work'[w] = "loop"
        /\ \A v \in Workers \ {w} : work'[v] = work[v]
    BY <1>0, JobMoves DEF Jobs
  <1>5. ASSUME Promised PROVE StageTellsRefund' /\ RefundInv'
    <2>1. RefundInv
      BY <1>5 DEF IndInv, Promised
    <2>2. StageTellsRefund'
      BY <1>2, <1>5
    <2>3. WritesInTurn'
      BY <1>4, <2>1 DEF RefundInv, WritesInTurn, Writing
    <2>4. OneDelivery'
      BY <1>1, <1>2, <1>4, <2>1 DEF RefundInv, OneDelivery, Busy
    <2>5. PaidOut'
      BY <1>2, <1>4, <1>5, <2>1 DEF RefundInv, PaidOut, Busy
    <2> QED BY <2>2, <2>3, <2>4, <2>5 DEF RefundInv
  <1>6. \E v \in Workers : work[v] # "idle"
    BY <1>1 DEF Busy
  <1> QED BY <1>0, <1>2, <1>3, <1>4, <1>5, <1>6, Types, WorkInv

LEMMA FundingReturned ==
    ASSUME IndInv, NEW w \in Workers, FundingWrite(w)
    PROVE  IndInv'
  <1>0. TypeOK /\ taken \in Amounts
    BY Types DEF IndInv
  <1>1. /\ Writing(w) /\ work[w] = "fundingWrite" /\ Do(w, "loop")
        /\ Advance("pending", "funding_done") /\ taken' = RefundedSources
        /\ UNCHANGED <<status, complete, poll, logs, bills, funds, world>>
    BY DEF FundingWrite, Writing
  <1>2. world.wallet \in Nat /\ world.subscription \in Nat /\ Quota \in Nat
    BY <1>0, World
  <1>3. taken' = [wallet |-> taken.wallet - world.wallet,
                  subscription |-> taken.subscription - world.subscription,
                  token |-> taken.token]
    <2> DEFINE half == [taken EXCEPT !.wallet = taken.wallet - world.wallet]
    <2>1. half = [wallet |-> taken.wallet - world.wallet,
                  subscription |-> taken.subscription, token |-> taken.token]
      BY <1>0 DEF Amounts
    <2>2. taken' = [half EXCEPT !.subscription = half.subscription - world.subscription]
      BY <1>1 DEF RefundedSources
    <2> HIDE DEF half
    <2> QED BY <2>1, <2>2
  <1>4. taken' \in Amounts
    BY <1>0, <1>2, <1>3 DEF Amounts
  <1>5. ASSUME Promised PROVE event.stage = "pending" /\ taken = Charged
    <2>1. event.stage = "pending"
      BY <1>1, <1>5 DEF IndInv, Promised, RefundInv, WritesInTurn
    <2> QED BY <1>0, <1>5, <2>1, StageByStage DEF IndInv
  <1>6. ASSUME Promised, event'.stage = "funding_done" PROVE StageTellsRefund'
    <2>1. taken' = [wallet |-> 0, subscription |-> 0, token |-> Quota]
      BY <1>2, <1>3, <1>5, <1>6 DEF Charged
    <2>2. taken' = [Nothing EXCEPT !.token = Quota']
      BY <1>1, <2>1 DEF Nothing, Quota
    <2> QED BY <1>6, <2>2 DEF StageTellsRefund
  <1> QED BY <1>1, <1>4, <1>5, <1>6, RefundStep DEF Stages

LEMMA TokenReturned ==
    ASSUME IndInv, NEW w \in Workers, TokenWrite(w)
    PROVE  IndInv'
  <1>0. TypeOK /\ taken \in Amounts
    BY Types DEF IndInv
  <1>1. /\ Writing(w) /\ work[w] = "tokenWrite" /\ Do(w, "loop")
        /\ Advance("funding_done", "token_done") /\ taken' = [taken EXCEPT !.token = @ - Quota]
        /\ UNCHANGED <<status, complete, poll, logs, bills, funds, world>>
    BY DEF TokenWrite, Writing
  <1>2. taken' \in Amounts
    BY <1>0, <1>1, World DEF Amounts
  <1>3. ASSUME Promised
        PROVE  event.stage = "funding_done" /\ taken = [Nothing EXCEPT !.token = Quota]
    <2>1. event.stage = "funding_done"
      BY <1>1, <1>3 DEF IndInv, Promised, RefundInv, WritesInTurn
    <2> QED BY <1>0, <1>3, <2>1, StageByStage DEF IndInv
  <1>4. ASSUME Promised, event'.stage = "token_done" PROVE StageTellsRefund'
    <2>1. taken' = Nothing
      BY <1>0, <1>1, <1>3, <1>4, World DEF Nothing
    <2> QED BY <1>4, <2>1 DEF StageTellsRefund, Nothing
  <1> QED BY <1>1, <1>2, <1>3, <1>4, RefundStep DEF Stages

LEMMA DeleteInv ==
    ASSUME IndInv, NEW w \in Workers, DeleteEvent(w)
    PROVE  IndInv'
  <1>0. TypeOK
    BY DEF IndInv
  <1>1. /\ work[w] = "delete" /\ event' = NoEvent /\ Do(w, "idle")
        /\ UNCHANGED <<status, complete, poll, taken, logs, bills, funds, world>>
    BY DEF DeleteEvent
  <1>2. NoEvent.stage = "none" /\ NoEvent.due = FALSE
    BY DEF NoEvent
  <1>3. EventInv'
    BY <1>1, <1>2 DEF EventInv
  <1>4. /\ work' \in [Workers -> Jobs] /\ work'[w] = "idle"
        /\ \A v \in Workers \ {w} : work'[v] = work[v]
    BY <1>0, <1>1, JobMoves DEF Jobs
  <1>5. ASSUME Promised PROVE StageTellsRefund' /\ RefundInv'
    <2>1. RefundInv
      BY <1>5 DEF IndInv, Promised
    <2>2. event.stage \in {"token_done", "none"}
      BY <1>1, <2>1 DEF RefundInv, PaidOut
    <2>3. taken = Nothing
      <3>1. event.stage = "none" => taken = Nothing
        BY <1>1, <2>1 DEF RefundInv, PaidOut, Busy
      <3>2. event.stage = "token_done" => taken = Nothing
        BY <1>0, <1>5, StageByStage DEF IndInv
      <3> QED BY <2>2, <3>1, <3>2
    <2>4. StageTellsRefund'
      BY <1>1, <1>2, <2>3 DEF StageTellsRefund, Nothing
    <2>5. WritesInTurn'
      BY <1>1, <1>2, <1>4, <2>1, <2>2 DEF RefundInv, WritesInTurn, Writing
    <2>6. OneDelivery'
      BY <1>1, <1>2, <1>4, <2>1 DEF RefundInv, OneDelivery, Busy
    <2>7. PaidOut'
      BY <1>1, <1>2, <2>3 DEF PaidOut, Nothing
    <2> QED BY <2>4, <2>5, <2>6, <2>7 DEF RefundInv
  <1>6. \E v \in Workers : work[v] # "idle"
    BY <1>1
  <1> QED BY <1>0, <1>1, <1>3, <1>4, <1>5, <1>6, World, Types, WorkInv

(***************************************************************************)
(* Every step, and what follows.                                           *)
(***************************************************************************)
\* Whatever becomes of the sources, the task's row and its refund stay as they are.
LEMMA SourcesInv ==
    ASSUME IndInv, funds' \in Funds,
           UNCHANGED <<status, complete, poll, event, work, taken, logs, bills, world>>
    PROVE  IndInv'
  <1>0. TypeOK
    BY DEF IndInv
  <1>1. UNCHANGED <<status, complete, poll, event, work, taken, logs, bills, world>>
    OBVIOUS
  <1>2. TypeOK'
    BY <1>0, <1>1, World, Types, TypeStep
  <1>3. Charged' = Charged /\ Quota' = Quota /\ Held' = Held
    BY <1>1 DEF Charged, Quota, Held
  <1>4. EventInv' /\ UndecidedInv'
    BY <1>1, <1>3 DEF IndInv, EventInv, UndecidedInv, Settles
  <1>5. StageTellsRefund'
    BY <1>1, <1>3 DEF IndInv, StageTellsRefund
  <1>6. ~world.realtime => ClosedInv'
    BY <1>1, <1>3 DEF IndInv, ClosedInv, ListedOpen, DecidedInv, SettlesAlone, Settles
  <1>7. Promised => RefundInv'
    BY <1>1 DEF IndInv, Promised, RefundInv, WritesInTurn, OneDelivery, PaidOut, Writing, Busy
  <1> QED BY <1>1, <1>2, <1>4, <1>5, <1>6, <1>7 DEF IndInv, Promised

LEMMA StepInv == IndInv /\ [Next]_vars => IndInv'
  <1> SUFFICES ASSUME IndInv, [Next]_vars PROVE IndInv'
    OBVIOUS
  <1>1. ASSUME NEW p \in Pollers, PassStep(p) PROVE IndInv'
    <2>1. p \in Actors
      BY DEF Actors
    <2>2. CASE ListTask(p) \/ FetchTask(p) \/ PassFails(p) \/ UpdateUnfinished(p)
      BY <2>1, <2>2, ListInv, FetchInv, EndInv, AnswerInv
    <2>3. CASE UpdateSuccess(p) \/ UpdateRetained(p) \/ UpdateRefunded(p) \/ SweepTimedOut(p)
      BY <2>1, <2>3, FinishInv
    <2>4. CASE BulkFailure(p) \/ SettleFunding(p) \/ SettleToken(p) \/ KeepCharge(p)
      BY <2>1, <2>4, BulkInv, FundingSettled, TokenSettled, EndInv
    <2> QED BY <1>1, <2>2, <2>3, <2>4 DEF PassStep
  <1>2. ASSUME NEW u \in Users, UserReads(u) \/ UserUpdates(u) \/ PassFails(u) PROVE IndInv'
    <2>1. u \in Actors
      BY DEF Actors
    <2> QED BY <1>2, <2>1, UserReadInv, AnswerInv, EndInv
  <1>3. ASSUME NEW w \in Workers, Deliver(w) \/ DeliveryFails(w) PROVE IndInv'
    <2>1. CASE Claim(w) \/ FundingWrite(w) \/ TokenWrite(w) \/ DeleteEvent(w)
      BY <2>1, ClaimInv, FundingReturned, TokenReturned, DeleteInv
    <2>2. CASE ReadStage(w) \/ FundingRead(w) \/ TokenRead(w)
      BY <2>2, ReadInv
    <2>3. CASE CountLogs(w) \/ CreateLog(w) \/ DeliveryFails(w) \/ FundingRefused(w)
      BY <2>3, LogInv
    <2> QED BY <1>3, <2>1, <2>2, <2>3 DEF Deliver
  <1>4. CASE UNCHANGED vars
    BY <1>4, SourcesInv, Types DEF vars, IndInv
  <1>5. CASE UsageReset \/ UsageGrows \/ SourceDeleted
    BY <1>5, SourcesInv DEF UsageReset, UsageGrows, SourceDeleted, Funds
  <1> QED BY <1>1, <1>2, <1>3, <1>4, <1>5, DueInv DEF Next

LEMMA Inductive == Spec => []IndInv
  BY InitInv, StepInv, PTL DEF Spec

\* Where users' requests do not write the row, one pass at most decides about the
\* charge of a task, however many passes overlap and whichever of them sweeps; and
\* until one has, no quota moves and no refund is staged
\* (UpdateWithStatus, model/task.go; transitionTaskTerminalFailure).
THEOREM OneDecision == Spec => []BilledOnce
  <1>1. IndInv => BilledOnce
    <2> SUFFICES ASSUME IndInv PROVE BilledOnce
      OBVIOUS
    <2>1. ~world.realtime => bills <= 1
      BY DEF IndInv, ClosedInv, DecidedInv
    <2>2. bills = 0 => taken = Charged /\ event.stage = "none" /\ logs = 0
      BY DEF IndInv, UndecidedInv, NoEvent
    <2> QED BY <2>1, <2>2 DEF BilledOnce
  <1> QED BY <1>1, Inductive, PTL

\* The stage of the refund event tells what each source and the key got back, for
\* any charge split over wallet and subscription and any failures of statements
\* and workers, where deliveries end within their claim or the database serialises
\* their transactions (processTaskRefundOutbox, model/billing_outbox.go).
THEOREM StageTells == Spec => []StageTellsRefund
  BY Inductive, PTL DEF IndInv

=============================================================================
