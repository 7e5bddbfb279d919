----------------------------- MODULE SystemTask -----------------------------
(***************************************************************************)
(* Background tasks of one type, run by whichever master node claims them  *)
(* (model/system_task.go, service/system_task.go).  Types do not share     *)
(* rows: the active_key index and the lock are per type.                   *)
(*                                                                         *)
(* Each database statement is a step; the functions of the code are        *)
(* sequences of them, and every node runs them concurrently with the rest. *)
(* A lock is a lease.  Its locked_until is kept as the time left, negative *)
(* when it is over; the time a function read when it began (now) is kept   *)
(* as its age, since every later statement of the function compares with   *)
(* that time and not with the clock.                                       *)
(***************************************************************************)
EXTENDS Integers, FiniteSets

CONSTANTS
    Runners,        \* runner ids: one per start of a master node
    TTL,            \* systemTaskLockTTL in ticks
    Bounds          \* pairs: rows of system_tasks, and ticks from the start of a
                    \* function to its last statement

ASSUME RunnersAssumption == IsFiniteSet(Runners) /\ Runners # {}
ASSUME BoundsAssumption  ==
    /\ Bounds \subseteq [tasks : Nat \ {0}, stall : Nat] /\ IsFiniteSet(Bounds)
    /\ TTL \in Nat \ {0}

VARIABLES
    tasks,      \* the rows: status and locked_by
    lock,       \* the row of system_task_locks, or NoLock
    pc,         \* per runner: where its loop is, and the task and lock it read
    handlers,   \* goroutines: a claimed task being run
    alive,
    ran,        \* history: per task, the runners that started it
    lost,       \* history: tasks that were running when the lock was not their runner's
    mishap,     \* history: a function took longer than a lease lasts, or the answer
                \* to the last update of a claim was lost
    bound       \* the bounds of this behaviour

vars == <<tasks, lock, pc, handlers, alive, ran, lost, mishap, bound>>

Tasks == 1 .. bound.tasks
None == 0
Nobody == "nobody"
Unborn == [status |-> "unborn", lockedBy |-> Nobody]
NoLock == [task |-> None, by |-> Nobody, left |-> 0]
Longest == -(bound.stall + 1)      \* over for longer than any function takes

Owners == [task : Tasks \cup {None}, by : Runners \cup {Nobody}]
Locks == [task : Tasks \cup {None}, by : Runners \cup {Nobody}, left : Longest .. TTL]

\* What a function goes on to use of the lock row it read.
Owner(l) == [task |-> l.task, by |-> l.by]
Idle == [step |-> "idle", task |-> None, seen |-> Owner(NoLock), age |-> 0]

Handlers == [runner : Runners, task : Tasks, phase : {"run", "release"}, cancelled : BOOLEAN]

TypeOK ==
    /\ tasks \in [Tasks -> [status : {"unborn", "pending", "running", "succeeded", "failed"},
                            lockedBy : Runners \cup {Nobody}]]
    /\ lock \in Locks
    /\ pc \in [Runners -> [step : {"idle", "expire", "delete", "acquire", "existing",
                                   "takeover", "mark", "cas"},
                           task : Tasks \cup {None}, seen : Owners, age : 0 .. bound.stall]]
    /\ handlers \subseteq Handlers
    /\ alive \subseteq Runners
    /\ ran \in [Tasks -> SUBSET Runners]
    /\ lost \subseteq Tasks
    /\ mishap \in BOOLEAN
    /\ bound \in Bounds

Active(t) == tasks[t].status \in {"pending", "running"}
Held == lock # NoLock

\* locked_until < now, for a now read age ticks ago.
Expired(age) == Held /\ lock.left < -age

\* The lease a runner holds on a task: the EXISTS of FinishSystemTask, the WHERE
\* of RenewSystemTaskLock.
Leases(r, t, age) == lock.task = t /\ lock.by = r /\ lock.left >= -age

Init ==
    /\ bound \in Bounds
    /\ tasks = [t \in Tasks |-> Unborn]
    /\ lock = NoLock
    /\ pc = [r \in Runners |-> Idle]
    /\ handlers = {} /\ alive = Runners
    /\ ran = [t \in Tasks |-> {}] /\ lost = {} /\ mishap = FALSE

\* Every change of a lock or of a task's status goes through here: it keeps lost.
Set(newTasks, newLock) ==
    /\ tasks' = newTasks
    /\ lock' = newLock
    /\ lost' = lost \cup {t \in Tasks : newTasks[t].status = "running"
                             /\ ~(newLock.task = t /\ newLock.by = newTasks[t].lockedBy)}

Stop(r) == pc' = [pc EXCEPT ![r] = Idle]
Start(r, step, t, seen) ==
    pc' = [pc EXCEPT ![r] = [step |-> step, task |-> t, seen |-> seen, age |-> 0]]
Goto(r, step) == pc' = [pc EXCEPT ![r].step = step]
GotoWith(r, step, seen) == pc' = [pc EXCEPT ![r].step = step, ![r].seen = seen]
Looping(r, step) == r \in alive /\ pc[r].step = step

\* ReleaseSystemTaskLock.
Released(t, r) == IF lock.task = t /\ lock.by = r THEN NoLock ELSE lock

\* MarkSystemTaskLeaseExpired.
LeaseExpiredMarksNothing(t) == tasks

LeaseExpired(t) ==
    IF t \in Tasks /\ tasks[t].status = "running" THEN [tasks EXCEPT ![t].status = "failed"]
    ELSE tasks

(***************************************************************************)
(* Creating tasks: the scheduler and EnqueueSystemTask.                    *)
(***************************************************************************)
\* The unique active_key lets one active row exist.
CreateSystemTask(t) ==
    /\ tasks[t] = Unborn /\ \A u \in Tasks : u < t => tasks[u] # Unborn
    /\ \A u \in Tasks : ~Active(u)
    /\ Set([tasks EXCEPT ![t].status = "pending"], lock)
    /\ UNCHANGED <<pc, handlers, alive, ran, mishap, bound>>

(***************************************************************************)
(* ExpireStaleSystemTaskLocks: read, mark the task, delete the lock.       *)
(***************************************************************************)
FindStaleLock(r) ==
    /\ Looping(r, "idle") /\ Expired(0)
    /\ Start(r, "expire", None, Owner(lock))
    /\ UNCHANGED <<tasks, lock, handlers, alive, ran, lost, mishap, bound>>

MarkStale(r) ==
    /\ Looping(r, "expire")
    /\ Set(LeaseExpired(pc[r].seen.task), lock)
    /\ Goto(r, "delete")
    /\ UNCHANGED <<handlers, alive, ran, mishap, bound>>

DeleteStale(r) ==
    /\ Looping(r, "delete")
    /\ Set(tasks, IF Expired(pc[r].age) /\ Owner(lock) = pc[r].seen
                  THEN NoLock ELSE lock)
    /\ Stop(r)
    /\ UNCHANGED <<handlers, alive, ran, mishap, bound>>

\* A statement that fails ends the pass.
ExpireFails(r) ==
    /\ Looping(r, "expire") \/ Looping(r, "delete")
    /\ Stop(r)
    /\ UNCHANGED <<tasks, lock, handlers, alive, ran, lost, mishap, bound>>

(***************************************************************************)
(* ClaimSystemTask.                                                        *)
(***************************************************************************)
FindPending(r, t) ==
    /\ Looping(r, "idle") /\ tasks[t].status = "pending"
    /\ Start(r, "acquire", t, Owner(NoLock))
    /\ UNCHANGED <<tasks, lock, handlers, alive, ran, lost, mishap, bound>>

Lease(r) == [task |-> pc[r].task, by |-> r, left |-> TTL - pc[r].age]

\* DB.Create: the primary key admits one lock row.
CreateLock(r) ==
    /\ Looping(r, "acquire")
    /\ Set(tasks, IF Held THEN lock ELSE Lease(r))
    /\ Goto(r, IF Held THEN "existing" ELSE "cas")
    /\ UNCHANGED <<handlers, alive, ran, mishap, bound>>

ReadLock(r) ==
    /\ Looping(r, "existing")
    /\ IF Expired(pc[r].age) THEN GotoWith(r, "takeover", Owner(lock)) ELSE Stop(r)
    /\ UNCHANGED <<tasks, lock, handlers, alive, ran, lost, mishap, bound>>

\* The conditional update of an expired lock.
TakeOverLock(r) ==
    /\ Looping(r, "takeover")
    /\ IF Expired(pc[r].age)
       THEN /\ Set(tasks, Lease(r))
            /\ Goto(r, IF pc[r].seen.task # pc[r].task THEN "mark" ELSE "cas")
       ELSE Stop(r) /\ UNCHANGED <<tasks, lock, lost>>
    /\ UNCHANGED <<handlers, alive, ran, mishap, bound>>

MarkTakenOver(r) ==
    /\ Looping(r, "mark")
    /\ \/ /\ Set(LeaseExpired(pc[r].seen.task), lock)
          /\ Goto(r, "cas")
       \/ /\ Set(tasks, Released(pc[r].task, r))   \* the statement failed
          /\ Stop(r)
    /\ UNCHANGED <<handlers, alive, ran, mishap, bound>>

Handler(r, t) == [runner |-> r, task |-> t, phase |-> "run", cancelled |-> FALSE]

RunningBy(r, t) == [tasks EXCEPT ![t] = [status |-> "running", lockedBy |-> r]]

StartRunning(r, t) ==
    /\ Set(RunningBy(r, t), lock)
    /\ \/ /\ handlers' = handlers \cup {Handler(r, t)}
          /\ ran' = [ran EXCEPT ![t] = @ \cup {r}]
       \/ UNCHANGED <<handlers, ran>>              \* the last read failed: not dispatched

\* pending -> running, if it is still pending; else the lock is released.
ClaimTaskBlindly(r) ==
    /\ Looping(r, "cas")
    /\ StartRunning(r, pc[r].task)
    /\ Stop(r)
    /\ UNCHANGED <<alive, mishap, bound>>

ClaimTask(r) ==
    LET t == pc[r].task
    IN  /\ Looping(r, "cas")
        /\ \/ /\ tasks[t].status = "pending" /\ StartRunning(r, t)
              /\ UNCHANGED mishap
           \/ /\ Set(tasks, Released(t, r))        \* no longer pending, or the statement failed
              /\ UNCHANGED <<handlers, ran, mishap>>
           \/ /\ tasks[t].status = "pending"        \* written, and its answer was lost
              /\ Set(RunningBy(r, t), Released(t, r))
              /\ mishap' = TRUE
              /\ UNCHANGED <<handlers, ran>>
        /\ Stop(r)
        /\ UNCHANGED <<alive, bound>>

(***************************************************************************)
(* runWithLeaseHeartbeat and the handler.                                  *)
(***************************************************************************)
\* The renewed locked_until is the runner's now plus the TTL.
RenewedLock(age) == [lock EXCEPT !.left = TTL - age]

\* RenewSystemTaskLock; a renewal that affects no row, or fails, cancels ctx.
Heartbeat(h, age) ==
    /\ h \in handlers /\ h.phase = "run" /\ ~h.cancelled
    /\ \/ /\ Leases(h.runner, h.task, age)
          /\ Set(tasks, RenewedLock(age))
          /\ UNCHANGED handlers
       \/ /\ handlers' = (handlers \ {h}) \cup {[h EXCEPT !.cancelled = TRUE]}
          /\ UNCHANGED <<tasks, lock, lost>>
    /\ mishap' = (mishap \/ age > TTL)
    /\ UNCHANGED <<pc, alive, ran, bound>>

\* FinishSystemTask: the result is recorded if the task is still running under
\* this runner's lease; the lock is released by the statement after it.
Finished(h, status, recorded) ==
    /\ h \in handlers /\ h.phase = "run"
    /\ IF recorded
       THEN /\ Set([tasks EXCEPT ![h.task].status = status], lock)
            /\ handlers' = (handlers \ {h}) \cup {[h EXCEPT !.phase = "release"]}
       ELSE handlers' = handlers \ {h} /\ UNCHANGED <<tasks, lock, lost>>
    /\ UNCHANGED <<pc, alive, ran, mishap, bound>>

RunBy(h) == tasks[h.task] = [status |-> "running", lockedBy |-> h.runner]

FinishWithoutLease(h, status, age) == Finished(h, status, RunBy(h))

FinishSystemTask(h, status, age) ==
    Finished(h, status, RunBy(h) /\ Leases(h.runner, h.task, age))

ReleaseSystemTaskLock(h) ==
    /\ h \in handlers /\ h.phase = "release"
    /\ Set(tasks, Released(h.task, h.runner))
    /\ handlers' = handlers \ {h}
    /\ UNCHANGED <<pc, alive, ran, mishap, bound>>

(***************************************************************************)
(* Time and crashes.                                                       *)
(***************************************************************************)
Tick ==
    /\ \A r \in Runners : pc[r].step # "idle" => pc[r].age < bound.stall
    /\ Set(tasks, IF Held /\ lock.left > Longest THEN [lock EXCEPT !.left = @ - 1] ELSE lock)
    /\ pc' = [r \in Runners |-> IF pc[r].step = "idle" THEN Idle
                                ELSE [pc[r] EXCEPT !.age = @ + 1]]
    /\ mishap' = (mishap \/ \E r \in Runners : pc'[r].age > TTL)
    /\ UNCHANGED <<handlers, alive, ran, bound>>

\* One node at least stays up.
Crash(r) ==
    /\ r \in alive /\ alive # {r}
    /\ alive' = alive \ {r}
    /\ Stop(r)
    /\ handlers' = {h \in handlers : h.runner # r}
    /\ UNCHANGED <<tasks, lock, ran, lost, mishap, bound>>

RunnerStep(r) ==
    \/ FindStaleLock(r) \/ MarkStale(r) \/ DeleteStale(r) \/ ExpireFails(r)
    \/ (\E t \in Tasks : FindPending(r, t))
    \/ CreateLock(r) \/ ReadLock(r) \/ TakeOverLock(r) \/ MarkTakenOver(r) \/ ClaimTask(r)

HandlerStep(h) ==
    \/ \E age \in 0 .. bound.stall :
           Heartbeat(h, age)
           \/ \E s \in {"succeeded", "failed"} : FinishSystemTask(h, s, age)
    \/ ReleaseSystemTaskLock(h)

Next ==
    \/ \E t \in Tasks : CreateSystemTask(t)
    \/ \E r \in Runners : RunnerStep(r) \/ Crash(r)
    \/ \E h \in handlers : HandlerStep(h)
    \/ Tick

Spec == Init /\ [][Next]_vars

\* Some node that is up keeps polling, a statement that is tried again and
\* again succeeds in the end, a handler returns, and time passes.
ClaimSucceeds(r) == ClaimTask(r) /\ tasks'[pc[r].task].status = "running"
Claiming(r) == CreateLock(r) \/ ReadLock(r) \/ TakeOverLock(r) \/ MarkTakenOver(r) \/ ClaimTask(r)
HandlerReturns(h) == \E s \in {"succeeded", "failed"} :
    FinishSystemTask(h, s, 0) \/ ReleaseSystemTaskLock(h)

Fairness ==
    /\ WF_vars(Tick)
    /\ SF_vars(\E r \in Runners : FindStaleLock(r))
    /\ SF_vars(\E r \in Runners : MarkStale(r))
    /\ SF_vars(\E r \in Runners : DeleteStale(r))
    /\ SF_vars(\E r \in Runners, t \in Tasks : FindPending(r, t))
    /\ \A r \in Runners : WF_vars(Claiming(r))
    /\ SF_vars(\E r \in Runners : ClaimSucceeds(r))
    /\ WF_vars(\E h \in handlers : HandlerReturns(h))

FairSpec == Spec /\ Fairness

(***************************************************************************)
(* Properties.                                                             *)
(***************************************************************************)
\* A task is started by one runner at most, however leases expire, nodes crash
\* and claims interleave: "the per-type lock guarantees only one runner executes
\* the task" (service/system_task.go:261).  It takes the conditional update of
\* the status too, for the lock alone may be taken over in the middle of a claim.
OneRunnerPerTask == \A t \in Tasks : Cardinality(ran[t]) <= 1

\* A runner that once lost its lease records no result, although it goes on
\* until its next heartbeat and may be running next to the task that replaced
\* its own (FinishSystemTask, model/system_task.go:399).
LoserRecordsNothing == \A t \in lost : tasks[t].status # "succeeded"

\* Every task that is created ends, on some node that is up: the lock row that
\* ExpireStaleSystemTaskLocks needs to find a task whose runner died is there
\* until the task is marked (model/system_task.go:376).  Two mishaps are excepted,
\* after which a task stays running for ever without a lock.  A function stalls
\* for longer than a lease: a node that read the task as pending takes over its
\* runner's expired lock, does not mark it, since it is its own task (256), and
\* releases the lock.  Or the update to running is written and its answer lost:
\* the claim is given up and its lock released (269).
TaskEnds == (\E t \in Tasks : Active(t)) ~> ((\A t \in Tasks : ~Active(t)) \/ mishap)
=============================================================================
