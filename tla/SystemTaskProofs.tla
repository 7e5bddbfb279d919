-------------------------- MODULE SystemTaskProofs --------------------------
(***************************************************************************)
(* For any number of runners and tasks, any lease and any delay of a       *)
(* function: a task is started by one runner at most, and one that ran     *)
(* without its lease for a moment never records a success.                 *)
(*                                                                         *)
(* The lock alone gives neither: it may be taken over in the middle of a   *)
(* claim.  The first rests on the status of a task, which leaves "pending" *)
(* for ever when it is started (RanInv).  The second needs that a lease    *)
(* once lost does not come back: a runner only ever locks a task it is not *)
(* running, for it read the task as pending (ClaimInv), so that lock and   *)
(* runner of a task that was lost differ for good (LostInv).               *)
(***************************************************************************)
EXTENDS SystemTask, FiniteSetTheorems, TLAPS

\* The steps of ClaimSystemTask.
Claims(r) == pc[r].step \in {"acquire", "existing", "takeover", "mark", "cas"}

OwnsLock(t) == lock.task = t /\ lock.by = tasks[t].lockedBy

\* A task that was started is not pending any more, and one runner started it.
RanInv ==
    \A t \in Tasks : \A r \in ran[t] :
        tasks[t].status \notin {"unborn", "pending"} /\ ran[t] = {r}

\* A runner claims a task that exists and that it does not run.
ClaimInv ==
    \A r \in Runners : Claims(r) =>
        /\ pc[r].task \in Tasks
        /\ tasks[pc[r].task].status # "unborn"
        /\ tasks[pc[r].task].status = "running" => tasks[pc[r].task].lockedBy # r

\* A task whose runner lost the lock was started, and is running without its lock
\* or has failed.
LostInv ==
    \A t \in lost : tasks[t].status = "failed" \/ (tasks[t].status = "running" /\ ~OwnsLock(t))

IndInv == TypeOK /\ RanInv /\ ClaimInv /\ LostInv

Status == {"unborn", "pending", "running", "succeeded", "failed"}
Places == {"idle", "expire", "delete", "acquire", "existing", "takeover", "mark", "cas"}
Rows == [status : Status, lockedBy : Runners \cup {Nobody}]
Passes == [step : Places, task : Tasks \cup {None}, seen : Owners, age : 0 .. bound.stall]

\* What TypeOK says of the bounds, and of their sets.
LEMMA Bounded ==
    ASSUME TypeOK
    PROVE  /\ bound.tasks \in Nat \ {0} /\ bound.stall \in Nat /\ TTL \in Nat \ {0}
           /\ Tasks \subseteq Nat /\ None \notin Tasks /\ Longest \in Int /\ Longest < -bound.stall
           /\ NoLock \in Locks /\ Owner(NoLock) \in Owners /\ Owner(lock) \in Owners /\ Idle \in Passes
           /\ tasks \in [Tasks -> Rows] /\ pc \in [Runners -> Passes]
  <1>1. bound.tasks \in Nat \ {0} /\ bound.stall \in Nat /\ TTL \in Nat \ {0}
    BY BoundsAssumption DEF TypeOK
  <1>2. Tasks \subseteq Nat /\ None \notin Tasks /\ Longest \in Int /\ Longest < -bound.stall
    BY <1>1 DEF Tasks, None, Longest
  <1>3. NoLock \in Locks /\ Owner(NoLock) \in Owners
    BY <1>1, <1>2 DEF NoLock, Locks, Owner, Owners
  <1>4. Owner(lock) \in Owners
    BY DEF TypeOK, Locks, Owner, Owners
  <1>5. Idle \in Passes
    BY <1>1, <1>3 DEF Idle, Passes, Places
  <1>6. tasks \in [Tasks -> Rows] /\ pc \in [Runners -> Passes]
    BY DEF TypeOK, Rows, Status, Passes, Places
  <1> QED BY <1>1, <1>2, <1>3, <1>4, <1>5, <1>6

\* Nothing is locked, started or lost at first.
LEMMA InitInv == Init => IndInv
  <1> SUFFICES ASSUME Init PROVE IndInv
    OBVIOUS
  <1>1. bound.tasks \in Nat \ {0} /\ bound.stall \in Nat /\ TTL \in Nat \ {0}
    BY BoundsAssumption DEF Init
  <1>2. Tasks \subseteq Nat /\ Longest \in Int /\ Longest < 0
    BY <1>1 DEF Tasks, Longest
  <1>3. NoLock \in Locks /\ Owner(NoLock) \in Owners
    BY <1>1, <1>2 DEF NoLock, Locks, Owner, Owners
  <1>4. Idle \in Passes /\ Unborn \in Rows
    BY <1>1, <1>3 DEF Idle, Passes, Places, Unborn, Rows, Status
  <1>5. /\ tasks \in [Tasks -> Rows] /\ pc \in [Runners -> Passes]
        /\ ran \in [Tasks -> SUBSET Runners] /\ mishap \in BOOLEAN
    BY <1>4 DEF Init
  <1>6. TypeOK
    BY <1>3, <1>5 DEF Init, TypeOK, Rows, Status, Passes, Places
  <1>7. RanInv /\ ClaimInv /\ LostInv
    BY DEF Init, RanInv, ClaimInv, LostInv, Claims, Idle
  <1> QED BY <1>6, <1>7 DEF IndInv

(***************************************************************************)
(* What a step may do with a task, with the lock, with the loop of a       *)
(* runner, and with the history of lost leases.                            *)
(***************************************************************************)
\* A task moves on in its life, and succeeds only under its lock.
Follows(t) ==
    \/ tasks'[t] = tasks[t]
    \/ tasks[t].status = "unborn" /\ tasks'[t].status = "pending"
    \/ tasks[t].status = "running" /\ tasks'[t].status = "failed"
    \/ tasks[t].status = "running" /\ OwnsLock(t) /\ tasks'[t].status = "succeeded"

\* No runner gets the lock of a task that it is running.
NoComeback ==
    \A t \in Tasks :
        lock'.task = t /\ lock'.by = tasks[t].lockedBy /\ tasks[t].status = "running" => OwnsLock(t)

\* A runner goes on with its claim, or begins one of a pending task.
Passing ==
    \A r \in Runners :
        Claims(r)' => \/ Claims(r) /\ pc'[r].task = pc[r].task
                      \/ pc'[r].task \in Tasks /\ tasks[pc'[r].task].status = "pending"

Loses(t) == t \in Tasks /\ tasks'[t].status = "running" /\ ~OwnsLock(t)'
Losing == \A t \in lost' : t \in lost \/ Loses(t)

\* The types of what a step writes.
LEMMA TypeStep ==
    ASSUME TypeOK, UNCHANGED bound, tasks' \in [Tasks -> Rows], lock' \in Locks,
           pc' \in [Runners -> Passes], handlers' \subseteq Handlers, alive' \subseteq Runners,
           ran' \in [Tasks -> SUBSET Runners], lost' \subseteq Tasks, mishap' \in BOOLEAN
    PROVE  TypeOK'
  <1>1. Tasks' = Tasks /\ Locks' = Locks /\ Owners' = Owners /\ Handlers' = Handlers
    BY DEF Tasks, Locks, Owners, Handlers, Longest
  <1>2. bound' \in Bounds
    BY DEF TypeOK
  <1> QED BY <1>1, <1>2 DEF TypeOK, Rows, Status, Passes, Places

\* Steps that start no task.
LEMMA MoveInv ==
    ASSUME IndInv, TypeOK', UNCHANGED <<ran, bound>>,
           \A t \in Tasks : Follows(t), NoComeback, Passing, Losing
    PROVE  IndInv'
  <1>0. Tasks' = Tasks
    BY DEF Tasks
  <1>2. RanInv'
    BY <1>0 DEF IndInv, RanInv, Follows
  <1>3. ClaimInv'
    <2> SUFFICES ASSUME NEW r \in Runners, Claims(r)'
                 PROVE  /\ pc'[r].task \in Tasks
                        /\ tasks'[pc'[r].task].status # "unborn"
                        /\ tasks'[pc'[r].task].status = "running"
                              => tasks'[pc'[r].task].lockedBy # r
      BY <1>0 DEF ClaimInv
    <2>1. /\ pc'[r].task \in Tasks
          /\ tasks[pc'[r].task].status # "unborn"
          /\ tasks[pc'[r].task].status = "running" => tasks[pc'[r].task].lockedBy # r
      BY DEF Passing, IndInv, ClaimInv
    <2> QED BY <2>1 DEF Follows
  <1>4. LostInv'
    <2> SUFFICES ASSUME NEW t \in lost'
                 PROVE  tasks'[t].status = "failed"
                        \/ (tasks'[t].status = "running" /\ ~OwnsLock(t)')
      BY DEF LostInv
    <2>1. CASE t \in lost
      <3>1. t \in Tasks /\ Follows(t)
        BY <2>1 DEF IndInv, TypeOK
      <3>2. tasks[t].status = "failed" \/ (tasks[t].status = "running" /\ ~OwnsLock(t))
        BY <2>1 DEF IndInv, LostInv
      <3> QED BY <3>1, <3>2 DEF Follows, NoComeback, OwnsLock
    <2>2. CASE t \notin lost
      BY <2>2 DEF Losing, Loses
    <2> QED BY <2>1, <2>2
  <1> QED BY <1>2, <1>3, <1>4 DEF IndInv

\* Set records exactly the tasks whose runner has no lock.
LEMMA SetLoses ==
    ASSUME TypeOK, NEW nt, NEW nl, Set(nt, nl)
    PROVE  tasks' = nt /\ lock' = nl /\ Losing /\ lost' \subseteq Tasks
  BY DEF Set, Losing, Loses, OwnsLock, TypeOK

\* What becomes of a runner's loop.
LEMMA StopPasses ==
    ASSUME TypeOK, NEW r \in Runners, Stop(r)
    PROVE  pc' \in [Runners -> Passes] /\ Passing
  <1>1. pc \in [Runners -> Passes] /\ Idle \in Passes
    BY Bounded
  <1>2. pc' \in [Runners -> Passes] /\ pc'[r] = Idle
        /\ \A q \in Runners \ {r} : pc'[q] = pc[q]
    BY <1>1 DEF Stop
  <1> QED BY <1>2 DEF Passing, Claims, Idle

LEMMA GotoPasses ==
    ASSUME TypeOK, NEW r \in Runners, NEW step \in Places, Goto(r, step),
           Claims(r) \/ step \in {"idle", "expire", "delete"}
    PROVE  pc' \in [Runners -> Passes] /\ Passing
  <1>1. pc \in [Runners -> Passes]
    BY Bounded
  <1>2. pc' = [pc EXCEPT ![r] = [pc[r] EXCEPT !.step = step]]
    BY DEF Goto
  <1>3. [pc[r] EXCEPT !.step = step] \in Passes
    BY <1>1 DEF Passes
  <1>4. pc' \in [Runners -> Passes] /\ pc'[r].step = step /\ pc'[r].task = pc[r].task
        /\ \A q \in Runners \ {r} : pc'[q] = pc[q]
    BY <1>1, <1>2, <1>3 DEF Passes
  <1> QED BY <1>4 DEF Passing, Claims

LEMMA StartPasses ==
    ASSUME TypeOK, NEW r \in Runners, NEW step \in Places, NEW t \in Tasks \cup {None},
           NEW seen \in Owners, Start(r, step, t, seen),
           step \in {"idle", "expire", "delete"} \/ (t \in Tasks /\ tasks[t].status = "pending")
    PROVE  pc' \in [Runners -> Passes] /\ Passing
  <1>1. pc \in [Runners -> Passes] /\ bound.stall \in Nat
    BY Bounded
  <1>2. [step |-> step, task |-> t, seen |-> seen, age |-> 0] \in Passes
    BY <1>1 DEF Passes
  <1>3. pc' \in [Runners -> Passes] /\ pc'[r].step = step /\ pc'[r].task = t
        /\ \A q \in Runners \ {r} : pc'[q] = pc[q]
    BY <1>1, <1>2 DEF Start
  <1> QED BY <1>3 DEF Passing, Claims

\* The rows that the functions on an expired lease and on a lock write.
LEMMA ExpiredRows ==
    ASSUME TypeOK, NEW t, tasks' = LeaseExpired(t)
    PROVE  tasks' \in [Tasks -> Rows] /\ \A u \in Tasks : Follows(u)
  <1>1. tasks \in [Tasks -> Rows]
    BY Bounded
  <1> QED BY <1>1 DEF LeaseExpired, Follows, Rows, Status

LEMMA LeaseType ==
    ASSUME TypeOK, NEW r \in Runners, pc[r].task \in Tasks
    PROVE  Lease(r) \in Locks
  <1>1. pc[r].age \in 0 .. bound.stall
    BY DEF TypeOK
  <1> QED BY <1>1, Bounded DEF Lease, Locks

\* The lock is left alone, released, renewed or shortened.
LEMMA NoNewOwner ==
    ASSUME TypeOK, lock' = lock \/ lock' = NoLock
                   \/ (lock'.task = lock.task /\ lock'.by = lock.by)
    PROVE  NoComeback
  BY Bounded DEF NoComeback, OwnsLock, NoLock

\* The lock is given to a runner that claims.
LEMMA LeaseIsNew ==
    ASSUME IndInv, NEW r \in Runners, Claims(r), lock' = Lease(r)
    PROVE  NoComeback
  <1>1. /\ pc[r].task \in Tasks
        /\ tasks[pc[r].task].status = "running" => tasks[pc[r].task].lockedBy # r
    BY DEF IndInv, ClaimInv
  <1> QED BY <1>1 DEF NoComeback, Lease

LEMMA SameRows ==
    ASSUME TypeOK, tasks' = tasks
    PROVE  tasks' \in [Tasks -> Rows] /\ \A u \in Tasks : Follows(u)
  BY Bounded DEF Follows

LEMMA ReleasedType ==
    ASSUME TypeOK, NEW t, NEW r, lock' = Released(t, r)
    PROVE  lock' \in Locks /\ NoComeback
  <1>1. lock \in Locks /\ NoLock \in Locks
    BY Bounded DEF TypeOK
  <1>2. lock' = lock \/ lock' = NoLock
    BY DEF Released
  <1> QED BY <1>1, <1>2, NoNewOwner

(***************************************************************************)
(* The actions.                                                            *)
(***************************************************************************)
\* Steps that read, or stop: rows, lock and history stay.
LEMMA ReadInv ==
    ASSUME IndInv, UNCHANGED <<tasks, lock, ran, lost, mishap, bound>>,
           handlers' \subseteq Handlers, alive' \subseteq Runners,
           pc' \in [Runners -> Passes], Passing
    PROVE  IndInv'
  <1>1. TypeOK /\ lock' \in Locks /\ lost' \subseteq Tasks /\ ran' \in [Tasks -> SUBSET Runners]
    BY DEF IndInv, TypeOK
  <1>2. mishap' \in BOOLEAN
    BY DEF IndInv, TypeOK
  <1>3. tasks' \in [Tasks -> Rows] /\ \A t \in Tasks : Follows(t)
    BY <1>1, SameRows
  <1>4. TypeOK'
    BY <1>1, <1>2, <1>3, TypeStep
  <1>5. NoComeback /\ Losing
    BY <1>1, NoNewOwner DEF Losing
  <1> QED BY <1>3, <1>4, <1>5, MoveInv

\* Steps that write rows or the lock through Set, and start no task.
LEMMA WriteInv ==
    ASSUME IndInv, NEW nt, NEW nl, Set(nt, nl), UNCHANGED <<ran, bound>>,
           tasks' \in [Tasks -> Rows], \A t \in Tasks : Follows(t), lock' \in Locks, NoComeback,
           handlers' \subseteq Handlers, alive' \subseteq Runners, mishap' \in BOOLEAN,
           pc' \in [Runners -> Passes], Passing
    PROVE  IndInv'
  <1>1. TypeOK /\ ran' \in [Tasks -> SUBSET Runners]
    BY DEF IndInv, TypeOK
  <1>2. Losing /\ lost' \subseteq Tasks
    BY <1>1, SetLoses
  <1>3. TypeOK'
    BY <1>1, <1>2, TypeStep
  <1> QED BY <1>2, <1>3, MoveInv

LEMMA CreateInv ==
    ASSUME IndInv, NEW t \in Tasks, CreateSystemTask(t)
    PROVE  IndInv'
  <1>1. TypeOK /\ lock \in Locks /\ handlers \subseteq Handlers /\ alive \subseteq Runners
        /\ mishap \in BOOLEAN
    BY DEF IndInv, TypeOK
  <1>2. tasks \in [Tasks -> Rows] /\ pc \in [Runners -> Passes]
    BY <1>1, Bounded
  <1>3. tasks' = [tasks EXCEPT ![t].status = "pending"] /\ lock' = lock
    BY <1>1, SetLoses DEF CreateSystemTask
  <1>4. tasks[t].status = "unborn"
    BY DEF CreateSystemTask, Unborn
  <1>5. tasks' \in [Tasks -> Rows] /\ \A u \in Tasks : Follows(u)
    BY <1>2, <1>3, <1>4 DEF Follows, Rows, Status
  <1>6. Passing
    BY DEF CreateSystemTask, Passing, Claims
  <1> QED
    BY <1>1, <1>2, <1>3, <1>5, <1>6, NoNewOwner, WriteInv DEF CreateSystemTask

\* ExpireStaleSystemTaskLocks.
LEMMA ExpireInv ==
    ASSUME IndInv, NEW r \in Runners,
           FindStaleLock(r) \/ MarkStale(r) \/ DeleteStale(r) \/ ExpireFails(r)
    PROVE  IndInv'
  <1>1. TypeOK /\ lock \in Locks /\ handlers \subseteq Handlers /\ alive \subseteq Runners
        /\ mishap \in BOOLEAN
    BY DEF IndInv, TypeOK
  <1>2. Owner(lock) \in Owners /\ None \in Tasks \cup {None} /\ NoLock \in Locks
    BY <1>1, Bounded
  <1>3. CASE FindStaleLock(r)
    <2>1. pc' \in [Runners -> Passes] /\ Passing
      BY <1>1, <1>2, <1>3, StartPasses DEF FindStaleLock, Places
    <2> QED BY <1>1, <1>3, <2>1, ReadInv DEF FindStaleLock
  <1>4. CASE MarkStale(r)
    <2>1. pc' \in [Runners -> Passes] /\ Passing
      BY <1>1, <1>4, GotoPasses DEF MarkStale, Places
    <2>2. tasks' = LeaseExpired(pc[r].seen.task) /\ lock' = lock
      BY <1>1, <1>4, SetLoses DEF MarkStale
    <2>3. tasks' \in [Tasks -> Rows] /\ \A u \in Tasks : Follows(u)
      BY <1>1, <2>2, ExpiredRows
    <2> QED BY <1>1, <1>4, <2>1, <2>2, <2>3, NoNewOwner, WriteInv DEF MarkStale
  <1>5. CASE DeleteStale(r)
    <2>1. pc' \in [Runners -> Passes] /\ Passing
      BY <1>1, <1>5, StopPasses DEF DeleteStale
    <2>2. tasks' = tasks /\ (lock' = lock \/ lock' = NoLock)
      BY <1>1, <1>5, SetLoses DEF DeleteStale
    <2>3. tasks' \in [Tasks -> Rows] /\ \A u \in Tasks : Follows(u)
      BY <1>1, <2>2, SameRows
    <2>4. lock' \in Locks
      BY <1>1, <1>2, <2>2
    <2> QED BY <1>1, <1>5, <2>1, <2>2, <2>3, <2>4, NoNewOwner, WriteInv DEF DeleteStale
  <1>6. CASE ExpireFails(r)
    <2>1. pc' \in [Runners -> Passes] /\ Passing
      BY <1>1, <1>6, StopPasses DEF ExpireFails
    <2> QED BY <1>1, <1>6, <2>1, ReadInv DEF ExpireFails
  <1> QED BY <1>3, <1>4, <1>5, <1>6

\* ClaimSystemTask until it has the lock.
LEMMA AcquireInv ==
    ASSUME IndInv, NEW r \in Runners,
           \/ \E t \in Tasks : FindPending(r, t)
           \/ CreateLock(r) \/ ReadLock(r) \/ TakeOverLock(r) \/ MarkTakenOver(r)
    PROVE  IndInv'
  <1>1. TypeOK /\ lock \in Locks /\ handlers \subseteq Handlers /\ alive \subseteq Runners
        /\ mishap \in BOOLEAN
    BY DEF IndInv, TypeOK
  <1>2. Owner(lock) \in Owners /\ Owner(NoLock) \in Owners /\ pc \in [Runners -> Passes]
    BY <1>1, Bounded
  <1>3. ASSUME NEW t \in Tasks, FindPending(r, t) PROVE IndInv'
    <2>1. pc' \in [Runners -> Passes] /\ Passing
      BY <1>1, <1>2, <1>3, StartPasses DEF FindPending, Places
    <2> QED BY <1>1, <1>3, <2>1, ReadInv DEF FindPending
  <1>4. CASE CreateLock(r)
    <2>0. Claims(r) /\ pc[r].task \in Tasks
      BY <1>4 DEF CreateLock, Looping, Claims, IndInv, ClaimInv
    <2>1. pc' \in [Runners -> Passes] /\ Passing
      BY <1>1, <1>4, <2>0, GotoPasses DEF CreateLock, Places
    <2>2. tasks' = tasks /\ (lock' = lock \/ lock' = Lease(r))
      BY <1>1, <1>4, SetLoses DEF CreateLock
    <2>3. tasks' \in [Tasks -> Rows] /\ \A u \in Tasks : Follows(u)
      BY <1>1, <2>2, SameRows
    <2>4. lock' \in Locks /\ NoComeback
      BY <1>1, <2>0, <2>2, LeaseType, LeaseIsNew, NoNewOwner
    <2> QED BY <1>1, <1>4, <2>1, <2>3, <2>4, WriteInv DEF CreateLock
  <1>5. CASE ReadLock(r)
    <2>1. pc' \in [Runners -> Passes] /\ Passing
      <3>1. CASE Stop(r)
        BY <1>1, <3>1, StopPasses
      <3>2. CASE GotoWith(r, "takeover", Owner(lock))
        <4>1. pc' = [pc EXCEPT ![r] = [pc[r] EXCEPT !.step = "takeover", !.seen = Owner(lock)]]
          BY <1>2, <3>2 DEF GotoWith
        <4>2. [pc[r] EXCEPT !.step = "takeover", !.seen = Owner(lock)] \in Passes
          BY <1>2 DEF Passes, Places
        <4>3. pc' \in [Runners -> Passes] /\ pc'[r].task = pc[r].task
              /\ \A q \in Runners \ {r} : pc'[q] = pc[q]
          BY <1>2, <4>1, <4>2 DEF Passes
        <4> QED BY <1>5, <4>3 DEF ReadLock, Looping, Passing, Claims
      <3> QED BY <1>5, <3>1, <3>2 DEF ReadLock
    <2> QED BY <1>1, <1>5, <2>1, ReadInv DEF ReadLock
  <1>6. CASE TakeOverLock(r)
    <2>0. Claims(r) /\ pc[r].task \in Tasks
      BY <1>6 DEF TakeOverLock, Looping, Claims, IndInv, ClaimInv
    <2>1. CASE Expired(pc[r].age)
      <3>1. pc' \in [Runners -> Passes] /\ Passing
        BY <1>1, <1>6, <2>0, <2>1, GotoPasses DEF TakeOverLock, Places
      <3>2. tasks' = tasks /\ lock' = Lease(r)
        BY <1>1, <1>6, <2>1, SetLoses DEF TakeOverLock
      <3>3. tasks' \in [Tasks -> Rows] /\ \A u \in Tasks : Follows(u)
        BY <1>1, <3>2, SameRows
      <3>4. lock' \in Locks /\ NoComeback
        BY <1>1, <2>0, <3>2, LeaseType, LeaseIsNew
      <3> QED BY <1>1, <1>6, <2>1, <3>1, <3>3, <3>4, WriteInv DEF TakeOverLock
    <2>2. CASE ~Expired(pc[r].age)
      <3>1. pc' \in [Runners -> Passes] /\ Passing
        BY <1>1, <1>6, <2>2, StopPasses DEF TakeOverLock
      <3> QED BY <1>1, <1>6, <2>2, <3>1, ReadInv DEF TakeOverLock
    <2> QED BY <2>1, <2>2
  <1>7. CASE MarkTakenOver(r)
    <2>0. Claims(r)
      BY <1>7 DEF MarkTakenOver, Looping, Claims
    <2>1. CASE Set(LeaseExpired(pc[r].seen.task), lock) /\ Goto(r, "cas")
      <3>1. pc' \in [Runners -> Passes] /\ Passing
        BY <1>1, <2>0, <2>1, GotoPasses DEF Places
      <3>2. tasks' = LeaseExpired(pc[r].seen.task) /\ lock' = lock
        BY <1>1, <2>1, SetLoses
      <3>3. tasks' \in [Tasks -> Rows] /\ \A u \in Tasks : Follows(u)
        BY <1>1, <3>2, ExpiredRows
      <3> QED BY <1>1, <1>7, <2>1, <3>1, <3>2, <3>3, NoNewOwner, WriteInv DEF MarkTakenOver
    <2>2. CASE Set(tasks, Released(pc[r].task, r)) /\ Stop(r)
      <3>1. pc' \in [Runners -> Passes] /\ Passing
        BY <1>1, <2>2, StopPasses
      <3>2. tasks' = tasks /\ lock' = Released(pc[r].task, r)
        BY <1>1, <2>2, SetLoses
      <3>3. tasks' \in [Tasks -> Rows] /\ \A u \in Tasks : Follows(u)
        BY <1>1, <3>2, SameRows
      <3> QED BY <1>1, <1>7, <2>2, <3>1, <3>2, <3>3, ReleasedType, WriteInv DEF MarkTakenOver
    <2> QED BY <1>7, <2>1, <2>2 DEF MarkTakenOver
  <1> QED BY <1>3, <1>4, <1>5, <1>6, <1>7

\* The conditional update pending -> running: nobody started the task before,
\* and whoever else is claiming it does not run it.
LEMMA StartInv ==
    ASSUME IndInv, NEW r \in Runners, ClaimTask(r), mishap' \in BOOLEAN,
           tasks[pc[r].task].status = "pending",
           \/ StartRunning(r, pc[r].task)
           \/ /\ Set(RunningBy(r, pc[r].task), Released(pc[r].task, r))
              /\ UNCHANGED <<handlers, ran>>
    PROVE  IndInv'
  <1> DEFINE t == pc[r].task
  <1>0. t \in Tasks
    BY DEF ClaimTask, Looping, IndInv, ClaimInv, Claims
  <1>1. TypeOK /\ lock \in Locks /\ handlers \subseteq Handlers /\ alive \subseteq Runners
        /\ ran \in [Tasks -> SUBSET Runners]
    BY DEF IndInv, TypeOK
  <1>3. tasks \in [Tasks -> Rows] /\ pc \in [Runners -> Passes] /\ Idle \in Passes
        /\ NoLock \in Locks /\ None \notin Tasks
    BY <1>1, Bounded
  <1>4. /\ tasks' = [tasks EXCEPT ![t] = [status |-> "running", lockedBy |-> r]]
        /\ lock' = lock \/ lock' = NoLock
        /\ Losing /\ lost' \subseteq Tasks
    BY <1>1, SetLoses DEF StartRunning, RunningBy, Released
  <1>5. /\ tasks' \in [Tasks -> Rows] /\ tasks'[t] = [status |-> "running", lockedBy |-> r]
        /\ \A u \in Tasks \ {t} : tasks'[u] = tasks[u]
    BY <1>0, <1>3, <1>4 DEF Rows, Status
  <1>6. pc' \in [Runners -> Passes] /\ ~Claims(r)' /\ \A q \in Runners \ {r} : pc'[q] = pc[q]
    BY <1>3 DEF ClaimTask, Stop, Claims, Idle
  <1>7. Handler(r, t) \in Handlers
    BY <1>0 DEF Handler, Handlers
  <1>8. UNCHANGED <<alive, bound>> /\ Tasks' = Tasks
    BY DEF ClaimTask, Tasks
  <1>9. /\ ran' \in [Tasks -> SUBSET Runners] /\ handlers' \subseteq Handlers
        /\ \A u \in Tasks \ {t} : ran'[u] = ran[u]
        /\ ran'[t] = ran[t] \/ ran'[t] = ran[t] \cup {r}
    BY <1>0, <1>1, <1>7 DEF StartRunning
  <1>10. TypeOK'
    BY <1>1, <1>3, <1>4, <1>5, <1>6, <1>8, <1>9, TypeStep
  <1>11. RanInv'
    <2>1. ran[t] = {}
      BY <1>0 DEF IndInv, RanInv
    <2> QED BY <1>5, <1>8, <1>9, <2>1 DEF IndInv, RanInv
  <1>12. ClaimInv'
    BY <1>0, <1>5, <1>6, <1>8 DEF IndInv, ClaimInv, Claims
  <1>13. LostInv'
    <2>1. t \notin lost
      BY DEF IndInv, LostInv
    <2>2. \A u \in Tasks \ {t} : OwnsLock(u)' => OwnsLock(u)
      BY <1>3, <1>4, <1>5 DEF OwnsLock, NoLock
    <2> QED BY <1>1, <1>4, <1>5, <2>1, <2>2 DEF IndInv, TypeOK, LostInv, Losing, Loses
  <1> QED BY <1>10, <1>11, <1>12, <1>13 DEF IndInv

LEMMA ClaimTaskInv ==
    ASSUME IndInv, NEW r \in Runners, ClaimTask(r)
    PROVE  IndInv'
  <1>1. CASE tasks[pc[r].task].status = "pending" /\ StartRunning(r, pc[r].task)
             /\ UNCHANGED mishap
    <2>1. mishap' \in BOOLEAN
      BY <1>1 DEF IndInv, TypeOK
    <2> QED BY <1>1, <2>1, StartInv
  <1>3. CASE /\ tasks[pc[r].task].status = "pending" /\ mishap' = TRUE
             /\ Set(RunningBy(r, pc[r].task), Released(pc[r].task, r))
             /\ UNCHANGED <<handlers, ran>>
    BY <1>3, StartInv
  <1>2. CASE Set(tasks, Released(pc[r].task, r)) /\ UNCHANGED <<handlers, ran, mishap>>
    <2>1. TypeOK /\ handlers \subseteq Handlers /\ alive \subseteq Runners /\ mishap \in BOOLEAN
      BY DEF IndInv, TypeOK
    <2>2. pc' \in [Runners -> Passes] /\ Passing
      BY <2>1, StopPasses DEF ClaimTask
    <2>3. tasks' = tasks /\ lock' = Released(pc[r].task, r)
      BY <1>2, <2>1, SetLoses
    <2>4. tasks' \in [Tasks -> Rows] /\ \A u \in Tasks : Follows(u)
      BY <2>1, <2>3, SameRows
    <2> QED BY <1>2, <2>1, <2>2, <2>3, <2>4, ReleasedType, WriteInv DEF ClaimTask
  <1> QED BY <1>1, <1>2, <1>3 DEF ClaimTask

\* A handler: its heartbeats, its result, and the release of the lock.
LEMMA HandlerInv ==
    ASSUME IndInv, NEW h \in handlers, HandlerStep(h)
    PROVE  IndInv'
  <1>1. TypeOK /\ lock \in Locks /\ handlers \subseteq Handlers /\ alive \subseteq Runners
    BY DEF IndInv, TypeOK
  <1>2. mishap \in BOOLEAN
    BY DEF IndInv, TypeOK
  <1>3. h \in Handlers /\ h.task \in Tasks /\ h.runner \in Runners
    BY <1>1 DEF Handlers
  <1>4. tasks \in [Tasks -> Rows] /\ pc \in [Runners -> Passes] /\ bound.stall \in Nat
        /\ TTL \in Nat \ {0} /\ Longest \in Int /\ Longest < -bound.stall
    BY <1>1, Bounded
  <1>5. ASSUME NEW age \in 0 .. bound.stall, Heartbeat(h, age) PROVE IndInv'
    <2>1. UNCHANGED <<pc, alive, ran, bound>> /\ mishap' \in BOOLEAN
      BY <1>2, <1>5 DEF Heartbeat
    <2>2. Passing
      BY <2>1 DEF Passing, Claims
    <2>3. CASE Set(tasks, RenewedLock(age)) /\ UNCHANGED handlers
      <3>1. tasks' = tasks /\ lock' = RenewedLock(age)
        BY <1>1, <2>3, SetLoses
      <3>2. tasks' \in [Tasks -> Rows] /\ \A u \in Tasks : Follows(u)
        BY <1>1, <3>1, SameRows
      <3>3. lock' \in Locks /\ lock'.task = lock.task /\ lock'.by = lock.by
        BY <1>1, <1>4, <3>1 DEF RenewedLock, Locks
      <3> QED BY <1>1, <1>4, <2>1, <2>2, <2>3, <3>2, <3>3, NoNewOwner, WriteInv
    <2>4. CASE /\ handlers' = (handlers \ {h}) \cup {[h EXCEPT !.cancelled = TRUE]}
               /\ UNCHANGED <<tasks, lock, lost>>
      <3>1. handlers' \subseteq Handlers
        BY <1>1, <1>3, <2>4 DEF Handlers
      <3>2. tasks' \in [Tasks -> Rows] /\ \A u \in Tasks : Follows(u)
        BY <1>1, <2>4, SameRows
      <3>3. lock' \in Locks /\ lost' \subseteq Tasks /\ ran' \in [Tasks -> SUBSET Runners]
        BY <2>1, <2>4 DEF IndInv, TypeOK
      <3>4. TypeOK'
        BY <1>1, <1>4, <2>1, <3>1, <3>2, <3>3, TypeStep
      <3>5. NoComeback /\ Losing
        BY <1>1, <2>4, NoNewOwner DEF Losing
      <3> QED BY <2>1, <2>2, <3>2, <3>4, <3>5, MoveInv
    <2> QED BY <1>5, <2>3, <2>4 DEF Heartbeat
  <1>6. ASSUME NEW age \in 0 .. bound.stall, NEW s \in {"succeeded", "failed"},
               FinishSystemTask(h, s, age)
        PROVE  IndInv'
    <2>1. UNCHANGED <<pc, alive, ran, mishap, bound>>
      BY <1>6 DEF FinishSystemTask, Finished
    <2>2. Passing
      BY <2>1 DEF Passing, Claims
    <2>3. CASE RunBy(h) /\ Leases(h.runner, h.task, age)
      <3>1. /\ Set([tasks EXCEPT ![h.task].status = s], lock)
            /\ handlers' = (handlers \ {h}) \cup {[h EXCEPT !.phase = "release"]}
        BY <1>6, <2>3 DEF FinishSystemTask, Finished
      <3>2. tasks' = [tasks EXCEPT ![h.task].status = s] /\ lock' = lock
        BY <1>1, <3>1, SetLoses
      <3>3. tasks[h.task].status = "running" /\ OwnsLock(h.task)
        BY <2>3 DEF RunBy, Leases, OwnsLock
      <3>4. tasks' \in [Tasks -> Rows] /\ \A u \in Tasks : Follows(u)
        BY <1>3, <1>4, <3>2, <3>3 DEF Follows, Rows, Status
      <3>5. handlers' \subseteq Handlers
        BY <1>1, <1>3, <3>1 DEF Handlers
      <3> QED BY <1>1, <1>2, <1>4, <2>1, <2>2, <3>1, <3>2, <3>4, <3>5, NoNewOwner, WriteInv
    <2>4. CASE ~(RunBy(h) /\ Leases(h.runner, h.task, age))
      <3>1. handlers' = handlers \ {h} /\ UNCHANGED <<tasks, lock, lost>>
        BY <1>6, <2>4 DEF FinishSystemTask, Finished
      <3> QED BY <1>1, <1>4, <2>1, <2>2, <3>1, ReadInv
    <2> QED BY <2>3, <2>4
  <1>7. CASE ReleaseSystemTaskLock(h)
    <2>1. UNCHANGED <<pc, alive, ran, mishap, bound>> /\ handlers' \subseteq Handlers
      BY <1>1, <1>7 DEF ReleaseSystemTaskLock
    <2>2. Passing
      BY <2>1 DEF Passing, Claims
    <2>3. tasks' = tasks /\ lock' = Released(h.task, h.runner)
      BY <1>1, <1>7, SetLoses DEF ReleaseSystemTaskLock
    <2>4. tasks' \in [Tasks -> Rows] /\ \A u \in Tasks : Follows(u)
      BY <1>1, <2>3, SameRows
    <2> QED
      BY <1>1, <1>2, <1>4, <1>7, <2>1, <2>2, <2>3, <2>4, ReleasedType, WriteInv
      DEF ReleaseSystemTaskLock
  <1> QED BY <1>5, <1>6, <1>7 DEF HandlerStep

\* The clock: leases run out and functions grow older.
LEMMA TickInv ==
    ASSUME IndInv, Tick
    PROVE  IndInv'
  <1>1. TypeOK /\ lock \in Locks /\ handlers \subseteq Handlers /\ alive \subseteq Runners
    BY DEF IndInv, TypeOK
  <1>2. mishap' \in BOOLEAN /\ UNCHANGED <<handlers, alive, ran, bound>>
    BY DEF IndInv, TypeOK, Tick
  <1>3. pc \in [Runners -> Passes] /\ Idle \in Passes /\ bound.stall \in Nat
        /\ TTL \in Nat \ {0} /\ Longest \in Int
    BY <1>1, Bounded
  <1>4. pc' \in [Runners -> Passes] /\ Passing
    <2>1. ASSUME NEW r \in Runners, pc[r].step # "idle"
          PROVE  [pc[r] EXCEPT !.age = @ + 1] \in Passes
      BY <1>3, <2>1 DEF Tick, Passes
    <2>2. pc' \in [Runners -> Passes]
      BY <1>3, <2>1 DEF Tick
    <2>3. \A r \in Runners : pc'[r] = Idle
                             \/ (pc'[r].step = pc[r].step /\ pc'[r].task = pc[r].task)
      BY <1>3 DEF Tick, Passes
    <2> QED BY <2>2, <2>3 DEF Passing, Claims, Idle
  <1>5. tasks' = tasks
        /\ lock' = IF Held /\ lock.left > Longest THEN [lock EXCEPT !.left = @ - 1] ELSE lock
    BY <1>1, SetLoses DEF Tick
  <1>6. lock' \in Locks /\ lock'.task = lock.task /\ lock'.by = lock.by
    BY <1>1, <1>3, <1>5 DEF Locks
  <1>7. tasks' \in [Tasks -> Rows] /\ \A u \in Tasks : Follows(u)
    BY <1>1, <1>5, SameRows
  <1> QED BY <1>1, <1>2, <1>4, <1>6, <1>7, NoNewOwner, WriteInv DEF Tick

LEMMA CrashInv ==
    ASSUME IndInv, NEW r \in Runners, Crash(r)
    PROVE  IndInv'
  <1>1. TypeOK /\ handlers' \subseteq Handlers /\ alive' \subseteq Runners
    BY DEF IndInv, TypeOK, Crash
  <1>2. pc' \in [Runners -> Passes] /\ Passing
    BY <1>1, StopPasses DEF Crash
  <1> QED BY <1>1, <1>2, ReadInv DEF Crash

\* Every step keeps the invariant.
LEMMA StepInv == IndInv /\ [Next]_vars => IndInv'
  <1> SUFFICES ASSUME IndInv, [Next]_vars PROVE IndInv'
    OBVIOUS
  <1>1. ASSUME NEW r \in Runners, RunnerStep(r) PROVE IndInv'
    BY <1>1, ExpireInv, AcquireInv, ClaimTaskInv DEF RunnerStep
  <1>2. CASE UNCHANGED vars
    <2>1. TypeOK /\ handlers' \subseteq Handlers /\ alive' \subseteq Runners
          /\ pc' \in [Runners -> Passes] /\ Passing
      BY <1>2, Bounded DEF IndInv, TypeOK, vars, Passing, Claims
    <2> QED BY <1>2, <2>1, ReadInv DEF vars
  <1> QED BY <1>1, <1>2, CreateInv, CrashInv, HandlerInv, TickInv DEF Next

\* The invariant holds in every reachable state.
LEMMA Inductive == Spec => []IndInv
  BY InitInv, StepInv, PTL DEF Spec

\* A task is started by one runner at most (ClaimSystemTask), however claims
\* interleave with expiry, takeover, crashes and functions that outlast a lease.
THEOREM OneRunner == Spec => []OneRunnerPerTask
  <1>1. ASSUME IndInv PROVE OneRunnerPerTask
    <2> SUFFICES ASSUME NEW t \in Tasks PROVE Cardinality(ran[t]) <= 1
      BY DEF OneRunnerPerTask
    <2>1. CASE ran[t] = {}
      BY <2>1, FS_EmptySet
    <2>2. CASE ran[t] # {}
      <3>1. PICK r : ran[t] = {r}
        BY <1>1, <2>2 DEF IndInv, RanInv
      <3> QED BY <3>1, FS_Singleton
    <2> QED BY <2>1, <2>2
  <1> QED BY <1>1, Inductive, PTL

\* A runner that was once without its lease records no success
\* (FinishSystemTask), for a lease that was lost never comes back.
THEOREM LosersAreSilent == Spec => []LoserRecordsNothing
  <1>1. IndInv => LoserRecordsNothing
    BY DEF IndInv, LostInv, LoserRecordsNothing
  <1> QED BY <1>1, Inductive, PTL

=============================================================================
