--------------------------- MODULE TaskExecutor ---------------------------
(***************************************************************************)
(* The sub-agent executor of packages/api/src/engine: per-user queues      *)
(* drained round-robin into a bounded number of slots, the `settled` latch *)
(* that the run's outcome and the watchdog race for, the AgentRun row that *)
(* five writers share, the report every child owes its parent, and what a  *)
(* restart of the process recovers.                                        *)
(*                                                                         *)
(* JavaScript runs to completion, so an action is the code between two     *)
(* awaits.  drain() is a loop inside such a stretch: while `draining` is   *)
(* set nothing but the loop can move.                                      *)
(***************************************************************************)
EXTENDS Integers, Sequences, FiniteSets, SequencesExt

CONSTANTS
    Tasks,          \* child AgentRun ids
    Users,
    UserOf,         \* the user each task is submitted for
    MaxConcurrent,  \* MAX_CONCURRENT_AGENTS
    MaxPending,     \* MAX_PENDING_AGENTS
    PolicyConc, PolicyPend,     \* Policy.maxConcurrentSubAgents / maxPendingSubAgents
    DefaultConc, DefaultPend,   \* USER_MAX_CONCURRENT_AGENTS / USER_MAX_PENDING_AGENTS
    Cancellable,    \* bound: tasks task_cancel is called on
    Stoppable,      \* bound: tasks whose user may stop his runs
    Reapable,       \* bound: tasks that may be older than STALE_THRESHOLD_MS
    MaxFaults,      \* bound on failed database or Redis calls and restarts together
    MaxCrashes      \* bound on the restarts among them

ASSUME TasksAssumption ==
    /\ IsFiniteSet(Tasks)
    /\ IsFiniteSet(Users)
    /\ UserOf \in [Tasks -> Users]
    /\ Cancellable \subseteq Tasks
    /\ Stoppable \subseteq Tasks
    /\ Reapable \subseteq Tasks
ASSUME LimitsAssumption ==
    /\ MaxConcurrent \in Nat \ {0}
    /\ MaxPending \in Nat
    /\ PolicyConc \in [Users -> Nat \ {0}]
    /\ PolicyPend \in [Users -> Nat]
    /\ DefaultConc \in Nat \ {0}
    /\ DefaultPend \in Nat
    /\ MaxCrashes \in Nat
    /\ MaxFaults \in Nat

VARIABLES
    queue,        \* userQueues: FIFO of submitted tasks per user
    rotation,     \* users in the order of their first submit
    rotationIdx,  \* 0-based index of the user to look at next
    userActive,   \* userActive: slots held per user
    activeCount,  \* activeCount_
    draining,     \* TRUE while drain()'s loop runs
    phase,        \* where the executor stands with a task
    promise,      \* the agentRunner.run() promise of a task
    result,       \* the status an unwinding run will resolve or reject with
    row,          \* AgentRun.status in the database
    failWrite,    \* tasks whose unguarded "failed" update is in flight
    publishing,   \* publishOutcome() calls in flight
    reports,      \* payloads enqueued for the parent, per child
    rescoped,     \* rows whose sessionId step 6 of run() has overwritten
    recovered,    \* tasks resubmitted by a restart (no policy quota)
    cancel,       \* progress and answer of the one task_cancel call on a task
    lost,         \* history: children whose report a failing call or a restart has lost
    crashes, faults

scheduler == <<queue, rotation, rotationIdx, userActive, activeCount, draining>>
runs      == <<promise, result, row, rescoped, failWrite>>
outbox    == <<publishing, reports, lost>>
bounds    == <<crashes, faults>>
vars == <<scheduler, phase, runs, outbox, recovered, cancel, bounds>>

Phases == {"new", "created", "queued", "active", "reporting", "done", "rejected", "dequeued"}
Promises == {"none", "starting", "running", "unwinding", "ended"}
Outcomes == {"completed", "failed"}
Rows == {"none", "pending", "running", "cancelled"} \union Outcomes
Terminal == {"completed", "failed", "cancelled"}
Cancels == {"idle", "loaded", "missed", "hit", "refused", "settled", "cancelled"}
Publications == [task : Tasks, status : Outcomes, by : {"executor", "reaper"}]

---------------------------------------------------------------------------
(* Derived state *)

QuotaConc(t) == IF t \in recovered THEN DefaultConc ELSE PolicyConc[UserOf[t]]
QuotaPend(t) == IF t \in recovered THEN DefaultPend ELSE PolicyPend[UserOf[t]]

PendingCount == Cardinality(UNION {{u} \X DOMAIN queue[u] : u \in Users})

\* Tasks between executeTask() and finalize()
Holders == {t \in Tasks : phase[t] \in {"active", "reporting"}}
HoldersOf(u) == {t \in Holders : UserOf[t] = u}

\* AgentRunRegistry.controllers.has(t): from register() to unregister()
Registered(t) == promise[t] \in {"running", "unwinding"}

---------------------------------------------------------------------------
Init ==
    /\ queue = [u \in Users |-> <<>>]
    /\ rotation = <<>>
    /\ rotationIdx = 0
    /\ userActive = [u \in Users |-> 0]
    /\ activeCount = 0
    /\ draining = FALSE
    /\ phase = [t \in Tasks |-> "new"]
    /\ promise = [t \in Tasks |-> "none"]
    /\ result = [t \in Tasks |-> "none"]
    /\ row = [t \in Tasks |-> "none"]
    /\ rescoped = {}
    /\ failWrite = {}
    /\ publishing = {}
    /\ reports = [t \in Tasks |-> <<>>]
    /\ lost = {}
    /\ recovered = {}
    /\ cancel = [t \in Tasks |-> "idle"]
    /\ crashes = 0
    /\ faults = 0

\* A database or Redis call fails (budgeted)
Fault == faults + crashes < MaxFaults /\ faults' = faults + 1

Publish(t, status, by) ==
    publishing' = publishing \union {[task |-> t, status |-> status, by |-> by]}

---------------------------------------------------------------------------
(* spawn and submit *)

\* The spawn tool inserts the pending row; submit() follows after the await
SpawnCreate(t) ==
    /\ phase[t] = "new"
    /\ phase' = [phase EXCEPT ![t] = "created"]
    /\ row' = [row EXCEPT ![t] = "pending"]
    /\ UNCHANGED <<scheduler, promise, result, rescoped, failWrite, outbox, recovered, cancel, bounds>>

QueueFull_NoUserCap(t) == PendingCount >= MaxPending
QueueFull(t) ==
    \/ PendingCount >= MaxPending
    \/ Len(queue[UserOf[t]]) >= QuotaPend(t)

SubmitAccepted(t) ==
    /\ phase[t] = "created"
    /\ ~QueueFull(t)
    /\ LET u == UserOf[t] IN
        /\ rotation' = IF u \in ToSet(rotation) THEN rotation ELSE Append(rotation, u)
        /\ queue' = [queue EXCEPT ![u] = Append(@, t)]
    /\ phase' = [phase EXCEPT ![t] = "queued"]
    /\ draining' = TRUE
    /\ UNCHANGED <<rotationIdx, userActive, activeCount, runs, outbox, recovered, cancel, bounds>>

SubmitRejected(t) ==
    /\ phase[t] = "created"
    /\ QueueFull(t)
    /\ phase' = [phase EXCEPT ![t] = "rejected"]
    /\ failWrite' = failWrite \union {t}
    /\ Publish(t, "failed", "executor")
    /\ UNCHANGED <<scheduler, promise, result, row, rescoped, reports, lost, recovered, cancel, bounds>>

---------------------------------------------------------------------------
(* drain() *)

\* The user nextEligibleItem() examines in its i-th round
RotationUser(i) == rotation[((rotationIdx + i) % Len(rotation)) + 1]

\* rotationIdx once the i-th round has served its user
IdxAfter(i) == (rotationIdx + i + 1) % Len(rotation)

Eligible(u) == queue[u] # <<>> /\ userActive[u] < QuotaConc(Head(queue[u]))

DrainStart ==
    /\ draining
    /\ activeCount < MaxConcurrent
    /\ \E i \in 0 .. Len(rotation) - 1 :
        LET u == RotationUser(i)
            t == Head(queue[u]) IN
        /\ Eligible(u)
        /\ \A j \in 0 .. i - 1 : ~Eligible(RotationUser(j))
        /\ rotationIdx' = IdxAfter(i)
        /\ queue' = [queue EXCEPT ![u] = Tail(@)]
        /\ activeCount' = activeCount + 1
        /\ userActive' = [userActive EXCEPT ![u] = @ + 1]
        /\ phase' = [phase EXCEPT ![t] = "active"]
        /\ promise' = [promise EXCEPT ![t] = "starting"]
    /\ UNCHANGED <<rotation, draining, result, row, rescoped, failWrite, outbox, recovered, cancel, bounds>>

DrainStop ==
    /\ draining
    /\ \/ activeCount >= MaxConcurrent
       \/ \A u \in ToSet(rotation) : ~Eligible(u)
    /\ draining' = FALSE
    /\ UNCHANGED <<queue, rotation, rotationIdx, userActive, activeCount,
                   phase, runs, outbox, recovered, cancel, bounds>>

ReleaseSlot_NoDrain(t) ==
    /\ activeCount' = activeCount - 1
    /\ userActive' = [userActive EXCEPT ![UserOf[t]] = IF @ > 0 THEN @ - 1 ELSE 0]
    /\ UNCHANGED <<queue, rotation, rotationIdx, draining>>
\* finalize(): give the slot back, then drain
ReleaseSlot(t) ==
    /\ activeCount' = activeCount - 1
    /\ userActive' = [userActive EXCEPT ![UserOf[t]] = IF @ > 0 THEN @ - 1 ELSE 0]
    /\ draining' = TRUE
    /\ UNCHANGED <<queue, rotation, rotationIdx>>

---------------------------------------------------------------------------
(* agentRunner.run() and the latch *)

Settle_NoLatch(t, status) ==
    /\ phase' = [phase EXCEPT ![t] = "reporting"]
    /\ Publish(t, status, "executor")
\* The continuation of `await agentRunner.run()`: a no-op when the watchdog won
Settle(t, status) ==
    IF phase[t] = "active"
    THEN /\ phase' = [phase EXCEPT ![t] = "reporting"]
         /\ Publish(t, status, "executor")
    ELSE UNCHANGED <<phase, publishing>>

\* run() throws before its try block (inactive agent, budget, provider, lookup)
RunRefused(t) ==
    /\ promise[t] = "starting"
    /\ promise' = [promise EXCEPT ![t] = "ended"]
    /\ Settle(t, "failed")
    /\ UNCHANGED <<scheduler, result, row, rescoped, failWrite, reports, lost, recovered, cancel, bounds>>

\* Step 6: the unguarded update to "running", then register()
RunStarts(t) ==
    /\ promise[t] = "starting"
    /\ promise' = [promise EXCEPT ![t] = "running"]
    /\ row' = [row EXCEPT ![t] = "running"]
    /\ rescoped' = rescoped \union {t}
    /\ UNCHANGED <<scheduler, phase, result, failWrite, outbox, recovered, cancel, bounds>>

\* The guarded terminal update of the loop's end or of the catch block; a run that was
\* stopped finds its row cancelled and returns that, which its parent hears as failed
RunWrites(t) ==
    /\ promise[t] = "running"
    /\ promise' = [promise EXCEPT ![t] = "unwinding"]
    /\ \E s \in Outcomes :
        /\ result' = [result EXCEPT ![t] = s]
        /\ row' = [row EXCEPT ![t] = IF @ = "running" THEN s ELSE @]
    /\ UNCHANGED <<scheduler, phase, rescoped, failWrite, outbox, recovered, cancel, bounds>>

\* That update fails: run() rejects and leaves the row as it is
RunWriteFails(t) ==
    /\ promise[t] = "running"
    /\ Fault
    /\ promise' = [promise EXCEPT ![t] = "unwinding"]
    /\ result' = [result EXCEPT ![t] = "failed"]
    /\ UNCHANGED <<scheduler, phase, row, rescoped, failWrite, outbox, recovered, cancel, crashes>>

\* The finally block has unregistered the controller and run() returns
RunReturns(t) ==
    /\ promise[t] = "unwinding"
    /\ promise' = [promise EXCEPT ![t] = "ended"]
    /\ Settle(t, result[t])
    /\ UNCHANGED <<scheduler, result, row, rescoped, failWrite, reports, lost, recovered, cancel, bounds>>

Watchdog_NoReport(t) ==
    /\ phase[t] = "active"
    /\ phase' = [phase EXCEPT ![t] = "done"]
    /\ failWrite' = failWrite \union {t}
    /\ ReleaseSlot(t)
    /\ UNCHANGED <<promise, result, row, rescoped, outbox, recovered, cancel, bounds>>
Watchdog_KeepsSlot(t) ==
    /\ phase[t] = "active"
    /\ phase' = [phase EXCEPT ![t] = "done"]
    /\ failWrite' = failWrite \union {t}
    /\ Publish(t, "failed", "executor")
    /\ UNCHANGED <<scheduler, promise, result, row, rescoped, reports, lost, recovered, cancel, bounds>>
\* timeoutMs + grace passed and the run has not settled
Watchdog(t) ==
    /\ phase[t] = "active"
    /\ phase' = [phase EXCEPT ![t] = "done"]
    /\ failWrite' = failWrite \union {t}
    /\ Publish(t, "failed", "executor")
    /\ ReleaseSlot(t)
    /\ UNCHANGED <<promise, result, row, rescoped, reports, lost, recovered, cancel, bounds>>

\* update(id, {status: 'failed'}) of a rejection or the watchdog: no guard
FailWriteLands(t) ==
    /\ t \in failWrite
    /\ failWrite' = failWrite \ {t}
    /\ \/ row' = [row EXCEPT ![t] = "failed"] /\ UNCHANGED faults
       \/ Fault /\ UNCHANGED row
    /\ UNCHANGED <<scheduler, phase, promise, result, rescoped, outbox, recovered, cancel, crashes>>

---------------------------------------------------------------------------
(* publishOutcome() *)

AfterPublish_AnyPhase(p) ==
    /\ phase' = [phase EXCEPT ![p.task] = "done"]
    /\ ReleaseSlot(p.task)
\* executeTask() resumes after its `await publishOutcome`
AfterPublish(p) ==
    IF p.by = "executor" /\ phase[p.task] = "reporting"
    THEN /\ phase' = [phase EXCEPT ![p.task] = "done"]
         /\ ReleaseSlot(p.task)
    ELSE UNCHANGED <<phase, scheduler>>

\* The lpush of the payload succeeds
PublishLands(p) ==
    /\ p \in publishing
    /\ publishing' = publishing \ {p}
    /\ reports' = [reports EXCEPT ![p.task] = Append(@, p.status)]
    /\ AfterPublish(p)
    /\ UNCHANGED <<runs, lost, recovered, cancel, bounds>>

\* A lookup threw or PUBLISH_MAX_ATTEMPTS pushes failed: logged, not enqueued
PublishLost(p) ==
    /\ p \in publishing
    /\ Fault
    /\ publishing' = publishing \ {p}
    /\ lost' = lost \union {p.task}
    /\ AfterPublish(p)
    /\ UNCHANGED <<runs, reports, recovered, cancel, crashes>>

---------------------------------------------------------------------------
(* The other writers of the row: task_cancel, the reaper, a restart *)

\* task_cancel reads the row.  Step 6 of run() moves a started child to a session
\* of its own, so the scope check passes only for a row that never started.
CancelLoad(t) ==
    /\ t \in Cancellable
    /\ cancel[t] = "idle"
    /\ row[t] # "none"
    /\ phase[t] # "created"
    /\ cancel' = [cancel EXCEPT ![t] = IF t \in rescoped THEN "refused"
                                      ELSE IF row[t] \in Terminal THEN "settled"
                                      ELSE "loaded"]
    /\ UNCHANGED <<scheduler, phase, runs, outbox, recovered, bounds>>

\* cancelQueued(t)
Dequeue(t, i) ==
    /\ queue[UserOf[t]][i] = t
    /\ queue' = [queue EXCEPT ![UserOf[t]] = RemoveAt(@, i)]
    /\ phase' = [phase EXCEPT ![t] = "dequeued"]

\* Take the task out of its queue, else abort a registered run
CancelHit(t) ==
    /\ cancel[t] = "loaded"
    /\ IF phase[t] = "queued"
       THEN /\ \E i \in DOMAIN queue[UserOf[t]] : Dequeue(t, i)
            /\ cancel' = [cancel EXCEPT ![t] = "hit"]
       ELSE /\ UNCHANGED <<queue, phase>>
            /\ cancel' = [cancel EXCEPT ![t] = IF Registered(t) THEN "hit" ELSE "missed"]
    /\ UNCHANGED <<rotation, rotationIdx, userActive, activeCount, draining,
                   runs, outbox, recovered, bounds>>

\* cancelIfActive(): guarded flip of a pending or running row, then the answer
CancelFlip(t) ==
    /\ cancel[t] \in {"hit", "missed"}
    /\ LET active == row[t] \in {"pending", "running"} IN
        /\ row' = IF active THEN [row EXCEPT ![t] = "cancelled"] ELSE row
        /\ cancel' = [cancel EXCEPT ![t] = IF @ = "hit" \/ active THEN "cancelled" ELSE "settled"]
    /\ UNCHANGED <<scheduler, phase, promise, result, rescoped, failWrite, outbox, recovered, bounds>>

\* cancelIfActive() fails: the tool answers with an error, and a task it has taken out
\* of its queue has nobody left to run or report it
CancelFlipFails(t) ==
    /\ cancel[t] \in {"hit", "missed"}
    /\ Fault
    /\ cancel' = [cancel EXCEPT ![t] = "refused"]
    /\ lost' = IF phase[t] = "dequeued" THEN lost \union {t} ELSE lost
    /\ UNCHANGED <<scheduler, phase, runs, publishing, reports, recovered, crashes>>

\* The user's stop aborts the controllers of all his running rows and writes the rows;
\* a run that notices returns later and leaves its row alone (RunWrites).  A row that a
\* restart has left running is the reaper's to report, which does not find it any more.
StopWrites(t) ==
    /\ t \in Stoppable
    /\ row[t] = "running"
    /\ row' = [row EXCEPT ![t] = "cancelled"]
    /\ lost' = IF phase[t] = "done" /\ \A p \in publishing : p.task # t THEN lost \union {t} ELSE lost
    /\ UNCHANGED <<scheduler, phase, promise, result, rescoped, failWrite, publishing, reports, recovered, cancel,
                   bounds>>

\* reapStaleRuns() on one row running for longer than STALE_THRESHOLD_MS
Reap(t) ==
    /\ t \in Reapable
    /\ row[t] = "running"
    /\ row' = [row EXCEPT ![t] = "failed"]
    /\ IF Registered(t) THEN UNCHANGED publishing ELSE Publish(t, "failed", "reaper")
    /\ UNCHANGED <<scheduler, phase, promise, result, rescoped, failWrite, reports, lost, recovered, cancel, bounds>>

\* The process dies and starts again.  Memory and calls in flight are gone, the
\* rows stay; onModuleInit() resubmits the pending ones under default quotas, but for
\* sessions (or all of them) whose rows it fails to read.  Nobody looks at a settled
\* row again.
Restart ==
    /\ crashes < MaxCrashes /\ faults + crashes < MaxFaults
    /\ crashes' = crashes + 1
    /\ LET pending == {t \in Tasks : row[t] = "pending"}
           settled == {t \in Tasks : row[t] \in Terminal /\ reports[t] = <<>>} IN
        \E back \in SUBSET pending :
        /\ phase' = [t \in Tasks |-> IF t \in back THEN "created"
                                     ELSE IF row[t] = "none" THEN "new" ELSE "done"]
        /\ recovered' = recovered \union back
        /\ lost' = lost \union settled \union (pending \ back)
    /\ promise' = [t \in Tasks |-> IF promise[t] = "none" \/ row[t] = "pending" THEN "none" ELSE "ended"]
    /\ result' = [t \in Tasks |-> "none"]
    /\ queue' = [u \in Users |-> <<>>]
    /\ rotation' = <<>>
    /\ rotationIdx' = 0
    /\ userActive' = [u \in Users |-> 0]
    /\ activeCount' = 0
    /\ draining' = FALSE
    /\ failWrite' = {}
    /\ publishing' = {}
    /\ cancel' = [t \in Tasks |-> IF cancel[t] \in {"loaded", "hit", "missed"} THEN "idle" ELSE cancel[t]]
    /\ UNCHANGED <<row, rescoped, reports, faults>>

---------------------------------------------------------------------------
ExecutorStep(t) ==
    \/ SubmitAccepted(t) \/ SubmitRejected(t)
    \/ Watchdog(t) \/ FailWriteLands(t)

RunStep(t) ==
    \/ RunRefused(t) \/ RunStarts(t)
    \/ RunWrites(t) \/ RunWriteFails(t) \/ RunReturns(t)

CancelStep(t) ==
    \/ CancelLoad(t) \/ CancelHit(t) \/ CancelFlip(t) \/ CancelFlipFails(t)
    \/ StopWrites(t)

Next ==
    \/ DrainStart
    \/ DrainStop
    \/ /\ ~draining
       /\ \/ \E t \in Tasks :
                SpawnCreate(t) \/ ExecutorStep(t) \/ RunStep(t) \/ CancelStep(t) \/ Reap(t)
          \/ \E p \in publishing : PublishLands(p) \/ PublishLost(p)
          \/ Restart

Spec == Init /\ [][Next]_vars

\* What the event loop owes a task: its submit() runs, the watchdog and the reaper
\* fire, calls in flight return.  A run owes nothing: it may hang forever.
Owed(t) ==
    \/ ExecutorStep(t)
    \/ CancelHit(t) \/ CancelFlip(t) \/ CancelFlipFails(t)
    \/ Reap(t)
    \/ \E p \in publishing : p.task = t /\ (PublishLands(p) \/ PublishLost(p))

\* Strong, because a drain loop in between disables everything else for a moment
Fairness ==
    /\ WF_vars(DrainStart \/ DrainStop)
    /\ \A t \in Tasks : SF_vars(~draining /\ Owed(t))

FairSpec == Spec /\ Fairness

---------------------------------------------------------------------------
(* Properties *)

TypeOK ==
    /\ queue \in [Users -> Seq(Tasks)]
    /\ rotation \in Seq(Users)
    /\ rotationIdx \in Nat
    /\ userActive \in [Users -> Nat]
    /\ activeCount \in Nat
    /\ draining \in BOOLEAN
    /\ phase \in [Tasks -> Phases]
    /\ promise \in [Tasks -> Promises]
    /\ result \in [Tasks -> Outcomes \union {"none"}]
    /\ row \in [Tasks -> Rows]
    /\ rescoped \subseteq Tasks
    /\ failWrite \subseteq Tasks
    /\ publishing \subseteq Publications
    /\ reports \in [Tasks -> Seq(Outcomes)]
    /\ lost \subseteq Tasks
    /\ recovered \subseteq Tasks
    /\ cancel \in [Tasks -> Cancels]
    /\ crashes \in 0 .. MaxCrashes
    /\ faults \in 0 .. MaxFaults

\* The two counters are what they stand for: executeTask()'s three exits (run
\* resolves, run rejects, watchdog) free each slot exactly once between them.
SlotAccounting ==
    /\ activeCount = Cardinality(Holders)
    /\ \A u \in Users : userActive[u] = Cardinality(HoldersOf(u))

Recovered(u) == \E t \in recovered : UserOf[t] = u

\* Host ceiling, per-user share and queue depths hold across submits, releases,
\* cancellations and the mix of policy and default quotas after a restart.
LimitsRespected ==
    /\ activeCount <= MaxConcurrent
    /\ PendingCount <= MaxPending
    /\ \A u \in Users :
        /\ userActive[u] <= PolicyConc[u] \/ (Recovered(u) /\ userActive[u] <= DefaultConc)
        /\ Len(queue[u]) <= PolicyPend[u] \/ (Recovered(u) /\ Len(queue[u]) <= DefaultPend)

\* A waiting task stands exactly once, in its own user's queue, and nothing
\* else stands there: shift(), push() and splice() neither lose nor repeat one.
QueueIntegrity ==
    \A u \in Users :
        /\ IsInjective(queue[u])
        /\ ToSet(queue[u]) = {t \in Tasks : phase[t] = "queued" /\ UserOf[t] = u}

\* A backlog never waits on nobody: with a slot free, a user whose tasks wait has
\* a task running, and that task's release will drain again.
NoIdleBacklog ==
    ~draining /\ activeCount < MaxConcurrent =>
        \A u \in Users : queue[u] # <<>> => userActive[u] > 0

\* The parent is told once: latch and controller check keep the run's outcome, the
\* watchdog and the reaper from reporting the same child twice, as long as no terminal
\* write fails and the process lives.
PublicationsOf(t) == {p \in publishing : p.task = t}
ReportedOnce ==
    faults + crashes = 0 =>
        \A t \in Tasks : Len(reports[t]) + Cardinality(PublicationsOf(t)) <= 1

\* A queued task gets a slot or leaves the queue, however long runs hang: the
\* watchdog frees their slots.
QueuedEventuallyServed ==
    \A t \in Tasks : phase[t] = "queued" ~> phase[t] # "queued"

\* Every spawned child is reported to its parent, or the parent's task_cancel has
\* answered that it is cancelled, whatever else fails or restarts, unless its report is
\* lost: publishOutcome() failed for this child, a restart found its row settled before
\* the report was out or could not read its pending row, the user stopped a row that a
\* restart had left running, or task_cancel took the child out of its queue and could
\* not write its row.  The bound Reapable names the children the reaper may find.
EveryChildReported ==
    \A t \in Reapable : row[t] = "pending" ~> reports[t] # <<>> \/ cancel[t] = "cancelled" \/ t \in lost

============================================================================
