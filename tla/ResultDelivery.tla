-------------------------- MODULE ResultDelivery --------------------------
(***************************************************************************)
(* Delivery of settled sub-agents' results to one parent session: the     *)
(* Redis result queue and processing list, the token-fenced delivery lock, *)
(* waves that re-invoke the parent under a cap, retries through the sweep, *)
(* the parent's own turns with task_wait and the completion hook, lossy    *)
(* wake-ups, failing calls and restarts.                                   *)
(*                                                                         *)
(* A list's head is its left end: lpush is Cons, and lmove RIGHT LEFT      *)
(* takes the last element of one list to the head of the other.            *)
(***************************************************************************)
EXTENDS Integers, Sequences, FiniteSets, SequencesExt

CONSTANTS
    Results,           \* child runs that owe this session a result
    Deliverers,        \* bound: tryDeliverResults() calls that may overlap
    WaveSize,          \* MAX_RESULTS_PER_WAVE
    MaxAttempts,       \* MAX_DELIVERY_ATTEMPTS
    MaxReinvocations,  \* maxReinvocations per window
    MaxWakeups,        \* bound on wake-ups in flight
    MaxTurns,          \* bound on turns the user starts
    MaxFailures,       \* bound on the failed waves a result is part of
    MaxWindows,        \* bound on expiries of the reinvocation counter
    MaxCrashes,        \* bound on process restarts; none follows a failed call
    MaxFaults          \* bound on failed Redis calls outside of task_wait; none follows a restart

ASSUME DeliveryAssumption ==
    /\ IsFiniteSet(Results) /\ IsFiniteSet(Deliverers)
    /\ {"free", "orphan"} \intersect Deliverers = {}
    /\ {WaveSize, MaxAttempts, MaxReinvocations, MaxWakeups} \subseteq Nat \ {0}
    /\ {MaxTurns, MaxFailures, MaxWindows, MaxCrashes, MaxFaults} \subseteq Nat

VARIABLES
    child,       \* how far the child's outcome has come
    queue,       \* agent:results:<session>
    processing,  \* agent:processing:<session>
    lock,        \* lock:agent:<session>: its holder, "free", or "orphan" (holder gone)
    count,       \* agent:reinvoke-count:<session>
    countTTL,    \* whether that key will expire
    wakeups,     \* agentResultReady messages in flight
    pc,          \* where a tryDeliverResults() call stands
    batch,       \* the wave it has drained
    todo,        \* items of the wave a loop has still to handle
    pass,        \* 1, or 2 for the call after the final check
    turn,        \* the user's primary run in this session
    waiting,     \* tasks a task_wait call has found settled and is consuming
    scanning,    \* the list it scans: "none", "queue" or "processing"
    scan,        \* what it has read of that list and not yet looked at
    ghost,       \* a dead process left a primary run's row "running"
    sweep,       \* requeueProcessingLists()
    told,        \* history: results the parent has been given
    failures,    \* history: failed waves a result was part of
    dropped,     \* history: results given up after MaxAttempts
    turns, windows, crashes, faults

lists   == <<queue, processing>>
counter == <<count, countTTL, windows>>
calls   == <<pc, batch, todo, pass>>
wait    == <<waiting, scanning, scan>>
parent  == <<turn, wait, ghost, turns>>
history == <<told, failures, dropped>>
bounds  == <<crashes, faults>>
vars == <<child, lists, lock, counter, wakeups, calls, parent, sweep, history, bounds>>


Ids(list) == {p.id : p \in ToSet(list)}
Stored == Ids(queue) \union Ids(processing)

\* findActivePrimaryRun(): a running row without a parent in this session
ActivePrimary == turn = "running" \/ ghost \/ \E d \in Deliverers : pc[d] = "running"

\* Calls between setNx and releaseFencedLock
Critical == {d \in Deliverers : pc[d] \notin {"idle", "guarded"}}

Goto(d, point) == pc' = [pc EXCEPT ![d] = point]
Fault == crashes = 0 /\ faults < MaxFaults /\ faults' = faults + 1
Wake == wakeups' = IF wakeups < MaxWakeups THEN wakeups + 1 ELSE wakeups

Init ==
    /\ child = [r \in Results |-> "running"]
    /\ queue = <<>> /\ processing = <<>>
    /\ lock = "free"
    /\ count = 0 /\ countTTL = FALSE /\ windows = 0
    /\ wakeups = 0
    /\ pc = [d \in Deliverers |-> "idle"]
    /\ batch = [d \in Deliverers |-> <<>>]
    /\ todo = [d \in Deliverers |-> <<>>]
    /\ pass = [d \in Deliverers |-> 1]
    /\ turn = "idle" /\ ghost = FALSE /\ turns = 0
    /\ waiting = {} /\ scanning = "none" /\ scan = <<>>
    /\ sweep = "idle"
    /\ told = {} /\ failures = [r \in Results |-> 0] /\ dropped = {}
    /\ crashes = 0 /\ faults = 0

---------------------------------------------------------------------------
(* The child's side: publishOutcome() *)

ChildSettles(r) ==
    /\ child[r] = "running"
    /\ child' = [child EXCEPT ![r] = "settled"]
    /\ UNCHANGED <<lists, lock, counter, wakeups, calls, parent, sweep, history, bounds>>

Enqueue(r) ==
    /\ child[r] = "settled"
    /\ child' = [child EXCEPT ![r] = "enqueued"]
    /\ queue' = Cons([id |-> r, attempts |-> 0], queue)
    /\ UNCHANGED <<processing, lock, counter, wakeups, calls, parent, sweep, history, bounds>>

\* The wake-up is published, or its failure is logged and left to the backstops
Announce(r) ==
    /\ child[r] = "enqueued"
    /\ child' = [child EXCEPT ![r] = "announced"]
    /\ \/ Wake /\ UNCHANGED faults
       \/ Fault /\ UNCHANGED wakeups
    /\ UNCHANGED <<lists, lock, counter, calls, parent, sweep, history, crashes>>

---------------------------------------------------------------------------
(* The parent's turns *)

TurnStarts ==
    /\ turn = "idle"
    /\ turns < MaxTurns
    /\ turns' = turns + 1
    /\ turn' = "running"
    /\ UNCHANGED <<child, lists, lock, counter, wakeups, calls, wait, ghost, sweep, history, bounds>>

\* task_wait has the outcomes of the settled tasks it asked for and consumes their
\* payloads: lrange of the queue ...
WaitStarts ==
    /\ turn = "running"
    /\ scanning = "none"
    /\ \E R \in SUBSET {r \in Results : child[r] # "running"} \ {{}} :
           waiting' = R /\ told' = told \union R
    /\ scanning' = "queue" /\ scan' = queue
    /\ UNCHANGED <<child, lists, lock, counter, wakeups, calls, turn, ghost, turns, sweep, failures, dropped,
                   bounds>>

\* ... an lrem for each of its payloads that was read; one that throws is passed over ...
WaitRemoves ==
    /\ scan # <<>>
    /\ scan' = Tail(scan)
    /\ \/ /\ Head(scan).id \in waiting
          /\ \/ scanning = "queue" /\ queue' = RemoveFirst(queue, Head(scan)) /\ UNCHANGED processing
             \/ scanning = "processing" /\ processing' = RemoveFirst(processing, Head(scan)) /\ UNCHANGED queue
       \/ UNCHANGED lists
    /\ UNCHANGED <<child, lock, counter, wakeups, calls, turn, waiting, scanning, ghost, turns, sweep, history,
                   bounds>>

\* ... then the same with the processing list, and the call returns
WaitGoesOn ==
    /\ scanning # "none"
    /\ scan = <<>>
    /\ IF scanning = "queue"
       THEN scanning' = "processing" /\ scan' = processing /\ UNCHANGED waiting
       ELSE scanning' = "none" /\ waiting' = {} /\ UNCHANGED scan
    /\ UNCHANGED <<child, lists, lock, counter, wakeups, calls, turn, ghost, turns, sweep, history, bounds>>

\* The lrange of the processing list throws, and with it the call
WaitFails ==
    /\ scanning = "queue"
    /\ scan = <<>>
    /\ scanning' = "none" /\ waiting' = {}
    /\ UNCHANGED <<child, lists, lock, counter, wakeups, calls, turn, scan, ghost, turns, sweep, history, bounds>>

TurnSettles ==
    /\ turn = "running"
    /\ scanning = "none"
    /\ turn' = "settled"
    /\ UNCHANGED <<child, lists, lock, counter, wakeups, calls, wait, ghost, turns, sweep, history, bounds>>

TurnWakes_NoHook ==
    /\ turn = "settled"
    /\ turn' = "idle"
    /\ UNCHANGED <<child, lists, lock, counter, wakeups, calls, wait, ghost, turns, sweep, history, bounds>>
\* The completion hook in run()'s finally block
TurnWakes ==
    /\ turn = "settled"
    /\ turn' = "idle"
    /\ \/ IF queue # <<>> THEN Wake /\ UNCHANGED faults ELSE UNCHANGED <<wakeups, faults>>
       \/ Fault /\ UNCHANGED wakeups
    /\ UNCHANGED <<child, lists, lock, counter, calls, wait, ghost, turns, sweep, history, crashes>>
---------------------------------------------------------------------------
(* tryDeliverResults() *)

\* A notification arrives; the D4 guard defers while a primary run is live
WakeUp(d) ==
    /\ wakeups > 0
    /\ pc[d] = "idle"
    /\ wakeups' = wakeups - 1
    /\ IF ActivePrimary THEN UNCHANGED pc ELSE Goto(d, "guarded")
    /\ UNCHANGED <<child, lists, lock, counter, batch, todo, pass, parent, sweep, history, bounds>>

Acquire_NoCheck(d) ==
    /\ pc[d] = "guarded"
    /\ lock' = d /\ Goto(d, "drain")
    /\ pass' = [pass EXCEPT ![d] = 1]
    /\ UNCHANGED <<child, lists, counter, wakeups, batch, todo, parent, sweep, history, bounds>>
\* setNx, or "Lock held; skipping delivery"
Acquire(d) ==
    /\ pc[d] = "guarded"
    /\ IF lock = "free"
       THEN lock' = d /\ Goto(d, "drain")
       ELSE UNCHANGED lock /\ Goto(d, "idle")
    /\ pass' = [pass EXCEPT ![d] = 1]
    /\ UNCHANGED <<child, lists, counter, wakeups, batch, todo, parent, sweep, history, bounds>>

Leave_NoRelease(d) == Goto(d, IF pass[d] = 1 THEN "final" ELSE "idle")
\* deliverResults() returns
Leave(d) == Goto(d, IF pass[d] = 1 THEN "final" ELSE "release")

DrainPop_Rpop(d) ==
    /\ pc[d] = "drain"
    /\ Len(batch[d]) < WaveSize /\ queue # <<>>
    /\ queue' = Front(queue)
    /\ batch' = [batch EXCEPT ![d] = Append(@, Last(queue))]
    /\ UNCHANGED <<child, processing, lock, counter, wakeups, pc, todo, pass, parent, sweep, history, bounds>>
\* One lmove of the loop that fills the wave
DrainPop(d) ==
    /\ pc[d] = "drain"
    /\ Len(batch[d]) < WaveSize /\ queue # <<>>
    /\ queue' = Front(queue)
    /\ processing' = Cons(Last(queue), processing)
    /\ batch' = [batch EXCEPT ![d] = Append(@, Last(queue))]
    /\ UNCHANGED <<child, lock, counter, wakeups, pc, todo, pass, parent, sweep, history, bounds>>

DrainEnds(d) ==
    /\ pc[d] = "drain"
    /\ Len(batch[d]) = WaveSize \/ queue = <<>>
    /\ IF batch[d] = <<>> THEN Leave(d) ELSE Goto(d, "count")
    /\ UNCHANGED <<child, lists, lock, counter, wakeups, batch, todo, pass, parent, sweep, history, bounds>>

OverCap(n) == n > MaxReinvocations

\* incr of the reinvocation counter
CountWave(d) ==
    /\ pc[d] = "count"
    /\ count' = count + 1
    /\ IF count' = 1 THEN Goto(d, "ttl")
       ELSE IF OverCap(count') THEN Goto(d, "capped")
       ELSE Goto(d, "invoke")
    /\ UNCHANGED <<child, lists, lock, countTTL, windows, wakeups, batch, todo, pass, parent, sweep, history, bounds>>

\* expire of a counter the incr has created
CountTTL(d) ==
    /\ pc[d] = "ttl"
    /\ countTTL' = TRUE
    /\ Goto(d, "invoke")
    /\ UNCHANGED <<child, lists, lock, count, windows, wakeups, batch, todo, pass, parent, sweep, history, bounds>>

\* Cap reached: roll the count back, then lpush and lrem item by item
CapRollsBack(d) ==
    /\ pc[d] = "capped"
    /\ count' = count - 1
    /\ todo' = [todo EXCEPT ![d] = batch[d]]
    /\ Goto(d, "requeue")
    /\ UNCHANGED <<child, lists, lock, countTTL, windows, wakeups, batch, pass, parent, sweep,
                   history, bounds>>

Requeue(d) ==
    /\ pc[d] = "requeue"
    /\ IF todo[d] = <<>>
       THEN /\ Leave(d)
            /\ batch' = [batch EXCEPT ![d] = <<>>]
            /\ UNCHANGED queue
       ELSE /\ queue' = Cons(Head(todo[d]), queue)
            /\ Goto(d, "unqueue")
            /\ UNCHANGED batch
    /\ UNCHANGED <<child, processing, lock, counter, wakeups, todo, pass, parent, sweep, history, bounds>>

Unqueue(d) ==
    /\ pc[d] = "unqueue"
    /\ processing' = RemoveFirst(processing, Head(todo[d]))
    /\ todo' = [todo EXCEPT ![d] = Tail(@)]
    /\ Goto(d, "requeue")
    /\ UNCHANGED <<child, queue, lock, counter, wakeups, batch, pass, parent, sweep, history, bounds>>

\* agentRunner.run() of the reinvocation has created its running row
WaveStarts(d) ==
    /\ pc[d] = "invoke"
    /\ Goto(d, "running")
    /\ UNCHANGED <<child, lists, lock, counter, wakeups, batch, todo, pass, parent, sweep, history, bounds>>

Fails(d) ==
    /\ \A r \in Ids(batch[d]) : failures[r] < MaxFailures
    /\ Goto(d, "rollback")
    /\ failures' = [r \in Results |-> failures[r] + IF r \in Ids(batch[d]) THEN 1 ELSE 0]

\* A lookup or the run throws before there is a row
WaveRefused(d) ==
    /\ pc[d] = "invoke"
    /\ Fails(d)
    /\ UNCHANGED <<child, lists, lock, counter, wakeups, batch, todo, pass, parent, sweep, told,
                   dropped, bounds>>

\* The run's row is terminal and its completion hook has run: the parent has
\* been told, or the run failed
WaveSettles(d) ==
    /\ pc[d] = "running"
    /\ IF queue # <<>> THEN Wake ELSE UNCHANGED wakeups
    /\ \/ /\ Goto(d, "clear")
          /\ told' = told \union Ids(batch[d])
          /\ todo' = [todo EXCEPT ![d] = batch[d]]
          /\ UNCHANGED failures
       \/ Fails(d) /\ UNCHANGED <<told, todo>>
    /\ UNCHANGED <<child, lists, lock, counter, batch, pass, parent, sweep, dropped, bounds>>

\* lrem of the delivered items, then the next wave
Clear(d) ==
    /\ pc[d] = "clear"
    /\ IF todo[d] = <<>>
       THEN /\ Goto(d, "drain")
            /\ batch' = [batch EXCEPT ![d] = <<>>]
            /\ UNCHANGED <<processing, todo>>
       ELSE /\ processing' = RemoveFirst(processing, Head(todo[d]))
            /\ todo' = [todo EXCEPT ![d] = Tail(@)]
            /\ UNCHANGED <<batch, pc>>
    /\ UNCHANGED <<child, queue, lock, counter, wakeups, pass, parent, sweep, history, bounds>>

\* Publishing the answer or an lrem fails although the parent was told
ClearFails(d) ==
    /\ pc[d] = "clear"
    /\ Fault
    /\ Fails(d)
    /\ UNCHANGED <<child, lists, lock, counter, wakeups, batch, todo, pass, parent, sweep, told,
                   dropped, crashes>>
---------------------------------------------------------------------------
(* A failed wave: handleDeliveryError() *)

Rollback(d) ==
    /\ pc[d] = "rollback"
    /\ count' = count - 1
    /\ todo' = [todo EXCEPT ![d] = batch[d]]
    /\ Goto(d, "retry")
    /\ UNCHANGED <<child, lists, lock, countTTL, windows, wakeups, batch, pass, parent, sweep, history, bounds>>

RetriesEnd(d) ==
    /\ pc[d] = "retry"
    /\ todo[d] = <<>>
    /\ Leave(d)
    /\ batch' = [batch EXCEPT ![d] = <<>>]
    /\ UNCHANGED <<child, lists, lock, counter, wakeups, todo, pass, parent, sweep, history, bounds>>

Spent_Early(p) == p.attempts + 1 >= MaxAttempts - 1
\* The attempt that has just failed was the last one
Spent(p) == p.attempts + 1 >= MaxAttempts

\* lpush of the rewritten payload, or lrem of a payload that is given up
Retry(d) ==
    /\ pc[d] = "retry"
    /\ todo[d] # <<>>
    /\ LET p == Head(todo[d]) IN
        IF Spent(p)
        THEN /\ processing' = RemoveFirst(processing, p)
             /\ dropped' = dropped \union {p.id}
             /\ todo' = [todo EXCEPT ![d] = Tail(@)]
             /\ UNCHANGED pc
        ELSE /\ processing' = Cons([p EXCEPT !.attempts = @ + 1], processing)
             /\ Goto(d, "unlink")
             /\ UNCHANGED <<todo, dropped>>
    /\ UNCHANGED <<child, queue, lock, counter, wakeups, batch, pass, parent, sweep, told, failures, bounds>>

\* lrem of the old payload
Unlink(d) ==
    /\ pc[d] = "unlink"
    /\ processing' = RemoveFirst(processing, Head(todo[d]))
    /\ todo' = [todo EXCEPT ![d] = Tail(@)]
    /\ Goto(d, "retry")
    /\ UNCHANGED <<child, queue, lock, counter, wakeups, batch, pass, parent, sweep, history, bounds>>

\* A call of these two fails: the item is left as it is
RetryFails(d) ==
    /\ pc[d] \in {"retry", "unlink"}
    /\ todo[d] # <<>>
    /\ Fault
    /\ todo' = [todo EXCEPT ![d] = Tail(@)]
    /\ Goto(d, "retry")
    /\ UNCHANGED <<child, lists, lock, counter, wakeups, batch, pass, parent, sweep, history, crashes>>

---------------------------------------------------------------------------
(* Leaving the critical section *)

\* llen inside the lock; a second deliverResults() if something arrived
FinalCheck(d) ==
    /\ pc[d] = "final"
    /\ Goto(d, IF queue # <<>> THEN "drain" ELSE "release")
    /\ pass' = [pass EXCEPT ![d] = 2]
    /\ UNCHANGED <<child, lists, lock, counter, wakeups, batch, todo, parent, sweep, history, bounds>>

Release_Unfenced(d) ==
    /\ pc[d] = "release"
    /\ lock' = "free"
    /\ Goto(d, "idle")
    /\ UNCHANGED <<child, lists, counter, wakeups, batch, todo, pass, parent, sweep, history, bounds>>
\* releaseFencedLock(): compare and delete
Release(d) ==
    /\ pc[d] = "release"
    /\ lock' = IF lock = d THEN "free" ELSE lock
    /\ Goto(d, "idle")
    /\ UNCHANGED <<child, lists, counter, wakeups, batch, todo, pass, parent, sweep, history, bounds>>

\* A Redis call outside the try block of a wave throws: straight to the finally
\* block, whatever was drained stays in the processing list
Unhandled(d) ==
    /\ pc[d] \in {"drain", "count", "ttl", "capped", "requeue", "unqueue", "rollback", "final"}
    /\ Fault
    /\ Goto(d, "release")
    /\ batch' = [batch EXCEPT ![d] = <<>>]
    /\ todo' = [todo EXCEPT ![d] = <<>>]
    /\ UNCHANGED <<child, lists, lock, counter, wakeups, pass, parent, sweep, history, crashes>>

\* The guard's lookup, setNx or the release throws: the call ends there
CallFails(d) ==
    /\ Fault
    /\ \/ pc[d] = "idle" /\ wakeups > 0 /\ wakeups' = wakeups - 1 /\ UNCHANGED <<pc, lock>>
       \/ pc[d] = "guarded" /\ Goto(d, "idle") /\ UNCHANGED <<wakeups, lock>>
       \/ /\ pc[d] = "release" /\ Goto(d, "idle")
          /\ lock' = IF lock = d THEN "orphan" ELSE lock
          /\ UNCHANGED wakeups
    /\ UNCHANGED <<child, lists, counter, batch, todo, pass, parent, sweep, history, crashes>>

\* The TTL runs out: renewals failed, or nobody is left to renew
LockExpires ==
    /\ lock # "free"
    /\ IF lock = "orphan" THEN UNCHANGED faults ELSE Fault
    /\ lock' = "free"
    /\ UNCHANGED <<child, lists, counter, wakeups, calls, parent, sweep, history, crashes>>

WindowExpires ==
    /\ countTTL
    /\ windows < MaxWindows
    /\ windows' = windows + 1
    /\ count' = 0 /\ countTTL' = FALSE
    /\ UNCHANGED <<child, lists, lock, wakeups, calls, parent, sweep, history, bounds>>

---------------------------------------------------------------------------
(* The sweep, restarts and the reaper *)

\* SCAN finds the processing list and exists() finds no lock
SweepStarts ==
    /\ sweep = "idle"
    /\ processing # <<>>
    /\ lock = "free"
    /\ sweep' = "moving"
    /\ UNCHANGED <<child, lists, lock, counter, wakeups, calls, parent, history, bounds>>

SweepMoves ==
    /\ sweep # "idle"
    /\ processing # <<>>
    /\ processing' = Front(processing)
    /\ queue' = Cons(Last(processing), queue)
    /\ sweep' = "moved"
    /\ UNCHANGED <<child, lock, counter, wakeups, calls, parent, history, bounds>>

SweepEnds ==
    /\ sweep # "idle"
    /\ processing = <<>>
    /\ sweep' = "idle"
    /\ IF sweep = "moved" THEN Wake ELSE UNCHANGED wakeups
    /\ UNCHANGED <<child, lists, lock, counter, calls, parent, history, bounds>>

SweepFails ==
    /\ sweep # "idle"
    /\ Fault
    /\ sweep' = "idle"
    /\ UNCHANGED <<child, lists, lock, counter, wakeups, calls, parent, history, crashes>>

\* The process dies and starts again: calls, turns and messages are gone, Redis and
\* the rows stay, and recoverProcessingResults() runs without asking for the lock
Restart ==
    /\ faults = 0 /\ crashes < MaxCrashes
    /\ crashes' = crashes + 1
    /\ child' = [r \in Results |-> CASE child[r] = "settled" -> "lost"
                                    [] child[r] = "enqueued" -> "announced"
                                    [] OTHER -> child[r]]
    /\ pc' = [d \in Deliverers |-> "idle"]
    /\ batch' = [d \in Deliverers |-> <<>>]
    /\ todo' = [d \in Deliverers |-> <<>>]
    /\ lock' = IF lock = "free" THEN "free" ELSE "orphan"
    /\ wakeups' = 0
    /\ ghost' = ActivePrimary
    /\ turn' = "idle" /\ waiting' = {} /\ scanning' = "none" /\ scan' = <<>>
    /\ sweep' = IF processing = <<>> THEN "idle" ELSE "moving"
    /\ UNCHANGED <<lists, count, countTTL, windows, pass, turns, history, faults>>

\* The stale-run reaper fails the row the dead process left behind
GhostReaped ==
    /\ ghost
    /\ ghost' = FALSE
    /\ UNCHANGED <<child, lists, lock, counter, wakeups, calls, turn, wait, turns, sweep, history, bounds>>

---------------------------------------------------------------------------
ChildStep(r) == ChildSettles(r) \/ Enqueue(r) \/ Announce(r)

TurnEnds == WaitRemoves \/ WaitGoesOn \/ TurnSettles \/ TurnWakes

Deliver(d) ==
    \/ WakeUp(d) \/ Acquire(d)
    \/ DrainPop(d) \/ DrainEnds(d)
    \/ CountWave(d) \/ CountTTL(d)
    \/ CapRollsBack(d) \/ Requeue(d) \/ Unqueue(d)
    \/ WaveStarts(d) \/ WaveRefused(d) \/ WaveSettles(d)
    \/ Clear(d)
    \/ Rollback(d) \/ Retry(d) \/ Unlink(d) \/ RetriesEnd(d)
    \/ FinalCheck(d) \/ Release(d)

DeliverFails(d) == ClearFails(d) \/ RetryFails(d) \/ Unhandled(d) \/ CallFails(d)

Sweep == SweepStarts \/ SweepMoves \/ SweepEnds

Next ==
    \/ \E r \in Results : ChildStep(r)
    \/ TurnStarts \/ WaitStarts \/ WaitFails \/ TurnEnds
    \/ \E d \in Deliverers : Deliver(d) \/ DeliverFails(d)
    \/ Sweep \/ SweepFails
    \/ LockExpires \/ WindowExpires \/ Restart \/ GhostReaped

Spec == Init /\ [][Next]_vars

\* Calls return, runs and turns end (the reaper aborts those that do not), the sweep
\* and the reaper run periodically, and a lock nobody renews expires
Fairness ==
    /\ \A r \in Results : WF_vars(ChildStep(r))
    /\ \A d \in Deliverers : WF_vars(Deliver(d))
    /\ WF_vars(TurnEnds)
    /\ WF_vars(Sweep)
    /\ WF_vars(GhostReaped)
    /\ WF_vars(lock = "orphan" /\ LockExpires)

FairSpec == Spec /\ Fairness

---------------------------------------------------------------------------
(* Properties *)

\* While no Redis call fails, at most one call delivers, restarts included.
OneDeliverer == faults = 0 => Cardinality(Critical) <= 1

\* A result is given up only after MAX_DELIVERY_ATTEMPTS waves that carried it have
\* failed, however sweeps, duplicates and overlapping calls rewrite its payload.
AttemptsEarned ==
    /\ \A r \in dropped : failures[r] >= MaxAttempts
    /\ \A p \in ToSet(queue) \union ToSet(processing) : p.attempts <= failures[p.id]

\* The fence: a call loses the lock it holds by its own release, by the TTL or with
\* its process, never because a call whose lock had expired releases.
FencedRelease ==
    [][\A d \in Deliverers :
        lock = d /\ lock' # d => pc[d] = "release" \/ faults' > faults \/ crashes' > crashes]_vars

\* Every posted result stays in one of the two lists until told or given up, at every
\* step between two Redis calls and across restarts.
Mailbox == INSTANCE AtLeastOnce WITH
    posted <- {r \in Results : child[r] \in {"enqueued", "announced"}},
    mailbox <- Stored
KeepsMailbox == Mailbox!Spec

\* What a failed or interrupted delivery leaves in the processing list leaves it again.
ProcessingDrains == processing # <<>> ~> processing = <<>>

\* Deferring a result that has no companion never strands it: the completion hook of
\* the turn that was in the way takes over, unless a wave or a call fails or the process dies.
DeferralNeverStrands ==
    \A r \in Results :
        child[r] = "enqueued" ~> r \in told \/ failures[r] > 0 \/ faults + crashes > 0

===========================================================================
