--------------------------- MODULE ContainerPool ---------------------------
(***************************************************************************)
(* The pool of warm containers, one per session, and the host ledger that  *)
(* admits sub-agents' containers beside it: the per-session lock, reuse     *)
(* after a liveness probe, recycling, LRU eviction, ephemeral overflow,     *)
(* idle timers, the periodic health check, shutdown and restart.            *)
(*                                                                         *)
(* JavaScript runs to the next await, so one action is one such segment.   *)
(* A run starts at most one container, which bears the run's name.          *)
(***************************************************************************)
EXTENDS Naturals, Sequences, FiniteSets, Functions

CONSTANTS
    Sessions,
    Primary,       \* primary runs: they take their container from the pool
    SubAgents,     \* sub-agent runs: they start one of their own
    SessionOf,     \* the session of a primary run
    ZeroIdle,      \* primary runs whose agent has idleTimeoutSeconds = 0
    Failable,      \* bound: runs that may throw
    MaxWarm,       \* maxWarmContainers
    MaxEphemeral,  \* maxEphemeralContainers
    Ceiling,       \* MAX_TOTAL_CONTAINERS
    MaxFaults,     \* bound on containers that die, failed probes and failed starts
    MaxRestarts    \* bound on shutdowns and crashes

Runs == Primary \union SubAgents

ASSUME PoolAssumption ==
    /\ IsFiniteSet(Sessions) /\ IsFiniteSet(Runs)
    /\ Primary \intersect SubAgents = {}
    /\ "none" \notin Runs
    /\ SessionOf \in [Primary -> Sessions]
    /\ ZeroIdle \subseteq Primary /\ Failable \subseteq Runs
    /\ {MaxWarm, MaxEphemeral, Ceiling, MaxFaults, MaxRestarts} \subseteq Nat

VARIABLES
    pool,       \* session -> entry
    recent,     \* the sessions of the pool by lastUsedAt, oldest first
    zero,       \* sessions whose sessionIdleTimeouts entry is 0
    lock,       \* session -> the run whose acquireLock() set it
    timers,     \* armed idle timers: the run whose release() armed it -> container
    live,       \* containers docker runs
    stopping,   \* containers runner.stop() is waiting for
    pc,         \* where a run stands
    seen,       \* the entry acquire() read before its first await
    old,        \* the container whose stop a run waits for
    overflow,   \* runs whose startFresh() has settled for an ephemeral container
    health,     \* runHealthCheck()
    admitted,   \* subAgentActive_
    draining,   \* drainAll()
    disturbed,  \* history: sessions whose entry somebody but the lock's holder removed or idled
    breached,   \* history: sessions whose lock somebody but its holder took or released
    orphaned,   \* history: containers whose entry was removed or replaced for another's
    left,       \* history: containers docker failed to stop
    faults, restarts

entries == <<pool, recent, zero>>
docker  == <<live, stopping>>
runs    == <<pc, seen, old, overflow>>
history == <<disturbed, breached, orphaned, left>>
bounds  == <<faults, restarts>>
vars == <<entries, lock, timers, docker, runs, health, admitted, draining, history, bounds>>

Put(f, x, v) == [y \in DOMAIN f \union {x} |-> IF y = x THEN v ELSE f[y]]
Drop(f, x) == Restrict(f, DOMAIN f \ {x})

Warm == {s \in DOMAIN pool : ~pool[s].ephemeral}
Ephemeral == {s \in DOMAIN pool : pool[s].ephemeral}
Idle == {s \in DOMAIN pool : pool[s].status = "idle"}

\* From acquireLock() to the last step that relies on it
Holders(s) == {r \in Primary : SessionOf[r] = s /\
                 pc[r] \in {"locked", "probe", "recycle", "makeroom", "starting", "using", "evict"}}

Goto(r, point) == pc' = [pc EXCEPT ![r] = point]
Fault == faults < MaxFaults /\ faults' = faults + 1

Forget(s) == SelectSeq(recent, LAMBDA x : x # s)
Touch(s) == recent' = Append(Forget(s), s)

\* Somebody other than the lock's holder acts on the entry of session s, or names a
\* container that it no longer holds
Trespass(who, s, c) ==
    \/ s \in DOMAIN lock /\ lock[s] # who
    \/ s \in DOMAIN pool /\ pool[s].container # c
Note(who, s, c) ==
    disturbed' = IF Trespass(who, s, c) THEN disturbed \union {s} ELSE disturbed
\* The entry of session s goes in the name of container c
Lose(s, c) ==
    orphaned' = IF s \in DOMAIN pool /\ pool[s].container # c
                THEN orphaned \union {pool[s].container} ELSE orphaned

StopAndRemove_NoStop(s, c, z) ==
    /\ pool' = Drop(pool, s)
    /\ recent' = Forget(s)
    /\ zero' = z \ {s}
    /\ Lose(s, c)
    /\ UNCHANGED stopping
\* stopAndRemove() up to its await, z being the timeouts recorded so far
StopAndRemove(s, c, z) ==
    /\ pool' = Drop(pool, s)
    /\ recent' = Forget(s)
    /\ zero' = z \ {s}
    /\ stopping' = stopping \union {c}
    /\ Lose(s, c)

\* pool.set(): only after a breach of the session's lock is there an entry of another
\* container to replace
Enter(s, e) ==
    /\ pool' = Put(pool, s, e)
    /\ Touch(s)
    /\ IF s \in breached THEN Lose(s, e.container) ELSE UNCHANGED orphaned

\* The idle timeout of r's agent, as acquire() records it
Recorded(r) == IF r \in ZeroIdle THEN zero \union {SessionOf[r]} ELSE zero \ {SessionOf[r]}

\* Somebody but its holder releases the lock
Breach(r, s) ==
    breached' = IF s \in DOMAIN lock /\ lock[s] # r THEN breached \union {s} ELSE breached

Unlock_NoWake(r, s, point) ==
    /\ lock' = Drop(lock, s)
    /\ Breach(r, s)
    /\ pc' = [pc EXCEPT ![r] = point]
\* releaseLock(), whoever holds it: everybody who awaits the promise wakes up
Unlock(r, s, point) ==
    /\ lock' = Drop(lock, s)
    /\ Breach(r, s)
    /\ pc' = [q \in Runs |-> IF q = r THEN point
                             ELSE IF q \in Primary /\ SessionOf[q] = s /\ pc[q] = "waiting" THEN "woken"
                             ELSE pc[q]]

Init ==
    /\ pool = <<>> /\ recent = <<>> /\ zero = {}
    /\ lock = <<>> /\ timers = <<>>
    /\ live = {} /\ stopping = {}
    /\ pc = [r \in Runs |-> "new"]
    /\ seen = <<>> /\ old = <<>> /\ overflow = {}
    /\ health = [phase |-> "idle"]
    /\ admitted = 0
    /\ draining = [phase |-> "no"]
    /\ disturbed = {} /\ breached = {} /\ orphaned = {} /\ left = {}
    /\ faults = 0 /\ restarts = 0

---------------------------------------------------------------------------
(* acquireLock() *)

TakeLock_Blind(r) ==
    /\ lock' = Put(lock, SessionOf[r], r)
    /\ Goto(r, "locked")
\* One turn of its loop: the lock is free and set, or its promise is awaited
TakeLock(r) ==
    IF SessionOf[r] \in DOMAIN lock
    THEN Goto(r, "waiting") /\ UNCHANGED lock
    ELSE lock' = Put(lock, SessionOf[r], r) /\ Goto(r, "locked")

Acquire(r) ==
    /\ pc[r] \in {"new", "woken"}
    /\ TakeLock(r)
    /\ UNCHANGED <<entries, timers, docker, seen, old, overflow, health, admitted, draining, history, bounds>>

\* Woken after the deadline while another waiter was faster
ForceLock(r) ==
    /\ pc[r] = "woken"
    /\ SessionOf[r] \in DOMAIN lock
    /\ lock' = Put(lock, SessionOf[r], r)
    /\ pc' = [q \in Runs |-> IF q = r THEN "locked"
                             ELSE IF q \in Primary /\ SessionOf[q] = SessionOf[r] /\ pc[q] = "waiting"
                                  THEN "woken" ELSE pc[q]]
    /\ breached' = breached \union {SessionOf[r]}
    /\ UNCHANGED <<entries, timers, docker, seen, old, overflow, health, admitted, draining, disturbed, orphaned, left,
                   bounds>>

---------------------------------------------------------------------------
(* acquire() *)

\* startFresh() up to its first await: a warm slot, the slot of the least recently
\* used idle session, an ephemeral one, or a refusal whose catch releases the lock
FreshWarm(r, z) ==
    /\ Cardinality(Warm) < MaxWarm
    /\ Goto(r, "starting")
    /\ zero' = z
    /\ old' = Drop(old, r)
    /\ UNCHANGED <<pool, recent, lock, timers, stopping, overflow, disturbed, breached, orphaned>>

\* An idle session no other idle session of the pool was used before
Oldest(s) ==
    /\ s \in Idle
    /\ \E i \in DOMAIN recent : recent[i] = s /\ \A j \in 1 .. i - 1 : recent[j] \notin Idle

FreshEvicting(r, z) ==
    /\ Cardinality(Warm) >= MaxWarm
    /\ \E s \in Sessions :
         /\ Oldest(s)
         /\ StopAndRemove(s, pool[s].container, z)
         /\ Note(r, s, pool[s].container)
         /\ timers' = Drop(timers, pool[s].timer)
         /\ old' = Put(old, r, pool[s].container)
    /\ Goto(r, "makeroom")
    /\ UNCHANGED <<lock, overflow, breached>>

FreshEphemeral(r, z) ==
    /\ Cardinality(Warm) >= MaxWarm
    /\ Idle = {}
    /\ Cardinality(Ephemeral) < MaxEphemeral
    /\ overflow' = overflow \union {r}
    /\ Goto(r, "starting")
    /\ zero' = z
    /\ old' = Drop(old, r)
    /\ UNCHANGED <<pool, recent, lock, timers, stopping, disturbed, breached, orphaned>>

FreshRefused(r, z) ==
    /\ Cardinality(Warm) >= MaxWarm
    /\ Idle = {}
    /\ Cardinality(Ephemeral) >= MaxEphemeral
    /\ Unlock(r, SessionOf[r], "finish")
    /\ zero' = z
    /\ old' = Drop(old, r)
    /\ UNCHANGED <<pool, recent, timers, stopping, overflow, disturbed, orphaned>>

StartFresh(r, z) == FreshWarm(r, z) \/ FreshEvicting(r, z) \/ FreshEphemeral(r, z) \/ FreshRefused(r, z)

\* The lock is his: nothing there
FindNothing(r) ==
    /\ pc[r] = "locked"
    /\ SessionOf[r] \notin DOMAIN pool
    /\ StartFresh(r, Recorded(r))
    /\ UNCHANGED <<live, seen, health, admitted, draining, left, bounds>>

\* ... or an entry, whose idle timer is cleared and whose container is probed
FindEntry(r) ==
    LET s == SessionOf[r] IN
    /\ pc[r] = "locked"
    /\ s \in DOMAIN pool
    /\ timers' = Drop(timers, pool[s].timer)
    /\ seen' = Put(seen, r, pool[s])
    /\ zero' = Recorded(r)
    /\ Goto(r, "probe")
    /\ UNCHANGED <<pool, recent, lock, docker, old, overflow, health, admitted, draining, history, bounds>>

\* Recycling of the container acquire() has read
Recycle(r, z) ==
    LET s == SessionOf[r] c == IF r \in DOMAIN seen THEN seen[r].container ELSE pool[s].container IN
    /\ StopAndRemove(s, c, z)
    /\ Note(r, s, c)
    /\ old' = Put(old, r, c)
    /\ seen' = Drop(seen, r)
    /\ Goto(r, "recycle")

\* ... or an entry older than maxContainerLifetimeSec
FindExpired(r) ==
    /\ pc[r] = "locked"
    /\ SessionOf[r] \in DOMAIN pool
    /\ timers' = Drop(timers, pool[SessionOf[r]].timer)
    /\ Recycle(r, Recorded(r))
    /\ UNCHANGED <<lock, live, overflow, health, admitted, draining, breached, left, bounds>>

ProbeAlive_KeepsIdle(r) ==
    /\ pc[r] = "probe"
    /\ seen[r].container \in live
    /\ Enter(SessionOf[r], [seen[r] EXCEPT !.timer = "none"])
    /\ seen' = Drop(seen, r)
    /\ Goto(r, "using")
    /\ UNCHANGED <<zero, lock, timers, docker, old, overflow, health, admitted, draining, disturbed, breached, left,
                   bounds>>
\* The probe succeeds: the entry that was read is put back as active
ProbeAlive(r) ==
    /\ pc[r] = "probe"
    /\ seen[r].container \in live
    /\ Enter(SessionOf[r], [seen[r] EXCEPT !.status = "active", !.timer = "none"])
    /\ seen' = Drop(seen, r)
    /\ Goto(r, "using")
    /\ UNCHANGED <<zero, lock, timers, docker, old, overflow, health, admitted, draining, disturbed, breached, left,
                   bounds>>

\* The container is gone, or docker exec fails
ProbeDead(r) ==
    /\ pc[r] = "probe"
    /\ IF seen[r].container \in live THEN Fault ELSE UNCHANGED faults
    /\ Recycle(r, zero)
    /\ UNCHANGED <<lock, timers, live, overflow, health, admitted, draining, breached, left, restarts>>

\* The old container has been stopped
Recycled(r) ==
    /\ pc[r] = "recycle"
    /\ old[r] \notin stopping
    /\ StartFresh(r, zero)
    /\ UNCHANGED <<live, seen, health, admitted, draining, left, bounds>>

RoomMade(r) ==
    /\ pc[r] = "makeroom"
    /\ old[r] \notin stopping
    /\ old' = Drop(old, r)
    /\ Goto(r, "starting")
    /\ UNCHANGED <<entries, lock, timers, docker, seen, overflow, health, admitted, draining, history, bounds>>

Started(r) ==
    /\ pc[r] = "starting"
    /\ live' = live \union {r}
    /\ Enter(SessionOf[r], [container |-> r, status |-> "active", ephemeral |-> r \in overflow, timer |-> "none"])
    /\ overflow' = overflow \ {r}
    /\ Goto(r, "using")
    /\ UNCHANGED <<zero, lock, timers, stopping, seen, old, health, admitted, draining, disturbed, breached, left,
                   bounds>>

\* docker run fails: acquire()'s catch releases the lock
StartFails(r) ==
    /\ pc[r] = "starting"
    /\ Fault
    /\ Unlock(r, SessionOf[r], "finish")
    /\ overflow' = overflow \ {r}
    /\ UNCHANGED <<entries, timers, docker, seen, old, health, admitted, draining, disturbed, orphaned, left, restarts>>

---------------------------------------------------------------------------
(* The end of a primary run *)

\* An error before acquire() is reached still ends in the finally block
EarlyFail(r) ==
    /\ r \in Failable
    /\ pc[r] = "new"
    /\ Goto(r, "finish")
    /\ UNCHANGED <<entries, lock, timers, docker, seen, old, overflow, health, admitted, draining, history, bounds>>

\* The run completes or is cancelled
Completes(r) ==
    /\ pc[r] = "using"
    /\ Goto(r, "finish")
    /\ UNCHANGED <<entries, lock, timers, docker, seen, old, overflow, health, admitted, draining, history, bounds>>

\* The run fails: evict() the session's entry, whichever container it holds
Fails(r) ==
    LET s == SessionOf[r] IN
    /\ r \in Failable
    /\ pc[r] = "using"
    /\ IF s \in DOMAIN pool
       THEN /\ timers' = Drop(timers, pool[s].timer)
            /\ StopAndRemove(s, pool[s].container, zero)
            /\ Note(r, s, pool[s].container)
            /\ old' = Put(old, r, pool[s].container)
            /\ Goto(r, "evict")
       ELSE Goto(r, "finish") /\ UNCHANGED <<entries, timers, stopping, old, disturbed, orphaned>>
    /\ UNCHANGED <<lock, live, seen, overflow, health, admitted, draining, breached, left, bounds>>

\* evict() releases the lock once the container has been stopped
Evicted(r) ==
    /\ pc[r] = "evict"
    /\ old[r] \notin stopping
    /\ old' = Drop(old, r)
    /\ Unlock(r, SessionOf[r], "finish")
    /\ UNCHANGED <<entries, timers, docker, seen, overflow, health, admitted, draining, disturbed, orphaned, left,
                   bounds>>

---------------------------------------------------------------------------
(* release(), from the finally block of every primary run, and the timers *)

\* There is no entry: only the lock goes
ReleaseNothing(r) ==
    /\ pc[r] = "finish"
    /\ SessionOf[r] \notin DOMAIN pool
    /\ Unlock(r, SessionOf[r], "done")
    /\ UNCHANGED <<entries, timers, docker, seen, old, overflow, health, admitted, draining, disturbed, orphaned, left,
                   bounds>>

\* An ephemeral container, or an idle timeout of 0
ReleaseStops(r) ==
    LET s == SessionOf[r] IN
    /\ pc[r] = "finish"
    /\ s \in DOMAIN pool
    /\ pool[s].ephemeral \/ s \in zero
    /\ StopAndRemove(s, pool[s].container, zero)
    /\ Note(r, s, pool[s].container)
    /\ Unlock(r, s, "done")
    /\ UNCHANGED <<timers, live, seen, old, overflow, health, admitted, draining, left, bounds>>

ReleaseIdle_NoTimer(r) ==
    LET s == SessionOf[r] IN
    /\ pc[r] = "finish"
    /\ s \in DOMAIN pool
    /\ ~pool[s].ephemeral /\ s \notin zero
    /\ pool' = [pool EXCEPT ![s].status = "idle", ![s].timer = "none"]
    /\ Touch(s)
    /\ Note(r, s, pool[s].container)
    /\ Unlock(r, s, "done")
    /\ UNCHANGED <<zero, timers, docker, seen, old, overflow, health, admitted, draining, orphaned, left, bounds>>
\* Back to the pool with an idle timer; a timer armed before stays armed
ReleaseIdle(r) ==
    LET s == SessionOf[r] IN
    /\ pc[r] = "finish"
    /\ s \in DOMAIN pool
    /\ ~pool[s].ephemeral /\ s \notin zero
    /\ timers' = Put(timers, r, pool[s].container)
    /\ pool' = [pool EXCEPT ![s].status = "idle", ![s].timer = r]
    /\ Touch(s)
    /\ Note(r, s, pool[s].container)
    /\ Unlock(r, s, "done")
    /\ UNCHANGED <<zero, docker, seen, old, overflow, health, admitted, draining, orphaned, left, bounds>>

Release(r) == ReleaseNothing(r) \/ ReleaseStops(r) \/ ReleaseIdle(r)

TimerFires(r) ==
    LET s == SessionOf[r] IN
    /\ r \in DOMAIN timers
    /\ StopAndRemove(s, timers[r], zero)
    /\ Note("none", s, timers[r])
    /\ timers' = Drop(timers, r)
    /\ UNCHANGED <<lock, live, runs, health, admitted, draining, breached, left, bounds>>

---------------------------------------------------------------------------
(* runHealthCheck(): the idle entries, one after the other *)

HealthExpired(s) ==
    /\ health.phase = "idle" /\ draining.phase = "no"
    /\ s \in Idle
    /\ timers' = Drop(timers, pool[s].timer)
    /\ StopAndRemove(s, pool[s].container, zero)
    /\ Note("none", s, pool[s].container)
    /\ health' = [phase |-> "stop", container |-> pool[s].container]
    /\ UNCHANGED <<lock, live, runs, admitted, draining, breached, left, bounds>>

HealthProbes(s) ==
    /\ health.phase = "idle" /\ draining.phase = "no"
    /\ s \in Idle
    /\ health' = [phase |-> "probe", session |-> s, container |-> pool[s].container,
                  timer |-> pool[s].timer]
    /\ UNCHANGED <<entries, lock, timers, docker, runs, admitted, draining, history, bounds>>

HealthAlive ==
    /\ health.phase = "probe"
    /\ health.container \in live
    /\ health' = [phase |-> "idle"]
    /\ UNCHANGED <<entries, lock, timers, docker, runs, admitted, draining, history, bounds>>

\* The verdict is applied to the session, whatever its entry is by now
HealthDead ==
    /\ health.phase = "probe"
    /\ IF health.container \in live THEN Fault ELSE UNCHANGED faults
    /\ timers' = Drop(timers, health.timer)
    /\ StopAndRemove(health.session, health.container, zero)
    /\ Note("none", health.session, health.container)
    /\ health' = [phase |-> "stop", container |-> health.container]
    /\ UNCHANGED <<lock, live, runs, admitted, draining, breached, left, restarts>>

HealthMovesOn ==
    /\ health.phase = "stop"
    /\ health.container \notin stopping
    /\ health' = [phase |-> "idle"]
    /\ UNCHANGED <<entries, lock, timers, docker, runs, admitted, draining, history, bounds>>

---------------------------------------------------------------------------
(* Docker *)

\* runner.stop() returns: it has stopped, killed and removed the container
Stopped(c) ==
    /\ c \in stopping
    /\ stopping' = stopping \ {c}
    /\ live' = live \ {c}
    /\ UNCHANGED <<entries, lock, timers, runs, health, admitted, draining, history, bounds>>

\* ... or each of its three commands has failed, which it only logs
StopFails(c) ==
    /\ c \in stopping \intersect live
    /\ Fault
    /\ stopping' = stopping \ {c}
    /\ left' = left \union {c}
    /\ UNCHANGED <<entries, lock, timers, live, runs, health, admitted, draining, disturbed, breached, orphaned,
                   restarts>>

Dies(c) ==
    /\ c \in live
    /\ Fault
    /\ live' = live \ {c}
    /\ UNCHANGED <<entries, lock, timers, stopping, runs, health, admitted, draining, history, restarts>>

---------------------------------------------------------------------------
(* Sub-agents: tryAcquireSubAgent(), a container of their own, releaseSubAgent() *)

Admit(r) ==
    /\ pc[r] = "new"
    /\ IF Cardinality(DOMAIN pool) + admitted < Ceiling
       THEN admitted' = admitted + 1 /\ Goto(r, "starting")
       ELSE Goto(r, "done") /\ UNCHANGED admitted
    /\ UNCHANGED <<entries, lock, timers, docker, seen, old, overflow, health, draining, history, bounds>>

SubStarted(r) ==
    /\ pc[r] = "starting"
    /\ live' = live \union {r}
    /\ Goto(r, "using")
    /\ UNCHANGED <<entries, lock, timers, stopping, seen, old, overflow, health, admitted, draining, history, bounds>>

SubFailsToStart(r) ==
    /\ pc[r] = "starting"
    /\ Fault
    /\ admitted' = IF admitted = 0 THEN 0 ELSE admitted - 1
    /\ Goto(r, "done")
    /\ UNCHANGED <<entries, lock, timers, docker, seen, old, overflow, health, draining, history, restarts>>

SubEnds(r) ==
    /\ pc[r] = "using"
    /\ stopping' = stopping \union {r}
    /\ Goto(r, "stop")
    /\ UNCHANGED <<entries, lock, timers, live, seen, old, overflow, health, admitted, draining, history, bounds>>

SubStopped(r) ==
    /\ pc[r] = "stop"
    /\ r \notin stopping
    /\ admitted' = IF admitted = 0 THEN 0 ELSE admitted - 1
    /\ Goto(r, "done")
    /\ UNCHANGED <<entries, lock, timers, docker, seen, old, overflow, health, draining, history, bounds>>

---------------------------------------------------------------------------
(* Shutdown and restart *)

\* drainAll() up to its await
Drain ==
    /\ draining.phase = "no"
    /\ restarts < MaxRestarts
    /\ draining' = [phase |-> "stopping", containers |-> {pool[s].container : s \in DOMAIN pool}]
    /\ pool' = <<>> /\ recent' = <<>> /\ zero' = {}
    /\ timers' = Restrict(timers, DOMAIN timers \ {pool[s].timer : s \in DOMAIN pool})
    /\ stopping' = stopping \union {pool[s].container : s \in DOMAIN pool}
    /\ disturbed' = disturbed \union DOMAIN lock
    /\ UNCHANGED <<lock, live, runs, health, admitted, breached, orphaned, left, bounds>>

\* ... and after it: every lock is released
DrainUnlocks ==
    /\ draining.phase = "stopping"
    /\ draining.containers \intersect stopping = {}
    /\ draining' = [phase |-> "done"]
    /\ lock' = <<>>
    /\ pc' = [r \in Runs |-> IF pc[r] = "waiting" THEN "woken" ELSE pc[r]]
    /\ breached' = breached \union DOMAIN lock
    /\ UNCHANGED <<entries, timers, docker, seen, old, overflow, health, admitted, disturbed, orphaned, left, bounds>>

\* The process ends and starts again: cleanupOrphanContainers() removes every
\* container the dead process left
Restart ==
    /\ restarts < MaxRestarts
    /\ restarts' = restarts + 1
    /\ pool' = <<>> /\ recent' = <<>> /\ zero' = {} /\ lock' = <<>> /\ timers' = <<>>
    /\ live' = {} /\ stopping' = {}
    /\ pc' = [r \in Runs |-> IF pc[r] = "new" THEN "new" ELSE "done"]
    /\ seen' = <<>> /\ old' = <<>> /\ overflow' = {}
    /\ health' = [phase |-> "idle"]
    /\ admitted' = 0
    /\ draining' = [phase |-> "no"]
    /\ disturbed' = {} /\ breached' = {} /\ orphaned' = {} /\ left' = {}
    /\ UNCHANGED faults

---------------------------------------------------------------------------
Primaries(r) ==
    \/ ForceLock(r)
    \/ FindNothing(r) \/ FindEntry(r) \/ FindExpired(r)
    \/ ProbeAlive(r) \/ ProbeDead(r) \/ Recycled(r) \/ RoomMade(r)
    \/ Started(r)
    \/ Completes(r) \/ Evicted(r) \/ Release(r)

Awoken(r) == pc[r] = "woken" /\ Acquire(r)

Subs(r) == SubStarted(r) \/ SubEnds(r) \/ SubStopped(r)

Health == HealthAlive \/ HealthDead \/ HealthMovesOn

Next ==
    \/ \E r \in Primary : Acquire(r) \/ Primaries(r) \/ EarlyFail(r) \/ StartFails(r) \/ Fails(r) \/ TimerFires(r)
    \/ \E r \in SubAgents : Admit(r) \/ Subs(r) \/ SubFailsToStart(r)
    \/ \E s \in Sessions : HealthExpired(s) \/ HealthProbes(s)
    \/ Health
    \/ \E c \in Runs : Stopped(c) \/ StopFails(c) \/ Dies(c)
    \/ Drain \/ DrainUnlocks \/ Restart

Spec == Init /\ [][Next]_vars

\* Awaited calls return, runs end (the reaper aborts those that do not), timers fire
Fairness ==
    /\ \A r \in Primary : WF_vars(Primaries(r) \/ Awoken(r)) /\ WF_vars(TimerFires(r))
    /\ \A r \in SubAgents : WF_vars(Subs(r))
    /\ WF_vars(Health)
    /\ \A c \in Runs : WF_vars(Stopped(c))

FairSpec == Spec /\ Fairness

---------------------------------------------------------------------------
(* Properties *)

\* The per-session lock serialises the runs of a session from acquire() to release(),
\* as long as nobody releases or takes what he does not hold: a release() after the
\* lock went with an error, a lock forced after its timeout, a shutdown.
SessionExclusive ==
    \A s \in Sessions \ breached : Cardinality(Holders(s)) <= 1

\* A running container is in the pool or on its way out: through reuse, recycling,
\* eviction, failed runs, timers and shutdown none is left behind.  The exceptions
\* are containers: one docker failed to stop (stop() and stopAndRemove() only log
\* it), one whose entry went with a verdict or a timer about the container before
\* it, and one whose entry a second run replaced after a breach of the lock.
NoContainerLeaks ==
    \A c \in live \intersect Primary :
        \/ c \in stopping \union left \union orphaned
        \/ SessionOf[c] \in DOMAIN pool /\ pool[SessionOf[c]].container = c

\* A run works in a container that its session's entry shows as active and that nobody
\* is stopping, unless its session's lock was breached or somebody else stopped or
\* idled the entry: a timer, the health check, an eviction for room, a shutdown.
ContainerKept ==
    \A r \in Primary : pc[r] = "using" /\ SessionOf[r] \notin disturbed \union breached =>
        /\ SessionOf[r] \in DOMAIN pool
        /\ pool[SessionOf[r]].status = "active"
        /\ pool[SessionOf[r]].container \notin stopping

\* A run that waits for the lock of its session gets it and ends, however the runs
\* before it end.
WaitersServed == \A r \in Primary : pc[r] = "waiting" ~> pc[r] = "done"

\* Every container a run starts is stopped in the end, but for one docker failed to
\* stop and one that lost its entry to another (as in NoContainerLeaks).
ContainersStop ==
    \A c \in Runs : c \in live ~> c \notin live \/ c \in left \union orphaned
=============================================================================
