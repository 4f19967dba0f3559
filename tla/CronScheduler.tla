--------------------------- MODULE CronScheduler ---------------------------
(***************************************************************************)
(* The cron scheduler: its polling ticks, which may overlap, the guard, the *)
(* executions they dispatch with the writes that follow a run, the failure *)
(* breaker, the writes of edits of the task rows meanwhile, and restarts.  *)
(***************************************************************************)
EXTENDS Naturals, Sequences, FiniteSets

CONSTANTS
    Tasks,
    Users,
    OwnerOf,       \* createdByUserId
    Ticks,         \* calls of tick() that can be in progress together
    Execs,         \* bound: calls of execute() in progress together
    BatchSize,     \* SCHEDULER_BATCH_SIZE
    MaxGlobal,     \* MAX_CONCURRENT_CRON_RUNS_GLOBAL
    MaxPerUser,    \* MAX_CONCURRENT_CRON_RUNS_PER_USER
    MaxFailures,   \* MAX_CONSECUTIVE_FAILURES
    OneShots,      \* tasks that start with an `at` schedule
    Editors,       \* bound: calls of TasksService.update() in progress together
    Changes,       \* bound: what the edits change
    MaxEvents      \* bound on failing calls, edits and restarts, all together

ASSUME CronAssumption ==
    /\ IsFiniteSet(Tasks) /\ IsFiniteSet(Execs) /\ Execs \intersect Editors = {}
    /\ OwnerOf \in [Tasks -> Users]
    /\ OneShots \subseteq Tasks
    /\ Changes \subseteq [enabled : {"on", "off", "keep"}, schedule : {"every", "at", "keep"}]
    /\ {BatchSize, MaxGlobal, MaxPerUser, MaxFailures} \subseteq Nat \ {0}
    /\ MaxEvents \in Nat

VARIABLES
    exists,    \* task rows that have not been deleted
    enabled,   \* task rows that are enabled
    tripped,   \* task rows whose disabledReason is auto:max_failures
    oneShot,   \* task rows with an `at` schedule
    failures,  \* consecutiveFailures; MaxFailures stands for all that are larger
    later,     \* tasks whose nextRunAt is to come
    due,       \* tasks whose nextRunAt has passed
    earlier,   \* pairs of due tasks, the one with the earlier nextRunAt first
    cronOn,    \* users whose policy has cronEnabled
    running,   \* runningCount of the scheduler
    tick,      \* the snapshots a call of tick() has found due and not yet passed
    exec,      \* the calls of execute(), each with its snapshot of the task
    row,       \* the TaskRun row of an execution
    orphans,   \* tasks with a running TaskRun row that no execution will ever close
    edit,      \* the calls of update() of the tasks service, each with what it has read
    streak,    \* history: failed runs since the last completed run or resetting edit;
               \* MaxFailures stands for all that are larger
    drifted,   \* history: tasks whose counter and breaker may have come apart
    unplanned, \* history: tasks whose schedule and next run may have come apart
    refound,   \* history: tasks found due before or after the run of an execution in progress
    faults,    \* failing calls so far
    edits,     \* edits, deletions and policy changes so far
    crashes    \* restarts so far

table   == <<exists, enabled, tripped, oneShot, failures, later, due, earlier>>
runs    == <<running, exec, row, orphans>>
apart   == <<streak, drifted, unplanned>>
history == <<apart, refound>>
bounds  == <<faults, edits, crashes>>
vars == <<table, cronOn, tick, runs, edit, history, bounds>>

Snapshots == [task : Tasks, failures : 0 .. MaxFailures, oneShot : BOOLEAN]
NoExec == [pc |-> "free"]
NoEdit == [pc |-> "free"]

InFlight(e) == exec[e] # NoExec
ExecsOf(t) == {e \in Execs : InFlight(e) /\ exec[e].of.task = t}
HasRunningRow(t) == t \in orphans \/ \E e \in ExecsOf(t) : row[e] = "running"
Set(e, pc) == exec' = [exec EXCEPT ![e].pc = pc]
Eventful == faults + edits + crashes < MaxEvents
Fault == Eventful /\ faults' = faults + 1

\* The tasks a tick has found and not yet passed
Found(k) == {tick[k][i].task : i \in DOMAIN tick[k]}
EditsOf(t) == {d \in Editors : edit[d] # NoEdit /\ edit[d].task = t}
\* An execution or edit of t not among those of W, or a tick, has read its row
Held(t, W) == ExecsOf(t) \ W # {} \/ EditsOf(t) \ W # {} \/ \E k \in Ticks : t \in Found(k)
\* The counter, the streak or the schedule of t changes, which others who have read it
\* do not see
Overlooked(t, W, tasks) == IF Held(t, W) THEN tasks \union {t} ELSE tasks

OffCalendar(t) ==
    /\ due' = due \ {t}
    /\ earlier' = {pair \in earlier : t \notin {pair[1], pair[2]}}
NextRunAt_Never(t, future) ==
    /\ later' = later \ {t}
    /\ OffCalendar(t)
\* updateNextRunAt() with a time to come, or with null
NextRunAt(t, future) ==
    /\ later' = IF future THEN later \union {t} ELSE later \ {t}
    /\ OffCalendar(t)

Init ==
    /\ exists = Tasks /\ enabled = Tasks /\ tripped = {} /\ oneShot = OneShots
    /\ failures = [t \in Tasks |-> 0]
    /\ later = Tasks /\ due = {} /\ earlier = {}
    /\ cronOn = Users
    /\ running = 0
    /\ tick = [k \in Ticks |-> <<>>]
    /\ exec = [e \in Execs |-> NoExec]
    /\ row = [e \in Execs |-> "none"]
    /\ orphans = {}
    /\ edit = [d \in Editors |-> NoEdit]
    /\ streak = [t \in Tasks |-> 0] /\ drifted = {} /\ unplanned = {} /\ refound = {}
    /\ faults = 0 /\ edits = 0 /\ crashes = 0

---------------------------------------------------------------------------
(* tick() *)

\* Time passes: the nextRunAt of a task is reached
BecomesDue(t) ==
    /\ t \in later \intersect exists
    /\ later' = later \ {t}
    /\ due' = due \union {t}
    /\ earlier' = earlier \union (due \X {t})
    /\ UNCHANGED <<exists, enabled, tripped, oneShot, failures, cronOn, tick, runs, edit, history, bounds>>

Fewer(m, n) == IF m < n THEN m ELSE n
Slots == IF MaxGlobal <= running THEN 0 ELSE Fewer(BatchSize, MaxGlobal - running)

Findable_InFlight(t) == t \in enabled \intersect exists
\* findDue(): enabled tasks whose time has come and that have no running TaskRun
Findable(t) == t \in enabled \intersect exists /\ ~HasRunningRow(t)
\* found lists tasks of S in the order of their nextRunAt, the first of them
IsFirst(found, S) ==
    /\ \A i, j \in DOMAIN found : i < j => <<found[i], found[j]>> \in earlier
    /\ \A t \in S : \A i \in DOMAIN found :
           (\A j \in DOMAIN found : found[j] # t) => <<found[i], t>> \in earlier
Snapshot(t) == [task |-> t, failures |-> failures[t], oneShot |-> t \in oneShot]

\* The timer fires, whether or not the last tick has returned
TickFinds(k) ==
    LET ready == {t \in due : Findable(t)} IN
    /\ tick[k] = <<>> /\ ready # {} /\ Slots > 0
    /\ \E found \in [1 .. Fewer(Slots, Cardinality(ready)) -> ready] :
        /\ IsFirst(found, ready)
        /\ tick' = [tick EXCEPT ![k] = [i \in DOMAIN found |-> Snapshot(found[i])]]
        /\ refound' = refound \union
               {t \in Tasks : /\ \E i \in DOMAIN found : found[i] = t
                              /\ \/ \E e \in ExecsOf(t) : exec[e].pc # "run"
                                 \/ \E j \in Ticks : t \in Found(j)}
    /\ UNCHANGED <<table, cronOn, runs, edit, apart, bounds>>

\* findRunningCountByUser() counts tasks, not runs
RunningCount(u) == Cardinality({t \in exists : OwnerOf[t] = u /\ HasRunningRow(t)})

\* canDispatch(), with the failures of the snapshot
CanDispatch(snap) ==
    /\ OwnerOf[snap.task] \in cronOn
    /\ snap.failures < MaxFailures
    /\ RunningCount(OwnerOf[snap.task]) < MaxPerUser

\* The loop of tick() goes on to the next task, or returns
Advance(k) == tick' = [tick EXCEPT ![k] = Tail(@)]

TickSkips(k) ==
    /\ tick[k] # <<>>
    /\ ~CanDispatch(Head(tick[k]))
    /\ Advance(k)
    /\ UNCHANGED <<table, cronOn, runs, edit, history, bounds>>

\* execute() is called and not awaited
TickDispatches(k, e) ==
    LET snap == Head(tick[k]) IN
    /\ tick[k] # <<>>
    /\ exec[e] = NoExec
    /\ CanDispatch(snap)
    /\ running' = running + 1
    /\ exec' = [exec EXCEPT ![e] = [pc |-> "create", of |-> snap]]
    /\ Advance(k)
    /\ UNCHANGED <<table, cronOn, row, orphans, edit, history, bounds>>

\* findById() or the guard throws: the tick goes on with the next task
TickFails(k) ==
    /\ tick[k] # <<>>
    /\ Fault
    /\ Advance(k)
    /\ UNCHANGED <<table, cronOn, runs, edit, history, edits, crashes>>

---------------------------------------------------------------------------
(* execute() *)

\* finally: the slot is free again; a row that is still running stays behind
Finish(e) ==
    /\ running' = running - 1
    /\ exec' = [exec EXCEPT ![e] = NoExec]
    /\ row' = [row EXCEPT ![e] = "none"]
    /\ orphans' = IF row[e] = "running" THEN orphans \union {exec[e].of.task} ELSE orphans

Creates(e) ==
    /\ exec[e].pc = "create"
    /\ exec[e].of.task \in exists
    /\ row' = [row EXCEPT ![e] = "running"]
    /\ Set(e, "run")
    /\ UNCHANGED <<table, cronOn, running, orphans, tick, edit, history, bounds>>

\* agentRunner.run() has returned, an inner timeout included, and the row is closed
Completes(e) ==
    LET t == exec[e].of.task IN
    /\ exec[e].pc = "run"
    /\ t \in exists
    /\ row' = [row EXCEPT ![e] = "completed"]
    /\ streak' = [streak EXCEPT ![t] = 0]
    /\ drifted' = Overlooked(t, {e}, drifted)
    /\ Set(e, "reset")
    /\ UNCHANGED <<table, cronOn, running, orphans, tick, edit, unplanned, refound, bounds>>

\* It throws, or exceeds its deadline or token budget
RunFails(e) ==
    /\ exec[e].pc = "run"
    /\ Set(e, "fail")
    /\ UNCHANGED <<table, cronOn, running, orphans, tick, row, edit, history, bounds>>

ResetFailures_ReasonOnly(t) ==
    /\ tripped' = tripped \ {t}
    /\ UNCHANGED failures
ResetFailures(t) ==
    /\ tripped' = tripped \ {t}
    /\ failures' = [failures EXCEPT ![t] = 0]

Resets(e) ==
    LET t == exec[e].of.task IN
    /\ exec[e].pc = "reset"
    /\ t \in exists
    /\ ResetFailures(t)
    /\ drifted' = Overlooked(t, {e}, drifted)
    /\ Set(e, "reschedule")
    /\ UNCHANGED <<exists, enabled, oneShot, later, due, earlier, cronOn, running, orphans, tick, row,
                   edit, streak, unplanned, refound, bounds>>

\* computeNextRun() of the schedule as it was when the task was found
Reschedules(e) ==
    LET t == exec[e].of.task IN
    /\ exec[e].pc = "reschedule"
    /\ t \in exists
    /\ IF exec[e].of.oneShot
       THEN enabled' = enabled \ {t} /\ tripped' = tripped \ {t} /\ UNCHANGED <<later, due, earlier>>
       ELSE NextRunAt(t, TRUE) /\ UNCHANGED <<enabled, tripped>>
    /\ Set(e, "deliver")
    /\ UNCHANGED <<exists, oneShot, failures, cronOn, running, orphans, tick, row, edit, history, bounds>>

Delivers(e) ==
    /\ exec[e].pc = "deliver"
    /\ Finish(e)
    /\ UNCHANGED <<table, cronOn, tick, edit, history, bounds>>

Another(n) == IF n < MaxFailures THEN n + 1 ELSE n

MarksFailed(e) ==
    LET t == exec[e].of.task IN
    /\ exec[e].pc = "fail"
    /\ t \in exists
    /\ row' = [row EXCEPT ![e] = "failed"]
    /\ streak' = [streak EXCEPT ![t] = Another(@)]
    /\ drifted' = Overlooked(t, {e}, drifted)
    /\ Set(e, "count")
    /\ UNCHANGED <<table, cronOn, running, orphans, tick, edit, unplanned, refound, bounds>>

CountsFailure(e) ==
    LET t == exec[e].of.task IN
    /\ exec[e].pc = "count"
    /\ t \in exists
    /\ failures' = [failures EXCEPT ![t] = Another(@)]
    /\ drifted' = Overlooked(t, {e}, drifted)
    /\ Set(e, "breaker")
    /\ UNCHANGED <<exists, enabled, tripped, oneShot, later, due, earlier, cronOn, running, orphans, tick, row,
                   edit, streak, unplanned, refound, bounds>>

\* The failure counter of the snapshot decides
Trips(e) == exec[e].of.failures + 1 >= MaxFailures

Breaks(e) ==
    LET t == exec[e].of.task IN
    /\ exec[e].pc = "breaker"
    /\ t \in exists
    /\ IF Trips(e)
       THEN enabled' = enabled \ {t} /\ tripped' = tripped \union {t} /\ UNCHANGED <<later, due, earlier>>
       ELSE NextRunAt(t, ~exec[e].of.oneShot) /\ UNCHANGED <<enabled, tripped>>
    /\ Finish(e)
    /\ UNCHANGED <<exists, oneShot, failures, cronOn, tick, edit, history, bounds>>

\* Cut off here, an execution leaves a counter or a breaker that its run has overtaken:
\* the failure is not counted, the count not acted upon, or the success not recorded
CutsBreaker(e) ==
    \/ exec[e].pc = "count"
    \/ exec[e].pc = "breaker" /\ Trips(e)
    \/ exec[e].pc = "reset" /\ exec[e].of.failures > 0

\* Completed, it is yet marked failed, and its breaker goes by the failures before its success
Relapses(e) == exec[e].pc \in {"reset", "reschedule", "deliver"} /\ exec[e].of.failures > 0

\* A call fails, or the row is gone: before the run has been marked failed the catch block
\* takes over, in it execute() swallows the error
Throws(e) ==
    /\ InFlight(e)
    /\ IF exec[e].of.task \in exists THEN Fault ELSE UNCHANGED faults
    /\ \/ exec[e].pc \in {"run", "reset", "reschedule", "deliver"}
          /\ Set(e, "fail") /\ UNCHANGED <<running, row, orphans>>
       \/ exec[e].pc \in {"create", "fail", "count", "breaker"} /\ Finish(e)
    /\ drifted' = IF CutsBreaker(e) \/ Relapses(e) THEN drifted \union {exec[e].of.task} ELSE drifted
    /\ UNCHANGED <<table, cronOn, tick, edit, streak, unplanned, refound, edits, crashes>>

---------------------------------------------------------------------------
(* Edits *)

Edit == Eventful /\ edits' = edits + 1

\* update() of the tasks service, call by call: the row, settings and policy are read
EditReads(d, t, change) ==
    /\ Edit
    /\ t \in exists
    /\ edit[d] = NoEdit
    /\ edit' = [edit EXCEPT ![d] = [pc |-> "write", task |-> t, change |-> change, failures |-> failures[t]]]
    /\ UNCHANGED <<table, cronOn, tick, runs, history, faults, crashes>>

\* What update() does when the schedule has been seen to: the failures of the row it read
\* decide whether they are reset
AfterSchedule(d) ==
    edit' = [edit EXCEPT ![d] = IF @.failures > 0 THEN [@ EXCEPT !.pc = "reset"] ELSE NoEdit]

\* The edited columns; this enables a task whose next run or counter is still to be written
EditWrites(d) ==
    LET t == edit[d].task
        change == edit[d].change
    IN
    /\ edit[d].pc = "write"
    /\ t \in exists
    /\ enabled' = CASE change.enabled = "on" -> enabled \union {t}
                    [] change.enabled = "off" -> enabled \ {t}
                    [] OTHER -> enabled
    /\ IF change.schedule = "keep"
       THEN AfterSchedule(d) /\ UNCHANGED <<oneShot, unplanned>>
       ELSE /\ oneShot' = IF change.schedule = "at" THEN oneShot \union {t} ELSE oneShot \ {t}
            /\ unplanned' = Overlooked(t, {d}, unplanned)
            /\ edit' = [edit EXCEPT ![d].pc = "next"]
    /\ UNCHANGED <<exists, tripped, failures, later, due, earlier, cronOn, tick, runs, streak, drifted, refound, bounds>>

\* computeNextRun() of the new schedule: null for an `at` that has passed by now
EditSchedules(d) ==
    LET t == edit[d].task
        every == edit[d].change.schedule = "every"
    IN
    /\ edit[d].pc = "next"
    /\ t \in exists
    /\ \E future \in BOOLEAN : (every => future) /\ NextRunAt(t, future)
    /\ unplanned' = IF every /\ ~Held(t, {d}) THEN unplanned \ {t} ELSE unplanned
    /\ AfterSchedule(d)
    /\ UNCHANGED <<exists, enabled, tripped, oneShot, failures, cronOn, tick, runs, streak, drifted, refound, bounds>>

EditResets(d) ==
    LET t == edit[d].task IN
    /\ edit[d].pc = "reset"
    /\ t \in exists
    /\ ResetFailures(t)
    /\ streak' = [streak EXCEPT ![t] = 0]
    /\ drifted' = IF Held(t, {d}) THEN drifted \union {t} ELSE drifted \ {t}
    /\ edit' = [edit EXCEPT ![d] = NoEdit]
    /\ UNCHANGED <<exists, enabled, oneShot, later, due, earlier, cronOn, tick, runs, unplanned, refound, bounds>>

\* It has enabled a task whose failures it is about to reset
Reenables(d) == edit[d].pc \in {"next", "reset"} /\ edit[d].change.enabled = "on" /\ edit[d].failures > 0

\* It has given a task a recurring schedule whose next run it is about to write
Replans(d) == edit[d].pc = "next" /\ edit[d].change.schedule = "every"

\* A call fails, or the row is gone: what has been written stays
EditFails(d) ==
    LET t == edit[d].task IN
    /\ edit[d] # NoEdit
    /\ IF t \in exists THEN Fault ELSE UNCHANGED faults
    /\ edit' = [edit EXCEPT ![d] = NoEdit]
    /\ drifted' = IF Reenables(d) /\ streak[t] >= MaxFailures THEN drifted \union {t} ELSE drifted
    /\ unplanned' = IF Replans(d) THEN unplanned \union {t} ELSE unplanned
    /\ UNCHANGED <<table, cronOn, tick, runs, streak, refound, edits, crashes>>

\* The TaskRun rows go with their task
Removes(t) ==
    /\ Edit
    /\ t \in exists
    /\ exists' = exists \ {t} /\ enabled' = enabled \ {t} /\ tripped' = tripped \ {t}
    /\ later' = later \ {t} /\ OffCalendar(t)
    /\ row' = [e \in Execs |-> IF e \in ExecsOf(t) THEN "none" ELSE row[e]]
    /\ orphans' = orphans \ {t}
    /\ UNCHANGED <<oneShot, failures, cronOn, tick, running, exec, edit, history, faults, crashes>>

PolicyChanges(u) ==
    /\ Edit
    /\ cronOn' = IF u \in cronOn THEN cronOn \ {u} ELSE cronOn \union {u}
    /\ UNCHANGED <<table, tick, runs, edit, history, faults, crashes>>

\* markOrphanedRuns() closes the rows that have been running for long enough, whatever
\* those are
Restart ==
    /\ Eventful
    /\ crashes' = crashes + 1
    /\ tick' = [k \in Ticks |-> <<>>]
    /\ exec' = [e \in Execs |-> NoExec]
    /\ row' = [e \in Execs |-> "none"]
    /\ running' = 0
    /\ orphans' \in SUBSET {t \in Tasks : HasRunningRow(t)}
    /\ edit' = [d \in Editors |-> NoEdit]
    /\ drifted' = drifted \union
           {t \in Tasks : \/ \E e \in ExecsOf(t) : CutsBreaker(e)
                          \/ streak[t] >= MaxFailures /\ \E d \in EditsOf(t) : Reenables(d)}
    /\ unplanned' = unplanned \union {t \in Tasks : \E d \in EditsOf(t) : Replans(d)}
    /\ UNCHANGED <<table, cronOn, streak, refound, faults, edits>>

---------------------------------------------------------------------------
Dispatches(k) == \E e \in Execs : TickDispatches(k, e)
Ticking(k) == TickFinds(k) \/ TickSkips(k) \/ Dispatches(k)
Executes(e) ==
    \/ Creates(e) \/ Completes(e) \/ RunFails(e) \/ Resets(e) \/ Reschedules(e) \/ Delivers(e)
    \/ MarksFailed(e) \/ CountsFailure(e) \/ Breaks(e)

Edits(d) ==
    \/ \E t \in Tasks, change \in Changes : EditReads(d, t, change)
    \/ EditWrites(d) \/ EditSchedules(d) \/ EditResets(d) \/ EditFails(d)

Next ==
    \/ \E t \in Tasks : BecomesDue(t) \/ Removes(t)
    \/ \E d \in Editors : Edits(d)
    \/ \E u \in Users : PolicyChanges(u)
    \/ \E k \in Ticks : Ticking(k) \/ TickFails(k)
    \/ \E e \in Execs : Executes(e) \/ Throws(e)
    \/ Restart

Spec == Init /\ [][Next]_vars

---------------------------------------------------------------------------
(* Properties *)

\* findDue(): "a task is due only if it has no in-flight TaskRun".  A task runs twice at
\* once only if it was found before the row of its execution existed, or after that row
\* was closed and before nextRunAt moved on, or by two ticks.
NoDoubleRun ==
    \A e, f \in Execs :
        /\ e # f /\ InFlight(e) /\ InFlight(f)
        /\ exec[e].pc = "run" /\ exec[f].pc = "run" /\ exec[e].of.task = exec[f].of.task
        => exec[e].of.task \in refound

\* The breaker: a task is disabled for its failures exactly when so many of its runs have
\* failed since its last completed run or resetting edit.  Until the failure is counted
\* and acted upon an execution is on its way there, and an edit that enables the task
\* again has yet to reset the counter.  drifted names what comes apart for longer, until
\* an edit that meets nobody resets the counter: a run or reset whose task somebody else
\* has read and not yet let go, a call that fails or a restart between a run's end and the
\* writes that follow from it, a completed run whose later calls fail after earlier
\* failures, and an edit cut off before the reset.
BreakerTrips ==
    \A t \in exists \ drifted :
        /\ t \in tripped => streak[t] >= MaxFailures
        /\ streak[t] >= MaxFailures /\ t \in enabled =>
               \/ \E e \in ExecsOf(t) : exec[e].pc \in {"count", "breaker"}
               \/ \E d \in EditsOf(t) : Reenables(d)

\* An enabled recurring task has a next run, whatever way its last one ended, or an edit is
\* about to write it.  unplanned names the exceptions, until an edit that meets nobody
\* writes a next run: an edit of the schedule of a task that somebody else has read and
\* not yet let go, and an edit cut off between a recurring schedule and its next run.
ScheduleKept ==
    \A t \in (enabled \ oneShot) \ unplanned :
        t \in later \union due \/ \E d \in EditsOf(t) : Replans(d)
============================================================================
