# Clawix: a verification project

TLA+ models of the concurrent core of Clawix (`packages/api`, and the chat tab of `packages/web`), the TLC runs
that check them and the TLAPS proofs about them.  Paths below are relative to `src/packages/api/src/` unless they
begin with `src/`.

## 1. The system

Clawix runs AI agents for many users in one Node.js process.  A user's message starts a *primary run* of an
agent in a session; the run thinks in a loop of provider calls and tool calls, in a container of its session.
It may spawn *sub-agents*, whose results come back to the session later.  Tasks can be scheduled.  Some tools ask
the user first; some belong to external MCP servers the user has signed in to.  Everything is `async` code on one
thread: steps between two `await`s are atomic, and everything interleaves at the `await`s: database and Redis calls,
containers, external servers, timers.

| Component | State | Operations | Hard because |
|---|---|---|---|
| Sub-agent executor (`engine/task-executor.service.ts`) | per-user queues, rotation, slot counters in memory; agent run rows | `submit`, `drain`, `executeTask` with watchdog, `cancelQueued`, startup recovery | outcome, watchdog, publication and cancel race; a slot or a report can get lost or doubled; restarts |
| Result publication and delivery (`engine/sub-agent-result.publisher.ts`, `engine/task-executor.service.ts`, `engine/tools/task-tools.ts`) | Redis result list, processing list, lock with fence, reinvocation counter | `publishOutcome`, `tryDeliverResults`, waves, retry, periodic sweep, `task_wait`, completion hook | crash between two Redis calls, expiring locks, lost wake-ups, overlapping deliveries |
| Container pool and ledger (`engine/container-pool.service.ts`, `engine/container-capacity.ledger.ts`) | pool map, lock per session, idle timers, ledger counter, live containers | `acquire`, `release`, `evict`, health check, `drainAll`, startup cleanup | probes and starts are awaited while others evict the same entry; waiters of one lock |
| Primary runs and session messages (`engine/agent-runner.service.ts`, `agent-run-registry`, `stale-run-reaper`, `session-manager`, `memory-consolidation`, `/compact`) | run rows, abort controllers, message rows with orderings and summaries | `run`, stop, reap, `saveMessages`, `consolidateIfNeeded` | three writers of one row; counts read before the insert they number; a summary replaces rows in two writes |
| Tool approval gate (`approvals/`) | session memory, standing decisions, pending rendezvous, request rows | `gate`, `resolve`, `revoke`, session reset, restart sweep | answer, timeout and abort race; two memories read at different moments; partial writes |
| Cron scheduler (`engine/cron-*.ts`, `db/task*.repository.ts`, `tasks/tasks.service.ts`) | task rows, TaskRun rows, `runningCount` | `tick`, `canDispatch`, `execute` and its post-run writes, edits, orphan recovery | rows are read long before they are used; six writes after each run; restarts |
| MCP connections (`mcp/mcp.service.ts`, `mcp-token-manager.service.ts`, `mcp-oauth-discovery.service.ts`) | OAuth client of the server row, connection, token, approval overrides; two Redis locks | discovery, login and callback, `getAccessToken`, `autoSortTiers`, edits | rotating refresh tokens; locks that expire; a column written back after a call of the model |
| Web chat (`src/packages/web/.../use-chat.ts`, `chat/`, `channels/web`, `channels/message-router.service.ts`) | the tab's view, awaited replies, open conversation; the socket; sessions and rows | send, retry, frames, poll, reconnect, open, delete, reset, new chat | four paths bring messages, none says for which conversation; messages are handled side by side; frames get lost |
| Wiki (`wiki/`, `db/wiki-*.repository.ts`, `engine/tools/wiki/`) | pages with scope and content, link rows, share rows | create, update, delete, share, unshare | caps and links are read in one query and written in another |
| Reasoning and recovery loops (`engine/reasoning-loop.ts`, `recovery-loop.ts`, `budget-tracker.ts`) | transcript, budget | provider call, tool calls, retry, compression | bounds and their order |
| Python pool, limiters, browser sessions | per-session containers, counters | acquire, release, drain | like the container pool |
| Other channels, groups, auth, admin, workspace, skills, the rest of the web client | rows and connections | request handlers | mostly I/O |

How they interact.  The channel router refuses a message while the user's last run is going on, else it finds the
session and starts a primary run.  `agent-runner` creates the run's row, registers its controller, stores the user's
message, acquires the session's container from the pool (step 12), sends gated tool calls through the approval gate,
asks `McpTokenManager` for the tokens of MCP tools, and lets the `spawn` tool create a child row and `submit` it.  The
executor drains its queues into `agent-runner.run`, which takes a ledger slot for the child's container.  The outcome
goes through the publisher into the parent session's Redis list; a wake-up lets one delivery loop move a wave to the
processing list and reinvoke the parent as a new primary run.  A primary run that ends wakes up deliveries that
deferred to it.  The cron scheduler starts runs without a session, for which the gate can only deny.  A reaper settles
rows and aborts runs that have not ended after ten minutes.  The reply of a run is stored, consolidation may follow,
and a frame goes to whatever sockets the user has open.

What makes each component correct:

- executor: counters equal the work in hand; limits hold; no eligible task waits beside a free slot; every child is
  reported once, and none is dropped in silence;
- delivery: a posted result is told or given up after its attempts, never lost; one delivery loop per session;
  a late release never frees another's lock; what is deferred or interrupted is taken up again;
- pool: a session's container is used by one run; no container is stopped under its user or left behind; waiters are
  served;
- runs: a row ends once, by somebody; a stopped run is silent; nothing said in a session is lost, and its order stays;
- approval: silence is not consent; denials hold; the row tells what happened;
- cron: no task runs twice at once; the breaker trips exactly when it should; schedules continue;
- MCP: one refresh at a time; the stored grant works; a new sign-in is asked for only when there is need; the user's
  choices about tools stand;
- web chat: a message goes to the conversation on screen; what is on screen is in order; stored replies appear; the tab
  stops waiting;
- wiki: the ambient cap holds; links follow the content; what is unshared is hidden.

## 2. Modules

| Module | Models | State and actions against the code |
|---|---|---|
| `TaskExecutor` | the executor for all users | `queue`, `rotation`, `rotationIdx`, `activeCount`, `userActive` are the fields of the service; `row` the agent run row. `Spawn*` the spawn tool, `Submit*` `submit`, `DrainStart`/`DrainStop` the loop of `drain`, `Run*` what `agent-runner.run` does to the row, `Settle`, `Watchdog`, `Publish*`, `AfterPublish` the continuation of `executeTask`, `Cancel*` the tool `task_cancel`, `StopWrites` the user's stop, `Reap`, `Restart` |
| `ResultDelivery` | one parent session's results | `queue`, `processing`, `count`, `lock` are the Redis keys, `pc` and `batch` the delivery calls. `Enqueue`/`Announce` the publisher, `WakeUp` to `Release` the delivery, `Sweep*`, `Turn*` the parent's own turns, `Wait*` the Redis calls of a `task_wait`: `WaitStarts` and `WaitGoesOn` its two `lrange`, `WaitRemoves` its `lrem`, `WaitFails` an `lrange` that throws |
| `AtLeastOnce` | what delivery promises | an abstract mailbox: post, tell (again), give up after the attempts; `ResultDelivery` instantiates it (`Mailbox`) |
| `ContainerPool` | pool, locks, timers, health check, ledger | `pool`, `lock`, `live` (containers that run); `Acquire`, `Find*`, `Probe*`, `Fresh*`, `Started`, `Release*`, `Fails`/`Evicted`, `Health*`, `Drain*`, `Sub*`, `Stopped` and `StopFails` the two ends of `runner.stop()`, `Restart` |
| `SessionRuns` | the primary runs of one session, with their messages | `row`, `msgs` the tables, `controllers`, `aborted` the registry, `cons` the consolidation that holds the session's lock. `Route` to `Finish` are the steps of a run, `Count`/`Insert` of `saveMessages`, `StartConsolidation` to `NextRound` of `consolidateIfNeeded`, `Stop*`, `Reap`, `StartCompact`/`CompactEnds` |
| `ToolApproval` | the gate, one user and one tool | `session`, `standing` the two memories, `row` the request, `pc` the gate; `Starts` to `Closes` are the stretches of `gate` between two awaits, `Click`/`Answers` those of `resolve` |
| `CronScheduler` | ticks, executions, task rows | `tick` the snapshots in the loop of `tick()`, `exec` the calls of `execute()`, `orphans` the TaskRun rows nobody will close, `edit` the calls of `update()` of the tasks service, one await after the other (`EditReads` to `EditResets`, `EditFails`); `later`, `due` and `earlier` are what comparisons of `nextRunAt` with the clock and with each other tell |
| `McpConnections` | one user's connection to one OAuth server | `client`, `conn`, `token`, `overrides` the rows, `live` and `bare` what the provider accepts and which grants came without a refresh token (external); `Begin` to `Activate` a login, `Binds` a run that registers the tools of an active connection, `GetAccessToken` to `MarkReauth` the same run when it wants a token, `AutoSort*`, `UpdateConnection`, `DeleteConnection`, `SetApprovalOverrides` |
| `ChatClient` | one tab, composed with router, session manager, the session side of `agent-runner` and chat controller | `view`, `pending`, `failed`, `cur`, `deleting` the hook's state, `sess`, `rows` the tables, `frames`, `inbox` the socket, `turns` the messages the gateway is handling, side by side; `Send`, `Retry`, `On*` frames, `Poll`, `Reconnect`, `SelectSession`, `ApplyFetch`, `DeleteSession` and `DeleteClears`, `StartNewChat` and `NewChatClears`, and of the server `Receive`, `Check` (`hasRunningAgentForUser`), `FindSession` and `CreateSession` (`getOrCreate`), `RunCommand`, `CreateRun` to `CompleteRun`, `Deliver`, `Throw` |
| `WikiPages` | one owner's pages under overlapping requests | `page`, `links`, `shares` the tables, `at` and `seen` each request's next query and what the last one returned; one action per query |
| `*Proofs` | the theorems (section 4) | |
| `MC*` | instances for TLC | |

Composition.  `ChatClient` holds tab, socket and server at once; `SessionRuns` runs, stop, reaper, `/compact` and
consolidation on the same rows; `TaskExecutor` the executor with the rows that `agent-runner`, `task_cancel` and the
reaper write; `ResultDelivery` children, deliveries, sweep, `task_wait` and the user's own turns.

Names with an underscore, such as `Settle_NoLatch`, are variants of the definition that follows them with a
plausible mistake in it.  No specification uses them; each shows that a property notices the mistake.

Abstractions shared by all modules: payloads, prompts, names, texts, logs, metrics and audit records are left out;
identifiers are members of small sets; time is a timer that may fire at any moment after it is armed; one action is
a stretch of code between two awaits, or several such stretches where nothing any property sees can come between.

## 3. Runs

| Run | Instance | What it shows | Distinct states |
|---|---|---|---|
| `ExecutorSafety` | 3 tasks of one user, 1 of another, one slot, unequal quotas | counters, limits, no idle backlog, one report each | 2.7 M |
| `ExecutorReport` | 2 tasks of one user; hanging runs, a cancel, a user's stop, the reaper, one restart or failing call, fairness | queued children are served; every spawned child is reported or cancelled, or its report is one known to be lost | 0.5 M |
| `DeliverySafety` | 2 deliveries, 2 failing waves, any Redis call fails, lock expires, restart | one deliverer, earned attempts, fenced release, refinement of `AtLeastOnce` | 5.6 M |
| `DeliveryDrains` | restart, user turn with `task_wait`, fairness | processing lists drain, deferral never strands | 0.2 M |
| `PoolSafety` | 3 primary runs of 2 sessions, a sub-agent, one warm and one ephemeral place, health check, one fault (a failing stop included), shutdown, restart | exclusion, no leak, nothing stopped in use | 3.9 M |
| `PoolLive` | 3 runs of one session, forced takeover, one fault, fairness | waiters are served, containers stop | 0.2 M |
| `Runs` | 2 runs and a `/compact` of one session, a stop, reaping, throw or crash, two rounds of consolidation | nothing lost, order kept, stopped runs silent, rows settled once and by somebody | 4.6 M |
| `Approval` | 2 calls in a session, one scheduled call of the same resource, a fault, a restart, an abort | consent, denials, rows; every gate ends | 0.2 M |
| `Cron` | a task, 2 overlapping ticks, 2 executions, an editor, breaker at 2, any two of: failing call, edit cut off anywhere, deletion, policy change, restart | no double run, breaker, next run | 5.3 M |
| `Mcp` | any 3 of two runs, two logins and the sorter; one tool, two connections, two ageings, two edits, one fault (a refused live grant included) | one refresh, a live grant, justified sign-ins, choices stand | 3.0 M |
| `Chat` | 2 sends, 2 sessions, pages of 4 rows, two events (faults and moves of the user), 2 overlapping fetches, every await of the server a step, fairness | messages go where the tab is; order; replies appear; the tab stops waiting | 1.2 M |
| `Wiki` | 2 pages, 3 requests of any kind, room for one ambient page | the cap, the links, unsharing | 5.1 M |

Bounds.  Each instance has the smallest sets in which the components' contention appears: more tasks than slots,
two users for fairness, two deliveries for a lock, two sessions for one warm place, three calls so that a denial,
an approval and a third party meet, a third wiki request so that two can race and one can see the result.  `Max*`
constants bound what could repeat for ever (clicks, faults, crashes, edits, windows, turns); one fault or crash can fall
between any two steps, which is where recovery code is wrong if it is.  Counters of the code that are compared with a
limit are bounded by it.  `CHECK_DEADLOCK FALSE` stands where a system in which everything has been done or spent stops.

Beyond these instances, random simulations of 25 to 150 million states each ran without a violation of the safety
properties: executor with 4 tasks, two slots, cancels, stops, reaping, 2 faults and a restart; delivery with 3 results,
3 deliveries, waves of 2, 3 faults, 2 crashes, 2 windows and 2 turns; pool with 3 sessions, 5 primary runs, 2 sub-agents,
3 faults and 2 restarts; cron with 3 tasks of 2 users, one of them one-shot, 2 ticks, 4 executions, 2 editors with any change
and 5 events; MCP with all five actors, 2 tools, 3 connections and 3 faults; chat with 3 sends, 3 sessions, 4 events and pages
of 2 rows, which cut a conversation off; wiki with 3 pages, 5 requests, 2 targets; and a larger instance of `Runs`.  The run
`Chat` keeps pages of 4 rows, so that `RepliesShown` speaks of conversations of two turns.

Properties that excuse something name it in a history variable, which the step sets at which the code goes its divergent
way (section 6); outside of it the property holds.  Where the excuse can end, it does.

| Variable | Set when | Ends |
|---|---|---|
| `refound` (`CronScheduler`, per task) | the task is found due while an execution of it stands before or after its run, or another tick holds it | never |
| `drifted` (per task) | a counter changes under somebody who has read it; an execution is cut off between a run's end and what follows from it, or fails after its success with failures behind it; an edit that enables a tripped task is cut off before the reset | an edit resets the counter and meets nobody |
| `unplanned` (per task) | a schedule changes under somebody who has read it; an edit is cut off between a recurring schedule and its next run | an edit writes a next run and meets nobody |
| `breached` (`ContainerPool`, per session) | somebody but its holder takes or releases the lock: a forced lock, a stray release, the shutdown | restart |
| `disturbed` (per session) | somebody but the lock's holder stops or idles the entry: a timer, the health check, an eviction, the shutdown; only `ContainerKept` is excused by it | restart |
| `orphaned` (per container) | its entry goes in the name of another container, or is replaced after a breach | restart |
| `left` (per container) | docker fails to stop it | restart |
| `lost` (`TaskExecutor`, per child) | one of the five ways in which a report is lost (`EveryChildReported`) | never |
| `overrun` (`McpConnections`) | a lock expires under its holder, or a waiter goes on without it | never |
| `crossed` | a login and a refresh overlap | never |
| `refused` | a refresh cannot use a live grant: the server row has no OAuth configuration, or the provider answers 400 or 401 all the same | the status is set again |
| `outdated`, `halfway` | the user chooses while the sorter waits for the model; a login fails after it has stored its token | never |
| `staleCount`, `shifted` (`SessionRuns`) | a message is inserted with a count that is out of date; a consolidation leaves rows behind | never |
| `shed`, `excused` | a raw archive, or a failure between archive and summary; a stop that comes when the loop of a run is over, or before its controller is registered | never |
| `doubled` (`ChatClient`) | a session is created while another message, too, has found none | never |
| `crossed` | a message passes the router's check beside another one that has passed it, or was sent before it | never |
| `overtaken` | a page is cut off before a reply whose frame is still to come | never |
| `contested` (`WikiPages`, per page) | two rebuilds of the page overlap, or one fails | the next rebuild that meets nobody |
| `raced`, `doubled` | a count or scope is out of date when AMBIENT is written; two requests share a page with one target at once | never |

`ReportedOnce` is checked while nothing fails: after a failed terminal write, or a restart, the reaper may report a child a
second time.  A result counts as `told` once a `task_wait` call has its outcome in hand, although the call may still fail
(section 6).

Fairness.  `WF` on steps that wait only for a call to return: every database, Redis and Docker call returns or
throws, promises continue.  Runs end because the watchdog (executor), the reaper (primary runs) or a deadline aborts
them; timers fire; sweep and reaper are interval timers; an orphaned Redis lock has a TTL.  The executor has `SF` on
what it owes a task, because the loop of `drain` disables everything else for a moment.  In `Chat`, the server answers
what it has accepted, the socket reconnects (the tab tries ten times with back-off; a longer outage needs a reload), its frames arrive,
the poll interval fires, and fetches end.  No fairness is assumed for users, faults, crashes, or a run that hangs in
`ExecutorReport`.

## 4. Proofs

The theorems hold for every value of the constants that satisfies the modules' assumptions.  `Spec` of each module
is `Init /\ [][Next]_vars` without fairness (`ChatSpec` in `ChatClient`).  TLC confirmed every inductive invariant on
a small instance before it was proved.  A proof that a step preserves an invariant has a step for every action.

| Theorem | Says | Argument |
|---|---|---|
| `TaskExecutorProofs`: `TypeCorrect`, `SlotsAccountedFor`, `QueuesIntact` | types, `SlotAccounting`, `QueueIntegrity` | `Inv == TypeInv /\ QueueIntegrity /\ SlotAccounting`.  None is inductive alone: a decrement keeps a counter natural only because the task that ends is counted; a task that starts is counted once only because its queue held it once |
| `TaskExecutorProofs`: `LimitsHold`, `NoBacklogIdles` | `LimitsRespected`, `NoIdleBacklog` | on top of `Inv`: the waiting places form a finite set whose size only `submit` increases, under its check (`LimitsInv`); every user with a queue is in `rotation` (`RotationCovers`), so a drain that stops has looked at all of them |
| `TaskExecutorProofs`: `ChildrenReportedOnce` | `ReportedOnce` | `Told`, child by child: until the latch falls nothing has been published, and the row is running only while the controller is registered, so whoever finds it running is the first |
| `ResultDeliveryProofs`: `OneCallDelivers`, `ReleaseIsFenced` | `OneDeliverer`, `FencedRelease` | `LockInv`: while no Redis call failed, a call in its critical section holds the lock (an expired lock is a fault), and only the holder's fenced release takes it away |
| `ResultDeliveryProofs`: `RetriesAreEarned` | `AttemptsEarned` | `PayloadInv`: no payload, in a list, a wave or a scan, counts more attempts than its result's failed waves, and one that a retry is about to count again counts fewer |
| `ResultDeliveryProofs`: `DeliveryKeepsMailbox`, `MailboxLosesNothing` | `KeepsMailbox` (the refinement of `AtLeastOnce`), and with it `NothingLost` | `Kept`: of every result still due the two lists hold one copy more than calls are about to `lrem`.  A step that shortens a list is a stutter or forgets an extra copy of the mailbox, one that lengthens it posts, repeats or stutters; whatever is told or given up leaves the mailbox in the same step |
| `ContainerPoolProofs`: `LockIsExclusive`, `ContainersAreKnown`, `RunsKeepTheirContainers` | `SessionExclusive`, `NoContainerLeaks`, `ContainerKept` | `Inv == Names /\ Held /\ Entered`.  `Names`: entries, runs, timers and verdicts name containers of their session that have been started.  `Held`: a run past `acquire` holds its session's lock, unless that was breached.  `Entered`: before a start there is no entry (`Vacant`) and at the probe none of another container (`Matching`), both whoever else acts on the entry, which is what keeps leaks to the two named kinds; what a run uses or probes is there and not being stopped (`Using`, `Probing`, `Unstopped`) while nobody else acts |
| `ToolApprovalProofs`: `RowsTell` | `RowTellsOutcome` | `RowInv`: at each point of the gate, which row statuses and outcomes are possible; between the row's closing and the gate's return it is closed while nothing has been returned, which is what a restart leaves of it |
| `ToolApprovalProofs`: `DenialsHold` | `StandingDenyHolds` | `DenyInv`: `Shown`, the snapshot that `lookup()` took first still shows the denial |
| `ToolApprovalProofs`: `SilenceIsNotConsent` | `NoAllowWithoutConsent` | `ConsentInv`: every remembered approval, every answer under way and every call let through goes back to an approval that the user settled (`Settled`) |
| `McpConnectionsProofs`: `OneRefreshAtATime`, `ChoicesSurvive`, `StoredGrantIsLive`, `SignInsAreJustified` | `OneRefresh`, `HumanChoiceStands`, `StoredGrantLives`, `ReauthJustified` | `LockHeld`; `ChoicesStand`, what the sorter will write agrees with the rows; `GrantInv == Ranges /\ Owned /\ Pending`, whoever holds a grant not yet stored is the only one; `Justified`: refreshes and logins are apart (`Apart`), and a caller about to mark the connection knows the row it will write and whether the grant in it was dead, bare or refused (`KnowsRow`, `AboutToActivate`) |
| `ConversationProofs`: `RowsHaveOwners`, `OutcomesAreFinal`, `NothingIsLost`, `StoppedRunsAreSilent` | `RowsAreOwned`, `OutcomeIsFinal` (an action property), `NothingLost`, `StoppedIsSilent` | `Control`: what each point of a run, of an agent loop and of a `/compact` says of its row and controller; `Lossless`: between the two writes of a consolidation its chunk is in memory; `Silent` |
| `ConversationProofs`: `TranscriptsAreInOrder` | `TranscriptInOrder` | `Told`: a message is logged once, when its run gets there; a row stands for messages that were logged; while no count is outdated, rows with smaller orderings say what was logged earlier and the next ordering is above them all |
| `ConversationProofs`: `MessagesGoWhereShown`, `ViewStaysInOrder` | `SentWhereShown`, `ViewInOrder` of `ChatClient` | `ChatInv`.  `Numbered` and `Existing`: every message is handled once, in a session that exists.  While no message has passed another (`crossed`): `Orderly`, one message at a time is past the router's check and none before it is still to come; `Written`, rows climb in the order of the sends; `Turning`, a reply that is about to be delivered is stored; `FrameInv`, frames of replies are stored replies in that order; `TabInv` and `OrderInv`, pages and view are in order, and of each reply whose frame is to come, view and pages hold the reply itself or nothing later.  `Known` and `Single`: what tab, letters and turns name exists, and until two messages create sessions at once one session is active, and none while one is about to be created |
| `CronSchedulerProofs`: `SlotsAreCounted`, `TasksRunOnce` | `SlotsCounted`, `NoDoubleRun` | `Basics`: `running` is the number of executions in progress, and one that runs has an open row, which `findDue` looks for; `Single`: a task never found again has one snapshot, with a tick or with an execution |
| `CronSchedulerProofs`: `BreakerIsExact`, `SchedulesGoOn` | `BreakerTrips`, `ScheduleKept` | `Below`: who runs was below the limit when found.  `Even`, task by task outside of `drifted`: the counter is the streak but at the end of a run, and everybody who has read it has read it as it is but for what he has written since.  `Planned`, outside of `unplanned`: a snapshot says what the row's schedule says, and every recurring task, a disabled one that an edit may enable included, has a next run or an edit about to write it |
| `WikiPagesProofs`: `CapHolds`, `LinksAreRebuilt`, `UnsharingHides` | `AmbientCap`, `LinksFollowContent`, `UnsharedIsHidden` | `Room`: what was counted leaves room for what will be written; `Rebuild`: the only rebuild of a page under way knows its content and what it will leave; `Sharers`: one active row per page and target |

Induction.  The proofs need facts about lists of any length: how many copies of a payload `RemoveFirst` leaves, that a
list sorted by ordering is in order at any distance.  The library's induction theorems have an operator parameter, so
these use the least counterexample instead (`Least`, first-order, from the definition of the natural numbers).

The attempt to prove `ViewInOrder` showed it to be false outside of the run's bounds: a frame that comes after a page that
starts behind its message needs a shorter page than the run's.  `overtaken` now says when this has happened.  The excuse of
`SentWhereShown` (`doubled`) needs a third send to matter: with two sends the run shows the property without it, and the theorem
speaks of any number.

`ConversationProofs` extends `SessionRuns` and `ChatClient`, the two ends of a conversation, so the names that both would
define (`Init`, `Next`, `Spec`, `vars`, `None`, `MaxFaults`) are `ChatInit`, `ChatNext`, `ChatSpec`, `chatVars`, `Nil` and
`MaxChatFaults` in `ChatClient`.

Only model-checked: liveness, in every module, because fairness and `ENABLED` are out of the prover's reach.  Every
invariant and every action property of the runs is a theorem.

## 5. Plan

Left, in the order of their worth:

1. an instance of `TaskExecutor` in which the reaper, besides the watchdog, competes for the report;
2. creation of scheduled tasks with its per-user limit, and a run that shows the starvation of section 6;
3. older pages (`loadMore`), streaming frames and two tabs in `ChatClient`;
4. a module for the bounds of reasoning loop, recovery loop and budget;
5. the Python pool with its limiters and the browser sessions, as further instances of the container pool's design.

## 6. Divergences met while modelling

Seen as counterexamples of stronger properties, or while reading.  The models contain the behaviour; the properties
excuse exactly it, by the history variables named in section 3, or say less than the comment quoted here.

Executor
- `rotationIdx` is stored modulo the rotation's length at that time (`engine/task-executor.service.ts:448`): a user who
  joins after a wrap waits one turn longer than "starting after the last-served user" (`:435`) says.
- A run that is refused before its `try` is reported while its row is still pending (`engine/sub-agent-result.publisher.ts:105`
  says terminal) and runs again after a restart.
- `engine/agent-runner.service.ts:324` overwrites a row that `task_cancel` has just flipped; the cancelled child runs.
- The same step overwrites the row's session, so that `task_cancel` no longer takes a running child for the parent's
  (`engine/tools/task-lifecycle-tools.ts:49`, against `:63-64`, "a running task is aborted").
- A restart between the terminal row and the `lpush` loses the report (`engine/sub-agent-result.publisher.ts:5-9`).
- After a failed terminal write, or a restart, the reaper may report a child that has been reported.
- The user's stop settles every running row of his (`engine/agent-run-registry.service.ts:50-76`), also one that a restart left
  behind and that the reaper would have reported.

Delivery
- The guard for a live parent (`engine/task-executor.service.ts:589`) is read once, so a turn may overlap a reinvocation.
- The sweep tests the lock and moves items in two steps (`:882`), and may return a wave in flight to the queue.
- `task_wait` and the later batch may both tell one result (`engine/tools/task-tools.ts:380`).
- A `task_wait` whose second `lrange` throws (`:117`) has removed payloads from the queue that it does not return: no
  batch brings them any more; their text stays in the child's row, where a further `task_wait` finds it.
- A lost wake-up, one refused after a restart, or one that finds the lock held just after the holder's final look at
  the list (`:639`) strands a result in the queue: the sweep reads processing lists only (`:864`, against
  `engine/sub-agent-result.publisher.ts:121-135` and `:844`).
- `decr` of an expired counter allows one wave more (`:692`, `:748`); `incr` without its `expire` (`:687-690`) would
  cap a session for ever.

Container pool
- `release()` in the `finally` of a run that never acquired, or after `evict()` has unlocked, frees another run's lock
  and marks its container idle (`engine/agent-runner.service.ts:1029`).
- The warm cap is checked before the start (`engine/container-pool.service.ts:273`); two starts may exceed it.
- A stale health verdict deletes a replaced entry and leaks its container (`:416`).  An entry under probe is still
  idle and can be evicted (`:98`, `:340`).  A second release arms a second timer (`:163`).  The lock timeout is seen
  only on waking up (`:366`).  An idle timeout of 0 is forgotten by recycling (`:320`).  The ledger's "one
  host-wide ceiling" is not asked by the pool.
- A stop that docker refuses is logged (`engine/container-runner.ts:247-260`, `engine/container-pool.service.ts:321-323`); the
  entry is gone by then, so the container runs until the cleanup of the next restart.

Primary runs and messages
- A consolidation keeps the orderings of the rows it leaves, while the next insert numbers itself by counting: a later
  message may get an ordering before a row that is older.  Rows with ordering 0 beside a summary never become eligible.
- `engine/memory-consolidation.service.ts:386` says "trigger fallback", but the branch only breaks.
- The archive and the summary are two writes; a failure between them leaves the chunk only in the archive.
- `/compact` settles its row unguarded (`commands/compact.command.ts:70`), after whoever has settled it before.
- A stop between the creation of the row and the registration of the controller (`engine/agent-runner.service.ts:322-335`)
  cancels the row but aborts nothing.

Approval
- `resolve()` answers `ok` before it is known whether the answer still counts (`approvals/tool-approval.service.ts:463-469`).
- An answer between the prompt and the registration of the rendezvous is lost (`:303-367`).
- A decision is stored before its card (`:424-434`); revoking an old card removes a newer decision of the same key.
- A denial that moves from the session's memory to the standing decisions between the two reads of `lookup()` (`:187`)
  is missed, against "Fail-closed" (`:174`).
- Between the closing of the row and the return of the gate an edit of the prompt is awaited (`:440-449`): a restart there
  leaves an APPROVED row of a call that never ran.

Cron
- Between the end of a run and the new `nextRunAt` (`engine/cron-task-processor.service.ts:193-212`), and before the TaskRun row
  is created, the task is found due again and runs twice for one moment (`db/task.repository.ts:125-129`).
- Refused tasks stay due and are found first (`db/task.repository.ts:135`): ten of them starve every other task.
- A row whose run started less than 15 minutes before a restart stays `running` and blocks its task
  (`db/task-run.repository.ts:129`).
- The breaker counts from a snapshot (`engine/cron-task-processor.service.ts:260`); a failed publish turns a completed run into
  a failed one (`:233`, `:249`); a run that timed out inside the loop counts as a success (`:185`).
- A schedule edited during a run is overwritten by the next time of the old schedule (`:209`).
- An edit is four awaited calls (`tasks/tasks.service.ts:74-121`).  It enables a tripped task before it resets the counter, and
  gives it a recurring schedule before its next run; cut off between, it leaves an enabled task that the guard
  refuses for its failures at every tick, or one that is never due (`db/task.repository.ts:125-129` asks for a `nextRunAt`).
- A run that completes after failures and whose later calls fail trips the breaker by the failures before its success.
- The per-user cap counts rows that a dispatch creates later (`engine/cron-guard.service.ts:193`).

MCP connections
- The automatic sort reads the overrides before it asks the model and writes the whole column afterwards: a choice made
  meanwhile is overwritten (`mcp/mcp.service.ts:745-747`, "must never silently flip a standing decision").
- A caller that does not get the refresh lock waits 500 ms and refreshes without it (`mcp/mcp-token-manager.service.ts:68-83`,
  against "Re-read inside the lock to avoid a double refresh"); with rotating grants the loser marks a working connection
  `reauth_required`.
- The discovery lock expires after 30 s and is released without a fence, against "so two concurrent first-connects
  don't both run" the registration (`mcp/mcp.service.ts:414`).
- A connection is marked `reauth_required` although the provider accepts its grant when the server row has no OAuth
  configuration (`mcp/mcp-token-manager.service.ts:94-98`), and on any 400 or 401 (`:127`); a grant without a refresh token is
  marked when it ages (`:90-93`).
- A run asks for tokens of a connection that was active when its tools were registered, whatever its status is by now (`:58`).
- A callback whose listing of tools fails leaves a valid token on a connection marked `reauth_required` (`:515-531`).

Web chat (`use-chat.ts` in `src/packages/web/src/app/(dashboard)/conversations/`)
- The poll compares lengths (`:752`): in a conversation of a page or more, a reply whose frame was lost does not
  appear, against "re-fetch messages to catch anything missed during disconnect" (`:300`).
- An error frame marks every optimistic message as failed, not the one it answers (comment at `:173`).
- Two messages handled side by side may both find no session and open two active ones (`engine/session-manager.service.ts:43-62`;
  the gateway does not wait for one message before it takes the next); a later message goes to either.  Both may pass the
  router's check, "still working on your previous message", before either has a run (`channels/message-router.service.ts:127-142`).
- A deletion whose answer is lost, or comes after the next message was sent, leaves the deleted conversation on screen
  (`use-chat.ts:620-636`): the message opens another, whose reply is appended to the old one.
- A retry while offline drops the text (`:602-603`).
- The poll and the frame of one reply both decrement the count of awaited replies; a poll that began before a frame may
  hide the reply it brought; frames of another session are appended to the open view.
- The frame that tells of a reset is dropped when the socket is down (`channels/web/web.adapter.ts:49`): the tab stays in
  the archived conversation, its next message opens another, and the reply to it is appended to the old one.
- A reply whose frame comes after a page that starts behind it (a reconnect or an opening while the conversation is
  longer than a page) is appended at the end, behind later messages: `:362` looks only for its id.

Wiki
- The cap is counted and written in a transaction at the default isolation level, against "serializable"
  (`db/wiki-page.repository.ts:62-63`, `engine/tools/wiki/wiki-write.tool.ts:164`): two requests may both find room.
- `updateByOwner` takes the scope it read before the transaction for the scope to write: an old read may make a page ambient again.
- `rebuildForPage` deletes and inserts in its own time: two overlapping rebuilds of one page leave the union or the
  older links, and one that fails leaves new content with old links.
- Sharing is a find and a create: two requests leave two active rows, of which unsharing revokes one.

## 7. Not modelled

Of modelled components:

- executor: a run that notices the user's stop and returns before the stop has written its row;
- delivery: payload parsing, the TTL of result lists, parents without a session;
- pool: two health checks at once;
- approvals of several users or tools (they share nothing);
- cron: creation of tasks (the row, then its first `nextRunAt`, in `tasks/tasks.service.ts:25-72` and `engine/tools/cron.ts`, with the
  per-user limit), parsing of schedules, web anchoring, the agent run that goes on after an exceeded deadline;
- runs: budgets, provider selection and the steps of the loop inside a run;
- MCP: API-key servers, an administrator's change of the server row (what it does to a refresh, a missing configuration, is a
  refusal), the contents of catalogs, bindings of agents to connections, tool calls;
- web chat: frames nobody in the tab asked for, which are the replies of sub-agent reinvocations
  (`engine/task-executor.service.ts:730-736`, `channels/channel-manager.service.ts:272-307`, with an id `reinvoke-...` that is no
  row's) and the results of scheduled tasks (`:215-250`), which the tab appends like any other; the rows reinvocations
  store, and their runs, which make the router refuse a message; older pages, streaming and typing frames, which of two tabs a
  frame goes to, commands that are passed on to the agent, and an exchange of the user's agent.  Rows that a consolidation
  archives shrink the page that the poll compares with what is shown; `SessionRuns` has consolidation, `ChatClient` has not;
- wiki: renamed slugs, the schema page (created AMBIENT without a look at the cap, `wiki/wiki.service.ts:395-411`), search, lint,
  visibility to others, and `maxWikiPages`, which only the dashboard asks.

Components listed as `not_modelled` in `PROJECT.json`: groups, channel adapters, reasoning loops, context building, the
Python pool, browser sessions, authentication, administration, workspace, skills, audit and the rest of the web client.
By lines they are most of the repository's 71 thousand: pages and forms that show one request's answer, handlers that
read and write one row behind an access check, adapters of external services, validation schemas, text.  They keep no
state that two actors race for, and a model of them would repeat their assignments.  What the models cover is the
code in which several actors share state.
