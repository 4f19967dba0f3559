---------------------------- MODULE SessionRuns -----------------------------
(***************************************************************************)
(* The primary runs of one user in one session, from the routing of the    *)
(* message to the final status of the run's row, with everything that      *)
(* works on the same rows meanwhile: the stop endpoint, the reaper of      *)
(* stale runs, /compact, and the consolidation of the session's messages   *)
(* (agent-runner, message-router, agent-run-registry, stale-run-reaper,    *)
(* session-manager, memory-consolidation, compact.command).                *)
(*                                                                         *)
(* Each query is a step of its own.  The count that gives a message its    *)
(* ordering is read before the transaction that inserts it; consolidation  *)
(* archives a chunk and inserts its summary in two writes; the stop        *)
(* endpoint aborts controllers first and writes rows afterwards.           *)
(*                                                                         *)
(* A message is [ord, of]: its ordering and what it says: the message      *)
(* itself, or for a summary every message it sums up.  A run stores one    *)
(* user message and one reply; the tokens that decide whether and how much *)
(* to consolidate are a nondeterministic choice.                           *)
(***************************************************************************)
EXTENDS Naturals, Sequences, FiniteSets, SequencesExt

CONSTANTS
  Runs,         \* user-initiated primary runs
  Compacts,     \* /compact commands, which have a run row too
  MaxPrimary,   \* policy.maxConcurrentPrimaryRuns
  MaxFailures,  \* MAX_CONSECUTIVE_FAILURES of a consolidation
  MaxRounds,    \* MAX_CONSOLIDATION_ROUNDS
  MaxFaults,    \* bound: stop requests, runs reaped while they go on, runs that
                \* throw, writes that fail, process crashes
  None

Agents == Runs \cup Compacts
Sayings == {"user", "assistant"} \X Runs
Messages == [ord : Nat, of : SUBSET Sayings, summary : BOOLEAN]
Consolidations == [by : Agents, at : {"round", "asked", "archived"}, round : Nat, fails : Nat,
                   chunk : SUBSET Messages]

ASSUME RunConstants ==
  /\ Runs \cap Compacts = {}
  /\ None \notin Consolidations /\ None \notin {"user_stop", "stale_timeout"}
  /\ {MaxPrimary, MaxFailures, MaxRounds} \subseteq Nat \ {0}
  /\ MaxFaults \in Nat

VARIABLES
  \* the database
  row,          \* agent -> "none" | "running" | "completed" | "failed" | "cancelled"
  msgs,         \* the session's messages that are not archived
  \* the process
  pc,           \* agent -> where its code is
  counted,      \* agent -> the count saveMessages read (and of how many rows)
  controllers,  \* runs with a registered AbortController
  aborted,      \* run -> the reason it was aborted for, or None
  cons,         \* the consolidation in progress (sessionLocks chains them), or None
  stopping,     \* the rows a stop request read and will write
  \* bookkeeping
  log,          \* every message in the order it was stored
  faults,
  staleCount,   \* a message was inserted with a count that was out of date
  shifted,      \* a consolidation left or found messages beside its summary
  shed,         \* messages were archived without a summary
  excused       \* runs whose stop came after their loop or before they were registered

database == <<row, msgs, log>>
process == <<pc, counted, controllers, aborted, cons, stopping>>
history == <<staleCount, shifted, shed, excused>>
vars == <<database, process, faults, history>>

Points == {"idle", "routed", "admitted", "created", "asking", "counted", "looping", "replying",
           "recounted", "consolidating", "merging", "completing", "finishing", "done", "gone"}
Final == {"completed", "failed", "cancelled"}
Running == {a \in Agents : row[a] = "running"}
Fault == faults < MaxFaults /\ faults' = faults + 1

UserMsg(r) == <<"user", r>>
Reply(r) == <<"assistant", r>>
Message(id, ord) == [ord |-> ord, of |-> {id}, summary |-> FALSE]
Summary(of) == [ord |-> 0, of |-> of, summary |-> TRUE]
NoCount == [n |-> 0, of |-> 0]
IsReply(m) == ~m.summary /\ \E r \in Runs : m.of = {Reply(r)}

\* Mutant of Settle: the status is not part of the condition.
Settle_Unguarded(a, status) == row' = [row EXCEPT ![a] = status]

\* updateMany where status is still running.
Settle(a, status) == row' = [row EXCEPT ![a] = IF @ = "running" THEN status ELSE @]
Goto(a, at) == pc' = [pc EXCEPT ![a] = at]

Init ==
  /\ row = [a \in Agents |-> "none"]
  /\ msgs = {} /\ log = <<>>
  /\ pc = [a \in Agents |-> "idle"]
  /\ counted = [a \in Agents |-> NoCount]
  /\ controllers = {} /\ aborted = [r \in Runs |-> None]
  /\ cons = None /\ stopping = {}
  /\ faults = 0
  /\ staleCount = FALSE /\ shifted = FALSE /\ shed = FALSE /\ excused = {}

-----------------------------------------------------------------------------
(* A run *)

\* The router refuses while any row of the user is running.
Route(r) ==
  /\ pc[r] = "idle"
  /\ Goto(r, IF Running = {} THEN "routed" ELSE "done")
  /\ UNCHANGED <<database, counted, controllers, aborted, cons, stopping, faults, history>>

\* Admission counts once more, against the policy.
Admit(r) ==
  /\ pc[r] = "routed"
  /\ Goto(r, IF Cardinality(Running) < MaxPrimary THEN "admitted" ELSE "done")
  /\ UNCHANGED <<database, counted, controllers, aborted, cons, stopping, faults, history>>

CreateRow(r) ==
  /\ pc[r] = "admitted"
  /\ row' = [row EXCEPT ![r] = "running"]
  /\ Goto(r, "created")
  /\ UNCHANGED <<msgs, log, counted, controllers, aborted, cons, stopping, faults, history>>

Register(r) ==
  /\ pc[r] = "created"
  /\ controllers' = controllers \cup {r}
  /\ Goto(r, "asking")
  /\ UNCHANGED <<database, counted, aborted, cons, stopping, faults, history>>

\* Mutant of Count: only the messages of the conversation count, as in /compact.
Count_NoSystem(r, at, next) ==
  /\ pc[r] = at
  /\ counted' = [counted EXCEPT ![r] = [n |-> Cardinality({m \in msgs : ~m.summary}), of |-> Cardinality(msgs)]]
  /\ Goto(r, next)
  /\ UNCHANGED <<database, controllers, aborted, cons, stopping, faults, history>>

\* saveMessages: the count first, then the insertion in a transaction.
Count(r, at, next) ==
  /\ pc[r] = at
  /\ counted' = [counted EXCEPT ![r] = [n |-> Cardinality(msgs), of |-> Cardinality(msgs)]]
  /\ Goto(r, next)
  /\ UNCHANGED <<database, controllers, aborted, cons, stopping, faults, history>>

Insert(r, id) ==
  /\ msgs' = msgs \cup {Message(id, counted[r].n)}
  /\ log' = Append(log, id)
  /\ staleCount' = (staleCount \/ counted[r].of # Cardinality(msgs))
  /\ counted' = [counted EXCEPT ![r] = NoCount]

SaveUserMessage(r) ==
  /\ pc[r] = "counted" /\ Insert(r, UserMsg(r))
  /\ Goto(r, "looping")
  /\ UNCHANGED <<row, controllers, aborted, cons, stopping, faults, shifted, shed, excused>>

\* Mutant of LoopEnds: every end of the loop goes on to the reply.
LoopEnds_NoCheck(r) ==
  /\ pc[r] = "looping"
  /\ Goto(r, "replying")
  /\ UNCHANGED <<database, counted, controllers, aborted, cons, stopping, faults, history>>

\* The reasoning loop ends, by itself or because it was aborted.  Only a stop by
\* the user makes the run return here; after any other abort it goes on.
LoopEnds(r) ==
  /\ pc[r] = "looping"
  /\ Goto(r, IF aborted[r] = "user_stop" THEN "finishing" ELSE "replying")
  /\ UNCHANGED <<database, counted, controllers, aborted, cons, stopping, faults, history>>

SaveReply(r) ==
  /\ pc[r] = "recounted" /\ Insert(r, Reply(r))
  /\ Goto(r, "consolidating")
  /\ UNCHANGED <<row, controllers, aborted, cons, stopping, faults, shifted, shed, excused>>

\* Its turn has come in the chain of the session (sessionLocks), and the session
\* is under the threshold.
SkipConsolidation(a) ==
  /\ pc[a] = "consolidating" /\ cons = None
  /\ Goto(a, "completing")
  /\ UNCHANGED <<database, counted, controllers, aborted, cons, stopping, faults, history>>

Complete(r) ==
  /\ pc[r] = "completing"
  /\ \E status \in {"completed", "failed"} : Settle(r, status)
  /\ Goto(r, "finishing")
  /\ UNCHANGED <<msgs, log, counted, controllers, aborted, cons, stopping, faults, history>>

\* Mutant of Throws: a run that throws leaves its row to the reaper.
Throws_NoSettle(r) ==
  /\ pc[r] \in {"asking", "counted", "looping", "replying", "recounted", "completing"} /\ Fault
  /\ Goto(r, "finishing")
  /\ counted' = [counted EXCEPT ![r] = NoCount]
  /\ UNCHANGED <<row, msgs, log, controllers, aborted, cons, stopping, history>>

\* An await throws: a stopped run leaves its row to the stop endpoint.
Throws(r) ==
  /\ pc[r] \in {"asking", "counted", "looping", "replying", "recounted", "completing"} /\ Fault
  /\ IF aborted[r] = "user_stop" THEN UNCHANGED row ELSE Settle(r, "failed")
  /\ Goto(r, "finishing")
  /\ counted' = [counted EXCEPT ![r] = NoCount]
  /\ UNCHANGED <<msgs, log, controllers, aborted, cons, stopping, history>>

Finish(r) ==
  /\ pc[r] = "finishing"
  /\ controllers' = controllers \ {r}
  /\ aborted' = [aborted EXCEPT ![r] = None]
  /\ Goto(r, "done")
  /\ UNCHANGED <<database, counted, cons, stopping, faults, history>>

Run(r) ==
  \/ Route(r) \/ Admit(r) \/ CreateRow(r) \/ Register(r)
  \/ Count(r, "asking", "counted") \/ SaveUserMessage(r)
  \/ LoopEnds(r)
  \/ Count(r, "replying", "recounted") \/ SaveReply(r)
  \/ SkipConsolidation(r) \/ Complete(r) \/ Finish(r)

-----------------------------------------------------------------------------
(* /compact: a run row without a controller, settled by unguarded updates *)

StartCompact(c) ==
  /\ pc[c] = "idle" /\ Cardinality(msgs) >= 2
  /\ row' = [row EXCEPT ![c] = "running"]
  /\ Goto(c, "consolidating")
  /\ UNCHANGED <<msgs, log, counted, controllers, aborted, cons, stopping, faults, history>>

CompactEnds(c) ==
  /\ pc[c] = "completing"
  /\ \E status \in {"completed", "failed"} : row' = [row EXCEPT ![c] = status]
  /\ Goto(c, "done")
  /\ UNCHANGED <<msgs, log, counted, controllers, aborted, cons, stopping, faults, history>>

-----------------------------------------------------------------------------
(* Consolidation: one at a time per session *)

\* The row with ordering 0 that is a summary, if there is one.
SummaryRow == {m \in msgs : m.summary /\ m.ord = 0}
Eligible == IF SummaryRow = {} THEN msgs ELSE {m \in msgs \ SummaryRow : m.ord > 0}

\* A chunk is a prefix of the eligible rows that ends with a reply, or all.
Chunks ==
  {S \in SUBSET Eligible :
     /\ S # {}
     /\ \A x \in S, y \in Eligible \ S : x.ord <= y.ord
     /\ S = Eligible \/ \E x \in S : IsReply(x) /\ \A y \in S : y.ord <= x.ord}

Says(S) == UNION {m.of : m \in S}

StartConsolidation(a) ==
  /\ pc[a] = "consolidating" /\ cons = None
  /\ Goto(a, "merging")
  /\ cons' = [by |-> a, at |-> "round", round |-> 1, fails |-> 0, chunk |-> {}]
  /\ UNCHANGED <<database, counted, controllers, aborted, stopping, faults, history>>

Leave == cons' = None /\ pc' = [pc EXCEPT ![cons.by] = "completing"]

\* The next round, or the end of the loop after the last one.
NextRound(fails) ==
  IF cons.round < MaxRounds
  THEN cons' = [cons EXCEPT !.at = "round", !.round = @ + 1, !.fails = fails, !.chunk = {}] /\ UNCHANGED pc
  ELSE Leave

\* A round reads the rows, picks the chunk and asks the model.
PickChunk ==
  /\ cons # None /\ cons.at = "round"
  /\ IF Eligible = {}
     THEN Leave
     ELSE \E S \in Chunks :
            cons' = [cons EXCEPT !.at = "asked", !.chunk = S \cup SummaryRow] /\ UNCHANGED pc
  /\ UNCHANGED <<database, counted, controllers, aborted, stopping, faults, history>>

\* No provider: the loop is left, nothing is archived.
NoProvider ==
  /\ cons # None /\ cons.at = "asked" /\ Leave
  /\ UNCHANGED <<database, counted, controllers, aborted, stopping, faults, history>>

\* The model fails or answers with nothing usable; after MaxFailures times in a
\* row the chunk (not the old summary) is archived without a summary.
ModelFails ==
  /\ cons # None /\ cons.at = "asked"
  /\ IF cons.fails + 1 < MaxFailures
     THEN NextRound(cons.fails + 1) /\ UNCHANGED <<msgs, shed, shifted>>
     ELSE LET rest == msgs \ {m \in cons.chunk : ~m.summary} IN
          /\ msgs' = rest /\ shed' = TRUE
          /\ shifted' = (shifted \/ rest # {})
          /\ Leave
  /\ UNCHANGED <<row, log, counted, controllers, aborted, stopping, faults, staleCount, excused>>

\* Mutant of Archive: the archived rows are those of the session by then.
Archive_Session ==
  /\ cons # None /\ cons.at = "asked"
  /\ msgs' = {}
  /\ shifted' = (shifted \/ msgs' # {})
  /\ cons' = [cons EXCEPT !.at = "archived"]
  /\ UNCHANGED <<row, log, pc, counted, controllers, aborted, stopping, faults, staleCount, shed,
                 excused>>

Archive ==
  /\ cons # None /\ cons.at = "asked"
  /\ msgs' = msgs \ cons.chunk
  /\ shifted' = (shifted \/ msgs' # {})
  /\ cons' = [cons EXCEPT !.at = "archived"]
  /\ UNCHANGED <<row, log, pc, counted, controllers, aborted, stopping, faults, staleCount, shed,
                 excused>>

\* The summary of the chunk and of the old summary gets ordering 0; the rows
\* left behind keep the orderings they had.
WriteSummary ==
  /\ cons # None /\ cons.at = "archived"
  /\ msgs' = msgs \cup {Summary(Says(cons.chunk))}
  /\ shifted' = (shifted \/ msgs # {})
  /\ NextRound(0) \/ Leave
  /\ UNCHANGED <<row, log, counted, controllers, aborted, stopping, faults, staleCount, shed,
                 excused>>

\* The insertion throws; so do the run and the command that asked for it.
SummaryFails ==
  /\ cons # None /\ cons.at = "archived" /\ Fault
  /\ shed' = TRUE
  /\ cons' = None
  /\ IF cons.by \in Runs
     THEN /\ Goto(cons.by, "finishing")
          /\ IF aborted[cons.by] = "user_stop" THEN UNCHANGED row ELSE Settle(cons.by, "failed")
     ELSE Goto(cons.by, "done") /\ row' = [row EXCEPT ![cons.by] = "failed"]
  /\ UNCHANGED <<msgs, log, counted, controllers, aborted, stopping, staleCount, shifted, excused>>

Consolidate == PickChunk \/ Archive \/ WriteSummary

-----------------------------------------------------------------------------
(* The stop endpoint, the reaper, a crash *)

InLoop(r) == pc[r] \in {"asking", "counted", "looping"}

\* abortAllForUser: read the running rows and abort their controllers (the first
\* reason wins), then write the rows that are still running.
StopReads ==
  /\ stopping = {} /\ Running # {} /\ Fault
  /\ stopping' = Running
  /\ aborted' = [r \in Runs |-> IF r \in Running \cap controllers /\ aborted[r] = None
                                THEN "user_stop" ELSE aborted[r]]
  /\ excused' = excused \cup {r \in Running \cap Runs : ~InLoop(r) \/ aborted[r] # None}
  /\ UNCHANGED <<database, pc, counted, controllers, cons, staleCount, shifted, shed>>

StopWrites ==
  /\ stopping # {}
  /\ row' = [a \in Agents |-> IF a \in stopping /\ row[a] = "running" THEN "cancelled" ELSE row[a]]
  /\ stopping' = {}
  /\ UNCHANGED <<msgs, log, pc, counted, controllers, aborted, cons, faults, history>>

\* A run older than the threshold: abort it if it is in this process, fail its row.
Reap(a) ==
  /\ row[a] = "running"
  /\ IF pc[a] \in {"done", "gone"} THEN UNCHANGED faults ELSE Fault
  /\ aborted' = [r \in Runs |-> IF r = a /\ r \in controllers /\ aborted[r] = None
                                THEN "stale_timeout" ELSE aborted[r]]
  /\ Settle(a, "failed")
  /\ UNCHANGED <<msgs, log, pc, counted, controllers, cons, stopping, history>>

Crash ==
  /\ Fault
  /\ \E a \in Agents : pc[a] \notin {"idle", "done"}
  /\ pc' = [a \in Agents |-> IF pc[a] \in {"idle", "done"} /\ row[a] # "running" THEN pc[a] ELSE "gone"]
  /\ controllers' = {} /\ cons' = None /\ stopping' = {}
  /\ counted' = [a \in Agents |-> NoCount] /\ aborted' = [r \in Runs |-> None]
  /\ shed' = (shed \/ (cons # None /\ cons.at = "archived"))
  /\ UNCHANGED <<database, staleCount, shifted, excused>>

-----------------------------------------------------------------------------
Next ==
  \/ \E r \in Runs : Run(r) \/ Throws(r)
  \/ \E c \in Compacts : StartCompact(c) \/ SkipConsolidation(c) \/ CompactEnds(c)
  \/ \E a \in Agents : StartConsolidation(a) \/ Reap(a)
  \/ Consolidate \/ NoProvider \/ ModelFails \/ SummaryFails
  \/ StopReads \/ StopWrites \/ Crash

Spec == Init /\ [][Next]_vars

-----------------------------------------------------------------------------
(* Properties *)

\* Type correctness.
TypeOK ==
  /\ row \in [Agents -> {"none", "running"} \cup Final]
  /\ msgs \subseteq Messages /\ IsFiniteSet(msgs)
  /\ log \in Seq(Sayings)
  /\ pc \in [Agents -> Points]
  /\ counted \in [Agents -> [n : Nat, of : Nat]]
  /\ controllers \subseteq Runs
  /\ aborted \in [Runs -> {None, "user_stop", "stale_timeout"}]
  /\ cons = None \/ cons \in Consolidations
  /\ stopping \subseteq Agents
  /\ faults \in Nat
  /\ {staleCount, shifted, shed} \subseteq BOOLEAN /\ excused \subseteq Runs

\* Every message of the conversation is still in what the next run loads, as
\* itself or in the summary: consolidations of several runs and of /compact,
\* and messages that arrive while the model sums up, lose nothing, except by
\* the raw fallback or a failure between the two writes.
NothingLost ==
  ToSet(log) \subseteq Says(msgs) \/ shed \/ (cons # None /\ cons.at = "archived")

\* The loaded history has the messages in the order they were stored, with the
\* summary first, as long as no message was inserted with an outdated count and
\* no consolidation left rows behind.
Position(id) == CHOOSE i \in 1..Len(log) : log[i] = id
Born(m) == CHOOSE i \in {Position(id) : id \in m.of} : \A id \in m.of : i <= Position(id)
TranscriptInOrder ==
  \/ shifted \/ staleCount
  \/ \A x, y \in msgs : Born(x) < Born(y) => x.ord < y.ord

\* A run the user stopped adds no reply to the conversation, unless the stop
\* came when its loop was over, or before its controller was registered.
StoppedIsSilent ==
  \A r \in Runs : row[r] = "cancelled" /\ Reply(r) \in ToSet(log) => r \in excused

\* The outcome of a run is written once, whoever of the run, the stop endpoint
\* and the reaper comes first.  (A /compact row is settled without the guard.)
OutcomeIsFinal == [][\A r \in Runs : row[r] \in Final => row'[r] = row[r]]_vars

\* No row stays running without code that will settle it, which would refuse
\* every later message of the user until the reaper comes: the code is the run or
\* the command, or the stop request for which a run leaves its row alone.  Only a
\* crash leaves such a row behind.
RowsAreOwned ==
  \A a \in Agents : row[a] = "running" /\ pc[a] = "done" => a \in stopping
=============================================================================
