------------------------- MODULE ConversationProofs -------------------------
(***************************************************************************)
(* The two ends of a conversation.                                         *)
(*                                                                         *)
(* First the runs of a session, for any number of runs, commands and       *)
(* faults: no message is lost, an outcome is written once, a stopped run   *)
(* is silent, a running row has an owner and the transcript is in the      *)
(* order of what was said.                                                 *)
(*                                                                         *)
(* Then the browser tab that shows it (ChatClient), for any number of      *)
(* sessions, sends, fetches and faults and any page limit: a message goes  *)
(* to the conversation on screen, and what is on screen is in its order.   *)
(***************************************************************************)
EXTENDS SessionRuns, ChatClient, FiniteSetTheorems, SequenceTheorems, WellFoundedInduction, TLAPS

-----------------------------------------------------------------------------
(* Type correctness *)

LEMMA TypeInit == Init => TypeOK
  <1> SUFFICES ASSUME Init PROVE TypeOK
    OBVIOUS
  <1>1. IsFiniteSet({}) /\ <<>> \in Seq(Sayings)
    BY FS_EmptySet
  <1> QED BY <1>1 DEF Init, TypeOK, Points, NoCount

\* What saveMessages inserts
LEMMA InsertType ==
    ASSUME TypeOK, NEW r \in Runs, NEW id \in Sayings, Insert(r, id)
    PROVE  /\ msgs' \subseteq Messages /\ IsFiniteSet(msgs')
           /\ log' \in Seq(Sayings)
           /\ counted' \in [Agents -> [n : Nat, of : Nat]]
           /\ staleCount' \in BOOLEAN
  <1>1. counted[r] \in [n : Nat, of : Nat] /\ r \in Agents
    BY DEF TypeOK, Agents
  <1>2. Message(id, counted[r].n) \in Messages
    BY <1>1 DEF Message, Messages
  <1>3. IsFiniteSet(msgs \cup {Message(id, counted[r].n)})
    BY FS_AddElement DEF TypeOK
  <1>4. log' \in Seq(Sayings)
    BY AppendProperties DEF TypeOK, Insert
  <1> QED BY <1>1, <1>2, <1>3, <1>4 DEF TypeOK, Insert, NoCount

LEMMA SettleType ==
    ASSUME TypeOK, NEW a \in Agents, NEW status \in Final, Settle(a, status)
    PROVE  row' \in [Agents -> {"none", "running"} \cup Final]
  BY DEF TypeOK, Settle

\* A run's steps
LEMMA RunType ==
    ASSUME TypeOK, NEW r \in Runs, Run(r) \/ Throws(r)
    PROVE  TypeOK'
  <1>1. r \in Agents /\ UserMsg(r) \in Sayings /\ Reply(r) \in Sayings
    BY DEF Agents, Sayings, UserMsg, Reply
  <1>2. CASE Route(r) \/ Admit(r) \/ CreateRow(r) \/ Register(r) \/ LoopEnds(r) \/ SkipConsolidation(r)
             \/ Finish(r)
    BY <1>1, <1>2 DEF TypeOK, Route, Admit, CreateRow, Register, LoopEnds, SkipConsolidation, Finish,
                      Goto, Points, database, history
  <1>3. ASSUME NEW at, NEW next \in Points, Count(r, at, next) PROVE TypeOK'
    <2>1. Cardinality(msgs) \in Nat
      BY FS_CardinalityType DEF TypeOK
    <2> QED BY <1>1, <1>3, <2>1 DEF TypeOK, Count, Goto, database, history
  <1>4. CASE SaveUserMessage(r)
    BY <1>1, <1>4, InsertType DEF TypeOK, SaveUserMessage, Goto, Points
  <1>5. CASE SaveReply(r)
    BY <1>1, <1>5, InsertType DEF TypeOK, SaveReply, Goto, Points
  <1>6. CASE Complete(r)
    BY <1>1, <1>6, SettleType DEF TypeOK, Complete, Goto, Points, Final, history
  <1>7. CASE Throws(r)
    BY <1>1, <1>7, SettleType DEF TypeOK, Throws, Fault, NoCount, Goto, Points, Final, history
  <1>8. "counted" \in Points /\ "recounted" \in Points
    BY DEF Points
  <1> QED BY <1>2, <1>3, <1>4, <1>5, <1>6, <1>7, <1>8 DEF Run

\* A consolidation's steps
LEMMA ConsolidationType ==
    ASSUME TypeOK, Consolidate \/ NoProvider \/ ModelFails \/ SummaryFails
    PROVE  TypeOK'
  <1>1. cons \in Consolidations /\ cons # None
    BY DEF TypeOK, Consolidate, PickChunk, Archive, WriteSummary, NoProvider, ModelFails, SummaryFails
  <1>2. cons.by \in Agents /\ cons.chunk \subseteq Messages
    BY <1>1 DEF Consolidations
  <1>3. ASSUME Leave PROVE cons' = None /\ pc' \in [Agents -> Points]
    BY <1>2, <1>3 DEF Leave, TypeOK, Points
  <1>4. ASSUME NEW n \in Nat, NextRound(n)
        PROVE  (cons' = None \/ cons' \in Consolidations) /\ pc' \in [Agents -> Points]
    <2>1. CASE Leave
      BY <1>3, <2>1
    <2>2. CASE ~Leave
      <3>1. /\ cons' = [cons EXCEPT !.at = "round", !.round = @ + 1, !.fails = n, !.chunk = {}]
            /\ pc' = pc
        BY <1>4, <2>2 DEF NextRound
      <3>2. cons' = [by |-> cons.by, at |-> "round", round |-> cons.round + 1, fails |-> n, chunk |-> {}]
        BY <1>1, <3>1 DEF Consolidations
      <3>3. cons.round + 1 \in Nat
        BY <1>1 DEF Consolidations
      <3>4. cons' \in Consolidations
        BY <1>2, <1>4, <3>2, <3>3 DEF Consolidations
      <3> QED BY <3>1, <3>4 DEF TypeOK
    <2> QED BY <2>1, <2>2
  <1>5. CASE PickChunk
    <2>1. ASSUME NEW S \in Chunks PROVE S \cup SummaryRow \subseteq Messages
      BY <2>1 DEF Chunks, Eligible, SummaryRow, TypeOK
    <2>2. CASE Eligible = {}
      BY <1>3, <1>5, <2>2 DEF PickChunk, TypeOK, database, history
    <2>3. CASE Eligible # {}
      <3>1. PICK S \in Chunks : cons' = [cons EXCEPT !.at = "asked", !.chunk = S \cup SummaryRow]
        BY <1>5, <2>3 DEF PickChunk
      <3>2. pc' = pc
        BY <1>5, <2>3 DEF PickChunk
      <3>3. cons' \in Consolidations
        BY <1>1, <2>1, <3>1 DEF Consolidations
      <3> QED BY <1>5, <3>2, <3>3 DEF PickChunk, TypeOK, database, history
    <2> QED BY <2>2, <2>3
  <1>6. CASE NoProvider
    BY <1>3, <1>6 DEF NoProvider, TypeOK, database, history
  <1>7. CASE ModelFails
    <2>1. cons.fails + 1 \in Nat
      BY <1>1 DEF Consolidations
    <2>2. (cons' = None \/ cons' \in Consolidations) /\ pc' \in [Agents -> Points]
      BY <1>3, <1>4, <1>7, <2>1 DEF ModelFails
    <2>3. msgs' \subseteq msgs
      BY <1>7 DEF ModelFails
    <2>4. msgs' \subseteq Messages /\ IsFiniteSet(msgs')
      BY <2>3, FS_Subset DEF TypeOK
    <2>5. {shifted', shed'} \subseteq BOOLEAN
      BY <1>7 DEF ModelFails, TypeOK
    <2> QED BY <1>7, <2>2, <2>4, <2>5 DEF ModelFails, TypeOK
  <1>8. CASE Archive
    <2>1. msgs' \subseteq Messages /\ IsFiniteSet(msgs')
      BY <1>8, FS_Subset DEF Archive, TypeOK
    <2> QED BY <1>1, <1>8, <2>1 DEF Archive, TypeOK, Consolidations
  <1>9. CASE WriteSummary
    <2>1. Summary(Says(cons.chunk)) \in Messages
      BY <1>2 DEF Summary, Says, Messages
    <2>2. msgs' \subseteq Messages /\ IsFiniteSet(msgs')
      BY <1>9, <2>1, FS_AddElement DEF WriteSummary, TypeOK
    <2>3. (cons' = None \/ cons' \in Consolidations) /\ pc' \in [Agents -> Points]
      BY <1>3, <1>4, <1>9 DEF WriteSummary
    <2> QED BY <1>9, <2>2, <2>3 DEF WriteSummary, TypeOK
  <1>10. CASE SummaryFails
    <2>1. row' \in [Agents -> {"none", "running"} \cup Final]
      BY <1>2, <1>10, SettleType DEF SummaryFails, TypeOK, Final
    <2>2. pc' \in [Agents -> Points]
      BY <1>2, <1>10 DEF SummaryFails, TypeOK, Goto, Points
    <2>3. faults' \in Nat /\ shed' \in BOOLEAN
      BY <1>10 DEF SummaryFails, Fault, TypeOK
    <2> QED BY <1>10, <2>1, <2>2, <2>3 DEF SummaryFails, TypeOK
  <1> QED BY <1>5, <1>6, <1>7, <1>8, <1>9, <1>10 DEF Consolidate

\* The steps of the others
LEMMA OtherType ==
    ASSUME TypeOK,
           \/ \E c \in Compacts : StartCompact(c) \/ SkipConsolidation(c) \/ CompactEnds(c)
           \/ \E a \in Agents : StartConsolidation(a) \/ Reap(a)
           \/ StopReads \/ StopWrites \/ Crash \/ UNCHANGED vars
    PROVE  TypeOK'
  <1>1. ASSUME NEW c \in Compacts, StartCompact(c) \/ SkipConsolidation(c) \/ CompactEnds(c)
        PROVE  TypeOK'
    <2>1. c \in Agents
      BY DEF Agents
    <2> QED BY <1>1, <2>1 DEF StartCompact, SkipConsolidation, CompactEnds, TypeOK, Goto, Points, Final,
                              database, history
  <1>2. ASSUME NEW a \in Agents, StartConsolidation(a) PROVE TypeOK'
    BY <1>2 DEF StartConsolidation, TypeOK, Goto, Points, Consolidations, database, history
  <1>3. ASSUME NEW a \in Agents, Reap(a) PROVE TypeOK'
    <2>1. row' \in [Agents -> {"none", "running"} \cup Final]
      BY <1>3, SettleType DEF Reap, Final
    <2> QED BY <1>3, <2>1 DEF Reap, Fault, TypeOK, history
  <1>4. CASE StopReads
    <2>1. stopping' \subseteq Agents /\ excused' \subseteq Runs
      BY <1>4 DEF StopReads, Running, TypeOK
    <2> QED BY <1>4, <2>1 DEF StopReads, Fault, TypeOK, database
  <1>5. CASE StopWrites
    BY <1>5 DEF StopWrites, TypeOK, Final, history
  <1>6. CASE Crash
    BY <1>6 DEF Crash, Fault, TypeOK, NoCount, Points, database
  <1>7. CASE UNCHANGED vars
    BY <1>7 DEF vars, database, process, history, TypeOK
  <1> QED BY <1>1, <1>2, <1>3, <1>4, <1>5, <1>6, <1>7

LEMMA TypeNext == TypeOK /\ [Next]_vars => TypeOK'
  BY RunType, ConsolidationType, OtherType DEF Next

-----------------------------------------------------------------------------
(* Who is where: the control state of a run and of its row *)

Early == {"idle", "routed", "admitted"}
Live == {"asking", "counted", "looping", "replying", "recounted", "consolidating", "merging",
         "completing", "finishing"}

\* A run that has no row yet; the registry; what an abort by the user goes with
RunControl(r) ==
  /\ pc[r] \in Early => row[r] = "none"
  /\ r \in controllers <=> pc[r] \in Live
  /\ aborted[r] # None => r \in controllers
  /\ aborted[r] = "user_stop" /\ row[r] = "running" => r \in stopping

\* Code that is over has settled its row, or a stop request will
AgentControl(a) == pc[a] \in {"finishing", "done"} /\ row[a] = "running" => a \in stopping

\* A command has fewer points
CompactControl(c) == pc[c] \in {"idle", "consolidating", "merging", "completing", "done", "gone"}

Owner == cons # None => cons.by \in Agents /\ pc[cons.by] = "merging"

Control ==
  /\ Owner
  /\ \A r \in Runs : RunControl(r) /\ AgentControl(r)
  /\ \A c \in Compacts : /\ CompactControl(c) /\ AgentControl(c)
                         /\ pc[c] = "idle" => row[c] = "none"

LEMMA ControlInit == Init => Control
  BY DEF Init, Control, Owner, RunControl, AgentControl, CompactControl, Early, Live, Agents

LEMMA ControlRun ==
    ASSUME TypeOK, Control, NEW r \in Runs, Run(r) \/ Throws(r)
    PROVE  Control'
  <1> USE DEF Control, Owner, RunControl, AgentControl, CompactControl, Early, Live, TypeOK, Agents, Goto
  <1>0. r \notin Compacts
    BY RunConstants
  <1>1. CASE Route(r) \/ Admit(r)
    <2>1. PICK at \in {"routed", "admitted", "done"} : pc' = [pc EXCEPT ![r] = at]
      BY <1>1 DEF Route, Admit
    <2>2. row[r] = "none" /\ r \notin controllers /\ pc[r] \in {"idle", "routed"}
      BY <1>1 DEF Route, Admit
    <2>3. UNCHANGED <<row, controllers, aborted, cons, stopping>>
      BY <1>1 DEF Route, Admit, database
    <2> QED BY <1>0, <2>1, <2>2, <2>3
  <1>2. CASE CreateRow(r)
    BY <1>0, <1>2, RunConstants DEF CreateRow
  <1>3. CASE Register(r)
    BY <1>0, <1>3 DEF Register, database
  <1>4. CASE Count(r, "asking", "counted") \/ Count(r, "replying", "recounted")
    BY <1>0, <1>4 DEF Count, database
  <1>5. CASE SaveUserMessage(r) \/ SaveReply(r)
    BY <1>0, <1>5 DEF SaveUserMessage, SaveReply
  <1>6. CASE LoopEnds(r)
    BY <1>0, <1>6 DEF LoopEnds, database
  <1>7. CASE SkipConsolidation(r)
    BY <1>0, <1>7 DEF SkipConsolidation, database
  <1>8. CASE Complete(r)
    BY <1>0, <1>8 DEF Complete, Settle
  <1>9. CASE Finish(r)
    BY <1>0, <1>9 DEF Finish, database
  <1>10. CASE Throws(r)
    BY <1>0, <1>10 DEF Throws, Settle
  <1> QED BY <1>1, <1>2, <1>3, <1>4, <1>5, <1>6, <1>7, <1>8, <1>9, <1>10 DEF Run

LEMMA ControlConsolidation ==
    ASSUME TypeOK, Control, Consolidate \/ NoProvider \/ ModelFails \/ SummaryFails
    PROVE  Control'
  <1> USE DEF Control, Owner, RunControl, AgentControl, CompactControl, Early, Live, TypeOK, Agents
  <1>1. /\ cons # None /\ cons \in Consolidations
        /\ cons.by \in Agents /\ pc[cons.by] = "merging"
    BY DEF Consolidate, PickChunk, Archive, WriteSummary, NoProvider, ModelFails, SummaryFails
  \* Either it goes on for the same agent, or that agent goes on
  <1>2. ASSUME Leave \/ (cons'.by = cons.by /\ pc' = pc),
               UNCHANGED <<row, controllers, aborted, stopping>>
        PROVE  Control'
    <2>1. CASE Leave
      BY <1>1, <1>2, <2>1 DEF Leave
    <2>2. CASE cons'.by = cons.by /\ pc' = pc
      BY <1>1, <1>2, <2>2
    <2> QED BY <1>2, <2>1, <2>2
  <1>3. ASSUME NEW n, NextRound(n) PROVE Leave \/ (cons'.by = cons.by /\ pc' = pc)
    BY <1>1, <1>3, ZenonT(30) DEF NextRound, Consolidations
  <1>4. CASE PickChunk \/ NoProvider
    <2>1. UNCHANGED <<row, controllers, aborted, stopping>>
      BY <1>4, Zenon DEF PickChunk, NoProvider, database
    <2>2. CASE Leave
      BY <1>2, <2>1, <2>2
    <2>3. CASE \E c : cons' = [cons EXCEPT !.at = "asked", !.chunk = c] /\ UNCHANGED pc
      <3>1. cons'.by = cons.by /\ pc' = pc
        BY <1>1, <2>3 DEF Consolidations
      <3> QED BY <1>2, <2>1, <3>1
    <2> QED
      BY <1>4, <2>2, <2>3, Zenon DEF PickChunk, NoProvider
  <1>5. CASE ModelFails
    BY <1>2, <1>3, <1>5 DEF ModelFails
  <1>6. CASE Archive
    BY <1>1, <1>2, <1>6 DEF Archive, Consolidations
  <1>7. CASE WriteSummary
    BY <1>2, <1>3, <1>7 DEF WriteSummary
  <1>8. CASE SummaryFails
    <2>1. CASE cons.by \in Runs
      <3>1. /\ pc' = [pc EXCEPT ![cons.by] = "finishing"] /\ cons' = None
            /\ UNCHANGED <<controllers, aborted, stopping>>
        BY <1>8, <2>1 DEF SummaryFails, Goto
      <3>2. /\ aborted[cons.by] # "user_stop" => row'[cons.by] # "running"
            /\ \A a \in Agents : row'[a] = row[a] \/ (a = cons.by /\ row'[a] = "failed")
        BY <1>1, <1>8, <2>1 DEF SummaryFails, Settle
      <3>3. cons.by \notin Compacts
        BY <2>1, RunConstants
      <3> QED BY <1>1, <2>1, <3>1, <3>2, <3>3
    <2>2. CASE cons.by \notin Runs
      BY <1>1, <1>8, <2>2, RunConstants, SMTT(30) DEF SummaryFails, Goto
    <2> QED BY <2>1, <2>2
  <1> QED BY <1>4, <1>5, <1>6, <1>7, <1>8 DEF Consolidate

\* The steps of the others
Others ==
  \/ \E c \in Compacts : StartCompact(c) \/ SkipConsolidation(c) \/ CompactEnds(c)
  \/ \E a \in Agents : StartConsolidation(a) \/ Reap(a)
  \/ StopReads \/ StopWrites \/ Crash \/ UNCHANGED vars

LEMMA ControlOthers ==
    ASSUME TypeOK, Control, Others
    PROVE  Control'
  <1> USE DEF Control, Owner, RunControl, AgentControl, CompactControl, Early, Live, TypeOK, Agents
  <1>1. ASSUME NEW c \in Compacts, StartCompact(c) \/ SkipConsolidation(c) \/ CompactEnds(c)
        PROVE  Control'
    <2>0. c \notin Runs /\ c \in Agents
      BY RunConstants
    <2>1. CASE StartCompact(c)
      BY <2>0, <2>1 DEF StartCompact, Goto
    <2>2. CASE SkipConsolidation(c)
      BY <2>0, <2>2 DEF SkipConsolidation, Goto, database
    <2>3. CASE CompactEnds(c)
      BY <2>0, <2>3 DEF CompactEnds, Goto
    <2> QED BY <1>1, <2>1, <2>2, <2>3
  <1>2. ASSUME NEW a \in Agents, StartConsolidation(a) PROVE Control'
    BY <1>2, RunConstants DEF StartConsolidation, Goto, database
  <1>3. ASSUME NEW a \in Agents, Reap(a) PROVE Control'
    BY <1>3, RunConstants DEF Reap, Settle
  <1>4. CASE StopReads
    BY <1>4 DEF StopReads, Running, database
  <1>5. CASE StopWrites
    BY <1>5 DEF StopWrites
  <1>6. CASE Crash
    <2>1. \A a \in Agents : pc'[a] = "gone" \/ (pc'[a] = pc[a] /\ pc[a] \in {"idle", "done"} /\ row[a] # "running")
      BY <1>6 DEF Crash
    <2>2. /\ controllers' = {} /\ cons' = None /\ stopping' = {} /\ row' = row
          /\ \A r \in Runs : aborted'[r] = None
      BY <1>6 DEF Crash, database
    <2> QED BY <2>1, <2>2, RunConstants
  <1>7. CASE UNCHANGED vars
    BY <1>7 DEF vars, database, process
  <1> QED BY <1>1, <1>2, <1>3, <1>4, <1>5, <1>6, <1>7 DEF Others

LEMMA ControlNext == TypeOK /\ Control /\ [Next]_vars => Control'
  BY ControlRun, ControlConsolidation, ControlOthers DEF Next, Others

LEMMA ControlHolds == Spec => [](TypeOK /\ Control)
  BY TypeInit, TypeNext, ControlInit, ControlNext, PTL DEF Spec

\* While a row is running, somebody will settle it: the run or the command itself,
\* or the stop request on whose account a run left its row alone.
THEOREM RowsHaveOwners == Spec => []RowsAreOwned
  <1>1. Control => RowsAreOwned
    BY DEF Control, AgentControl, RowsAreOwned, Agents
  <1> QED BY <1>1, ControlHolds, PTL

-----------------------------------------------------------------------------
(* Outcomes *)

LEMMA OutcomeKept ==
    ASSUME TypeOK, Control, [Next]_vars, NEW r \in Runs, row[r] \in Final
    PROVE  row'[r] = row[r]
  <1> USE DEF TypeOK, Agents, Final
  <1>1. r \in Agents /\ r \notin Compacts /\ pc[r] \notin Early
    BY RunConstants DEF Control, RunControl
  <1>2. ASSUME NEW a \in Agents, NEW status, Settle(a, status) PROVE row'[r] = row[r]
    BY <1>2 DEF Settle
  <1>3. ASSUME NEW q \in Runs, Run(q) \/ Throws(q) PROVE row'[r] = row[r]
    <2>1. CASE CreateRow(q)
      BY <1>1, <2>1 DEF CreateRow, Early
    <2>2. CASE ~CreateRow(q)
      BY <1>2, <1>3, <2>2 DEF Run, Route, Admit, Register, Count, SaveUserMessage, LoopEnds, SaveReply,
                              SkipConsolidation, Complete, Finish, Throws, database
    <2> QED BY <2>1, <2>2
  <1>4. ASSUME NEW c \in Compacts, StartCompact(c) \/ SkipConsolidation(c) \/ CompactEnds(c)
        PROVE  row'[r] = row[r]
    BY <1>1, <1>4 DEF StartCompact, SkipConsolidation, CompactEnds, database
  <1>5. ASSUME NEW a \in Agents, StartConsolidation(a) \/ Reap(a) PROVE row'[r] = row[r]
    BY <1>2, <1>5 DEF StartConsolidation, Reap, database
  <1>6. CASE SummaryFails
    <2>1. cons.by \in Agents
      BY <1>6 DEF SummaryFails, Control, Owner
    <2>2. CASE cons.by \in Runs
      BY <1>2, <1>6, <2>1, <2>2 DEF SummaryFails
    <2>3. CASE cons.by \notin Runs
      BY <1>1, <1>6, <2>1, <2>3 DEF SummaryFails
    <2> QED BY <2>2, <2>3
  <1>7. CASE Consolidate \/ NoProvider \/ ModelFails \/ StopReads \/ Crash \/ UNCHANGED vars
    BY <1>7 DEF Consolidate, PickChunk, Archive, WriteSummary, NoProvider, ModelFails, StopReads, Crash,
                database, vars
  <1>8. CASE StopWrites
    BY <1>1, <1>8 DEF StopWrites
  <1> QED BY <1>3, <1>4, <1>5, <1>6, <1>7, <1>8 DEF Next

\* The run, the stop endpoint and the reaper write one outcome between them.
THEOREM OutcomesAreFinal == Spec => OutcomeIsFinal
  <1>1. TypeOK /\ Control /\ [Next]_vars => [\A r \in Runs : row[r] \in Final => row'[r] = row[r]]_vars
    BY OutcomeKept
  <1> QED BY <1>1, ControlHolds, PTL DEF Spec, OutcomeIsFinal

-----------------------------------------------------------------------------
(* Messages *)

\* Between the two writes of a consolidation its chunk is in memory only
Kept == Says(msgs) \cup (IF cons # None /\ cons.at = "archived" THEN Says(cons.chunk) ELSE {})

Lossless == shed \/ ToSet(log) \subseteq Kept

LEMMA LogGrows ==
    ASSUME TypeOK, NEW r \in Runs, NEW id \in Sayings, Insert(r, id)
    PROVE  ToSet(log') = ToSet(log) \cup {id}
  <1>1. log \in Seq(Sayings) /\ log' = Append(log, id)
    BY DEF TypeOK, Insert
  <1> QED BY <1>1, AppendProperties DEF ToSet

LEMMA LosslessInsert ==
    ASSUME TypeOK, Lossless, NEW r \in Runs, NEW id \in Sayings, Insert(r, id), UNCHANGED <<cons, shed>>
    PROVE  Lossless'
  <1>1. id \in Says(msgs') /\ Says(msgs) \subseteq Says(msgs')
    BY ZenonT(30) DEF Insert, Says, Message
  <1> QED BY <1>1, LogGrows DEF Lossless, Kept

\* A step that leaves the messages and the archived chunk alone
LEMMA LosslessFrame ==
    ASSUME Lossless, UNCHANGED <<msgs, log, shed>>,
           cons' = cons \/ (cons = None \/ cons.at # "archived")
    PROVE  Lossless'
  BY DEF Lossless, Kept, Says

LEMMA LosslessNext ==
    ASSUME TypeOK, Lossless, [Next]_vars
    PROVE  Lossless'
  <1>1. ASSUME NEW r \in Runs, Run(r) \/ Throws(r) PROVE Lossless'
    <2>1. UserMsg(r) \in Sayings /\ Reply(r) \in Sayings
      BY DEF Sayings, UserMsg, Reply
    <2>2. CASE SaveUserMessage(r) \/ SaveReply(r)
      BY <2>1, <2>2, LosslessInsert DEF SaveUserMessage, SaveReply
    <2>3. CASE ~(SaveUserMessage(r) \/ SaveReply(r))
      <3>1. UNCHANGED <<msgs, log, shed, cons>>
        BY <1>1, <2>3 DEF Run, Route, Admit, CreateRow, Register, Count, LoopEnds, SkipConsolidation,
                          Complete, Finish, Throws, database, history
      <3> QED BY <3>1, LosslessFrame
    <2> QED BY <2>2, <2>3
  <1>2. CASE Others /\ ~Crash
    <2>1. UNCHANGED <<msgs, log, shed>> /\ (cons' = cons \/ cons = None)
      BY <1>2 DEF Others, StartCompact, SkipConsolidation, CompactEnds, StartConsolidation, Reap,
         StopReads,
                  StopWrites, vars, database, process, history
    <2> QED BY <2>1, LosslessFrame
  <1>3. CASE Crash
    <2>1. CASE cons # None /\ cons.at = "archived"
      BY <1>3, <2>1 DEF Crash, Lossless
    <2>2. CASE ~(cons # None /\ cons.at = "archived")
      <3>1. UNCHANGED <<msgs, log>> /\ shed' = shed
        BY <1>3, <2>2 DEF Crash, database, TypeOK
      <3> QED BY <2>2, <3>1, LosslessFrame
    <2> QED BY <2>1, <2>2
  <1>4. CASE PickChunk \/ NoProvider
    BY <1>4, LosslessFrame DEF PickChunk, NoProvider, database, history
  <1>5. CASE ModelFails
    <2>1. CASE cons.fails + 1 < MaxFailures
      BY <1>5, <2>1, LosslessFrame DEF ModelFails
    <2>2. CASE ~(cons.fails + 1 < MaxFailures)
      BY <1>5, <2>2 DEF ModelFails, Lossless
    <2> QED BY <2>1, <2>2
  <1>6. CASE Archive
    <2>1. cons # None /\ cons \in Consolidations /\ cons.at = "asked"
      BY <1>6 DEF Archive, TypeOK
    <2>2. cons' \in Consolidations /\ cons'.at = "archived" /\ cons'.chunk = cons.chunk
      BY <1>6, <2>1 DEF Archive, Consolidations
    <2>3. Kept = Says(msgs) /\ Kept' = Says(msgs') \cup Says(cons'.chunk)
      BY <2>1, <2>2, RunConstants DEF Kept
    <2>4. Says(msgs) \subseteq Says(msgs') \cup Says(cons'.chunk)
      BY <1>6, <2>2 DEF Archive, Says
    <2> QED BY <1>6, <2>3, <2>4 DEF Archive, Lossless
  <1>7. CASE WriteSummary
    <2>1. Kept = Says(msgs) \cup Says(cons.chunk)
      BY <1>7 DEF WriteSummary, Kept
    <2>2. Says(msgs) \cup Says(cons.chunk) \subseteq Says(msgs')
      <3>1. msgs' = msgs \cup {Summary(Says(cons.chunk))}
        BY <1>7 DEF WriteSummary
      <3>2. Summary(Says(cons.chunk)).of = Says(cons.chunk)
        BY DEF Summary
      <3>3. \A S, m : Says(S) \subseteq Says(S \cup {m}) /\ m.of \subseteq Says(S \cup {m})
        BY DEF Says
      <3> QED BY <3>1, <3>2, <3>3
    <2>3. Says(msgs') \subseteq Kept'
      BY DEF Kept
    <2> QED BY <1>7, <2>1, <2>2, <2>3 DEF WriteSummary, Lossless
  <1>8. CASE SummaryFails
    BY <1>8 DEF SummaryFails, Lossless
  <1> QED BY <1>1, <1>2, <1>3, <1>4, <1>5, <1>6, <1>7, <1>8 DEF Next, Others, Consolidate

\* Whatever the runs of the session, the commands and the messages that arrive
\* while the model sums up do to each other, a message leaves the history only with
\* the raw fallback or when the second write of a consolidation is never made.
THEOREM NothingIsLost == Spec => []NothingLost
  <1>1. Init => Lossless
    BY DEF Init, Lossless, ToSet
  <1>2. Lossless => NothingLost
    BY DEF Lossless, Kept, NothingLost
  <1> QED BY <1>1, <1>2, LosslessNext, TypeInit, TypeNext, PTL DEF Spec

-----------------------------------------------------------------------------
(* Stopped runs *)

\* Where a run may be when its reply is stored, and where a run is that a stop
\* request in time has reached
AfterReply == {"consolidating", "merging", "completing", "finishing", "done", "gone"}
Over == {"finishing", "done", "gone"}

SilentRun(r) ==
  /\ Reply(r) \in ToSet(log) => pc[r] \in AfterReply
  /\ (r \in stopping \/ row[r] = "cancelled") /\ r \notin excused =>
        /\ Reply(r) \notin ToSet(log)
        /\ pc[r] \in Over \/ (InLoop(r) /\ aborted[r] = "user_stop")

Silent == \A r \in Runs : SilentRun(r)

\* What a step of a run does to its own SilentRun
LEMMA SilentOwn ==
    ASSUME TypeOK, Control, NEW r \in Runs, SilentRun(r), Run(r) \/ Throws(r)
    PROVE  SilentRun(r)'
  <1> USE DEF TypeOK, Agents, Goto, SilentRun, AfterReply, Over, InLoop
  <1>1. CASE Route(r) \/ Admit(r)
    BY <1>1 DEF Route, Admit, database, history
  <1>2. CASE CreateRow(r)
    BY <1>2 DEF CreateRow, history
  <1>3. CASE Register(r)
    BY <1>3 DEF Register, database, history
  <1>4. CASE Count(r, "asking", "counted") \/ Count(r, "replying", "recounted")
    BY <1>4 DEF Count, database, history
  <1>5. UserMsg(r) \in Sayings /\ Reply(r) \in Sayings /\ UserMsg(r) # Reply(r)
    BY DEF Sayings, UserMsg, Reply
  <1>6. CASE SaveUserMessage(r)
    <2>1. ToSet(log') = ToSet(log) \cup {UserMsg(r)}
      BY <1>5, <1>6, LogGrows DEF SaveUserMessage
    <2> QED BY <1>5, <1>6, <2>1 DEF SaveUserMessage
  <1>7. CASE SaveReply(r)
    BY <1>7 DEF SaveReply
  <1>8. CASE LoopEnds(r)
    BY <1>8 DEF LoopEnds, database, history
  <1>9. CASE SkipConsolidation(r)
    BY <1>9 DEF SkipConsolidation, database, history
  <1>10. CASE Complete(r)
    BY <1>10 DEF Complete, Settle, history
  <1>11. CASE Finish(r)
    BY <1>11 DEF Finish, database, history
  <1>12. CASE Throws(r)
    BY <1>12 DEF Throws, Settle, history
  <1> QED BY <1>1, <1>2, <1>3, <1>4, <1>6, <1>7, <1>8, <1>9, <1>10, <1>11, <1>12 DEF Run

\* A step that is not this run's
LEMMA SilentFrame ==
    ASSUME NEW r \in Runs, SilentRun(r), pc'[r] = pc[r], aborted'[r] = aborted[r],
           Reply(r) \in ToSet(log') <=> Reply(r) \in ToSet(log),
           row'[r] = "cancelled" => row[r] = "cancelled",
           UNCHANGED <<stopping, excused>>
    PROVE  SilentRun(r)'
  BY DEF SilentRun, InLoop

LEMMA SilentNext ==
    ASSUME TypeOK, Control, Silent, [Next]_vars
    PROVE  Silent'
  <1> SUFFICES ASSUME NEW r \in Runs PROVE SilentRun(r)'
    BY DEF Silent
  <1>0. SilentRun(r) /\ r \in Agents /\ r \notin Compacts
    BY RunConstants DEF Silent, Agents
  <1>1. ASSUME NEW q \in Runs, Run(q) \/ Throws(q) PROVE SilentRun(r)'
    <2>1. CASE q = r
      BY <1>0, <1>1, <2>1, SilentOwn
    <2>2. CASE q # r
      <3>1. pc'[r] = pc[r] /\ aborted'[r] = aborted[r] /\ row'[r] = row[r] /\ UNCHANGED <<stopping, excused>>
        BY <1>0, <1>1, <2>2 DEF Run, Route, Admit, CreateRow, Register, Count, SaveUserMessage,
           LoopEnds,
           SaveReply, SkipConsolidation, Complete, Finish, Throws, Settle, Goto, database, history,
           TypeOK, Agents
      <3>2. Reply(r) \in ToSet(log') <=> Reply(r) \in ToSet(log)
        <4>1. UserMsg(q) \in Sayings /\ Reply(q) \in Sayings /\ Reply(r) # UserMsg(q) /\ Reply(r) # Reply(q)
          BY <2>2 DEF Sayings, UserMsg, Reply
        <4>2. CASE SaveUserMessage(q) \/ SaveReply(q)
          BY <4>1, <4>2, LogGrows DEF SaveUserMessage, SaveReply
        <4>3. CASE ~(SaveUserMessage(q) \/ SaveReply(q))
          BY <1>1, <4>3 DEF Run, Route, Admit, CreateRow, Register, Count, LoopEnds, SkipConsolidation,
                            Complete, Finish, Throws, database
        <4> QED BY <4>2, <4>3
      <3> QED BY <1>0, <3>1, <3>2, SilentFrame
    <2> QED BY <2>1, <2>2
  <1>2. ASSUME NEW c \in Compacts, StartCompact(c) \/ SkipConsolidation(c) \/ CompactEnds(c)
        PROVE  SilentRun(r)'
    <2>1. pc'[r] = pc[r] /\ row'[r] = row[r] /\ UNCHANGED <<aborted, log, stopping, excused>>
      BY <1>0, <1>2 DEF StartCompact, SkipConsolidation, CompactEnds, Goto, database, history, TypeOK
    <2> QED BY <1>0, <2>1, SilentFrame
  <1>3. ASSUME NEW a \in Agents, StartConsolidation(a) PROVE SilentRun(r)'
    <2>1. UNCHANGED <<row, log, aborted, stopping, excused>> /\ pc' = [pc EXCEPT ![a] = "merging"]
          /\ pc[a] = "consolidating"
      BY <1>3 DEF StartConsolidation, Goto, database, history
    <2> QED BY <1>0, <2>1 DEF SilentRun, InLoop, AfterReply, Over, TypeOK
  <1>4. ASSUME NEW a \in Agents, Reap(a) PROVE SilentRun(r)'
    <2>1. /\ UNCHANGED <<log, pc, stopping, excused>>
          /\ aborted'[r] = aborted[r] \/ aborted[r] = None
          /\ row'[r] = row[r] \/ row'[r] = "failed"
      BY <1>0, <1>4 DEF Reap, Settle, history, TypeOK
    <2> QED BY <1>0, <2>1, RunConstants DEF SilentRun, InLoop
  <1>5. ASSUME Leave \/ pc' = pc, cons # None, UNCHANGED <<row, log, aborted, stopping, excused>>
        PROVE  SilentRun(r)'
    <2>1. cons.by \in Agents /\ pc[cons.by] = "merging"
      BY <1>5 DEF Control, Owner
    <2> QED BY <1>0, <1>5, <2>1 DEF Leave, SilentRun, InLoop, AfterReply, Over, TypeOK
  <1>6. ASSUME NEW n, NextRound(n) PROVE Leave \/ pc' = pc
    BY <1>6 DEF NextRound
  <1>7. CASE Consolidate \/ NoProvider \/ ModelFails
    <2>1. UNCHANGED <<row, log, aborted, stopping, excused>> /\ cons # None /\ (Leave \/ pc' = pc)
      BY <1>6, <1>7 DEF Consolidate, PickChunk, Archive, WriteSummary, NoProvider, ModelFails,
         database, history
    <2> QED BY <1>5, <2>1
  <1>8. CASE SummaryFails
    <2>1. cons.by \in Agents /\ pc[cons.by] = "merging"
      BY <1>8 DEF SummaryFails, Control, Owner
    <2>2. \/ pc'[r] = pc[r]
          \/ cons.by = r /\ pc'[r] = "finishing"
      BY <1>0, <1>8, <2>1 DEF SummaryFails, Goto, TypeOK
    <2>3. row'[r] = "cancelled" => row[r] = "cancelled"
      BY <1>0, <1>8, <2>1 DEF SummaryFails, Settle, TypeOK
    <2>4. UNCHANGED <<log, aborted, stopping, excused>>
      BY <1>8 DEF SummaryFails
    <2> QED BY <1>0, <2>1, <2>2, <2>3, <2>4 DEF SilentRun, InLoop, AfterReply, Over
  \* A run stopped in time is registered, in its loop, and has not been aborted before
  <1>9. CASE StopReads
    <2>1. /\ UNCHANGED <<row, log, pc>> /\ stopping' = Running /\ excused \subseteq excused'
          /\ r \in Running /\ r \notin excused' => InLoop(r) /\ aborted[r] = None
          /\ r \in Running /\ r \in controllers /\ aborted[r] = None => aborted'[r] = "user_stop"
          /\ aborted[r] # None => aborted'[r] = aborted[r]
      BY <1>9 DEF StopReads, database
    <2>2. InLoop(r) => r \in controllers
      BY DEF Control, RunControl, InLoop, Live
    <2>3. r \in Running <=> row[r] = "running"
      BY <1>0 DEF Running
    <2> QED BY <1>0, <2>1, <2>2, <2>3, RunConstants DEF SilentRun, InLoop, AfterReply
  <1>10. CASE StopWrites
    <2>1. /\ UNCHANGED <<log, pc, aborted, excused>> /\ stopping' = {}
          /\ row'[r] = "cancelled" => row[r] = "cancelled" \/ r \in stopping
      BY <1>0, <1>10 DEF StopWrites, history
    <2> QED BY <1>0, <2>1 DEF SilentRun, InLoop
  <1>11. CASE Crash
    <2>1. /\ UNCHANGED <<row, log, excused>> /\ stopping' = {}
          /\ pc'[r] = "gone" \/ (pc'[r] = pc[r] /\ pc[r] \in {"idle", "done"})
      BY <1>0, <1>11 DEF Crash, database
    <2> QED BY <1>0, <2>1 DEF SilentRun, InLoop, AfterReply, Over
  <1>12. CASE UNCHANGED vars
    <2>1. UNCHANGED <<pc, aborted, log, row, stopping, excused>>
      BY <1>12 DEF vars, database, process, history
    <2> QED BY <1>0, <2>1, SilentFrame
  <1> QED BY <1>1, <1>2, <1>3, <1>4, <1>7, <1>8, <1>9, <1>10, <1>11, <1>12 DEF Next

\* The stop endpoint and the run share nothing but the controller and the row: a run
\* it reached in its loop adds no reply, neither before nor after the row is written.
THEOREM StoppedRunsAreSilent == Spec => []StoppedIsSilent
  <1>1. Init => Silent
    BY DEF Init, Silent, SilentRun, Agents, ToSet
  <1>2. Silent => StoppedIsSilent
    BY DEF Silent, SilentRun, StoppedIsSilent
  <1> QED BY <1>1, <1>2, SilentNext, ControlHolds, PTL DEF Spec

-----------------------------------------------------------------------------
(* The transcript *)

NotAsked == {"idle", "routed", "admitted", "created", "asking", "counted"}
NotAnswered == NotAsked \cup {"looping", "replying", "recounted"}

\* A message is stored once, when its run gets there
LoggedOnce ==
  /\ \A i, j \in DOMAIN log : log[i] = log[j] => i = j
  /\ \A r \in Runs : /\ UserMsg(r) \in ToSet(log) => pc[r] \notin NotAsked
                     /\ Reply(r) \in ToSet(log) => pc[r] \notin NotAnswered

\* Rows say something that was stored, in the session and in the chunk of a consolidation
Meaning(m) == m.of # {} /\ m.of \subseteq ToSet(log)
Meant ==
  /\ \A m \in msgs : Meaning(m)
  /\ cons # None => /\ \A m \in cons.chunk : Meaning(m)
                    /\ cons.at # "round" => cons.chunk # {}

CountsAll == \A r \in Runs : counted[r].n = counted[r].of

\* The orderings are those of the log, and there is room for the next after the last
Before(x, y) == \A i, j \in DOMAIN log : log[i] \in x.of /\ log[j] \in y.of => i < j
Lined ==
  /\ \A m \in msgs : m.ord < Cardinality(msgs)
  /\ \A x, y \in msgs : x # y => x.ord # y.ord
  /\ \A x, y \in msgs : x.ord < y.ord => Before(x, y)
Ordered == shifted \/ staleCount \/ Lined

Told == LoggedOnce /\ Meant /\ CountsAll /\ Ordered

LEMMA Least ==
    ASSUME NEW T \in SUBSET Nat, T # {}
    PROVE  \E m \in T : \A n \in T : m <= n
  <1>1. PICK m \in T : \A n \in T : <<n, m>> \notin OpToRel(<, Nat)
    BY NatLessThanWellFounded, WFMin, Zenon
  <1>2. ASSUME NEW n \in T PROVE m <= n
    <2>1. ~(n < m)
      BY <1>1 DEF OpToRel
    <2> QED BY <2>1
  <1> QED BY <1>2

LEMMA ToldInit == Init => Told
  <1> SUFFICES ASSUME Init PROVE Told
    OBVIOUS
  <1>1. ToSet(log) = {} /\ DOMAIN log = {}
    BY DEF Init, ToSet
  <1>2. CountsAll
    BY DEF Init, CountsAll, NoCount, Agents
  <1> QED BY <1>1, <1>2 DEF Init, Told, LoggedOnce, Meant, Ordered, Lined

\* What is inserted is new and comes last
LEMMA LogAppends ==
    ASSUME TypeOK, NEW r \in Runs, NEW id \in Sayings, Insert(r, id)
    PROVE  /\ log' \in Seq(Sayings)
           /\ Len(log) \in Nat /\ DOMAIN log = 1 .. Len(log)
           /\ DOMAIN log' = DOMAIN log \cup {Len(log) + 1} /\ Len(log) + 1 \notin DOMAIN log
           /\ \A i \in DOMAIN log : log'[i] = log[i] /\ i < Len(log) + 1
           /\ log'[Len(log) + 1] = id
  <1>1. log \in Seq(Sayings) /\ log' = Append(log, id)
    BY DEF TypeOK, Insert
  <1> QED BY <1>1, AppendProperties

LEMMA OnceInsert ==
    ASSUME TypeOK, LoggedOnce, NEW r \in Runs, NEW id \in Sayings, Insert(r, id), id \notin ToSet(log)
    PROVE  \A i, j \in DOMAIN log' : log'[i] = log'[j] => i = j
  <1>1. \A i \in DOMAIN log : log[i] # id
    BY DEF ToSet
  <1> QED BY <1>1, LogAppends DEF LoggedOnce

LEMMA LinedInsert ==
    ASSUME TypeOK, Told, NEW r \in Runs, NEW id \in Sayings, Insert(r, id), UNCHANGED <<cons, shifted>>,
           id \notin ToSet(log)
    PROVE  Meant' /\ Ordered'
  <1> DEFINE new == Message(id, counted[r].n)
  <1>1. msgs' = msgs \cup {new} /\ new.of = {id} /\ new.ord = counted[r].n
    BY DEF Insert, Message
  <1>2. ToSet(log') = ToSet(log) \cup {id}
    BY LogGrows
  <1>3. Meant'
    BY <1>1, <1>2 DEF Told, Meant, Meaning
  <1>4. ASSUME ~shifted, ~staleCount, counted[r].of = Cardinality(msgs) PROVE Lined'
    <2>1. Cardinality(msgs) \in Nat /\ new.ord = Cardinality(msgs)
      BY <1>1, <1>4, FS_CardinalityType DEF Told, CountsAll, TypeOK
    <2>2. /\ \A m \in msgs : m.ord \in Nat /\ m.ord < Cardinality(msgs)
          /\ \A x, y \in msgs : (x # y => x.ord # y.ord) /\ (x.ord < y.ord => Before(x, y))
      BY <1>4 DEF Told, Ordered, Lined, TypeOK, Messages
    <2>3. new \notin msgs
      BY <2>1, <2>2
    <2>4. Cardinality(msgs') = Cardinality(msgs) + 1
      BY <1>1, <2>3, FS_AddElement DEF TypeOK
    <2>5. \A m \in msgs' : m.ord < Cardinality(msgs')
      BY <1>1, <2>1, <2>2, <2>4
    <2>6. \A x, y \in msgs' : x # y => x.ord # y.ord
      BY <1>1, <2>1, <2>2
    <2>7. ASSUME NEW x \in msgs', NEW y \in msgs', x.ord < y.ord PROVE Before(x, y)'
      <3>1. x \in msgs
        BY <1>1, <2>1, <2>2, <2>7
      <3>2. id \notin x.of
        BY <3>1 DEF Told, Meant, Meaning
      <3> SUFFICES ASSUME NEW i \in DOMAIN log', NEW j \in DOMAIN log', log'[i] \in x.of,
                          log'[j] \in y.of
                   PROVE  i < j
        BY DEF Before
      <3>3. i \in DOMAIN log /\ log[i] \in x.of
        BY <3>2, LogAppends
      <3>4. CASE j = Len(log) + 1
        BY <3>3, <3>4, LogAppends
      <3>5. CASE j # Len(log) + 1
        <4>1. j \in DOMAIN log /\ log[j] \in y.of /\ log[j] # id
          BY <3>5, LogAppends DEF ToSet
        <4>2. y \in msgs
          BY <1>1, <4>1
        <4>3. Before(x, y)
          BY <2>2, <2>7, <3>1, <4>2
        <4> QED BY <3>3, <4>1, <4>3 DEF Before
      <3> QED BY <3>4, <3>5
    <2> QED BY <2>5, <2>6, <2>7 DEF Lined
  <1>5. staleCount' = (staleCount \/ counted[r].of # Cardinality(msgs))
    BY DEF Insert
  <1> QED BY <1>3, <1>4, <1>5 DEF Ordered

\* A run on its way
LEMMA OnceRun ==
    ASSUME TypeOK, LoggedOnce, NEW r \in Runs, Run(r) \/ Throws(r)
    PROVE  LoggedOnce'
  <1> USE DEF NotAsked, NotAnswered
  <1>1. UserMsg(r) \in Sayings /\ Reply(r) \in Sayings /\ r \in Agents
    BY DEF Sayings, UserMsg, Reply, Agents
  <1>2. \A q \in Runs : UserMsg(q) # Reply(r) /\ Reply(q) # UserMsg(r)
                        /\ (q # r => UserMsg(q) # UserMsg(r) /\ Reply(q) # Reply(r))
    BY DEF UserMsg, Reply
  <1>3. CASE SaveUserMessage(r)
    <2>1. /\ pc[r] = "counted" /\ Insert(r, UserMsg(r)) /\ pc' = [pc EXCEPT ![r] = "looping"]
          /\ UserMsg(r) \notin ToSet(log) /\ Reply(r) \notin ToSet(log)
      BY <1>3 DEF SaveUserMessage, Goto, LoggedOnce
    <2>2. ToSet(log') = ToSet(log) \cup {UserMsg(r)}
      BY <1>1, <2>1, LogGrows
    <2>3. \A i, j \in DOMAIN log' : log'[i] = log'[j] => i = j
      BY <1>1, <2>1, OnceInsert
    <2> QED BY <1>1, <1>2, <2>1, <2>2, <2>3 DEF LoggedOnce, TypeOK
  <1>4. CASE SaveReply(r)
    <2>1. /\ pc[r] = "recounted" /\ Insert(r, Reply(r)) /\ pc' = [pc EXCEPT ![r] = "consolidating"]
          /\ Reply(r) \notin ToSet(log)
      BY <1>4 DEF SaveReply, Goto, LoggedOnce
    <2>2. ToSet(log') = ToSet(log) \cup {Reply(r)}
      BY <1>1, <2>1, LogGrows
    <2>3. \A i, j \in DOMAIN log' : log'[i] = log'[j] => i = j
      BY <1>1, <2>1, OnceInsert
    <2> QED BY <1>1, <1>2, <2>1, <2>2, <2>3 DEF LoggedOnce, TypeOK
  <1>5. CASE ~(SaveUserMessage(r) \/ SaveReply(r))
    <2>1. UNCHANGED log
      BY <1>5 DEF Run, Route, Admit, CreateRow, Register, Count, LoopEnds, SkipConsolidation,
         Complete, Finish,
                  Throws, database
    <2>2. /\ \A q \in Runs \ {r} : pc'[q] = pc[q]
          /\ pc'[r] \in NotAsked => pc[r] \in NotAsked
          /\ pc'[r] \in NotAnswered => pc[r] \in NotAnswered
      <3>1. CASE Route(r) \/ Admit(r) \/ CreateRow(r) \/ Register(r)
        BY <1>1, <3>1 DEF Route, Admit, CreateRow, Register, Goto, TypeOK, Agents
      <3>2. CASE Count(r, "asking", "counted") \/ Count(r, "replying", "recounted") \/ LoopEnds(r)
        BY <1>1, <3>2 DEF Count, LoopEnds, Goto, TypeOK, Agents
      <3>3. CASE SkipConsolidation(r) \/ Complete(r) \/ Finish(r) \/ Throws(r)
        BY <1>1, <3>3 DEF SkipConsolidation, Complete, Finish, Throws, Goto, TypeOK, Agents
      <3> QED BY <1>5, <3>1, <3>2, <3>3 DEF Run
    <2> QED BY <2>1, <2>2 DEF LoggedOnce
  <1> QED BY <1>3, <1>4, <1>5

LEMMA OnceNext == TypeOK /\ Control /\ LoggedOnce /\ [Next]_vars => LoggedOnce'
  <1> SUFFICES ASSUME TypeOK, Control, LoggedOnce, [Next]_vars PROVE LoggedOnce'
    OBVIOUS
  <1> USE DEF NotAsked, NotAnswered
  <1>1. ASSUME UNCHANGED log,
               \A q \in Runs : pc'[q] = pc[q] \/ pc'[q] \in {"merging", "completing", "finishing", "gone"}
        PROVE  LoggedOnce'
    BY <1>1 DEF LoggedOnce
  <1>2. ASSUME NEW c \in Compacts, StartCompact(c) \/ SkipConsolidation(c) \/ CompactEnds(c)
        PROVE  LoggedOnce'
    <2>1. UNCHANGED log /\ \A q \in Runs : pc'[q] = pc[q]
      BY <1>2, RunConstants DEF StartCompact, SkipConsolidation, CompactEnds, Goto, TypeOK, Agents,
         database
    <2> QED BY <1>1, <2>1
  <1>3. ASSUME NEW a \in Agents, StartConsolidation(a) \/ Reap(a) PROVE LoggedOnce'
    <2>1. UNCHANGED log /\ \A q \in Runs : pc'[q] = pc[q] \/ pc'[q] = "merging"
      BY <1>3 DEF StartConsolidation, Reap, Goto, TypeOK, Agents, database
    <2> QED BY <1>1, <2>1
  <1>4. CASE Consolidate \/ NoProvider \/ ModelFails
    <2>1. UNCHANGED log /\ (UNCHANGED pc \/ Leave)
      BY <1>4 DEF Consolidate, PickChunk, Archive, WriteSummary, NoProvider, ModelFails, NextRound,
         database
    <2>2. \A q \in Runs : pc'[q] = pc[q] \/ pc'[q] = "completing"
      BY <2>1 DEF Leave, TypeOK, Agents
    <2> QED BY <1>1, <2>1, <2>2
  <1>5. CASE SummaryFails
    <2>1. UNCHANGED log /\ (Goto(cons.by, "finishing") \/ (cons.by \notin Runs /\ Goto(cons.by, "done")))
      BY <1>5 DEF SummaryFails
    <2>2. \A q \in Runs : pc'[q] = pc[q] \/ pc'[q] = "finishing"
      BY <2>1 DEF Goto, TypeOK, Agents
    <2> QED BY <1>1, <2>1, <2>2
  <1>6. CASE StopReads \/ StopWrites \/ UNCHANGED vars
    BY <1>1, <1>6 DEF StopReads, StopWrites, vars, database, process
  <1>7. CASE Crash
    <2>1. UNCHANGED log /\ \A q \in Runs : pc'[q] = pc[q] \/ pc'[q] = "gone"
      BY <1>7 DEF Crash, Agents, database
    <2> QED BY <1>1, <2>1
  <1> QED BY <1>2, <1>3, <1>4, <1>5, <1>6, <1>7, OnceRun DEF Next

LEMMA CountsNext == TypeOK /\ CountsAll /\ [Next]_vars => CountsAll'
  <1> SUFFICES ASSUME TypeOK, CountsAll, [Next]_vars PROVE CountsAll'
    OBVIOUS
  <1> USE DEF NoCount
  <1>0. DOMAIN counted = Agents /\ Runs \subseteq Agents
    BY DEF TypeOK, Agents
  <1>1. ASSUME NEW r \in Runs, Run(r) \/ Throws(r) PROVE CountsAll'
    <2>1. PICK n : counted' = counted \/ counted' = [counted EXCEPT ![r] = [n |-> n, of |-> n]]
      <3>1. CASE SaveUserMessage(r) \/ SaveReply(r) \/ Throws(r)
        BY <3>1 DEF SaveUserMessage, SaveReply, Insert, Throws
      <3>2. CASE Count(r, "asking", "counted") \/ Count(r, "replying", "recounted")
        BY <3>2 DEF Count
      <3>3. CASE ~(SaveUserMessage(r) \/ SaveReply(r) \/ Throws(r)
                   \/ Count(r, "asking", "counted") \/ Count(r, "replying", "recounted"))
        BY <1>1, <3>3 DEF Run, Route, Admit, CreateRow, Register, LoopEnds, SkipConsolidation,
           Complete, Finish
      <3> QED BY <3>1, <3>2, <3>3
    <2>2. ASSUME NEW q \in Runs PROVE counted'[q] = counted[q] \/ counted'[q] = [n |-> n, of |-> n]
      BY <1>0, <2>1
    <2>3. \A q \in Runs : counted'[q].n = counted'[q].of
      BY <2>2 DEF CountsAll
    <2> QED BY <2>3 DEF CountsAll
  <1>2. CASE Crash
    BY <1>0, <1>2 DEF Crash, CountsAll
  <1>3. ASSUME UNCHANGED counted PROVE CountsAll'
    BY <1>3 DEF CountsAll
  <1> QED BY <1>1, <1>2, <1>3 DEF Next, StartCompact, SkipConsolidation, CompactEnds,
             StartConsolidation, Reap,
          Consolidate, PickChunk, Archive, WriteSummary, NoProvider, ModelFails, SummaryFails, StopReads, StopWrites,
          vars, process

\* A step that stores nothing and sums nothing up
LEMMA ToldFrame ==
    ASSUME Meant, Ordered, UNCHANGED log, shifted => shifted', staleCount => staleCount',
           msgs' = msgs \/ (msgs' \subseteq msgs /\ (shifted' \/ msgs' = {})),
           \/ cons' = None \/ cons' = cons
           \/ cons'.chunk = {} /\ cons'.at = "round"
           \/ cons'.chunk # {} /\ cons'.chunk \subseteq msgs
           \/ cons # None /\ cons.at # "round" /\ cons'.chunk = cons.chunk
    PROVE  Meant' /\ Ordered'
  <1>1. Meant'
    BY DEF Meant, Meaning
  <1>2. CASE msgs' = msgs
    <2>1. Lined => Lined'
      BY <1>2 DEF Lined, Before
    <2> QED BY <1>1, <2>1, Zenon DEF Ordered
  <1>3. CASE msgs' = {}
    <2>1. Lined'
      BY <1>3 DEF Lined
    <2> QED BY <1>1, <2>1, Zenon DEF Ordered
  <1> QED BY <1>1, <1>2, <1>3, Zenon DEF Ordered

LEMMA ToldConsolidation ==
    ASSUME TypeOK, Control, Told, Consolidate \/ NoProvider \/ ModelFails \/ SummaryFails
    PROVE  Meant' /\ Ordered'
  <1>1. Meant /\ Ordered
    BY DEF Told
  <1>2. cons # None /\ cons \in Consolidations
    BY DEF TypeOK, Consolidate, PickChunk, Archive, WriteSummary, NoProvider, ModelFails, SummaryFails
  <1>3. ASSUME NEW n, NextRound(n) \/ Leave
        PROVE  cons' = None \/ (cons'.chunk = {} /\ cons'.at = "round")
    BY <1>2, <1>3 DEF NextRound, Leave, Consolidations
  <1>4. CASE PickChunk
    <2>1. cons' = None \/ \E S \in Chunks : cons' = [cons EXCEPT !.at = "asked", !.chunk = S \cup SummaryRow]
      BY <1>4, Zenon DEF PickChunk, Leave
    <2>2. \A S \in Chunks : S # {} /\ S \cup SummaryRow \subseteq msgs
      BY DEF Chunks, Eligible, SummaryRow
    <2>3. \A S \in Chunks : cons' = [cons EXCEPT !.at = "asked", !.chunk = S \cup SummaryRow] =>
                cons'.chunk = S \cup SummaryRow
      BY <1>2 DEF Consolidations
    <2>4. cons' = None \/ (cons'.chunk # {} /\ cons'.chunk \subseteq msgs)
      BY <2>1, <2>2, <2>3
    <2> QED BY <1>1, <1>4, <2>4, ToldFrame DEF PickChunk, database, history
  <1>5. CASE NoProvider
    BY <1>1, <1>3, <1>5, ToldFrame DEF NoProvider, Leave, database, history
  <1>6. CASE ModelFails
    <2>1. cons' = None \/ (cons'.chunk = {} /\ cons'.at = "round")
      BY <1>3, <1>6 DEF ModelFails
    <2>2. msgs' = msgs \/ (msgs' \subseteq msgs /\ (shifted' \/ msgs' = {}))
      BY <1>6 DEF ModelFails
    <2>3. (shifted => shifted') /\ UNCHANGED <<log, staleCount>>
      BY <1>6 DEF ModelFails
    <2> QED BY <1>1, <2>1, <2>2, <2>3, ToldFrame
  <1>7. CASE Archive
    <2>1. cons.at = "asked" /\ cons'.chunk = cons.chunk
      BY <1>2, <1>7 DEF Archive, Consolidations
    <2>2. msgs' \subseteq msgs /\ (shifted' \/ msgs' = {})
      BY <1>7 DEF Archive
    <2>3. (shifted => shifted') /\ UNCHANGED <<log, staleCount>>
      BY <1>7 DEF Archive
    <2> QED BY <1>1, <1>2, <2>1, <2>2, <2>3, ToldFrame
  <1>8. CASE WriteSummary
    <2> DEFINE sum == Summary(Says(cons.chunk))
    <2>1. /\ msgs' = msgs \cup {sum} /\ UNCHANGED <<log, staleCount>> /\ cons.at = "archived"
          /\ shifted' = (shifted \/ msgs # {})
          /\ cons' = None \/ (cons'.chunk = {} /\ cons'.at = "round")
      BY <1>3, <1>8 DEF WriteSummary
    <2>2. sum.of = Says(cons.chunk) /\ sum.ord = 0
      BY DEF Summary
    <2>3. cons.chunk # {} /\ \A m \in cons.chunk : Meaning(m)
      BY <1>1, <1>2, <2>1 DEF Meant
    <2> HIDE DEF sum
    <2>4. Meaning(sum)
      <3>1. PICK m \in cons.chunk : TRUE
        BY <2>3
      <3>2. PICK id \in m.of : TRUE
        BY <2>3 DEF Meaning
      <3>3. id \in sum.of
        BY <2>2, <3>2 DEF Says
      <3>4. sum.of \subseteq ToSet(log)
        BY <2>2, <2>3 DEF Meaning, Says
      <3> QED BY <3>3, <3>4 DEF Meaning
    <2>5. Meant'
      BY <1>1, <2>1, <2>4 DEF Meant, Meaning
    <2>6. ASSUME msgs = {} PROVE Lined'
      <3>1. msgs' = {sum} /\ Cardinality(msgs') = 1
        BY <2>1, <2>6, FS_Singleton
      <3> QED BY <2>2, <3>1 DEF Lined
    <2> QED BY <2>1, <2>5, <2>6 DEF Ordered
  <1>9. CASE SummaryFails
    BY <1>1, <1>9, ToldFrame DEF SummaryFails
  <1> QED BY <1>4, <1>5, <1>6, <1>7, <1>8, <1>9 DEF Consolidate

LEMMA ToldNext == TypeOK /\ Control /\ Told /\ [Next]_vars => Told'
  <1> SUFFICES ASSUME TypeOK, Control, Told, [Next]_vars PROVE Meant' /\ Ordered'
    BY OnceNext, CountsNext DEF Told
  <1>1. Meant /\ Ordered /\ LoggedOnce
    BY DEF Told
  <1>2. ASSUME UNCHANGED <<log, msgs, shifted, staleCount>>, cons' = None \/ cons' = cons
        PROVE  Meant' /\ Ordered'
    BY <1>1, <1>2, ToldFrame
  <1>3. ASSUME NEW r \in Runs, Run(r) \/ Throws(r) PROVE Meant' /\ Ordered'
    <2>1. UserMsg(r) \in Sayings /\ Reply(r) \in Sayings
      BY DEF Sayings, UserMsg, Reply
    <2>2. CASE SaveUserMessage(r)
      <3>1. UserMsg(r) \notin ToSet(log)
        BY <1>1, <2>2 DEF LoggedOnce, SaveUserMessage, NotAsked
      <3> QED BY <2>1, <2>2, <3>1, LinedInsert DEF SaveUserMessage
    <2>3. CASE SaveReply(r)
      <3>1. Reply(r) \notin ToSet(log)
        BY <1>1, <2>3 DEF LoggedOnce, SaveReply, NotAnswered
      <3> QED BY <2>1, <2>3, <3>1, LinedInsert DEF SaveReply
    <2>4. CASE ~(SaveUserMessage(r) \/ SaveReply(r))
      BY <1>2, <1>3, <2>4 DEF Run, Route, Admit, CreateRow, Register, Count, LoopEnds,
         SkipConsolidation, Complete,
                              Finish, Throws, database, history
    <2> QED BY <2>2, <2>3, <2>4
  <1>4. ASSUME NEW c \in Compacts, StartCompact(c) \/ SkipConsolidation(c) \/ CompactEnds(c)
        PROVE  Meant' /\ Ordered'
    BY <1>2, <1>4 DEF StartCompact, SkipConsolidation, CompactEnds, database, history
  <1>5. ASSUME NEW a \in Agents, StartConsolidation(a) PROVE Meant' /\ Ordered'
    <2>1. cons'.chunk = {} /\ cons'.at = "round"
      BY <1>5 DEF StartConsolidation
    <2> QED BY <1>1, <1>5, <2>1, ToldFrame DEF StartConsolidation, database, history
  <1>6. ASSUME NEW a \in Agents, Reap(a) PROVE Meant' /\ Ordered'
    BY <1>2, <1>6 DEF Reap, history
  <1>7. CASE StopReads \/ StopWrites \/ Crash \/ UNCHANGED vars
    BY <1>2, <1>7 DEF StopReads, StopWrites, Crash, vars, database, process, history
  <1> QED BY <1>3, <1>4, <1>5, <1>6, <1>7, ToldConsolidation DEF Next

\* A message of the session was first said at some place of the log
LEMMA BornWithin ==
    ASSUME TypeOK, LoggedOnce, NEW m, Meaning(m)
    PROVE  \E i \in DOMAIN log : log[i] \in m.of /\ Born(m) = i
  <1>1. DOMAIN log = 1 .. Len(log) /\ DOMAIN log \subseteq Nat
    BY DEF TypeOK
  <1>2. ASSUME NEW id \in ToSet(log) PROVE Position(id) \in DOMAIN log /\ log[Position(id)] = id
    <2>1. \E i \in 1 .. Len(log) : log[i] = id
      BY <1>1 DEF ToSet
    <2> QED BY <1>1, <2>1 DEF Position
  <1> DEFINE T == {Position(id) : id \in m.of}
  <1>3. T \subseteq Nat /\ T # {}
    BY <1>1, <1>2 DEF Meaning
  <1>4. \E i \in T : \A j \in T : i <= j
    BY <1>3, Least
  <1>5. Born(m) \in T
    BY <1>4 DEF Born
  <1>6. PICK id \in m.of : Born(m) = Position(id)
    BY <1>5
  <1> QED BY <1>2, <1>6 DEF Meaning

\* The history the next run loads is in the order of the conversation, unless a count was
\* out of date at its insertion or a consolidation left rows beside its summary
THEOREM TranscriptsAreInOrder == Spec => []TranscriptInOrder
  <1>1. TypeOK /\ Told => TranscriptInOrder
    <2> SUFFICES ASSUME TypeOK, Told, ~shifted, ~staleCount,
                        NEW x \in msgs, NEW y \in msgs, Born(x) < Born(y)
                 PROVE  x.ord < y.ord
      BY DEF TranscriptInOrder
    <2>1. Lined /\ x.ord \in Nat /\ y.ord \in Nat
      BY DEF Told, Ordered, TypeOK, Messages
    <2>2. PICK i \in DOMAIN log : log[i] \in x.of /\ Born(x) = i
      BY BornWithin DEF Told, Meant
    <2>3. PICK j \in DOMAIN log : log[j] \in y.of /\ Born(y) = j
      BY BornWithin DEF Told, Meant
    <2>4. i < j /\ i \in Nat /\ j \in Nat
      BY <2>2, <2>3 DEF TypeOK
    <2>5. x # y
      BY <2>2, <2>3, <2>4
    <2>6. ~(y.ord < x.ord)
      BY <2>1, <2>2, <2>3, <2>4 DEF Lined, Before
    <2> QED BY <2>1, <2>5, <2>6 DEF Lined
  <1> QED BY <1>1, ToldInit, ToldNext, ControlHolds, PTL DEF Spec

-----------------------------------------------------------------------------
(* The types of the web chat *)

\* What the proofs need of the constants
Given ==
  /\ PageLimit \in Nat \ {0} /\ MaxSends \in Nat
  /\ Nil \notin Sessions /\ Sessions # {}

\* Messages that a session stores; they are ranked by the order of the sends
Stored == {"user", "assistant"} \X (1..MaxSends)
Rank(m) == 2 * m[2] + (IF m[1] = "assistant" THEN 1 ELSE 0)

\* The server's frames: replies of a session, and frames of none
Frames ==
  {f \in [kind : {"create", "error", "reset"}, id : ChatMessages, sid : Sessions \cup {Nil}] :
     /\ f.sid # Nil => f.kind = "create" /\ f.id \in {"assistant"} \X (1..MaxSends)
     /\ f.sid = Nil => f.id = Notice
     /\ f.kind = "reset" => f = ResetFrame}
Letters == [n : 1..MaxSends, command : BOOLEAN, from : Sessions \cup {Nil}]
Answers == [kind : Kinds, sid : Sessions, page : Seq(Stored)]

\* Messages being handled: they get a session when it is found or created
Unrouted == {"arrived", "checked", "missing"}
Stages == Unrouted \cup {"held", "running", "asked", "replied", "completed"}
Turns ==
  {t \in [of : 1..MaxSends, command : BOOLEAN, from : Sessions \cup {Nil}, sid : Sessions \cup {Nil},
          at : Stages] :
     /\ t.sid = Nil <=> t.at \in Unrouted
     /\ t.command => t.at \in {"arrived", "missing", "held"}}

TypedServer ==
  /\ sess \in [Sessions -> {"none", "active", "archived", "deleted"}]
  /\ rows \in [Sessions -> Seq(Stored)]
  /\ turns \subseteq Turns
  /\ inbox \in Seq(Letters)
  /\ sends \in 0..MaxSends
  /\ doubled \in BOOLEAN /\ crossed \in BOOLEAN

TypedTab ==
  /\ frames \in Seq(Frames)
  /\ cur \in Sessions \cup {Nil}
  /\ view \in Seq(ChatMessages)
  /\ fetches \subseteq Answers
  /\ overtaken \in BOOLEAN

Typed == TypedServer /\ TypedTab

\* Membership of a list
LEMMA Elements ==
    ASSUME NEW S, NEW q \in Seq(S)
    PROVE  /\ ToSet(q) \subseteq S
           /\ \A x : x \in ToSet(q) <=> \E i \in 1..Len(q) : q[i] = x
  BY DEF ToSet

LEMMA AppendElements ==
    ASSUME NEW S, NEW q \in Seq(S), NEW x \in S
    PROVE  /\ Append(q, x) \in Seq(S) /\ Len(Append(q, x)) = Len(q) + 1
           /\ \A i \in 1..Len(q) : Append(q, x)[i] = q[i]
           /\ Append(q, x)[Len(q) + 1] = x
           /\ ToSet(Append(q, x)) = ToSet(q) \cup {x}
  <1>1. /\ Append(q, x) \in Seq(S) /\ Len(Append(q, x)) = Len(q) + 1
        /\ \A i \in 1..Len(q) : Append(q, x)[i] = q[i]
        /\ Append(q, x)[Len(q) + 1] = x
    OBVIOUS
  <1>2. Len(q) \in Nat
    OBVIOUS
  <1> DEFINE p == Append(q, x)
  <1> HIDE DEF p
  <1>3. p \in Seq(S) /\ Len(p) = Len(q) + 1 /\ (\A i \in 1..Len(q) : p[i] = q[i]) /\ p[Len(q) + 1] = x
    BY <1>1 DEF p
  <1>4. \A y : y \in ToSet(p) <=> y \in ToSet(q) \cup {x}
    BY <1>2, <1>3, Elements
  <1> QED BY <1>1, <1>4 DEF p

LEMMA HeadTail ==
    ASSUME NEW S, NEW q \in Seq(S), q # <<>>
    PROVE  /\ Len(q) \in Nat \ {0} /\ Head(q) = q[1] /\ Head(q) \in S
           /\ Tail(q) \in Seq(S) /\ Len(Tail(q)) = Len(q) - 1
           /\ \A i \in 1..Len(q) - 1 : Tail(q)[i] = q[i + 1]
  OBVIOUS

LEMMA NoElements == (\A S : <<>> \in Seq(S)) /\ Len(<<>>) = 0 /\ ToSet(<<>>) = {}
  BY DEF ToSet

\* The page of a session is a tail of its rows
LEMMA PageElements ==
    ASSUME Given, NEW q \in Sessions, rows[q] \in Seq(Stored)
    PROVE  /\ Page(q) \in Seq(Stored)
           /\ \E d \in Nat : /\ Len(rows[q]) = Len(Page(q)) + d
                             /\ \A i \in 1..Len(Page(q)) : Page(q)[i] = rows[q][i + d]
  <1> DEFINE r == rows[q]
             a == IF Len(r) > PageLimit THEN Len(r) - PageLimit + 1 ELSE 1
  <1>1. Len(r) \in Nat /\ a \in 1..Len(r) + 1
    BY DEF Given
  <1>2. Page(q) = SubSeq(r, a, Len(r))
    BY DEF Page
  <1> HIDE DEF a
  <1>3. r \in Seq(Stored)
    OBVIOUS
  <1> HIDE DEF r
  <1>4. /\ SubSeq(r, a, Len(r)) \in Seq(Stored)
        /\ Len(SubSeq(r, a, Len(r))) = IF a <= Len(r) THEN Len(r) - a + 1 ELSE 0
        /\ \A i \in 1..Len(r) - a + 1 : SubSeq(r, a, Len(r))[i] = r[a + i - 1]
    BY <1>1, <1>3, SubSeqProperties
  <1>5. Len(SubSeq(r, a, Len(r))) = Len(r) - a + 1 /\ a - 1 \in Nat
    BY <1>1, <1>4
  <1>6. \A i \in 1..Len(r) - a + 1 : a + i - 1 = i + (a - 1)
    BY <1>1
  <1>7. SubSeq(r, a, Len(r)) \in Seq(Stored) /\ Len(r) = Len(SubSeq(r, a, Len(r))) + (a - 1)
        /\ \A i \in 1..Len(SubSeq(r, a, Len(r))) : SubSeq(r, a, Len(r))[i] = r[i + (a - 1)]
    BY <1>1, <1>4, <1>5, <1>6
  <1> QED BY <1>2, <1>5, <1>7 DEF r

\* RemoveFirst takes out the leftmost equal element, or nothing
LEMMA Removed ==
    ASSUME NEW S, NEW s \in Seq(S), NEW p
    PROVE  /\ RemoveFirst(s, p) \in Seq(S)
           /\ \/ RemoveFirst(s, p) = s
              \/ \E k \in 1 .. Len(s) :
                     /\ s[k] = p /\ Len(RemoveFirst(s, p)) = Len(s) - 1
                     /\ \A i \in 1 .. k - 1 : RemoveFirst(s, p)[i] = s[i]
                     /\ \A i \in k .. Len(s) - 1 : RemoveFirst(s, p)[i] = s[i + 1]
  <1>1. CASE ~ \E i \in 1 .. Len(s) : s[i] = p
    BY <1>1 DEF RemoveFirst
  <1>2. CASE \E i \in 1 .. Len(s) : s[i] = p
    <2> DEFINE I == {i \in 1 .. Len(s) : s[i] = p}
    <2>1. I \subseteq Nat /\ I # {}
      BY <1>2
    <2>2. \E k \in I : \A i \in I : k <= i
      BY <2>1, Least
    <2>3. Min(I) \in I
      BY <2>2 DEF Min
    <2>4. SelectInSeq(s, LAMBDA v : v = p) = Min(I)
      BY <2>1 DEF SelectInSeq
    <2>5. RemoveFirst(s, p) = RemoveAt(s, Min(I))
      BY <1>2, <2>4 DEF RemoveFirst
    <2> DEFINE k == Min(I)
    <2>6. k \in 1 .. Len(s) /\ s[k] = p
      BY <2>3
    <2> HIDE DEF k, I
    <2>7. RemoveFirst(s, p) = SubSeq(s, 1, k - 1) \o SubSeq(s, k + 1, Len(s))
      BY <2>5 DEF RemoveAt, k
    <2>8. /\ SubSeq(s, 1, k - 1) \in Seq(S) /\ Len(SubSeq(s, 1, k - 1)) = k - 1
          /\ \A i \in 1 .. k - 1 : SubSeq(s, 1, k - 1)[i] = s[i]
      BY <2>6
    <2>9. /\ SubSeq(s, k + 1, Len(s)) \in Seq(S) /\ Len(SubSeq(s, k + 1, Len(s))) = Len(s) - k
          /\ \A i \in 1 .. Len(s) - k : SubSeq(s, k + 1, Len(s))[i] = s[k + i]
      BY <2>6
    <2> DEFINE low == SubSeq(s, 1, k - 1)
               high == SubSeq(s, k + 1, Len(s))
    <2> HIDE DEF low, high
    <2>10. low \in Seq(S) /\ Len(low) = k - 1 /\ \A i \in 1 .. k - 1 : low[i] = s[i]
      BY <2>8 DEF low
    <2>11. high \in Seq(S) /\ Len(high) = Len(s) - k /\ \A i \in 1 .. Len(s) - k : high[i] = s[k + i]
      BY <2>9 DEF high
    <2> DEFINE joined == low \o high
    <2>12. RemoveFirst(s, p) = joined
      BY <2>7 DEF low, high
    <2>13. k \in Nat /\ Len(s) \in Nat /\ Len(low) + Len(high) = Len(s) - 1
      BY <2>6, <2>10, <2>11
    <2>14. joined \in Seq(S) /\ Len(joined) = Len(low) + Len(high)
      BY <2>10, <2>11, ConcatProperties, Zenon
    <2>15. \A i \in 1 .. Len(low) + Len(high) :
               joined[i] = IF i <= Len(low) THEN low[i] ELSE high[i - Len(low)]
      BY <2>10, <2>11, ConcatProperties, Zenon
    <2> HIDE DEF joined
    <2>16. \A i \in 1 .. k - 1 : joined[i] = s[i]
      BY <2>15, <2>10, <2>6, <2>13
    <2>17. \A i \in k .. Len(s) - 1 : joined[i] = s[i + 1]
      <3> SUFFICES ASSUME NEW i \in k .. Len(s) - 1 PROVE joined[i] = s[i + 1]
        OBVIOUS
      <3> DEFINE j == i - (k - 1)
      <3>1. i \in 1 .. Len(low) + Len(high) /\ ~(i <= Len(low)) /\ i - Len(low) = j
        BY <2>10, <2>6, <2>13
      <3>2. joined[i] = high[j]
        BY <2>15, <3>1, Zenon
      <3>3. j \in 1 .. Len(s) - k /\ k + j = i + 1
        BY <2>6, <2>13
      <3> QED BY <2>11, <3>2, <3>3, Zenon
    <2>18. /\ s[k] = p /\ Len(RemoveFirst(s, p)) = Len(s) - 1
           /\ \A i \in 1 .. k - 1 : RemoveFirst(s, p)[i] = s[i]
           /\ \A i \in k .. Len(s) - 1 : RemoveFirst(s, p)[i] = s[i + 1]
      BY <2>6, <2>12, <2>13, <2>14, <2>16, <2>17
    <2> QED BY <2>6, <2>12, <2>14, <2>18, Zenon
  <1> QED BY <1>1, <1>2

LEMMA RankFacts ==
    ASSUME Given
    PROVE  /\ \A m \in Stored : /\ Rank(m) \in Nat /\ m[2] \in 1..MaxSends
                                /\ 2 * m[2] <= Rank(m) /\ Rank(m) <= 2 * m[2] + 1
           /\ \A m, k \in Stored : Rank(m) = Rank(k) => m = k
           /\ \A n \in 1..MaxSends : /\ <<"user", n>> \in Stored /\ Rank(<<"user", n>>) = 2 * n
                                     /\ <<"assistant", n>> \in Stored
                                     /\ Rank(<<"assistant", n>>) = 2 * n + 1
           /\ \A m \in Stored : m[1] = "assistant" => Rank(m) = 2 * m[2] + 1 /\ m = <<"assistant", m[2]>>
           /\ \A m \in Stored : m \in ChatMessages /\ m # Notice /\ IsReal(m)
           /\ \A m \in ChatMessages : IsReal(m) /\ m # Notice => m \in Stored
           /\ \A n \in 1..MaxSends : /\ <<"tmp", n>> \in ChatMessages /\ <<"tmp", n>> \notin Stored
                                     /\ ~IsReal(<<"tmp", n>>)
           /\ Notice \in ChatMessages /\ IsReal(Notice)
  BY DEF Given, Stored, Rank, ChatMessages, Notice, IsReal

\* What the server sends
LEMMA FrameTypes ==
    ASSUME Given
    PROVE  /\ Create(Notice, Nil) \in Frames /\ ErrorFrame \in Frames /\ ResetFrame \in Frames
           /\ \A n \in 1..MaxSends, s \in Sessions : Create(<<"assistant", n>>, s) \in Frames
  <1>1. Notice \in ChatMessages
    BY DEF ChatMessages
  <1>2. Create(Notice, Nil) \in Frames /\ ErrorFrame \in Frames /\ ResetFrame \in Frames
    BY <1>1 DEF Frames, Create, ErrorFrame, ResetFrame
  <1>3. ASSUME NEW n \in 1..MaxSends, NEW s \in Sessions PROVE Create(<<"assistant", n>>, s) \in Frames
    <2>1. <<"assistant", n>> \in ChatMessages /\ <<"assistant", n>> \in {"assistant"} \X (1..MaxSends)
      BY DEF ChatMessages
    <2>2. /\ Create(<<"assistant", n>>, s)
            \in [kind : {"create", "error", "reset"}, id : ChatMessages, sid : Sessions \cup {Nil}]
          /\ s # Nil
      BY <2>1 DEF Create, Given
    <2> QED BY <2>1, <2>2 DEF Frames, Create
  <1> QED BY <1>2, <1>3

LEMMA FrameFacts ==
    ASSUME Given, NEW f \in Frames
    PROVE  /\ f.kind \in {"create", "error", "reset"} /\ f.id \in ChatMessages
           /\ f.sid \in Sessions \cup {Nil}
           /\ f.sid # Nil => f.kind = "create" /\ f.id \in Stored /\ f.id[1] = "assistant"
           /\ f.sid = Nil => f.id = Notice
           /\ f.kind = "reset" => f = ResetFrame
  BY DEF Given, Frames, Stored

LEMMA Emitted ==
    ASSUME frames \in Seq(Frames), NEW g, g \in Seq(Frames), Emit(g)
    PROVE  frames' \in Seq(Frames)
  BY ConcatProperties DEF Emit

LEMMA Asked ==
    ASSUME Given, TypedServer, fetches \subseteq Answers, overtaken \in BOOLEAN,
           NEW k \in Kinds, NEW s \in Sessions, Ask(k, s)
    PROVE  fetches' \subseteq Answers /\ overtaken' \in BOOLEAN
  <1>1. Page(s) \in Seq(Stored)
    BY PageElements DEF TypedServer
  <1>2. Fetch(k, s) \in Answers
    BY <1>1 DEF Fetch, Answers
  <1> QED BY <1>2 DEF Ask

LEMMA TypedInit == Given /\ ChatInit => Typed
  <1> SUFFICES ASSUME Given, ChatInit PROVE Typed
    OBVIOUS
  <1>1. /\ <<>> \in Seq(Letters) /\ <<>> \in Seq(Frames) /\ <<>> \in Seq(ChatMessages)
        /\ <<>> \in Seq(Stored)
    BY NoElements
  <1>2. TypedServer
    <2>1. rows \in [Sessions -> Seq(Stored)] /\ sess \in [Sessions -> {"none", "active", "archived", "deleted"}]
      BY <1>1 DEF ChatInit
    <2>2. sends \in 0..MaxSends /\ turns \subseteq Turns /\ inbox \in Seq(Letters)
      BY <1>1 DEF Given, ChatInit
    <2> QED BY <2>1, <2>2 DEF ChatInit, TypedServer
  <1>3. TypedTab
    BY <1>1 DEF ChatInit, TypedTab
  <1> QED BY <1>2, <1>3 DEF Typed

\* A message being handled
LEMMA TurnFacts ==
    ASSUME Given, TypedServer, NEW t \in turns
    PROVE  /\ t \in Turns /\ t.of \in 1..MaxSends /\ t.command \in BOOLEAN
           /\ t.from \in Sessions \cup {Nil} /\ t.at \in Stages /\ t.sid \in Sessions \cup {Nil}
           /\ t.at \in Unrouted => t.sid = Nil
           /\ t.at \notin Unrouted => t.sid \in Sessions
           /\ t.command => t.at \in {"arrived", "missing", "held"}
  BY DEF Given, TypedServer, Turns

\* It reaches its next stage, and may get its session
LEMMA Restaged ==
    ASSUME NEW t \in Turns, NEW at \in Stages
    PROVE  /\ [t EXCEPT !.at = at].of = t.of /\ [t EXCEPT !.at = at].command = t.command
           /\ [t EXCEPT !.at = at].from = t.from /\ [t EXCEPT !.at = at].sid = t.sid
           /\ [t EXCEPT !.at = at].at = at
           /\ (at \in Unrouted <=> t.at \in Unrouted) /\ (t.command => at = "missing")
                => [t EXCEPT !.at = at] \in Turns
  BY DEF Turns

LEMMA Resided ==
    ASSUME Given, NEW t \in Turns, NEW s \in Sessions
    PROVE  /\ [t EXCEPT !.sid = s, !.at = "held"].of = t.of
           /\ [t EXCEPT !.sid = s, !.at = "held"].command = t.command
           /\ [t EXCEPT !.sid = s, !.at = "held"].from = t.from
           /\ [t EXCEPT !.sid = s, !.at = "held"].sid = s
           /\ [t EXCEPT !.sid = s, !.at = "held"].at = "held"
           /\ [t EXCEPT !.sid = s, !.at = "held"] \in Turns
  <1>1. "held" \in Stages /\ "held" \notin Unrouted /\ s # Nil
    BY DEF Stages, Unrouted, Given
  <1> QED BY <1>1 DEF Turns

\* It becomes u
Becomes(t, u) ==
  /\ t \in turns /\ u \in Turns
  /\ u.of = t.of /\ u.command = t.command /\ u.from = t.from
  /\ turns' = (turns \ {t}) \cup {u}

LEMMA GoesOn ==
    ASSUME Given, TypedServer, NEW t \in turns, NEW at \in Stages, Goes(t, at),
           at \in Unrouted <=> t.at \in Unrouted, t.command => at = "missing"
    PROVE  \E u \in Turns : Becomes(t, u) /\ u.at = at /\ u.sid = t.sid
  <1>1. t \in Turns
    BY DEF TypedServer
  <1>2. PICK u \in Turns : u = [t EXCEPT !.at = at]
    BY <1>1, Restaged
  <1>3. u.of = t.of /\ u.command = t.command /\ u.from = t.from /\ u.sid = t.sid /\ u.at = at
    BY <1>1, <1>2, Restaged
  <1> QED BY <1>2, <1>3 DEF Goes, Becomes

LEMMA GetsSession ==
    ASSUME Given, TypedServer, NEW t \in turns, NEW s \in Sessions,
           turns' = (turns \ {t}) \cup {[t EXCEPT !.sid = s, !.at = "held"]}
    PROVE  \E u \in Turns : Becomes(t, u) /\ u.at = "held" /\ u.sid = s
  <1>1. t \in Turns
    BY DEF TypedServer
  <1>2. PICK u \in Turns : u = [t EXCEPT !.sid = s, !.at = "held"]
    BY <1>1, Resided
  <1>3. u.of = t.of /\ u.command = t.command /\ u.from = t.from /\ u.sid = s /\ u.at = "held"
    BY <1>1, <1>2, Resided
  <1> QED BY <1>2, <1>3 DEF Becomes

-----------------------------------------------------------------------------
(* What a step does to the server's tables, turns and queue *)

\* A letter becomes a turn
Arrives ==
  /\ inbox # <<>> /\ inbox' = Tail(inbox)
  /\ turns' = turns \cup {[of |-> Head(inbox).n, command |-> Head(inbox).command, from |-> Head(inbox).from,
                           sid |-> Nil, at |-> "arrived"]}
  /\ UNCHANGED <<sess, rows, sends, doubled, crossed>>

\* The router lets a message pass, if it is not declined
Passes ==
  /\ \E t \in turns, u \in Turns :
       /\ Becomes(t, u) /\ ~t.command /\ t.at = "arrived" /\ u.at = "checked" /\ u.sid = Nil
       /\ crossed \/ (\E w \in turns \ {t} : ~w.command /\ (w.at # "arrived" \/ w.of < t.of)) => crossed'
  /\ crossed => crossed'
  /\ UNCHANGED <<sess, rows, inbox, sends, doubled>>

\* It is looked for a session
Looks ==
  /\ \E t \in turns, u \in Turns :
       /\ Becomes(t, u) /\ t.at \in Unrouted /\ (t.command \/ t.at # "arrived")
       /\ \/ Active = {} /\ u.at = "missing" /\ u.sid = Nil
          \/ u.at = "held" /\ u.sid \in Active
  /\ UNCHANGED <<sess, rows, inbox, sends, doubled, crossed>>

\* A session is created
Creates ==
  /\ \E t \in turns, u \in Turns :
       /\ Becomes(t, u) /\ t.at = "missing" /\ u.at = "held" /\ u.sid \in Sessions
       /\ sess[u.sid] = "none" /\ sess' = [sess EXCEPT ![u.sid] = "active"]
       /\ (\E w \in turns \ {t} : w.at = "missing") => doubled'
  /\ doubled => doubled'
  /\ UNCHANGED <<rows, inbox, sends, crossed>>

\* A run begins, or is completed
Proceeds ==
  /\ \E t \in turns, u \in Turns :
       /\ Becomes(t, u) /\ ~t.command /\ u.sid = t.sid
       /\ \/ t.at = "held" /\ u.at = "running"
          \/ t.at = "replied" /\ u.at = "completed"
  /\ UNCHANGED <<sess, rows, inbox, sends, doubled, crossed>>

\* It stores a message
Stores(t, u, y) ==
  /\ Becomes(t, u) /\ ~t.command /\ u.sid = t.sid /\ t.sid \in Sessions /\ sess[t.sid] # "deleted"
  /\ \/ t.at = "running" /\ u.at = "asked" /\ y = <<"user", t.of>>
     \/ t.at = "asked" /\ u.at = "replied" /\ y = <<"assistant", t.of>>
  /\ rows' = [rows EXCEPT ![t.sid] = Append(rows[t.sid], y)]
  /\ UNCHANGED <<sess, inbox, sends, doubled, crossed>>
Saves == \E t \in turns, u \in Turns, y \in Stored : Stores(t, u, y)

\* A turn ends; /reset archives its session
TurnEnds ==
  /\ \E t \in turns : /\ turns' = turns \ {t}
                      /\ \/ sess' = sess
                         \/ t.sid \in Sessions /\ rows[t.sid] # <<>> /\ sess' = [sess EXCEPT ![t.sid] = "archived"]
  /\ UNCHANGED <<rows, inbox, sends, doubled, crossed>>

Loses == inbox' = <<>> /\ UNCHANGED <<sess, rows, turns, sends, doubled, crossed>>

Pushes ==
  /\ sends < MaxSends /\ sends' = sends + 1
  /\ \E c \in BOOLEAN : inbox' = Append(inbox, [n |-> sends + 1, command |-> c, from |-> cur])
  /\ UNCHANGED <<sess, rows, turns, doubled, crossed>>

Archives ==
  /\ \E s \in Sessions : sess' = [sess EXCEPT ![s] = IF @ = "active" THEN "archived" ELSE @]
  /\ UNCHANGED <<rows, turns, inbox, sends, doubled, crossed>>

Deletes ==
  /\ \E s \in Sessions :
       /\ sess[s] \in {"active", "archived"}
       /\ sess' = [sess EXCEPT ![s] = "deleted"] /\ rows' = [rows EXCEPT ![s] = <<>>]
  /\ UNCHANGED <<turns, inbox, sends, doubled, crossed>>

Rests == UNCHANGED <<sess, rows, turns, inbox, sends, doubled, crossed>>

LEMMA HandleSteps ==
    ASSUME Given, TypedServer, NEW t \in turns, Handle(t)
    PROVE  Passes \/ Looks \/ Creates \/ Proceeds \/ Saves \/ TurnEnds
  <1> USE DEF serverVars, chatHistory
  <1>1. /\ t \in Turns /\ t.of \in 1..MaxSends /\ t.command \in BOOLEAN
        /\ t.at \notin Unrouted => t.sid \in Sessions
        /\ t.command => t.at \in {"arrived", "missing", "held"}
    BY TurnFacts
  <1>2. /\ {"arrived", "checked", "missing"} = Unrouted
        /\ {"held", "running", "asked", "replied", "completed"} \subseteq Stages \ Unrouted
        /\ Unrouted \subseteq Stages
    BY DEF Stages, Unrouted
  <1>3. CASE Check(t)
    <2>1. CASE HasRunning
      BY <1>3, <2>1 DEF Check, Ends, TurnEnds
    <2>2. CASE ~HasRunning
      <3>1. /\ Goes(t, "checked") /\ t.at = "arrived" /\ ~t.command
            /\ crossed' = (crossed \/ \E w \in turns \ {t} : ~w.command /\ (w.at # "arrived" \/ w.of < t.of))
            /\ UNCHANGED <<sess, rows, inbox, sends, doubled>>
        BY <1>3, <2>2 DEF Check, Stage
      <3>2. \E u \in Turns : Becomes(t, u) /\ u.at = "checked" /\ u.sid = t.sid
        BY <1>2, <3>1, GoesOn
      <3>3. t.sid = Nil
        BY <1>2, <3>1, TurnFacts
      <3> QED BY <3>1, <3>2, <3>3 DEF Passes
    <2> QED BY <2>1, <2>2
  <1>4. CASE Refuse(t)
    BY <1>4 DEF Refuse, Ends, TurnEnds
  <1>5. CASE FindSession(t)
    <2>1. /\ t.at = IF t.command THEN "arrived" ELSE "checked"
          /\ UNCHANGED <<sess, rows, inbox, sends, doubled, crossed>>
      BY <1>5 DEF FindSession, Stage
    <2>2. t.at \in Unrouted /\ (t.command \/ t.at # "arrived") /\ t.sid = Nil
      BY <1>2, <2>1, TurnFacts
    <2>3. CASE Active = {} /\ Goes(t, "missing")
      <3>1. \E u \in Turns : Becomes(t, u) /\ u.at = "missing" /\ u.sid = t.sid
        BY <1>2, <2>2, <2>3, GoesOn
      <3> QED BY <2>1, <2>2, <2>3, <3>1 DEF Looks
    <2>4. CASE \E s \in Active : turns' = (turns \ {t}) \cup {[t EXCEPT !.sid = s, !.at = "held"]}
      <3>1. PICK s \in Active : turns' = (turns \ {t}) \cup {[t EXCEPT !.sid = s, !.at = "held"]}
        BY <2>4
      <3>2. \E u \in Turns : Becomes(t, u) /\ u.at = "held" /\ u.sid = s
        BY <3>1, GetsSession DEF Active
      <3> QED BY <2>1, <2>2, <3>1, <3>2 DEF Looks
    <2> QED BY <1>5, <2>3, <2>4 DEF FindSession
  <1>6. CASE CreateSession(t)
    <2>1. PICK s : s = CHOOSE w \in Sessions : sess[w] = "none"
      OBVIOUS
    <2>2. s \in Sessions /\ sess[s] = "none"
      BY <1>6, <2>1 DEF CreateSession
    <2>3. /\ t.at = "missing" /\ sess' = [sess EXCEPT ![s] = "active"]
          /\ turns' = (turns \ {t}) \cup {[t EXCEPT !.sid = s, !.at = "held"]}
          /\ doubled' = (doubled \/ \E w \in turns \ {t} : w.at = "missing")
          /\ UNCHANGED <<rows, inbox, sends, crossed>>
      BY <1>6, <2>1 DEF CreateSession, Stage
    <2>4. \E u \in Turns : Becomes(t, u) /\ u.at = "held" /\ u.sid = s
      BY <2>2, <2>3, GetsSession
    <2>5. (\E w \in turns \ {t} : w.at = "missing") => doubled'
      BY <2>3
    <2>6. doubled => doubled'
      BY <2>3
    <2> QED BY <2>2, <2>3, <2>4, <2>5, <2>6 DEF Creates
  <1>7. CASE RunCommand(t)
    <2>1. t.at = "held" /\ turns' = turns \ {t} /\ UNCHANGED <<rows, inbox, sends, doubled, crossed>>
      BY <1>7 DEF RunCommand, Stage, Ends
    <2>2. t.sid \in Sessions
      BY <1>1, <1>2, <2>1
    <2>3. sess' = sess \/ (rows[t.sid] # <<>> /\ sess' = [sess EXCEPT ![t.sid] = "archived"])
      BY <1>7 DEF RunCommand
    <2> QED BY <2>1, <2>2, <2>3 DEF TurnEnds
  <1>8. CASE CreateRun(t)
    <2>1. /\ Goes(t, "running") /\ t.at = "held" /\ ~t.command
          /\ UNCHANGED <<sess, rows, inbox, sends, doubled, crossed>>
      BY <1>8 DEF CreateRun, Stage
    <2>2. \E u \in Turns : Becomes(t, u) /\ u.at = "running" /\ u.sid = t.sid
      BY <1>2, <2>1, GoesOn
    <2> QED BY <2>1, <2>2 DEF Proceeds
  <1>9. CASE StoreMessage(t)
    <2>1. /\ Goes(t, "asked") /\ t.at = "running"
          /\ sess[t.sid] # "deleted"
          /\ rows' = [rows EXCEPT ![t.sid] = Append(rows[t.sid], <<"user", t.of>>)]
          /\ UNCHANGED <<sess, inbox, sends, doubled, crossed>>
      BY <1>9 DEF StoreMessage, Stage
    <2>2. PICK u \in Turns : Becomes(t, u) /\ u.at = "asked" /\ u.sid = t.sid
      BY <1>1, <1>2, <2>1, GoesOn
    <2>3. t.sid \in Sessions /\ ~t.command
      BY <1>1, <1>2, <2>1
    <2>4. <<"user", t.of>> \in Stored
      BY <1>1, RankFacts
    <2>5. Stores(t, u, <<"user", t.of>>)
      BY <2>1, <2>2, <2>3 DEF Stores
    <2> QED BY <2>4, <2>5 DEF Saves
  <1>10. CASE StoreReply(t)
    <2>1. /\ Goes(t, "replied") /\ t.at = "asked"
          /\ sess[t.sid] # "deleted"
          /\ rows' = [rows EXCEPT ![t.sid] = Append(rows[t.sid], <<"assistant", t.of>>)]
          /\ UNCHANGED <<sess, inbox, sends, doubled, crossed>>
      BY <1>10 DEF StoreReply, Stage
    <2>2. PICK u \in Turns : Becomes(t, u) /\ u.at = "replied" /\ u.sid = t.sid
      BY <1>1, <1>2, <2>1, GoesOn
    <2>3. t.sid \in Sessions /\ ~t.command
      BY <1>1, <1>2, <2>1
    <2>4. <<"assistant", t.of>> \in Stored
      BY <1>1, RankFacts
    <2>5. Stores(t, u, <<"assistant", t.of>>)
      BY <2>1, <2>2, <2>3 DEF Stores
    <2> QED BY <2>4, <2>5 DEF Saves
  <1>11. CASE CompleteRun(t)
    <2>1. /\ Goes(t, "completed") /\ t.at = "replied"
          /\ UNCHANGED <<sess, rows, inbox, sends, doubled, crossed>>
      BY <1>11 DEF CompleteRun, Stage
    <2>2. ~t.command
      BY <1>1, <2>1
    <2>3. \E u \in Turns : Becomes(t, u) /\ u.at = "completed" /\ u.sid = t.sid
      BY <1>2, <2>1, <2>2, GoesOn
    <2> QED BY <2>1, <2>2, <2>3 DEF Proceeds
  <1>12. CASE Deliver(t) \/ Throw(t)
    BY <1>12 DEF Deliver, Throw, Ends, TurnEnds
  <1> QED BY <1>3, <1>4, <1>5, <1>6, <1>7, <1>8, <1>9, <1>10, <1>11, <1>12 DEF Handle

LEMMA ServerSteps ==
    ASSUME Given, TypedServer, cur \in Sessions \cup {Nil}, [ChatNext]_chatVars
    PROVE  \/ Arrives \/ Passes \/ Looks \/ Creates \/ Proceeds \/ Saves \/ TurnEnds \/ Loses \/ Pushes
           \/ Archives \/ Deletes \/ Rests
  <1> USE DEF serverVars, chatHistory
  <1>1. CASE Receive
    BY <1>1 DEF Receive, Arrives
  <1>2. CASE \E t \in turns : Handle(t)
    BY <1>2, HandleSteps
  <1>4. CASE Disconnect
    BY <1>4 DEF Disconnect, Loses, Rests
  <1>5. CASE Send
    BY <1>5 DEF Send, Push, Pushes
  <1>6. CASE Retry
    BY <1>6 DEF Retry, Push, Pushes, Rests
  <1>7. CASE StartNewChat
    BY <1>7 DEF StartNewChat, Archives, Rests
  <1>8. ASSUME NEW s \in Sessions, DeleteSession(s) PROVE Deletes \/ Rests
    BY <1>8 DEF DeleteSession, Deletes, Rests
  <1>9. CASE Reconnect \/ OnFrame \/ Poll \/ NewChatClears \/ ResetClears \/ UNCHANGED chatVars
    BY <1>9 DEF Reconnect, OnFrame, Poll, NewChatClears, ResetClears, chatVars, Rests
  <1>10. ASSUME NEW s, SelectSession(s) \/ DeleteClears(s) PROVE Rests
    BY <1>10 DEF SelectSession, DeleteClears, Rests
  <1>11. ASSUME NEW f \in fetches, ApplyFetch(f) \/ FetchFails(f) PROVE Rests
    BY <1>11 DEF ApplyFetch, FetchFails, Rests
  <1> QED BY <1>1, <1>2, <1>4, <1>5, <1>6, <1>7, <1>8, <1>9, <1>10, <1>11
          DEF ChatNext, Server, Tab, User

-----------------------------------------------------------------------------
(* The types are kept *)

LEMMA BecomesTypes ==
    ASSUME TypedServer, NEW t, NEW u, Becomes(t, u)
    PROVE  turns' \subseteq Turns
  BY DEF TypedServer, Becomes

LEMMA TypedServerNext ==
    ASSUME Given, TypedServer, cur \in Sessions \cup {Nil}, doubled' \in BOOLEAN, crossed' \in BOOLEAN,
           [ChatNext]_chatVars
    PROVE  TypedServer'
  <1>1. CASE Arrives
    <2>1. inbox' \in Seq(Letters) /\ Head(inbox) \in Letters
      BY <1>1, HeadTail DEF Arrives, TypedServer
    <2>2. [of |-> Head(inbox).n, command |-> Head(inbox).command, from |-> Head(inbox).from,
           sid |-> Nil, at |-> "arrived"] \in Turns
      BY <2>1 DEF Letters, Turns, Stages, Unrouted
    <2> QED BY <1>1, <2>1, <2>2 DEF Arrives, TypedServer
  <1>2. CASE Passes \/ Looks \/ Proceeds
    <2>1. turns' \subseteq Turns
      BY <1>2, BecomesTypes DEF Passes, Looks, Proceeds
    <2> QED BY <1>2, <2>1 DEF Passes, Looks, Proceeds, TypedServer
  <1>3. CASE Creates
    <2>1. PICK t \in turns, u \in Turns :
            Becomes(t, u) /\ u.sid \in Sessions /\ sess' = [sess EXCEPT ![u.sid] = "active"]
      BY <1>3 DEF Creates
    <2>2. turns' \subseteq Turns
      BY <2>1, BecomesTypes
    <2> QED BY <1>3, <2>1, <2>2 DEF Creates, TypedServer
  <1>4. CASE Saves
    <2>1. PICK t \in turns, u \in Turns, y \in Stored : Stores(t, u, y)
      BY <1>4 DEF Saves
    <2>2. turns' \subseteq Turns
      BY <2>1, BecomesTypes DEF Stores
    <2>3. t.sid \in Sessions /\ Append(rows[t.sid], y) \in Seq(Stored)
      BY <2>1, AppendElements DEF Stores, TypedServer
    <2>4. rows' \in [Sessions -> Seq(Stored)]
      BY <2>1, <2>3 DEF Stores, TypedServer
    <2> QED BY <2>1, <2>2, <2>4 DEF Stores, TypedServer
  <1>5. CASE TurnEnds
    <2>1. PICK t \in turns :
            /\ turns' = turns \ {t}
            /\ sess' = sess \/ (t.sid \in Sessions /\ sess' = [sess EXCEPT ![t.sid] = "archived"])
      BY <1>5 DEF TurnEnds
    <2> QED BY <1>5, <2>1 DEF TurnEnds, TypedServer
  <1>6. CASE Loses
    BY <1>6, NoElements DEF Loses, TypedServer
  <1>7. CASE Pushes
    <2>1. PICK c \in BOOLEAN : inbox' = Append(inbox, [n |-> sends + 1, command |-> c, from |-> cur])
      BY <1>7 DEF Pushes
    <2>2. sends + 1 \in 1..MaxSends
      BY <1>7 DEF Given, Pushes, TypedServer
    <2>3. [n |-> sends + 1, command |-> c, from |-> cur] \in Letters
      BY <2>2 DEF Letters
    <2>4. inbox' \in Seq(Letters)
      BY <2>1, <2>3, AppendElements DEF TypedServer
    <2> QED BY <1>7, <2>2, <2>4 DEF Pushes, TypedServer
  <1>8. CASE Archives
    BY <1>8 DEF Archives, TypedServer
  <1>9. CASE Deletes
    <2>1. <<>> \in Seq(Stored)
      BY NoElements
    <2> QED BY <1>9, <2>1 DEF Deletes, TypedServer
  <1>10. CASE Rests
    BY <1>10 DEF Rests, TypedServer
  <1> QED BY <1>1, <1>2, <1>3, <1>4, <1>5, <1>6, <1>7, <1>8, <1>9, <1>10, ServerSteps

LEMMA PushTypes ==
    ASSUME Given, TypedServer, cur \in Sessions \cup {Nil}, NEW base \in Seq(ChatMessages),
           NEW c \in BOOLEAN, Push(base, c)
    PROVE  view' \in Seq(ChatMessages) /\ sends + 1 \in 1..MaxSends
  <1>1. sends + 1 \in 1..MaxSends
    BY DEF Given, TypedServer, Push
  <1>2. <<"tmp", sends + 1>> \in ChatMessages
    BY <1>1, RankFacts
  <1>3. view' \in Seq(ChatMessages)
    BY <1>2, AppendElements DEF Push
  <1> QED BY <1>1, <1>3

\* What the server answers a message with
LEMMA HandleTypes ==
    ASSUME Given, Typed, NEW t \in turns, Handle(t)
    PROVE  frames' \in Seq(Frames) /\ doubled' \in BOOLEAN /\ crossed' \in BOOLEAN
           /\ UNCHANGED <<tabVars, overtaken>>
  <1> USE DEF serverVars, tabVars, chatHistory
  <1>1. /\ <<Create(Notice, Nil)>> \in Seq(Frames) /\ <<ErrorFrame>> \in Seq(Frames)
        /\ <<Create(Notice, Nil), ResetFrame>> \in Seq(Frames)
    BY FrameTypes
  <1>2. frames \in Seq(Frames) /\ doubled \in BOOLEAN /\ crossed \in BOOLEAN
    BY DEF Typed, TypedServer, TypedTab
  <1>3. CASE FindSession(t) \/ CreateRun(t) \/ StoreMessage(t) \/ StoreReply(t) \/ CompleteRun(t)
    BY <1>2, <1>3 DEF FindSession, CreateRun, StoreMessage, StoreReply, CompleteRun
  <1>4. CASE CreateSession(t)
    BY <1>2, <1>4 DEF CreateSession
  <1>5. CASE Check(t)
    <2>1. frames' = frames \/ Emit(<<Create(Notice, Nil)>>)
      BY <1>5 DEF Check
    <2>2. frames' \in Seq(Frames)
      BY <1>1, <1>2, <2>1, Emitted
    <2> QED BY <1>2, <1>5, <2>2 DEF Check
  <1>6. CASE Refuse(t) \/ Throw(t)
    <2>1. frames' \in Seq(Frames)
      BY <1>1, <1>2, <1>6, Emitted DEF Refuse, Throw
    <2> QED BY <1>2, <1>6, <2>1 DEF Refuse, Throw
  <1>7. CASE RunCommand(t)
    <2>1. Emit(<<Create(Notice, Nil)>>) \/ Emit(<<Create(Notice, Nil), ResetFrame>>)
      BY <1>7 DEF RunCommand
    <2>2. frames' \in Seq(Frames)
      BY <1>1, <1>2, <2>1, Emitted
    <2> QED BY <1>2, <1>7, <2>2 DEF RunCommand
  <1>8. CASE Deliver(t)
    <2>1. t.of \in 1..MaxSends /\ t.at = "completed" /\ (t.at \notin Unrouted => t.sid \in Sessions)
      BY <1>8, TurnFacts DEF Deliver, Stage, Typed
    <2>2. <<Create(<<"assistant", t.of>>, t.sid)>> \in Seq(Frames)
      BY <2>1, FrameTypes DEF Unrouted
    <2>3. frames' \in Seq(Frames)
      BY <1>2, <1>8, <2>2, Emitted DEF Deliver
    <2> QED BY <1>2, <1>8, <2>3 DEF Deliver
  <1> QED BY <1>3, <1>4, <1>5, <1>6, <1>7, <1>8 DEF Handle

LEMMA OnFrameTypes == Given /\ Typed /\ OnFrame => TypedTab'
  <1> SUFFICES ASSUME Given, Typed, OnFrame PROVE TypedTab'
    OBVIOUS
  <1> DEFINE f == Head(frames)
  <1>1. frames' \in Seq(Frames) /\ f \in Frames
    BY HeadTail DEF OnFrame, Typed, TypedTab
  <1>2. f.id \in ChatMessages /\ f.sid \in Sessions \cup {Nil}
    BY <1>1, FrameFacts
  <1> HIDE DEF f
  <1>3. OnCreate(f) \/ OnError \/ OnReset
    BY DEF OnFrame, f
  <1>4. view' \in Seq(ChatMessages) /\ cur' \in Sessions \cup {Nil}
    <2>1. CASE OnCreate(f)
      <3>1. Append(view, f.id) \in Seq(ChatMessages)
        BY <1>2, AppendElements DEF Typed, TypedTab
      <3> QED BY <2>1, <3>1, <1>2 DEF OnCreate, Typed, TypedTab
    <2>2. CASE OnError
      BY <2>2 DEF OnError, Typed, TypedTab
    <2>3. CASE OnReset
      BY <2>3 DEF OnReset, Typed, TypedTab
    <2> QED BY <1>3, <2>1, <2>2, <2>3
  <1>5. UNCHANGED <<fetches, overtaken>>
    BY DEF OnFrame, chatHistory
  <1> QED BY <1>1, <1>4, <1>5 DEF Typed, TypedTab

LEMMA FetchTypes ==
    ASSUME Given, Typed, NEW f \in fetches, ApplyFetch(f) \/ FetchFails(f)
    PROVE  TypedTab'
  <1>1. f \in Answers /\ f.page \in Seq(Stored)
    BY DEF Typed, TypedTab, Answers
  <1>2. f.page \in Seq(ChatMessages)
    <2>1. \A i \in 1..Len(f.page) : f.page[i] \in ChatMessages
      BY <1>1, RankFacts
    <2>2. \A T : f.page \in Seq(T) => /\ Len(f.page) \in Nat /\ DOMAIN f.page = 1..Len(f.page)
                                     /\ f.page = [i \in 1..Len(f.page) |-> f.page[i]]
      OBVIOUS
    <2>3. f.page \in [1..Len(f.page) -> ChatMessages] /\ Len(f.page) \in Nat
      BY <1>1, <2>1, <2>2
    <2> HIDE DEF ChatMessages
    <2> QED BY <2>3, SeqDef
  <1>3. view' \in Seq(ChatMessages)
    BY <1>2 DEF ApplyFetch, FetchFails, Typed, TypedTab
  <1> QED BY <1>3 DEF ApplyFetch, FetchFails, Typed, TypedTab, chatHistory

\* The view without one of its copies
LEMMA RetryTypes ==
    ASSUME Given, Typed, Retry
    PROVE  TypedTab'
  <1>1. PICK n \in failed :
          LET rest == RemoveFirst(view, <<"tmp", n>>) IN
          /\ IF online THEN Push(rest, FALSE)
                       ELSE view' = rest /\ UNCHANGED <<sends, inbox, pending>>
          /\ UNCHANGED <<frames, cur, fetches, chatHistory>>
    BY DEF Retry
  <1>2. RemoveFirst(view, <<"tmp", n>>) \in Seq(ChatMessages)
    BY Removed DEF Typed, TypedTab
  <1>3. view' \in Seq(ChatMessages)
    BY <1>1, <1>2, PushTypes DEF Typed, TypedTab
  <1> QED BY <1>1, <1>3 DEF Typed, TypedTab, chatHistory

LEMMA TypedNext == Given /\ Typed /\ [ChatNext]_chatVars => Typed'
  <1> SUFFICES ASSUME Given, Typed, [ChatNext]_chatVars PROVE Typed'
    OBVIOUS
  <1>s. ASSUME TypedTab', doubled' \in BOOLEAN /\ crossed' \in BOOLEAN PROVE Typed'
    BY <1>s, TypedServerNext DEF Typed, TypedTab
  <1>u. ASSUME TypedTab', UNCHANGED <<doubled, crossed>> PROVE Typed'
    BY <1>s, <1>u DEF Typed, TypedServer
  <1> USE DEF serverVars, tabVars, chatHistory
  <1>a. <<>> \in Seq(ChatMessages) /\ <<>> \in Seq(Frames)
    BY NoElements
  <1>1. CASE Receive
    BY <1>1, <1>u DEF Receive, Typed, TypedTab
  <1>2. ASSUME NEW t \in turns, Handle(t) PROVE Typed'
    <2>1. frames' \in Seq(Frames) /\ doubled' \in BOOLEAN /\ crossed' \in BOOLEAN
          /\ UNCHANGED <<cur, view, fetches, overtaken>>
      BY <1>2, HandleTypes
    <2> QED BY <2>1, <1>s DEF Typed, TypedTab
  <1>3. CASE Reconnect
    <2>1. CASE cur = Nil
      BY <1>3, <1>u, <2>1 DEF Reconnect, Typed, TypedTab
    <2>2. CASE cur # Nil
      <3>1. Ask("reopen", cur) /\ "reopen" \in Kinds /\ cur \in Sessions
        BY <1>3, <2>2 DEF Reconnect, Kinds, Typed, TypedTab
      <3>2. fetches' \subseteq Answers /\ overtaken' \in BOOLEAN
        BY <3>1, Asked DEF Typed, TypedTab
      <3> QED BY <1>3, <1>u, <3>2 DEF Reconnect, Typed, TypedTab
    <2> QED BY <2>1, <2>2
  <1>4. CASE OnFrame
    BY <1>4, <1>u, OnFrameTypes DEF OnFrame
  <1>5. CASE Poll
    <2>1. Ask("poll", cur) /\ "poll" \in Kinds /\ cur \in Sessions
      BY <1>5 DEF Poll, Kinds, Typed, TypedTab
    <2>2. fetches' \subseteq Answers /\ overtaken' \in BOOLEAN
      BY <2>1, Asked DEF Typed, TypedTab
    <2> QED BY <1>5, <1>u, <2>2 DEF Poll, Typed, TypedTab
  <1>6. CASE NewChatClears \/ ResetClears
    BY <1>6, <1>a, <1>u DEF NewChatClears, ResetClears, Blank, Typed, TypedTab
  <1>7. CASE Send
    <2>1. PICK c \in BOOLEAN : Push(view, c)
      BY <1>7 DEF Send
    <2>2. view' \in Seq(ChatMessages)
      BY <2>1, PushTypes DEF Typed, TypedTab
    <2> QED BY <1>7, <1>u, <2>2 DEF Send, Typed, TypedTab
  <1>8. CASE Retry
    BY <1>8, <1>u, RetryTypes DEF Retry
  <1>9. CASE StartNewChat
    BY <1>9, <1>a, <1>u DEF StartNewChat, Blank, Typed, TypedTab
  <1>10. ASSUME NEW s \in Sessions, SelectSession(s) PROVE Typed'
    <2>1. Ask("open", s) /\ "open" \in Kinds
      BY <1>10 DEF SelectSession, Kinds
    <2>2. fetches' \subseteq Answers /\ overtaken' \in BOOLEAN
      BY <2>1, Asked DEF Typed, TypedTab
    <2> QED BY <1>10, <1>a, <1>u, <2>2 DEF SelectSession, Typed, TypedTab
  <1>11. ASSUME NEW s \in Sessions, DeleteSession(s) PROVE Typed'
    BY <1>11, <1>u DEF DeleteSession, Typed, TypedTab
  <1>12. ASSUME NEW s, DeleteClears(s) PROVE Typed'
    BY <1>12, <1>a, <1>u DEF DeleteClears, Blank, Typed, TypedTab
  <1>13. CASE Disconnect
    BY <1>13, <1>a, <1>u DEF Disconnect, Typed, TypedTab
  <1>14. ASSUME NEW f \in fetches, ApplyFetch(f) \/ FetchFails(f) PROVE Typed'
    BY <1>14, <1>u, FetchTypes DEF ApplyFetch, FetchFails
  <1>15. CASE UNCHANGED chatVars
    BY <1>15, <1>u DEF chatVars, Typed, TypedTab
  <1> QED BY <1>1, <1>2, <1>3, <1>4, <1>5, <1>6, <1>7, <1>8, <1>9, <1>10, <1>11, <1>12, <1>13, <1>14, <1>15
          DEF ChatNext, Server, Tab, User

-----------------------------------------------------------------------------
(* The server: rows are stored in the order of the sends *)

\* Messages on their way to an agent, and the latest row each may have stored
Working == {t \in turns : ~t.command}
Answered == {"replied", "completed"}
Reached(t) == IF t.at \in Answered THEN 2 * t.of + 1 ELSE IF t.at = "asked" THEN 2 * t.of ELSE 2 * t.of - 1

\* A rank below which, or at which, nothing more is stored
Past(k) ==
  /\ k <= 2 * sends + 1
  /\ \A i \in 1..Len(inbox) : k < 2 * inbox[i].n
  /\ \A t \in Working : k <= Reached(t)

Numbered ==
  /\ \A i \in 1..Len(inbox) : inbox[i].n <= sends
  /\ \A i, j \in 1..Len(inbox) : i < j => inbox[i].n < inbox[j].n
  /\ \A t \in turns : t.of <= sends /\ \A i \in 1..Len(inbox) : t.of < inbox[i].n
  /\ \A t, u \in turns : t.of = u.of => t = u

\* One message at a time is past the router's check, and none before it is still to come
Orderly ==
  \A t, u \in Working : t # u /\ t.at # "arrived" => u.at = "arrived" /\ t.of < u.of

LEMMA LetterFacts ==
    ASSUME TypedServer
    PROVE  /\ Len(inbox) \in Nat
           /\ \A i \in 1..Len(inbox) : inbox[i].n \in 1..MaxSends
           /\ sends \in 0..MaxSends
  <1>1. \A l \in Letters : l.n \in 1..MaxSends
    BY DEF Letters
  <1>2. \A i \in 1..Len(inbox) : inbox[i] \in Letters
    BY DEF TypedServer
  <1>3. Len(inbox) \in Nat
    BY DEF TypedServer
  <1> QED BY <1>1, <1>2, <1>3 DEF TypedServer

\* What is left of the queue
LEMMA Received ==
    ASSUME TypedServer, inbox # <<>>, inbox' = Tail(inbox)
    PROVE  /\ Len(inbox) \in Nat \ {0} /\ Head(inbox).n \in 1..MaxSends /\ Head(inbox) = inbox[1]
           /\ Head(inbox) \in Letters /\ 1 \in 1..Len(inbox)
           /\ Len(inbox') = Len(inbox) - 1
           /\ \A i \in 1..Len(inbox') : inbox'[i] = inbox[i + 1] /\ i + 1 \in 1..Len(inbox)
  <1>1. \A l \in Letters : l.n \in 1..MaxSends
    BY DEF Letters
  <1>2. /\ Len(inbox) \in Nat \ {0} /\ Head(inbox) = inbox[1] /\ Head(inbox) \in Letters
        /\ Len(Tail(inbox)) = Len(inbox) - 1
        /\ \A i \in 1..Len(inbox) - 1 : Tail(inbox)[i] = inbox[i + 1]
    BY HeadTail DEF TypedServer
  <1> QED BY <1>1, <1>2

\* The turn of its first letter
LEMMA Arrived ==
    ASSUME TypedServer, Arrives
    PROVE  \E u \in Turns : /\ turns' = turns \cup {u} /\ u.of = inbox[1].n /\ u.from = inbox[1].from
                            /\ u.sid = Nil /\ u.at = "arrived"
  <1>1. Head(inbox) \in Letters /\ Head(inbox) = inbox[1]
    BY Received DEF Arrives
  <1>2. PICK u : u = [of |-> Head(inbox).n, command |-> Head(inbox).command, from |-> Head(inbox).from,
                      sid |-> Nil, at |-> "arrived"]
    OBVIOUS
  <1>3. u \in Turns
    BY <1>1, <1>2 DEF Letters, Turns, Stages, Unrouted
  <1>4. turns' = turns \cup {u} /\ u.of = inbox[1].n /\ u.from = inbox[1].from /\ u.sid = Nil /\ u.at = "arrived"
    BY <1>1, <1>2 DEF Arrives
  <1> QED BY <1>3, <1>4

LEMMA Pushed ==
    ASSUME Given, TypedServer, cur \in Sessions \cup {Nil}, Pushes
    PROVE  /\ sends + 1 \in 1..MaxSends /\ sends' = sends + 1 /\ Len(inbox) \in Nat
           /\ Len(inbox') = Len(inbox) + 1
           /\ \A i \in 1..Len(inbox) : inbox'[i] = inbox[i]
           /\ inbox'[Len(inbox) + 1].n = sends + 1 /\ inbox'[Len(inbox) + 1].from = cur
  <1>1. sends + 1 \in 1..MaxSends /\ sends' = sends + 1
    BY DEF Given, TypedServer, Pushes
  <1>2. PICK c \in BOOLEAN : inbox' = Append(inbox, [n |-> sends + 1, command |-> c, from |-> cur])
    BY DEF Pushes
  <1>3. [n |-> sends + 1, command |-> c, from |-> cur] \in Letters
    BY <1>1 DEF Letters
  <1>4. Len(inbox) \in Nat
    BY LetterFacts
  <1>5. /\ Len(inbox') = Len(inbox) + 1 /\ \A i \in 1..Len(inbox) : inbox'[i] = inbox[i]
        /\ inbox'[Len(inbox) + 1] = [n |-> sends + 1, command |-> c, from |-> cur]
    BY <1>2, <1>3, AppendElements DEF TypedServer
  <1> QED BY <1>1, <1>4, <1>5

\* The turns after a step: as they were, one further, or one that arrived
Further ==
  \A w \in turns' :
    \/ w \in turns
    \/ \E t \in turns : /\ w.of = t.of /\ w.command = t.command /\ w.from = t.from
                        /\ Reached(t) <= Reached(w)
                        /\ turns' = (turns \ {t}) \cup {w}
    \/ /\ inbox # <<>> /\ w.of = Head(inbox).n /\ w.at = "arrived" /\ w.sid = Nil
       /\ w.from = Head(inbox).from /\ turns' = turns \cup {w}

LEMMA TurnsGo ==
    ASSUME Given, Typed, [ChatNext]_chatVars
    PROVE  Further
  <1>1. \A t \in turns : t.of \in Nat /\ t.at \in Stages
    BY TurnFacts DEF Typed
  <1>2. CASE Passes \/ Looks \/ Creates \/ Proceeds \/ Saves
    <2>1. PICK t \in turns, u \in Turns :
            /\ Becomes(t, u)
            /\ u.at \in {"replied", "completed"} \/ t.at \notin {"asked", "replied", "completed"}
            /\ t.at = "replied" => u.at = "completed"
            /\ u.at = "replied" => t.at # "completed"
            /\ t.at # "completed"
      BY <1>2 DEF Passes, Looks, Creates, Proceeds, Saves, Stores, Unrouted
    <2>2. Reached(t) <= Reached(u)
      BY <1>1, <2>1 DEF Becomes, Reached, Answered
    <2> QED BY <2>1, <2>2 DEF Becomes, Further
  <1>3. CASE Arrives
    BY <1>3 DEF Arrives, Further
  <1>4. CASE TurnEnds
    BY <1>4 DEF TurnEnds, Further
  <1>5. CASE Loses \/ Pushes \/ Archives \/ Deletes \/ Rests
    BY <1>5 DEF Loses, Pushes, Archives, Deletes, Rests, Further
  <1> QED BY <1>2, <1>3, <1>4, <1>5, ServerSteps DEF Typed, TypedTab

\* The queue after a step
Queued ==
  \/ UNCHANGED <<inbox, sends>>
  \/ Loses
  \/ Arrives
  \/ Pushes

LEMMA QueueSteps ==
    ASSUME Given, Typed, [ChatNext]_chatVars
    PROVE  Queued
  BY ServerSteps DEF Queued, Typed, TypedTab, Passes, Looks, Creates, Proceeds, Saves, Stores, TurnEnds, Archives,
                     Deletes, Rests

LEMMA NumberedNext == Given /\ Typed /\ Numbered /\ [ChatNext]_chatVars => Numbered'
  <1> SUFFICES ASSUME Given, Typed, Numbered, [ChatNext]_chatVars PROVE Numbered'
    OBVIOUS
  <1>1. /\ Len(inbox) \in Nat /\ \A i \in 1..Len(inbox) : inbox[i].n \in 1..MaxSends
        /\ sends \in 0..MaxSends
    BY LetterFacts DEF Typed
  <1>2. \A t \in turns : t.of \in 1..MaxSends
    BY TurnFacts DEF Typed
  <1>3. CASE Arrives
    <2>1. /\ Len(inbox') = Len(inbox) - 1 /\ Head(inbox) = inbox[1] /\ 1 \in 1..Len(inbox)
          /\ \A i \in 1..Len(inbox') : inbox'[i] = inbox[i + 1] /\ i + 1 \in 1..Len(inbox)
          /\ UNCHANGED sends
      BY <1>3, Received DEF Arrives, Typed
    <2>2. \A i \in 1..Len(inbox') : inbox'[i].n <= sends'
      BY <2>1 DEF Numbered
    <2>3. ASSUME NEW i \in 1..Len(inbox'), NEW j \in 1..Len(inbox'), i < j
          PROVE  inbox'[i].n < inbox'[j].n
      <3>1. i + 1 \in 1..Len(inbox) /\ j + 1 \in 1..Len(inbox) /\ i + 1 < j + 1
        BY <1>1, <2>1, <2>3
      <3> QED BY <2>1, <3>1 DEF Numbered
    <2>4. ASSUME NEW i \in 1..Len(inbox') PROVE inbox[1].n < inbox'[i].n
      <3>1. i + 1 \in 1..Len(inbox) /\ 1 < i + 1
        BY <1>1, <2>1
      <3> QED BY <2>1, <3>1 DEF Numbered
    <2>5. ASSUME NEW t \in turns' PROVE t.of = inbox[1].n \/ t \in turns
      BY <1>3, <2>1, <2>5 DEF Arrives
    <2>6. ASSUME NEW t \in turns' PROVE t.of <= sends' /\ \A i \in 1..Len(inbox') : t.of < inbox'[i].n
      <3>1. CASE t.of = inbox[1].n
        BY <2>1, <2>4, <3>1 DEF Numbered
      <3>2. CASE t \in turns
        BY <2>1, <3>2 DEF Numbered
      <3> QED BY <2>5, <3>1, <3>2
    <2>7. \A t \in turns : t.of # inbox[1].n
      BY <1>1, <1>2, <2>1 DEF Numbered
    <2>8. PICK u : turns' = turns \cup {u} /\ u.of = inbox[1].n
      BY <1>3, Arrived DEF Typed
    <2>9. \A t, w \in turns' : t.of = w.of => t = w
      BY <2>7, <2>8 DEF Numbered
    <2> QED BY <2>2, <2>3, <2>6, <2>9 DEF Numbered
  <1>4. ASSUME NEW t \in turns', ~Arrives PROVE \E w \in turns : t.of = w.of
    <2>1. CASE Loses \/ Pushes \/ Archives \/ Deletes \/ Rests \/ TurnEnds
      BY <2>1 DEF Loses, Pushes, Archives, Deletes, Rests, TurnEnds
    <2>2. CASE Passes \/ Looks \/ Creates \/ Proceeds \/ Saves
      <3>1. PICK w \in turns, u \in Turns : Becomes(w, u)
        BY <2>2 DEF Passes, Looks, Creates, Proceeds, Saves, Stores
      <3> QED BY <3>1 DEF Becomes
    <2> QED BY <1>4, <2>1, <2>2, ServerSteps DEF Typed, TypedTab
  <1>d. ASSUME NEW t \in turns', NEW w \in turns', t.of = w.of, ~Arrives PROVE t = w
    <2>1. CASE Loses \/ Pushes \/ Archives \/ Deletes \/ Rests \/ TurnEnds
      BY <1>d, <2>1 DEF Loses, Pushes, Archives, Deletes, Rests, TurnEnds, Numbered
    <2>2. CASE Passes \/ Looks \/ Creates \/ Proceeds \/ Saves
      <3>1. PICK v \in turns, u \in Turns : Becomes(v, u)
        BY <2>2 DEF Passes, Looks, Creates, Proceeds, Saves, Stores
      <3> QED BY <1>d, <3>1 DEF Becomes, Numbered
    <2> QED BY <1>d, <2>1, <2>2, ServerSteps DEF Typed, TypedTab
  <1>5. CASE UNCHANGED <<inbox, sends>> /\ ~Arrives
    <2>1. \A t, w \in turns' : t.of = w.of => t = w
      BY <1>d, <1>5
    <2> QED BY <1>4, <1>5, <2>1 DEF Numbered
  <1>6. CASE Loses
    <2>1. Len(inbox') = 0 /\ UNCHANGED <<turns, sends>>
      BY <1>6, NoElements DEF Loses
    <2> QED BY <2>1 DEF Numbered
  <1>7. CASE Pushes
    <2>1. /\ sends' = sends + 1 /\ Len(inbox') = Len(inbox) + 1
          /\ \A i \in 1..Len(inbox) : inbox'[i] = inbox[i]
          /\ inbox'[Len(inbox) + 1].n = sends + 1 /\ UNCHANGED turns
      BY <1>7, Pushed DEF Typed, TypedTab, Pushes
    <2>2. \A i \in 1..Len(inbox') : i \in 1..Len(inbox) \/ i = Len(inbox) + 1
      BY <1>1, <2>1
    <2>3. \A i \in 1..Len(inbox') : inbox'[i].n <= sends'
      BY <1>1, <2>1, <2>2 DEF Numbered
    <2>4. \A i, j \in 1..Len(inbox') : i < j => inbox'[i].n < inbox'[j].n
      BY <1>1, <2>1, <2>2 DEF Numbered
    <2>5. \A t \in turns' : t.of <= sends' /\ \A i \in 1..Len(inbox') : t.of < inbox'[i].n
      BY <1>1, <1>2, <2>1, <2>2 DEF Numbered
    <2>6. \A t, w \in turns' : t.of = w.of => t = w
      BY <2>1 DEF Numbered
    <2> QED BY <2>3, <2>4, <2>5, <2>6 DEF Numbered
  <1> QED BY <1>3, <1>5, <1>6, <1>7, QueueSteps DEF Queued

\* What is past stays past
LEMMA PastKeeps ==
    ASSUME Given, Typed, Numbered, [ChatNext]_chatVars, NEW k \in Nat, Past(k)
    PROVE  Past(k)'
  <1>1. /\ Len(inbox) \in Nat /\ \A i \in 1..Len(inbox) : inbox[i].n \in 1..MaxSends
        /\ sends \in 0..MaxSends
    BY LetterFacts DEF Typed
  <1>2. \A t \in turns : t.of \in 1..MaxSends
    BY TurnFacts DEF Typed
  <1>3. ASSUME NEW w \in Working' PROVE k <= Reached(w)
    <2>1. CASE w \in turns
      BY <1>3, <2>1 DEF Working, Past
    <2>2. ASSUME NEW t \in turns, w.of = t.of, w.command = t.command, Reached(t) <= Reached(w)
          PROVE  k <= Reached(w)
      <3>1. k <= Reached(t) /\ Reached(t) \in Int /\ Reached(w) \in Int
        BY <1>2, <1>3, <2>2 DEF Working, Past, Reached
      <3> QED BY <2>2, <3>1
    <2>3. CASE inbox # <<>> /\ w.of = Head(inbox).n /\ w.at = "arrived"
      <3>1. Head(inbox) = inbox[1] /\ 1 \in 1..Len(inbox)
        BY <2>3, HeadTail DEF Typed, TypedServer
      <3>2. k < 2 * inbox[1].n /\ Reached(w) = 2 * inbox[1].n - 1
        BY <2>3, <3>1 DEF Past, Reached, Answered
      <3> QED BY <1>1, <3>1, <3>2
    <2>4. w \in turns'
      BY <1>3 DEF Working
    <2> QED BY <2>1, <2>2, <2>3, <2>4, TurnsGo DEF Further
  <1>4. /\ k <= 2 * sends' + 1
        /\ \A i \in 1..Len(inbox') : k < 2 * inbox'[i].n
    <2>1. CASE UNCHANGED <<inbox, sends>>
      BY <2>1 DEF Past
    <2>2. CASE Loses
      BY <2>2, NoElements DEF Loses, Past
    <2>3. CASE Arrives
      <3>1. /\ \A i \in 1..Len(inbox') : inbox'[i] = inbox[i + 1] /\ i + 1 \in 1..Len(inbox)
            /\ UNCHANGED sends
        BY <2>3, Received DEF Arrives, Typed
      <3> QED BY <3>1 DEF Past
    <2>4. CASE Pushes
      <3>1. /\ sends' = sends + 1 /\ Len(inbox') = Len(inbox) + 1
            /\ \A i \in 1..Len(inbox) : inbox'[i] = inbox[i]
            /\ inbox'[Len(inbox) + 1].n = sends + 1
        BY <2>4, Pushed DEF Typed, TypedTab
      <3> QED BY <1>1, <3>1 DEF Past
    <2> QED BY <2>1, <2>2, <2>3, <2>4, QueueSteps DEF Queued
  <1> QED BY <1>3, <1>4 DEF Past

LEMMA CrossedStays ==
    ASSUME Given, Typed, [ChatNext]_chatVars, ~crossed'
    PROVE  ~crossed
  BY ServerSteps DEF Typed, TypedTab, Arrives, Passes, Looks, Creates, Proceeds, Saves, Stores, TurnEnds, Loses,
                     Pushes, Archives, Deletes, Rests

LEMMA OrderlyNext ==
    ASSUME Given, Typed, Numbered, Orderly, [ChatNext]_chatVars, ~crossed'
    PROVE  Orderly'
  <1>1. \A t \in turns : t.of \in 1..MaxSends
    BY TurnFacts DEF Typed
  <1>2. ~crossed
    BY CrossedStays
  <1>3. CASE Arrives
    <2>1. Head(inbox) = inbox[1] /\ 1 \in 1..Len(inbox)
      BY <1>3, Received DEF Arrives, Typed
    <2>2. PICK u : turns' = turns \cup {u} /\ u.of = inbox[1].n /\ u.at = "arrived"
      BY <1>3, Arrived DEF Typed
    <2>3. \A t \in turns : t.of < u.of
      BY <2>1, <2>2 DEF Numbered
    <2> QED BY <2>2, <2>3 DEF Orderly, Working
  <1>4. CASE Passes
    <2>1. PICK t \in turns, u \in Turns :
            /\ Becomes(t, u) /\ ~t.command /\ t.at = "arrived"
            /\ \A w \in turns \ {t} : ~w.command => w.at = "arrived" /\ ~(w.of < t.of)
      BY <1>2, <1>4 DEF Passes
    <2>2. \A w \in turns \ {t} : w.of # t.of
      BY <2>1 DEF Numbered
    <2>3. \A w \in Working' : w = u \/ (w.at = "arrived" /\ u.of < w.of)
      BY <1>1, <2>1, <2>2 DEF Becomes, Working
    <2> QED BY <2>3 DEF Orderly
  <1>5. CASE Looks \/ Creates \/ Proceeds \/ Saves
    <2>1. PICK t \in turns, u \in Turns : Becomes(t, u) /\ (t.command \/ t.at # "arrived")
      <3>1. CASE Looks
        BY <3>1 DEF Looks
      <3>2. CASE Creates
        BY <3>2 DEF Creates
      <3>3. CASE Proceeds
        BY <3>3 DEF Proceeds
      <3>4. CASE Saves
        BY <3>4 DEF Saves, Stores
      <3> QED BY <1>5, <3>1, <3>2, <3>3, <3>4
    <2>2. ASSUME NEW w \in Working', NEW v \in Working', w # v, w.at # "arrived"
          PROVE  v.at = "arrived" /\ w.of < v.of
      <3>1. CASE w = u
        <4>1. t \in Working /\ t.at # "arrived" /\ v \in Working /\ v # t
          BY <2>1, <2>2, <3>1 DEF Becomes, Working
        <4> QED BY <2>1, <3>1, <4>1 DEF Orderly, Becomes
      <3>2. CASE v = u
        <4>1. t \in Working /\ t.at # "arrived" /\ w \in Working /\ w # t
          BY <2>1, <2>2, <3>2 DEF Becomes, Working
        <4> QED BY <2>2, <4>1 DEF Orderly
      <3>3. CASE w # u /\ v # u
        BY <2>1, <2>2, <3>3 DEF Orderly, Becomes, Working
      <3> QED BY <3>1, <3>2, <3>3
    <2> QED BY <2>2 DEF Orderly
  <1>6. CASE TurnEnds \/ Loses \/ Pushes \/ Archives \/ Deletes \/ Rests
    <2>1. turns' \subseteq turns
      BY <1>6 DEF TurnEnds, Loses, Pushes, Archives, Deletes, Rests
    <2> QED BY <2>1 DEF Orderly, Working
  <1> QED BY <1>3, <1>4, <1>5, <1>6, ServerSteps DEF Typed, TypedTab

\* A row is added, later than everything that is past
Adds(s, y) ==
  /\ rows' = [rows EXCEPT ![s] = Append(rows[s], y)]
  /\ \A k \in Nat : Past(k) => k < Rank(y)
  /\ Past(Rank(y))'

LEMMA StoresAdds ==
    ASSUME Given, Typed, Numbered, Orderly, NEW t \in turns, NEW u \in Turns, NEW y \in Stored, Stores(t, u, y)
    PROVE  t.sid \in Sessions /\ Adds(t.sid, y)
  <1>1. /\ Len(inbox) \in Nat /\ \A i \in 1..Len(inbox) : inbox[i].n \in 1..MaxSends
        /\ sends \in 0..MaxSends
    BY LetterFacts DEF Typed
  <1>2. \A w \in turns : w.of \in 1..MaxSends
    BY TurnFacts DEF Typed
  <1>3. PICK n \in 1..MaxSends : n = t.of /\ u.of = n
    BY <1>2 DEF Stores, Becomes
  <1>4. Rank(y) \in Nat /\ Reached(u) = Rank(y) /\ Reached(t) = Rank(y) - 1
    <2>1. Rank(<<"user", n>>) = 2 * n /\ Rank(<<"assistant", n>>) = 2 * n + 1
      BY RankFacts
    <2>2. CASE t.at = "running" /\ u.at = "asked" /\ y = <<"user", t.of>>
      BY <1>3, <2>1, <2>2 DEF Reached, Answered
    <2>3. CASE t.at = "asked" /\ u.at = "replied" /\ y = <<"assistant", t.of>>
      BY <1>3, <2>1, <2>3 DEF Reached, Answered
    <2> QED BY <2>2, <2>3 DEF Stores
  <1>5. 2 * n <= Rank(y) /\ Rank(y) <= 2 * n + 1
    BY <1>3, <1>4 DEF Reached
  <1>6. t \in Working
    BY DEF Stores, Working
  <1>7. \A k \in Nat : Past(k) => k < Rank(y)
    BY <1>4, <1>6 DEF Past
  <1>8. \A w \in Working' : Rank(y) <= Reached(w)
    <2> SUFFICES ASSUME NEW w \in Working' PROVE Rank(y) <= Reached(w)
      OBVIOUS
    <2>1. CASE w = u
      BY <1>4, <2>1
    <2>2. CASE w # u
      <3>1. w \in Working /\ w # t /\ t.at # "arrived"
        BY <2>2 DEF Stores, Becomes, Working
      <3>2. w.at = "arrived" /\ t.of < w.of /\ w.of \in 1..MaxSends
        BY <1>2, <1>6, <3>1 DEF Orderly, Working
      <3>3. Reached(w) = 2 * w.of - 1
        BY <3>2 DEF Reached, Answered
      <3> QED BY <1>3, <1>4, <1>5, <3>2, <3>3
    <2> QED BY <2>1, <2>2
  <1>9. UNCHANGED <<inbox, sends>> /\ n <= sends /\ \A i \in 1..Len(inbox) : n < inbox[i].n
    BY <1>3 DEF Stores, Numbered
  <1>10. Past(Rank(y))'
    BY <1>1, <1>4, <1>5, <1>8, <1>9 DEF Past
  <1> QED BY <1>7, <1>10 DEF Adds, Stores

LEMMA RowSteps ==
    ASSUME Given, Typed, Numbered, Orderly, [ChatNext]_chatVars
    PROVE  \/ \E s \in Sessions, y \in Stored : Adds(s, y)
           \/ \E s \in Sessions : rows' = [rows EXCEPT ![s] = <<>>]
           \/ rows' = rows
  <1>1. CASE Saves
    BY <1>1, StoresAdds DEF Saves
  <1>2. CASE Deletes
    BY <1>2 DEF Deletes
  <1>3. CASE Arrives \/ Passes \/ Looks \/ Creates \/ Proceeds \/ TurnEnds \/ Loses \/ Pushes \/ Archives \/ Rests
    BY <1>3 DEF Arrives, Passes, Looks, Creates, Proceeds, TurnEnds, Loses, Pushes, Archives, Rests
  <1> QED BY <1>1, <1>2, <1>3, ServerSteps DEF Typed, TypedTab

\* The rows after an addition
LEMMA AppendRow ==
    ASSUME Typed, NEW s \in Sessions, NEW y \in Stored, rows' = [rows EXCEPT ![s] = Append(rows[s], y)]
    PROVE  /\ \A t \in Sessions : t # s => rows'[t] = rows[t]
           /\ Len(rows[s]) \in Nat /\ Len(rows'[s]) = Len(rows[s]) + 1
           /\ \A i \in 1..Len(rows[s]) : rows'[s][i] = rows[s][i]
           /\ rows'[s][Len(rows[s]) + 1] = y
           /\ ToSet(rows'[s]) = ToSet(rows[s]) \cup {y}
  <1>1. rows[s] \in Seq(Stored)
    BY DEF Typed, TypedServer
  <1>2. rows'[s] = Append(rows[s], y) /\ \A t \in Sessions : t # s => rows'[t] = rows[t]
    BY DEF Typed, TypedServer
  <1>3. Len(rows[s]) \in Nat
    BY <1>1
  <1> QED BY <1>1, <1>2, <1>3, AppendElements

\* What is past is not stored any more
LEMMA OldRows ==
    ASSUME Given, Typed, Numbered, Orderly, [ChatNext]_chatVars, NEW m \in Stored, Past(Rank(m)),
           NEW s \in Sessions, m \in ToSet(rows'[s])
    PROVE  m \in ToSet(rows[s])
  <1>1. CASE \E t \in Sessions, y \in Stored : Adds(t, y)
    <2>1. PICK t \in Sessions, y \in Stored : Adds(t, y)
      BY <1>1
    <2>2. Rank(m) < Rank(y) /\ Rank(m) \in Nat /\ Rank(y) \in Nat
      BY <2>1, RankFacts DEF Adds
    <2>3. m # y
      BY <2>2
    <2>4. /\ \A u \in Sessions : u # t => rows'[u] = rows[u]
          /\ ToSet(rows'[t]) = ToSet(rows[t]) \cup {y}
      BY <2>1, AppendRow DEF Adds
    <2> QED BY <2>3, <2>4
  <1>2. CASE \E t \in Sessions : rows' = [rows EXCEPT ![t] = <<>>]
    BY <1>2, NoElements DEF Typed, TypedServer
  <1>3. CASE rows' = rows
    BY <1>3
  <1> QED BY <1>1, <1>2, <1>3, RowSteps

Climbs(q) == \A i, j \in 1..Len(q) : i < j => Rank(q[i]) < Rank(q[j])
Placed(m, s) == \A t \in Sessions : m \in ToSet(rows[t]) => t = s

\* Each session's rows are in order, and a message is in one session
Written ==
  \A s \in Sessions :
    /\ Climbs(rows[s])
    /\ \A m \in ToSet(rows[s]) : Past(Rank(m)) /\ Placed(m, s)

LEMMA PlacedKeeps ==
    ASSUME Given, Typed, Numbered, Orderly, [ChatNext]_chatVars, NEW m \in Stored, Past(Rank(m)),
           NEW s \in Sessions, Placed(m, s)
    PROVE  Placed(m, s)'
  BY OldRows DEF Placed

LEMMA WrittenNext ==
    Given /\ Typed /\ Numbered /\ Orderly /\ Written /\ [ChatNext]_chatVars => Written'
  <1> SUFFICES ASSUME Given, Typed, Numbered, Orderly, Written, [ChatNext]_chatVars PROVE Written'
    OBVIOUS
  <1>1. \A s \in Sessions : \A m \in ToSet(rows[s]) : m \in Stored /\ Rank(m) \in Nat
    BY Elements, RankFacts DEF Typed, TypedServer
  <1>2. ASSUME NEW s \in Sessions, NEW m \in ToSet(rows[s]) PROVE Past(Rank(m))' /\ Placed(m, s)'
    BY <1>1, PastKeeps, PlacedKeeps DEF Written
  <1>3. CASE \E t \in Sessions, y \in Stored : Adds(t, y)
    <2>1. PICK t \in Sessions, y \in Stored : Adds(t, y)
      BY <1>3
    <2>2. Rank(y) \in Nat /\ Past(Rank(y))'
      BY <2>1, RankFacts DEF Adds
    <2>3. /\ \A u \in Sessions : u # t => rows'[u] = rows[u]
          /\ Len(rows[t]) \in Nat /\ Len(rows'[t]) = Len(rows[t]) + 1
          /\ \A i \in 1..Len(rows[t]) : rows'[t][i] = rows[t][i]
          /\ rows'[t][Len(rows[t]) + 1] = y
          /\ ToSet(rows'[t]) = ToSet(rows[t]) \cup {y}
      BY <2>1, AppendRow DEF Adds
    <2>4. \A s \in Sessions : \A m \in ToSet(rows[s]) : Rank(m) < Rank(y)
      BY <1>1, <2>1 DEF Written, Adds
    <2>5. \A s \in Sessions : y \notin ToSet(rows[s])
      BY <2>2, <2>4
    <2>6. Placed(y, t)'
      BY <2>3, <2>5 DEF Placed
    <2>7. \A i \in 1..Len(rows[t]) : rows[t][i] \in ToSet(rows[t])
      BY Elements DEF Typed, TypedServer
    <2>8. Climbs(rows'[t])
      <3>1. \A i, j \in 1..Len(rows[t]) : i < j => Rank(rows[t][i]) < Rank(rows[t][j])
        BY DEF Written, Climbs
      <3>2. \A i \in 1..Len(rows[t]) : Rank(rows[t][i]) < Rank(y)
        BY <2>4, <2>7
      <3> SUFFICES ASSUME NEW i \in 1..Len(rows[t]) + 1, NEW j \in 1..Len(rows[t]) + 1, i < j
                   PROVE  Rank(rows'[t][i]) < Rank(rows'[t][j])
        BY <2>3 DEF Climbs
      <3>3. i \in 1..Len(rows[t])
        BY <2>3
      <3>4. CASE j \in 1..Len(rows[t])
        BY <2>3, <3>1, <3>3, <3>4
      <3>5. CASE j = Len(rows[t]) + 1
        BY <2>3, <3>2, <3>3, <3>5
      <3> QED BY <2>3, <3>4, <3>5
    <2>9. \A s \in Sessions : Climbs(rows'[s])
      BY <2>3, <2>8 DEF Written
    <2>10. ASSUME NEW s \in Sessions, NEW m \in ToSet(rows'[s]) PROVE Past(Rank(m))' /\ Placed(m, s)'
      <3>1. CASE m \in ToSet(rows[s])
        BY <3>1, <1>2
      <3>2. CASE m \notin ToSet(rows[s])
        <4>1. s = t /\ m = y
          BY <2>3, <3>2
        <4> QED BY <4>1, <2>2, <2>6
      <3> QED BY <3>1, <3>2
    <2> QED BY <2>9, <2>10 DEF Written
  <1>4. CASE \E t \in Sessions : rows' = [rows EXCEPT ![t] = <<>>]
    <2>1. PICK t \in Sessions : rows' = [rows EXCEPT ![t] = <<>>]
      BY <1>4
    <2>2. /\ \A u \in Sessions : u # t => rows'[u] = rows[u]
          /\ rows'[t] = <<>>
      BY <2>1 DEF Typed, TypedServer
    <2>3. ToSet(rows'[t]) = {} /\ Climbs(rows'[t])
      BY <2>2, NoElements DEF Climbs
    <2>4. \A s \in Sessions : Climbs(rows'[s])
      BY <2>2, <2>3 DEF Written
    <2>5. \A s \in Sessions : \A m \in ToSet(rows'[s]) : m \in ToSet(rows[s])
      BY <2>2, <2>3
    <2> QED BY <1>2, <2>4, <2>5 DEF Written
  <1>5. CASE rows' = rows
    BY <1>2, <1>5 DEF Written
  <1> QED BY <1>3, <1>4, <1>5, RowSteps

\* A session a message was tied to exists; none but a created one has rows
Existing ==
  /\ \A t \in turns : t.sid # Nil => sess[t.sid] # "none"
  /\ \A s \in Sessions : sess[s] \in {"none", "deleted"} => rows[s] = <<>>

\* A session that exists stays
LEMMA SessionsStay ==
    ASSUME Given, Typed, Existing, [ChatNext]_chatVars, NEW s \in Sessions, sess[s] # "none"
    PROVE  /\ sess'[s] # "none" /\ (sess[s] = "deleted" => sess'[s] = "deleted")
           /\ sess'[s] = "active" => sess[s] = "active"
           /\ rows'[s] = <<>> /\ rows[s] # <<>> => sess'[s] = "deleted"
  <1>1. CASE Creates
    BY <1>1 DEF Creates, Typed, TypedServer
  <1>2. CASE TurnEnds
    <2>1. CASE sess' = sess
      BY <1>2, <2>1 DEF TurnEnds
    <2>2. CASE sess' # sess
      <3>1. PICK t \in turns : t.sid \in Sessions /\ rows[t.sid] # <<>> /\ sess' = [sess EXCEPT ![t.sid] = "archived"]
        BY <1>2, <2>2 DEF TurnEnds
      <3>2. sess[t.sid] # "deleted" /\ sess'[t.sid] = "archived" /\ \A v \in Sessions : v # t.sid => sess'[v] = sess[v]
        BY <3>1 DEF Existing, Typed, TypedServer
      <3> QED BY <1>2, <3>2 DEF TurnEnds
    <2> QED BY <2>1, <2>2
  <1>3. CASE Archives
    BY <1>3 DEF Archives, Typed, TypedServer
  <1>4. CASE Deletes
    BY <1>4 DEF Deletes, Typed, TypedServer
  <1>5. CASE Saves
    <2>1. PICK t \in turns, u \in Turns, y \in Stored : Stores(t, u, y)
      BY <1>5 DEF Saves
    <2>2. rows' = [rows EXCEPT ![t.sid] = Append(rows[t.sid], y)] /\ t.sid \in Sessions /\ sess' = sess
      BY <2>1 DEF Stores
    <2>3. Append(rows[t.sid], y) # <<>>
      <3>1. Len(Append(rows[t.sid], y)) = Len(rows[t.sid]) + 1 /\ Len(rows[t.sid]) \in Nat
        BY <2>2, AppendElements DEF Typed, TypedServer
      <3> QED BY <3>1, NoElements
    <2>4. rows'[s] = rows[s] \/ rows'[s] = Append(rows[t.sid], y)
      BY <2>2 DEF Typed, TypedServer
    <2> QED BY <2>2, <2>3, <2>4
  <1>6. CASE Arrives \/ Passes \/ Looks \/ Proceeds \/ Loses \/ Pushes \/ Rests
    BY <1>6 DEF Arrives, Passes, Looks, Proceeds, Loses, Pushes, Rests
  <1> QED BY <1>1, <1>2, <1>3, <1>4, <1>5, <1>6, ServerSteps DEF Typed, TypedTab

LEMMA KeptNext == Given /\ Typed /\ Existing /\ [ChatNext]_chatVars => Existing'
  <1> SUFFICES ASSUME Given, Typed, Existing, [ChatNext]_chatVars PROVE Existing'
    OBVIOUS
  <1>1. \A t \in turns : t.sid \in Sessions \cup {Nil}
    BY TurnFacts DEF Typed
  <1>2. ASSUME NEW t \in turns', t.sid # Nil PROVE sess'[t.sid] # "none"
    <2>1. CASE t \in turns
      BY <1>1, <1>2, <2>1, SessionsStay DEF Existing
    <2>2. CASE t \notin turns
      <3>1. CASE Passes \/ Proceeds \/ Saves
        <4>1. PICK v \in turns, u \in Turns : Becomes(v, u) /\ (u.sid = v.sid \/ u.sid = Nil)
          BY <3>1 DEF Passes, Proceeds, Saves, Stores
        <4>2. t = u /\ v.sid = t.sid /\ v.sid \in Sessions
          BY <1>1, <1>2, <2>2, <4>1 DEF Becomes
        <4> QED BY <1>2, <4>2, SessionsStay DEF Existing
      <3>2. CASE Looks
        <4>1. PICK v \in turns, u \in Turns : Becomes(v, u) /\ (u.sid = Nil \/ u.sid \in Active) /\ sess' = sess
          BY <3>2 DEF Looks
        <4> QED BY <1>2, <2>2, <4>1 DEF Becomes, Active
      <3>3. CASE Creates
        <4>1. PICK v \in turns, u \in Turns :
                Becomes(v, u) /\ u.sid \in Sessions /\ sess' = [sess EXCEPT ![u.sid] = "active"]
          BY <3>3 DEF Creates
        <4>2. t = u /\ sess'[u.sid] = "active"
          BY <2>2, <4>1 DEF Becomes, Typed, TypedServer
        <4> QED BY <4>2
      <3>4. CASE Arrives
        BY <1>2, <2>2, <3>4 DEF Arrives
      <3>5. CASE TurnEnds \/ Loses \/ Pushes \/ Archives \/ Deletes \/ Rests
        BY <2>2, <3>5 DEF TurnEnds, Loses, Pushes, Archives, Deletes, Rests
      <3> QED BY <3>1, <3>2, <3>3, <3>4, <3>5, ServerSteps DEF Typed, TypedTab
    <2> QED BY <2>1, <2>2
  <1>3. ASSUME NEW s \in Sessions, sess'[s] \in {"none", "deleted"} PROVE rows'[s] = <<>>
    <2>1. CASE Deletes
      BY <1>3, <2>1 DEF Deletes, Existing, Typed, TypedServer
    <2>2. CASE Saves
      <3>1. PICK t \in turns, u \in Turns, y \in Stored : Stores(t, u, y)
        BY <2>2 DEF Saves
      <3>2. sess' = sess /\ sess[t.sid] # "deleted" /\ t.sid \in Sessions
            /\ rows' = [rows EXCEPT ![t.sid] = Append(rows[t.sid], y)]
        BY <3>1 DEF Stores
      <3>3. sess[t.sid] # "none"
        BY <3>2 DEF Existing, Given
      <3>4. s # t.sid
        BY <1>3, <3>2, <3>3
      <3>5. rows'[s] = rows[s]
        BY <3>2, <3>4 DEF Typed, TypedServer
      <3> QED BY <1>3, <3>2, <3>5 DEF Existing
    <2>3. CASE Archives
      BY <1>3, <2>3 DEF Archives, Existing, Typed, TypedServer
    <2>4. CASE Creates
      BY <1>3, <2>4 DEF Creates, Existing, Typed, TypedServer
    <2>5. CASE TurnEnds
      BY <1>3, <2>5 DEF TurnEnds, Existing, Typed, TypedServer
    <2>6. CASE Arrives \/ Passes \/ Looks \/ Proceeds \/ Loses \/ Pushes \/ Rests
      BY <1>3, <2>6 DEF Arrives, Passes, Looks, Proceeds, Loses, Pushes, Rests, Existing
    <2> QED BY <2>1, <2>2, <2>3, <2>4, <2>5, <2>6, ServerSteps DEF Typed, TypedTab
  <1> QED BY <1>2, <1>3 DEF Existing

\* The reply of a turn that stored it
Turning ==
  \A t \in turns :
    t.at \in Answered =>
      /\ Placed(<<"assistant", t.of>>, t.sid)
      /\ sess[t.sid] = "deleted" \/ <<"assistant", t.of>> \in ToSet(rows[t.sid])

InOrder == Orderly /\ Written /\ Turning
ServerInv == Numbered /\ Existing /\ (crossed \/ InOrder)

LEMMA ReplyPast ==
    ASSUME Given, Typed, Numbered, Orderly, NEW t \in turns, t.at \in Answered
    PROVE  /\ t.of \in 1..MaxSends /\ t.sid \in Sessions
           /\ <<"assistant", t.of>> \in Stored
           /\ Rank(<<"assistant", t.of>>) = 2 * t.of + 1
           /\ Past(Rank(<<"assistant", t.of>>))
           /\ \A k \in Nat : Past(k) => k <= 2 * t.of + 1
           /\ \A w \in Working : w # t => t.of < w.of
  <1>1. \A w \in turns : w.of \in 1..MaxSends
    BY TurnFacts DEF Typed
  <1>2. PICK n \in 1..MaxSends : n = t.of
    BY <1>1
  <1>3. t.sid \in Sessions /\ t \in Working
    <2>1. t.at \notin Unrouted /\ t.at \notin {"arrived", "missing", "held"}
      BY DEF Unrouted, Answered
    <2>2. (t.at \notin Unrouted => t.sid \in Sessions) /\ (t.command => t.at \in {"arrived", "missing", "held"})
      BY TurnFacts DEF Typed
    <2> QED BY <2>1, <2>2 DEF Working
  <1>4. <<"assistant", n>> \in Stored /\ Rank(<<"assistant", n>>) = 2 * n + 1
    BY RankFacts
  <1>5. \A i \in 1..Len(inbox) : inbox[i].n \in 1..MaxSends
    BY LetterFacts DEF Typed
  <1>6. t.at # "arrived" /\ Reached(t) = 2 * n + 1
    BY <1>2 DEF Answered, Reached
  <1>7. \A w \in Working : w # t => w.at = "arrived" /\ n < w.of /\ w.of \in 1..MaxSends
    BY <1>1, <1>2, <1>3, <1>6 DEF Orderly, Working
  <1>8. \A w \in Working : 2 * n + 1 <= Reached(w)
    <2>1. \A w \in Working : w # t => Reached(w) = 2 * w.of - 1
      BY <1>7 DEF Reached, Answered
    <2> QED BY <1>6, <1>7, <2>1
  <1>9. sends \in 0..MaxSends /\ n <= sends /\ \A i \in 1..Len(inbox) : n < inbox[i].n
    BY <1>2 DEF Numbered, Typed, TypedServer
  <1>10. Past(2 * n + 1)
    BY <1>5, <1>8, <1>9 DEF Past
  <1>11. \A k \in Nat : Past(k) => k <= 2 * n + 1
    BY <1>3, <1>6 DEF Past
  <1> QED BY <1>2, <1>3, <1>4, <1>7, <1>10, <1>11

\* A session that exists keeps its rows until it is deleted
LEMMA RowsStay ==
    ASSUME Given, Typed, Numbered, Orderly, Existing, [ChatNext]_chatVars, NEW s \in Sessions, sess[s] # "none"
    PROVE  /\ sess'[s] # "none" /\ (sess[s] = "deleted" => sess'[s] = "deleted")
           /\ sess'[s] = "deleted" \/ ToSet(rows[s]) \subseteq ToSet(rows'[s])
  <1>1. sess'[s] # "none" /\ (sess[s] = "deleted" => sess'[s] = "deleted")
    BY SessionsStay
  <1>2. CASE Saves
    <2>1. PICK t \in Sessions, y \in Stored : Adds(t, y)
      BY <1>2, StoresAdds DEF Saves
    <2>2. ToSet(rows[s]) \subseteq ToSet(rows'[s])
      BY <2>1, AppendRow DEF Adds
    <2> QED BY <1>1, <2>2
  <1>3. CASE Deletes
    BY <1>1, <1>3 DEF Deletes, Typed, TypedServer
  <1>4. CASE Arrives \/ Passes \/ Looks \/ Creates \/ Proceeds \/ TurnEnds \/ Loses \/ Pushes \/ Archives \/ Rests
    BY <1>1, <1>4 DEF Arrives, Passes, Looks, Creates, Proceeds, TurnEnds, Loses, Pushes, Archives, Rests
  <1> QED BY <1>2, <1>3, <1>4, ServerSteps DEF Typed, TypedTab

LEMMA TurningNext ==
    ASSUME Given, Typed, Numbered, Existing, InOrder, [ChatNext]_chatVars
    PROVE  Turning'
  <1> USE DEF InOrder
  <1> SUFFICES ASSUME NEW w \in turns', w.at \in Answered
               PROVE  /\ Placed(<<"assistant", w.of>>, w.sid)'
                      /\ sess'[w.sid] = "deleted" \/ <<"assistant", w.of>> \in ToSet(rows'[w.sid])
    BY DEF Turning
  \* it had stored its reply before
  <1>1. ASSUME NEW t \in turns, t.at \in Answered, w.of = t.of, w.sid = t.sid
        PROVE  /\ Placed(<<"assistant", w.of>>, w.sid)'
               /\ sess'[w.sid] = "deleted" \/ <<"assistant", w.of>> \in ToSet(rows'[w.sid])
    <2>1. PICK m \in Stored : m = <<"assistant", t.of>> /\ Past(Rank(m))
      BY <1>1, ReplyPast
    <2>2. PICK s \in Sessions : s = t.sid /\ s # Nil
      BY <1>1, ReplyPast DEF Given
    <2>3. Placed(m, s) /\ (sess[s] = "deleted" \/ m \in ToSet(rows[s])) /\ sess[s] # "none"
      BY <1>1, <2>1, <2>2 DEF Turning, Existing
    <2>4. Placed(m, s)'
      BY <2>1, <2>3, PlacedKeeps
    <2>5. sess'[s] = "deleted" \/ m \in ToSet(rows'[s])
      BY <2>3, RowsStay
    <2> QED BY <1>1, <2>1, <2>2, <2>4, <2>5
  <1>2. CASE Saves
    <2>1. PICK t \in turns, u \in Turns, y \in Stored : Stores(t, u, y)
      BY <1>2 DEF Saves
    <2>2. CASE w = u
      <3>1. t.at = "asked" /\ y = <<"assistant", t.of>> /\ w.of = t.of /\ w.sid = t.sid
        BY <2>1, <2>2 DEF Stores, Becomes, Answered
      <3>2. PICK s \in Sessions : s = t.sid /\ Adds(s, y)
        BY <2>1, StoresAdds
      <3>3. /\ \A v \in Sessions : v # s => rows'[v] = rows[v]
            /\ ToSet(rows'[s]) = ToSet(rows[s]) \cup {y}
        BY <3>2, AppendRow DEF Adds
      <3>4. \A v \in Sessions : y \notin ToSet(rows[v])
        <4>1. \A v \in Sessions : \A m \in ToSet(rows[v]) : m \in Stored /\ Rank(m) \in Nat
          BY Elements, RankFacts DEF Typed, TypedServer
        <4>2. \A v \in Sessions : \A m \in ToSet(rows[v]) : Rank(m) < Rank(y)
          BY <3>2, <4>1 DEF Written, Adds
        <4> QED BY <4>1, <4>2
      <3>5. Placed(y, s)'
        BY <3>3, <3>4 DEF Placed
      <3>6. <<"assistant", w.of>> = y
        BY <3>1
      <3> QED BY <3>1, <3>2, <3>3, <3>5, <3>6
    <2>3. CASE w # u
      BY <1>1, <2>1, <2>3 DEF Stores, Becomes
    <2> QED BY <2>2, <2>3
  <1>3. CASE Proceeds
    <2>1. PICK t \in turns, u \in Turns :
            Becomes(t, u) /\ u.sid = t.sid /\ (u.at = "running" \/ t.at = "replied")
      BY <1>3 DEF Proceeds
    <2>2. w \in turns \/ (w = u /\ t.at \in Answered /\ w.of = t.of)
      BY <2>1 DEF Becomes, Answered
    <2> QED BY <1>1, <2>1, <2>2
  <1>4. CASE Passes \/ Looks \/ Creates
    <2>1. PICK t \in turns, u \in Turns : Becomes(t, u) /\ u.at \notin Answered
      BY <1>4 DEF Passes, Looks, Creates, Answered
    <2> QED BY <1>1, <2>1 DEF Becomes
  <1>5. CASE Arrives
    <2>1. w \in turns
      BY <1>5 DEF Arrives, Answered
    <2> QED BY <1>1, <2>1
  <1>6. CASE TurnEnds \/ Loses \/ Pushes \/ Archives \/ Deletes \/ Rests
    <2>1. w \in turns
      BY <1>6 DEF TurnEnds, Loses, Pushes, Archives, Deletes, Rests
    <2> QED BY <1>1, <2>1
  <1> QED BY <1>2, <1>3, <1>4, <1>5, <1>6, ServerSteps DEF Typed, TypedTab

LEMMA ServerInit == Given /\ ChatInit => ServerInv
  <1> SUFFICES ASSUME Given, ChatInit PROVE ServerInv
    OBVIOUS
  <1>1. Numbered /\ Existing /\ Orderly /\ Turning
    BY NoElements DEF ChatInit, Numbered, Existing, Turning, Orderly, Working
  <1>2. Written
    BY NoElements DEF ChatInit, Written, Climbs
  <1> QED BY <1>1, <1>2 DEF ServerInv, InOrder

LEMMA ServerNext == Given /\ Typed /\ ServerInv /\ [ChatNext]_chatVars => ServerInv'
  <1> SUFFICES ASSUME Given, Typed, ServerInv, [ChatNext]_chatVars PROVE ServerInv'
    OBVIOUS
  <1>1. Numbered' /\ Existing'
    BY NumberedNext, KeptNext DEF ServerInv
  <1>2. ASSUME ~crossed' PROVE InOrder'
    <2>1. InOrder
      BY <1>2, CrossedStays DEF ServerInv
    <2>2. Orderly' /\ Turning'
      BY <1>2, <2>1, OrderlyNext, TurningNext DEF ServerInv, InOrder
    <2>3. Written'
      BY <2>1, WrittenNext DEF ServerInv, InOrder
    <2> QED BY <2>2, <2>3 DEF InOrder
  <1> QED BY <1>1, <1>2 DEF ServerInv

-----------------------------------------------------------------------------
(* The frames: replies arrive in the order of the sends *)

LEMMA TwoMore ==
    ASSUME NEW S, NEW q \in Seq(S), NEW x \in S, NEW y \in S
    PROVE  /\ q \o <<x>> = Append(q, x)
           /\ q \o <<x, y>> = Append(Append(q, x), y)
  OBVIOUS

FrameSteps ==
  \/ frames' \in {frames, <<>>}
  \/ frames # <<>> /\ frames' = Tail(frames)
  \/ \E f \in Frames : f.sid = Nil /\ frames' = Append(frames, f)
  \/ \E f, g \in Frames : f.sid = Nil /\ g.sid = Nil /\ frames' = Append(Append(frames, f), g)
  \/ \E t \in turns, f \in Frames :
       /\ t.at = "completed" /\ turns' = turns \ {t}
       /\ f = Create(<<"assistant", t.of>>, t.sid) /\ frames' = Append(frames, f)

LEMMA SocketSteps ==
    ASSUME Given, Typed, [ChatNext]_chatVars
    PROVE  FrameSteps
  <1>1. frames \in Seq(Frames)
    BY DEF Typed, TypedTab
  <1>2. ASSUME NEW f \in Frames, f.sid = Nil, Emit(<<f>>) PROVE FrameSteps
    BY <1>1, <1>2, TwoMore DEF Emit, FrameSteps
  <1>3. /\ Create(Notice, Nil) \in Frames /\ ErrorFrame \in Frames /\ ResetFrame \in Frames
        /\ Create(Notice, Nil).sid = Nil /\ ErrorFrame.sid = Nil /\ ResetFrame.sid = Nil
    BY FrameTypes DEF Create, ErrorFrame, ResetFrame
  <1>4. ASSUME NEW t \in turns, Check(t) \/ Refuse(t) \/ Throw(t) PROVE FrameSteps
    <2>1. Emit(<<Create(Notice, Nil)>>) \/ Emit(<<ErrorFrame>>) \/ frames' = frames
      BY <1>4 DEF Check, Refuse, Throw
    <2> QED BY <1>2, <1>3, <2>1 DEF FrameSteps
  <1>5. ASSUME NEW t \in turns, RunCommand(t) PROVE FrameSteps
    <2>1. CASE Emit(<<Create(Notice, Nil)>>)
      BY <1>2, <1>3, <2>1 DEF FrameSteps
    <2>2. CASE Emit(<<Create(Notice, Nil), ResetFrame>>)
      <3>1. \A x, y \in Frames : frames \o <<x, y>> = Append(Append(frames, x), y)
        BY <1>1, TwoMore
      <3>2. \/ frames' = frames
            \/ frames' = Append(Append(frames, Create(Notice, Nil)), ResetFrame)
        BY <1>3, <2>2, <3>1 DEF Emit
      <3> QED BY <1>3, <3>2 DEF FrameSteps
    <2> QED BY <1>5, <2>1, <2>2 DEF RunCommand
  <1>6. ASSUME NEW t \in turns, Deliver(t) PROVE FrameSteps
    <2>1. t.at = "completed" /\ turns' = turns \ {t} /\ Emit(<<Create(<<"assistant", t.of>>, t.sid)>>)
      BY <1>6 DEF Deliver, Stage, Ends
    <2>2. t.of \in 1..MaxSends /\ t.sid \in Sessions
      BY <2>1, TurnFacts DEF Typed, Unrouted
    <2>3. Create(<<"assistant", t.of>>, t.sid) \in Frames
      BY <2>2, FrameTypes
    <2>4. frames' = frames \/ frames' = Append(frames, Create(<<"assistant", t.of>>, t.sid))
      BY <1>1, <2>1, <2>3, TwoMore DEF Emit
    <2> QED BY <2>1, <2>3, <2>4 DEF FrameSteps
  <1>12. ASSUME NEW t \in turns, FindSession(t) \/ CreateSession(t) \/ CreateRun(t) \/ StoreMessage(t)
                                 \/ StoreReply(t) \/ CompleteRun(t)
         PROVE  FrameSteps
    BY <1>12 DEF FindSession, CreateSession, CreateRun, StoreMessage, StoreReply, CompleteRun, FrameSteps
  <1>7. CASE OnFrame
    BY <1>7 DEF OnFrame, FrameSteps
  <1>8. CASE Disconnect
    BY <1>8 DEF Disconnect, FrameSteps
  <1>9. CASE Receive \/ Reconnect \/ Poll \/ NewChatClears \/ ResetClears \/ Send \/ Retry \/ StartNewChat
             \/ UNCHANGED chatVars
    BY <1>9 DEF Receive, Reconnect, Poll, NewChatClears, ResetClears, Send, Retry, StartNewChat, chatVars, FrameSteps
  <1>10. ASSUME NEW s, SelectSession(s) \/ DeleteSession(s) \/ DeleteClears(s) PROVE FrameSteps
    BY <1>10 DEF SelectSession, DeleteSession, DeleteClears, FrameSteps
  <1>11. ASSUME NEW f \in fetches, ApplyFetch(f) \/ FetchFails(f) PROVE FrameSteps
    BY <1>11 DEF ApplyFetch, FetchFails, FrameSteps
  <1> QED BY <1>4, <1>5, <1>6, <1>7, <1>8, <1>9, <1>10, <1>11, <1>12
          DEF ChatNext, Server, Handle, Tab, User

\* What a reply's frame says of the tables
FrameTrue(f) ==
  f.sid # Nil =>
    /\ Past(Rank(f.id)) /\ Placed(f.id, f.sid)
    /\ sess[f.sid] # "none" /\ (sess[f.sid] = "deleted" \/ f.id \in ToSet(rows[f.sid]))
    /\ \A t \in Working : Rank(f.id) < 2 * t.of

InTurn(q) ==
  \A i, j \in 1..Len(q) :
    i < j /\ q[i].sid # Nil /\ q[j].sid # Nil => Rank(q[i].id) < Rank(q[j].id)

FrameInv == (\A f \in ToSet(frames) : FrameTrue(f)) /\ InTurn(frames)

LEMMA FrameKeeps ==
    ASSUME Given, Typed, Numbered, Existing, InOrder, [ChatNext]_chatVars, NEW f \in Frames, FrameTrue(f)
    PROVE  FrameTrue(f)'
  <1> SUFFICES ASSUME f.sid # Nil PROVE FrameTrue(f)'
    BY DEF FrameTrue
  <1>1. /\ Past(Rank(f.id)) /\ Placed(f.id, f.sid)
        /\ sess[f.sid] # "none" /\ (sess[f.sid] = "deleted" \/ f.id \in ToSet(rows[f.sid]))
        /\ \A t \in Working : Rank(f.id) < 2 * t.of
    BY DEF FrameTrue
  <1>2. PICK m \in Stored, s \in Sessions : m = f.id /\ s = f.sid
    BY FrameFacts
  <1>3. Rank(m) \in Nat
    BY RankFacts
  <1>4. Past(Rank(m))' /\ Placed(m, s)'
    BY <1>1, <1>2, <1>3, PastKeeps, PlacedKeeps DEF InOrder
  <1>5. sess'[s] # "none" /\ (sess'[s] = "deleted" \/ m \in ToSet(rows'[s]))
    BY <1>1, <1>2, RowsStay DEF InOrder
  <1>6. ASSUME NEW w \in Working' PROVE Rank(m) < 2 * w.of
    <2>1. CASE \E t \in turns : w.of = t.of /\ w.command = t.command
      BY <1>1, <1>2, <1>6, <2>1 DEF Working
    <2>2. CASE inbox # <<>> /\ w.of = Head(inbox).n
      <3>1. Head(inbox) = inbox[1] /\ 1 \in 1..Len(inbox)
        BY <2>2, HeadTail DEF Typed, TypedServer
      <3> QED BY <1>1, <1>2, <2>2, <3>1 DEF Past
    <2>3. w \in turns'
      BY <1>6 DEF Working
    <2> QED BY <2>1, <2>2, <2>3, TurnsGo DEF Further
  <1> QED BY <1>2, <1>4, <1>5, <1>6 DEF FrameTrue

LEMMA InTurnAppends ==
    ASSUME NEW q \in Seq(Frames), InTurn(q), NEW f \in Frames,
           f.sid = Nil \/ \A i \in 1..Len(q) : q[i].sid # Nil => Rank(q[i].id) < Rank(f.id)
    PROVE  InTurn(Append(q, f))
  <1> DEFINE p == Append(q, f)
  <1> HIDE DEF p
  <1>1. /\ p \in Seq(Frames) /\ Len(p) = Len(q) + 1 /\ Len(q) \in Nat
        /\ \A i \in 1..Len(q) : p[i] = q[i]
        /\ p[Len(q) + 1] = f
    BY AppendElements DEF p
  <1>2. ASSUME NEW i \in 1..Len(q) + 1, NEW j \in 1..Len(q) + 1, i < j, p[i].sid # Nil, p[j].sid # Nil
        PROVE  Rank(p[i].id) < Rank(p[j].id)
    <2>1. i \in 1..Len(q)
      BY <1>1, <1>2
    <2>2. CASE j \in 1..Len(q)
      BY <1>1, <1>2, <2>1, <2>2 DEF InTurn
    <2>3. CASE j = Len(q) + 1
      BY <1>1, <1>2, <2>1, <2>3
    <2> QED BY <1>1, <2>2, <2>3
  <1>3. InTurn(p)
    BY <1>1, <1>2 DEF InTurn
  <1> QED BY <1>3 DEF p

LEMMA InTurnTail ==
    ASSUME NEW q \in Seq(Frames), q # <<>>, InTurn(q)
    PROVE  InTurn(Tail(q)) /\ ToSet(Tail(q)) \subseteq ToSet(q)
  <1> DEFINE p == Tail(q)
  <1> HIDE DEF p
  <1>1. /\ p \in Seq(Frames) /\ Len(q) \in Nat \ {0} /\ Len(p) = Len(q) - 1
        /\ \A i \in 1..Len(q) - 1 : p[i] = q[i + 1]
    BY HeadTail DEF p
  <1>2. \A i \in 1..Len(p) : p[i] = q[i + 1] /\ i + 1 \in 1..Len(q)
    BY <1>1
  <1>3. ASSUME NEW i \in 1..Len(p), NEW j \in 1..Len(p), i < j, p[i].sid # Nil, p[j].sid # Nil
        PROVE  Rank(p[i].id) < Rank(p[j].id)
    <2>1. i + 1 \in 1..Len(q) /\ j + 1 \in 1..Len(q) /\ i + 1 < j + 1
      BY <1>1, <1>2, <1>3
    <2> QED BY <1>2, <1>3, <2>1 DEF InTurn
  <1>4. InTurn(p)
    BY <1>3 DEF InTurn
  <1>5. ToSet(p) \subseteq ToSet(q)
    BY <1>1, <1>2, Elements
  <1> QED BY <1>4, <1>5 DEF p

LEMMA FrameInvNext ==
    ASSUME Given, Typed, Numbered, Existing, InOrder, FrameInv, [ChatNext]_chatVars
    PROVE  FrameInv'
  <1>1. frames \in Seq(Frames) /\ ToSet(frames) \subseteq Frames
    BY Elements DEF Typed, TypedTab
  <1>2. \A f \in ToSet(frames) : FrameTrue(f)'
    BY <1>1, FrameKeeps DEF FrameInv
  <1>3. \A f \in Frames : f.sid = Nil => FrameTrue(f)'
    BY DEF FrameTrue
  <1>4. ASSUME ToSet(frames') \subseteq ToSet(frames), InTurn(frames') PROVE FrameInv'
    BY <1>2, <1>4 DEF FrameInv
  <1>5. CASE frames' \in {frames, <<>>}
    BY <1>4, <1>5, NoElements DEF FrameInv, InTurn
  <1>6. CASE frames # <<>> /\ frames' = Tail(frames)
    BY <1>1, <1>4, <1>6, InTurnTail DEF FrameInv
  <1>7. CASE \E f \in Frames : f.sid = Nil /\ frames' = Append(frames, f)
    <2>1. PICK f \in Frames : f.sid = Nil /\ frames' = Append(frames, f)
      BY <1>7
    <2>2. InTurn(frames')
      BY <1>1, <2>1, InTurnAppends DEF FrameInv
    <2>3. ToSet(frames') = ToSet(frames) \cup {f}
      BY <1>1, <2>1, AppendElements
    <2> QED BY <1>2, <1>3, <2>1, <2>2, <2>3 DEF FrameInv
  <1>8. CASE \E f, g \in Frames : f.sid = Nil /\ g.sid = Nil /\ frames' = Append(Append(frames, f), g)
    <2>1. PICK f \in Frames, g \in Frames :
            f.sid = Nil /\ g.sid = Nil /\ frames' = Append(Append(frames, f), g)
      BY <1>8
    <2> DEFINE q == Append(frames, f)
    <2>2. q \in Seq(Frames) /\ InTurn(q) /\ ToSet(q) = ToSet(frames) \cup {f} /\ frames' = Append(q, g)
      BY <1>1, <2>1, InTurnAppends, AppendElements DEF FrameInv
    <2> HIDE DEF q
    <2>3. InTurn(frames')
      BY <2>1, <2>2, InTurnAppends
    <2>5. ToSet(frames') = ToSet(q) \cup {g}
      BY <2>1, <2>2, AppendElements
    <2>6. FrameTrue(f)' /\ FrameTrue(g)'
      BY <1>3, <2>1
    <2>7. \A h \in ToSet(frames') : FrameTrue(h)'
      BY <1>2, <2>2, <2>5, <2>6
    <2> QED BY <2>3, <2>7 DEF FrameInv
  <1>9. CASE \E t \in turns, f \in Frames :
               /\ t.at = "completed" /\ turns' = turns \ {t}
               /\ f = Create(<<"assistant", t.of>>, t.sid) /\ frames' = Append(frames, f)
    <2>1. PICK t \in turns, f \in Frames :
            /\ t.at = "completed" /\ turns' = turns \ {t}
            /\ f = Create(<<"assistant", t.of>>, t.sid) /\ frames' = Append(frames, f)
      BY <1>9
    <2>2. f.id = <<"assistant", t.of>> /\ f.sid = t.sid /\ t.at \in Answered
      BY <2>1 DEF Create, Answered
    <2>3. /\ t.of \in 1..MaxSends /\ t.sid \in Sessions /\ f.id \in Stored
          /\ Rank(f.id) = 2 * t.of + 1 /\ Past(Rank(f.id))
          /\ \A w \in Working : w # t => t.of < w.of
      BY <2>2, ReplyPast DEF InOrder
    <2>4. /\ Placed(f.id, f.sid)
          /\ sess[f.sid] # "none" /\ (sess[f.sid] = "deleted" \/ f.id \in ToSet(rows[f.sid]))
      BY <2>2, <2>3 DEF Turning, InOrder, Existing, Given
    <2>5. PICK m \in Stored, s \in Sessions : m = f.id /\ s = f.sid
      BY <2>2, <2>3
    <2>6. Past(Rank(m))' /\ Placed(m, s)'
      BY <2>3, <2>4, <2>5, RankFacts, PastKeeps, PlacedKeeps DEF InOrder
    <2>7. sess'[s] # "none" /\ (sess'[s] = "deleted" \/ m \in ToSet(rows'[s]))
      BY <2>4, <2>5, RowsStay DEF InOrder
    <2>c. \A w \in Working' : w \in Working /\ w # t /\ w.of \in 1..MaxSends
      <3>1. \A w \in turns : w.of \in 1..MaxSends
        BY TurnFacts DEF Typed
      <3> QED BY <2>1, <3>1 DEF Working
    <2>k. \A w \in Working' : Rank(m) < 2 * w.of
      BY <2>3, <2>5, <2>c
    <2>8. FrameTrue(f)'
      BY <2>5, <2>6, <2>7, <2>k DEF FrameTrue
    <2>9. \A i \in 1..Len(frames) : frames[i].sid # Nil => Rank(frames[i].id) < Rank(f.id)
      <3> SUFFICES ASSUME NEW i \in 1..Len(frames), frames[i].sid # Nil
                   PROVE  Rank(frames[i].id) < Rank(f.id)
        OBVIOUS
      <3>1. frames[i] \in ToSet(frames)
        BY <1>1, Elements
      <3>2. Rank(frames[i].id) < 2 * t.of
        <4>1. t \in Working
          BY <2>2, TurnFacts DEF Typed, Working, Answered
        <4> QED BY <3>1, <4>1 DEF FrameInv, FrameTrue
      <3>3. Rank(frames[i].id) \in Nat
        BY <1>1, <3>1, FrameFacts, RankFacts
      <3> QED BY <2>3, <3>2, <3>3
    <2>10. InTurn(frames')
      BY <1>1, <2>1, <2>9, InTurnAppends DEF FrameInv
    <2>11. ToSet(frames') = ToSet(frames) \cup {f}
      BY <1>1, <2>1, AppendElements
    <2> QED BY <1>2, <2>8, <2>10, <2>11 DEF FrameInv
  <1> QED BY <1>5, <1>6, <1>7, <1>8, <1>9, SocketSteps DEF FrameSteps

-----------------------------------------------------------------------------
(* What a step does to the tab *)

\* The messages of a list that are in R are in order
LinedIn(q, R) ==
  \A i, j \in 1..Len(q) : i < j /\ q[i] \in R /\ q[j] \in R => Rank(q[i]) < Rank(q[j])

LEMMA LinedAppends ==
    ASSUME NEW q \in Seq(ChatMessages), NEW x \in ChatMessages, NEW R, LinedIn(q, R),
           x \in R => \A m \in ToSet(q) : m \in R => Rank(m) < Rank(x)
    PROVE  LinedIn(Append(q, x), R)
  <1> DEFINE p == Append(q, x)
  <1> HIDE DEF p
  <1>1. /\ p \in Seq(ChatMessages) /\ Len(p) = Len(q) + 1 /\ Len(q) \in Nat
        /\ \A i \in 1..Len(q) : p[i] = q[i]
        /\ p[Len(q) + 1] = x
    BY AppendElements DEF p
  <1>2. \A i \in 1..Len(q) : q[i] \in ToSet(q)
    BY Elements
  <1>3. ASSUME NEW i \in 1..Len(q) + 1, NEW j \in 1..Len(q) + 1, i < j, p[i] \in R, p[j] \in R
        PROVE  Rank(p[i]) < Rank(p[j])
    <2>1. i \in 1..Len(q)
      BY <1>1, <1>3
    <2>2. CASE j \in 1..Len(q)
      BY <1>1, <1>3, <2>1, <2>2 DEF LinedIn
    <2>3. CASE j = Len(q) + 1
      BY <1>1, <1>2, <1>3, <2>1, <2>3
    <2> QED BY <1>1, <2>2, <2>3
  <1>4. LinedIn(p, R)
    BY <1>1, <1>3 DEF LinedIn
  <1> QED BY <1>4 DEF p

LEMMA LinedRemoves ==
    ASSUME NEW q \in Seq(ChatMessages), NEW x, x \notin Stored
    PROVE  /\ RemoveFirst(q, x) \in Seq(ChatMessages)
           /\ \A m \in Stored : m \in ToSet(RemoveFirst(q, x)) <=> m \in ToSet(q)
           /\ \A R : LinedIn(q, R) => LinedIn(RemoveFirst(q, x), R)
  <1> DEFINE p == RemoveFirst(q, x)
  <1> HIDE DEF p
  <1>1. /\ p \in Seq(ChatMessages)
        /\ \/ p = q
           \/ \E k \in 1..Len(q) :
                /\ q[k] = x /\ Len(p) = Len(q) - 1
                /\ \A i \in 1..k - 1 : p[i] = q[i]
                /\ \A i \in k..Len(q) - 1 : p[i] = q[i + 1]
    BY Removed DEF p
  <1>2. CASE p = q
    BY <1>1, <1>2 DEF p
  <1>3. CASE p # q
    <2>1. PICK k \in 1..Len(q) :
                /\ q[k] = x /\ Len(p) = Len(q) - 1
                /\ \A i \in 1..k - 1 : p[i] = q[i]
                /\ \A i \in k..Len(q) - 1 : p[i] = q[i + 1]
      BY <1>1, <1>3
    <2>2. Len(q) \in Nat /\ k \in Nat
      BY <2>1
    <2> DEFINE at(i) == IF i < k THEN i ELSE i + 1
    <2>3. \A i \in 1..Len(p) : at(i) \in 1..Len(q) /\ p[i] = q[at(i)]
      BY <2>1, <2>2
    <2>4. \A i, j \in 1..Len(p) : i < j => at(i) < at(j)
      BY <2>1, <2>2
    <2> HIDE DEF at
    <2>5. ASSUME NEW R, LinedIn(q, R) PROVE LinedIn(p, R)
      BY <2>3, <2>4, <2>5 DEF LinedIn
    <2>6. ASSUME NEW m \in Stored, m \in ToSet(p) PROVE m \in ToSet(q)
      BY <1>1, <2>3, <2>6, Elements
    <2>7. ASSUME NEW m \in Stored, m \in ToSet(q) PROVE m \in ToSet(p)
      <3>1. PICK j \in 1..Len(q) : q[j] = m
        BY <2>7, Elements
      <3>2. j # k
        BY <2>1, <3>1
      <3>3. \E i \in 1..Len(p) : p[i] = m
        <4>1. CASE j < k
          <5>1. j \in 1..k - 1 /\ j \in 1..Len(p)
            BY <2>1, <2>2, <4>1
          <5> QED BY <2>1, <3>1, <5>1
        <4>2. CASE j > k
          <5>1. j - 1 \in k..Len(q) - 1 /\ j - 1 \in 1..Len(p) /\ (j - 1) + 1 = j
            BY <2>1, <2>2, <4>2
          <5>2. p[j - 1] = q[j]
            BY <2>1, <5>1
          <5> QED BY <3>1, <5>1, <5>2
        <4> QED BY <2>2, <3>2, <4>1, <4>2
      <3> QED BY <1>1, <3>3, Elements
    <2> QED BY <1>1, <2>5, <2>6, <2>7 DEF p
  <1> QED BY <1>2, <1>3

\* A page is asked for
Asks ==
  /\ \E k \in Kinds, s \in Sessions : Ask(k, s)
  /\ view' \in {view, <<>>} /\ UNCHANGED <<sess, rows, turns, frames>>

\* The first frame is a message
Shows ==
  /\ frames # <<>> /\ frames' = Tail(frames)
  /\ view' = IF Head(frames).id \in Shown THEN view ELSE Append(view, Head(frames).id)
  /\ UNCHANGED <<sess, rows, turns, fetches, overtaken>>

\* The user's copies come and go
Types ==
  /\ \/ \E c \in BOOLEAN : Push(view, c)
     \/ \E n \in failed : LET rest == RemoveFirst(view, <<"tmp", n>>) IN
                          Push(rest, FALSE) \/ view' = rest
  /\ UNCHANGED <<sess, rows, turns, frames, fetches, overtaken>>

\* A page replaces the view
Applies ==
  /\ \E g \in fetches : view' = g.page /\ fetches' = fetches \ {g}
  /\ UNCHANGED <<sess, rows, turns, frames, overtaken>>

Keeps == view' \in {view, <<>>} /\ fetches' \subseteq fetches /\ UNCHANGED overtaken

LEMMA TabSteps ==
    ASSUME Given, Typed, [ChatNext]_chatVars
    PROVE  Asks \/ Shows \/ Types \/ Applies \/ Keeps
  <1> USE DEF serverVars, tabVars, chatHistory
  <1>1. CASE Receive \/ Disconnect
    BY <1>1 DEF Receive, Disconnect, Keeps
  <1>k. ASSUME NEW t \in turns, Handle(t) PROVE Keeps
    BY <1>k, HandleTypes DEF Keeps
  <1>2. CASE Reconnect
    <2>1. CASE cur = Nil
      BY <1>2, <2>1 DEF Reconnect, Keeps
    <2>2. CASE cur # Nil
      BY <1>2, <2>2 DEF Reconnect, Asks, Kinds, Typed, TypedTab
    <2> QED BY <2>1, <2>2
  <1>3. CASE OnFrame
    <2>1. frames # <<>> /\ frames' = Tail(frames) /\ UNCHANGED <<sess, rows, turns, fetches, overtaken>>
      BY <1>3 DEF OnFrame
    <2>2. CASE OnCreate(Head(frames))
      BY <2>1, <2>2 DEF OnCreate, Shows
    <2>3. CASE OnError \/ OnReset
      BY <2>1, <2>3 DEF OnError, OnReset, Keeps
    <2> QED BY <1>3, <2>2, <2>3 DEF OnFrame
  <1>4. CASE Poll
    BY <1>4 DEF Poll, Asks, Kinds, Typed, TypedTab
  <1>5. CASE NewChatClears \/ ResetClears
    BY <1>5 DEF NewChatClears, ResetClears, Blank, Keeps
  <1>6. CASE Send
    BY <1>6 DEF Send, Types
  <1>7. CASE Retry
    BY <1>7 DEF Retry, Types
  <1>8. CASE StartNewChat \/ UNCHANGED chatVars
    BY <1>8 DEF StartNewChat, Blank, chatVars, Keeps
  <1>9. ASSUME NEW s \in Sessions, SelectSession(s) PROVE Asks
    BY <1>9 DEF SelectSession, Asks, Kinds
  <1>10. ASSUME NEW s, DeleteSession(s) \/ DeleteClears(s) PROVE Keeps
    BY <1>10 DEF DeleteSession, DeleteClears, Blank, Keeps
  <1>11. ASSUME NEW f \in fetches, ApplyFetch(f) \/ FetchFails(f) PROVE Applies \/ Keeps
    BY <1>11 DEF ApplyFetch, FetchFails, Applies, Keeps
  <1> QED BY <1>1, <1>k, <1>2, <1>3, <1>4, <1>5, <1>6, <1>7, <1>8, <1>9, <1>10, <1>11
          DEF ChatNext, Server, Tab, User

\* The user's copies change neither the stored messages shown nor their order
LEMMA Edited ==
    ASSUME Given, Typed, Types
    PROVE  /\ \A m \in Stored : m \in Shown' <=> m \in Shown
           /\ \A R \in SUBSET Stored : LinedIn(view, R) => LinedIn(view', R)
  <1>1. view \in Seq(ChatMessages)
    BY DEF Typed, TypedTab
  <1>2. ASSUME NEW base \in Seq(ChatMessages), NEW c \in BOOLEAN, Push(base, c)
        PROVE  /\ \A m \in Stored : m \in Shown' <=> m \in ToSet(base)
               /\ \A R \in SUBSET Stored : LinedIn(base, R) => LinedIn(view', R)
    <2>1. sends + 1 \in 1..MaxSends
      BY <1>2, PushTypes DEF Typed, TypedTab
    <2>2. PICK x \in ChatMessages : x = <<"tmp", sends + 1>> /\ x \notin Stored
      BY <2>1, RankFacts
    <2>3. view' = Append(base, x)
      BY <1>2, <2>2 DEF Push
    <2>4. ToSet(view') = ToSet(base) \cup {x}
      BY <2>3, AppendElements
    <2>5. \A R \in SUBSET Stored : LinedIn(base, R) => LinedIn(view', R)
      BY <2>2, <2>3, LinedAppends
    <2> QED BY <2>2, <2>4, <2>5 DEF Shown
  <1>3. CASE \E c \in BOOLEAN : Push(view, c)
    BY <1>1, <1>2, <1>3 DEF Shown
  <1>4. CASE \E n \in failed : Push(RemoveFirst(view, <<"tmp", n>>), FALSE)
                               \/ view' = RemoveFirst(view, <<"tmp", n>>)
    <2>1. PICK n \in failed : Push(RemoveFirst(view, <<"tmp", n>>), FALSE)
                              \/ view' = RemoveFirst(view, <<"tmp", n>>)
      BY <1>4
    <2>2. PICK x : x = <<"tmp", n>>
      OBVIOUS
    <2>3. x \notin Stored
      BY <2>2 DEF Stored
    <2> DEFINE rest == RemoveFirst(view, x)
    <2>4. /\ rest \in Seq(ChatMessages)
          /\ \A m \in Stored : m \in ToSet(rest) <=> m \in Shown
          /\ \A R : LinedIn(view, R) => LinedIn(rest, R)
      BY <1>1, <2>3, LinedRemoves DEF Shown
    <2>5. Push(rest, FALSE) \/ view' = rest
      BY <2>1, <2>2
    <2> HIDE DEF rest
    <2>6. CASE Push(rest, FALSE)
      BY <1>2, <2>4, <2>6
    <2>7. CASE view' = rest
      BY <2>4, <2>7 DEF Shown
    <2> QED BY <2>5, <2>6, <2>7
  <1> QED BY <1>3, <1>4 DEF Types

-----------------------------------------------------------------------------
(* The view is in order *)

LEMMA PageFacts ==
    ASSUME Given, Typed, Written, NEW s \in Sessions
    PROVE  /\ Page(s) \in Seq(Stored) /\ Climbs(Page(s))
           /\ ToSet(Page(s)) \subseteq ToSet(rows[s])
           /\ \A m \in ToSet(Page(s)) : m \in Stored /\ Past(Rank(m))
  <1> DEFINE p == Page(s)
             r == rows[s]
  <1>1. r \in Seq(Stored)
    BY DEF Typed, TypedServer
  <1>2. p \in Seq(Stored) /\ \E d \in Nat : Len(r) = Len(p) + d /\ \A i \in 1..Len(p) : p[i] = r[i + d]
    BY <1>1, PageElements
  <1>3. Climbs(r) /\ \A m \in ToSet(r) : Past(Rank(m))
    BY DEF Written
  <1> HIDE DEF p, r
  <1>4. PICK d \in Nat : Len(r) = Len(p) + d /\ \A i \in 1..Len(p) : p[i] = r[i + d]
    BY <1>2
  <1>5. Len(p) \in Nat /\ \A i \in 1..Len(p) : i + d \in 1..Len(r)
    BY <1>2, <1>4
  <1>6. ASSUME NEW i \in 1..Len(p), NEW j \in 1..Len(p), i < j PROVE Rank(p[i]) < Rank(p[j])
    <2>1. i + d \in 1..Len(r) /\ j + d \in 1..Len(r) /\ i + d < j + d
      BY <1>5, <1>6
    <2> QED BY <1>3, <1>4, <2>1 DEF Climbs
  <1>7. ToSet(p) \subseteq ToSet(r)
    <2>1. \A i \in 1..Len(r) : r[i] \in ToSet(r)
      BY <1>1, Elements
    <2>2. ASSUME NEW m \in ToSet(p) PROVE m \in ToSet(r)
      <3>1. PICK i \in 1..Len(p) : p[i] = m
        BY <1>2, Elements
      <3> QED BY <1>4, <1>5, <2>1, <3>1
    <2> QED BY <2>2
  <1>8. Climbs(p)
    BY <1>6 DEF Climbs
  <1>9. ToSet(p) \subseteq Stored
    BY <1>2, Elements
  <1> QED BY <1>2, <1>3, <1>7, <1>8, <1>9 DEF p, r

\* Nothing on screen, or on its way in a page, is still to be stored
TabInv ==
  /\ \A m \in Shown : m \in Stored => Past(Rank(m))
  /\ \A g \in fetches : Climbs(g.page) /\ \A m \in ToSet(g.page) : Past(Rank(m))

LEMMA PageTypes ==
    ASSUME Typed, NEW g \in fetches
    PROVE  g.page \in Seq(Stored) /\ ToSet(g.page) \subseteq Stored /\ g.sid \in Sessions
  <1>1. g \in Answers
    BY DEF Typed, TypedTab
  <1>2. g.page \in Seq(Stored) /\ g.sid \in Sessions
    BY <1>1 DEF Answers
  <1> QED BY <1>2, Elements

LEMMA HeadFrame ==
    ASSUME Typed, frames # <<>>
    PROVE  /\ Head(frames) \in Frames /\ Head(frames) \in ToSet(frames) /\ Head(frames) = frames[1]
           /\ Len(frames) \in Nat \ {0}
  <1>1. frames \in Seq(Frames)
    BY DEF Typed, TypedTab
  <1>2. Head(frames) = frames[1] /\ Len(frames) \in Nat \ {0} /\ Head(frames) \in Frames
    BY <1>1, HeadTail
  <1>3. 1 \in 1..Len(frames)
    BY <1>2
  <1> QED BY <1>1, <1>2, <1>3, Elements

\* The view with one more message
LEMMA ShownMore ==
    ASSUME Given, Typed, Shows
    PROVE  Shown' = Shown \cup {Head(frames).id}
  <1>1. Head(frames).id \in ChatMessages
    BY HeadFrame, FrameFacts DEF Shows
  <1>2. ToSet(Append(view, Head(frames).id)) = ToSet(view) \cup {Head(frames).id}
    BY <1>1, AppendElements DEF Typed, TypedTab
  <1> QED BY <1>2 DEF Shows, Shown

LEMMA TabInvNext ==
    ASSUME Given, Typed, Numbered, InOrder, FrameInv, TabInv, [ChatNext]_chatVars
    PROVE  TabInv'
  <1>1. \A m \in Stored : Past(Rank(m)) => Past(Rank(m))'
    BY PastKeeps, RankFacts DEF InOrder
  <1>2. ASSUME NEW g \in fetches PROVE Climbs(g.page) /\ \A m \in ToSet(g.page) : Past(Rank(m))'
    BY <1>1, PageTypes DEF TabInv
  <1>3. \A m \in Shown : m \in Stored => Past(Rank(m))'
    BY <1>1 DEF TabInv
  <1>4. ASSUME fetches' \subseteq fetches, \A m \in Shown' : m \in Stored => Past(Rank(m))' PROVE TabInv'
    BY <1>2, <1>4 DEF TabInv
  <1>5. CASE Asks
    <2>1. PICK k \in Kinds, s \in Sessions : Ask(k, s)
      BY <1>5 DEF Asks
    <2>2. PICK p : p = Page(s)
      OBVIOUS
    <2>3. Climbs(p) /\ \A m \in ToSet(p) : m \in Stored /\ Past(Rank(m))
      BY <2>2, PageFacts DEF InOrder
    <2>4. \A g \in fetches' : g \in fetches \/ g.page = p
      BY <2>1, <2>2 DEF Ask, Fetch
    <2>5. \A m \in ToSet(p) : Past(Rank(m))'
      BY <1>1, <2>3
    <2>6. Shown' \subseteq Shown
      BY <1>5, NoElements DEF Asks, Shown
    <2>7. \A g \in fetches' : Climbs(g.page) /\ \A m \in ToSet(g.page) : Past(Rank(m))'
      BY <1>2, <2>3, <2>4, <2>5
    <2> QED BY <1>3, <2>6, <2>7 DEF TabInv
  <1>6. CASE Shows
    <2>1. Head(frames) \in Frames /\ FrameTrue(Head(frames))
      BY <1>6, HeadFrame DEF Shows, FrameInv
    <2>2. PICK x : x = Head(frames).id
      OBVIOUS
    <2>3. x \in Stored => Past(Rank(x))
      <3>1. x \in Stored => x # Notice
        BY RankFacts
      <3> QED BY <2>1, <2>2, <3>1, FrameFacts DEF FrameTrue
    <2>4. Shown' = Shown \cup {x}
      BY <1>6, <2>2, ShownMore
    <2>5. \A m \in Shown' : m \in Stored => Past(Rank(m))'
      BY <1>1, <1>3, <2>3, <2>4
    <2> QED BY <1>4, <1>6, <2>5 DEF Shows
  <1>7. CASE Types
    <2>1. \A m \in Shown' : m \in Stored => Past(Rank(m))'
      BY <1>3, <1>7, Edited
    <2> QED BY <1>4, <1>7, <2>1 DEF Types
  <1>8. CASE Applies
    <2>1. PICK g \in fetches : view' = g.page
      BY <1>8 DEF Applies
    <2>2. Shown' = ToSet(g.page)
      BY <2>1 DEF Shown
    <2>3. \A m \in Shown' : m \in Stored => Past(Rank(m))'
      BY <1>2, <2>2
    <2> QED BY <1>4, <1>8, <2>3 DEF Applies
  <1>9. CASE Keeps
    <2>1. Shown' \subseteq Shown
      BY <1>9, NoElements DEF Keeps, Shown
    <2> QED BY <1>3, <1>4, <1>9, <2>1 DEF Keeps
  <1> QED BY <1>5, <1>6, <1>7, <1>8, <1>9, TabSteps

\* A list shows a reply or nothing of its session that is later
Later(S, f, stored) == f.id \in S \/ \A m \in S : m \in stored => Rank(m) < Rank(f.id)
Behind(S, f) == Later(S, f, ToSet(rows[f.sid]))

Aligned == \A s \in Sessions : LinedIn(view, ToSet(rows[s]))
Awaited ==
  \A f \in ToSet(frames) :
    f.sid # Nil => Behind(Shown, f) /\ \A g \in fetches : Behind(ToSet(g.page), f)

OrderInv == overtaken \/ (Aligned /\ Awaited)

LEMMA BehindKeeps ==
    ASSUME Given, Typed, Numbered, InOrder, [ChatNext]_chatVars, NEW S, \A m \in S : m \in Stored => Past(Rank(m)),
           NEW f \in Frames, f.sid # Nil, Behind(S, f)
    PROVE  Later(S, f, ToSet(rows'[f.sid]))
  <1>1. PICK s \in Sessions : s = f.sid
    BY FrameFacts
  <1>2. \A m \in ToSet(rows'[s]) : m \in Stored
    BY TypedNext, Elements DEF Typed, TypedServer
  <1>3. \A m \in S : m \in ToSet(rows'[s]) => m \in ToSet(rows[s])
    BY <1>2, OldRows DEF InOrder
  <1>4. f.id \in S \/ \A m \in S : m \in ToSet(rows'[s]) => Rank(m) < Rank(f.id)
    BY <1>1, <1>3 DEF Behind, Later
  <1> QED BY <1>1, <1>4 DEF Behind, Later

LEMMA LinedKeeps ==
    ASSUME Given, Typed, Numbered, InOrder, [ChatNext]_chatVars, NEW q \in Seq(ChatMessages),
           \A m \in ToSet(q) : m \in Stored => Past(Rank(m)),
           NEW s \in Sessions, LinedIn(q, ToSet(rows[s]))
    PROVE  LinedIn(q, ToSet(rows'[s]))
  <1>1. \A m \in ToSet(rows'[s]) : m \in Stored
    BY TypedNext, Elements DEF Typed, TypedServer
  <1>2. \A m \in ToSet(q) : m \in ToSet(rows'[s]) => m \in ToSet(rows[s])
    BY <1>1, OldRows DEF InOrder
  <1>3. \A i \in 1..Len(q) : q[i] \in ToSet(q)
    BY Elements
  <1> QED BY <1>2, <1>3 DEF LinedIn

LEMMA OrderNext ==
    ASSUME Given, Typed, Numbered, Existing, InOrder, FrameInv, TabInv, OrderInv, [ChatNext]_chatVars
    PROVE  OrderInv'
  <1> SUFFICES ASSUME ~overtaken' PROVE Aligned' /\ Awaited'
    BY DEF OrderInv
  <1>1. Aligned /\ Awaited
    <2>1. overtaken \in BOOLEAN
      BY DEF Typed, TypedTab
    <2>2. ~overtaken
      <3>1. CASE Asks
        BY <2>1, <3>1 DEF Asks, Ask
      <3>2. CASE overtaken' = overtaken
        BY <3>2
      <3> QED BY <3>1, <3>2, TabSteps DEF Shows, Types, Applies, Keeps
    <2> QED BY <2>2 DEF OrderInv
  <1>2. frames \in Seq(Frames) /\ ToSet(frames) \subseteq Frames
    BY Elements DEF Typed, TypedTab
  <1>3. PICK q : q = view
    OBVIOUS
  <1>4. q \in Seq(ChatMessages) /\ ToSet(q) = Shown /\ \A m \in ToSet(q) : m \in Stored => Past(Rank(m))
    BY <1>3 DEF Typed, TypedTab, Shown, TabInv
  <1>5. \A s \in Sessions : LinedIn(q, ToSet(rows'[s]))
    BY <1>1, <1>3, <1>4, LinedKeeps DEF Aligned
  \* frames that were there
  <1>6. ASSUME NEW f \in ToSet(frames), f.sid # Nil
        PROVE  /\ Later(ToSet(q), f, ToSet(rows'[f.sid]))
               /\ \A g \in fetches : Later(ToSet(g.page), f, ToSet(rows'[f.sid]))
               /\ Later({}, f, ToSet(rows'[f.sid]))
    <2>1. Behind(Shown, f) /\ (\A g \in fetches : Behind(ToSet(g.page), f)) /\ f \in Frames
      BY <1>1, <1>2, <1>6 DEF Awaited
    <2>2. Later(ToSet(q), f, ToSet(rows'[f.sid]))
      BY <1>4, <1>6, <2>1, BehindKeeps
    <2>3. ASSUME NEW g \in fetches PROVE Later(ToSet(g.page), f, ToSet(rows'[f.sid]))
      <3>1. PICK S : S = ToSet(g.page)
        OBVIOUS
      <3>2. Behind(S, f) /\ \A m \in S : Past(Rank(m))
        BY <2>1, <3>1 DEF TabInv
      <3>3. Later(S, f, ToSet(rows'[f.sid]))
        BY <1>6, <2>1, <3>2, BehindKeeps
      <3> QED BY <3>1, <3>3 DEF Behind, Later
    <2>4. Later({}, f, ToSet(rows'[f.sid]))
      BY DEF Behind, Later
    <2> QED BY <2>2, <2>3, <2>4
  <1>7. CASE Asks
    <2>1. PICK k \in Kinds, s \in Sessions : Ask(k, s)
      BY <1>7 DEF Asks
    <2>2. PICK p : p = ToSet(Page(s)) /\ p \subseteq ToSet(rows[s])
      BY PageFacts DEF InOrder
    <2>3. view' \in {q, <<>>} /\ UNCHANGED <<sess, rows, turns, frames>>
      BY <1>3, <1>7 DEF Asks
    <2>4. \A g \in fetches' : g \in fetches \/ ToSet(g.page) = p
      BY <2>1, <2>2 DEF Ask, Fetch
    <2>5. ASSUME NEW f \in ToSet(frames), f.sid # Nil PROVE Behind(p, f)
      <3>1. f.id \notin ToSet(rows[s]) \/ f.id \in p
        BY <2>1, <2>2, <2>5 DEF Ask
      <3>2. /\ FrameTrue(f) /\ f.sid \in Sessions
        BY <1>2, <2>5, FrameFacts DEF FrameInv
      <3>3. CASE f.sid # s
        <4>1. \A m \in p : m \notin ToSet(rows[f.sid])
          BY <2>2, <3>2, <3>3 DEF InOrder, Written, Placed
        <4> QED BY <4>1 DEF Behind, Later
      <3>4. CASE f.sid = s /\ f.id \notin ToSet(rows[s])
        <4>1. sess[s] = "deleted"
          BY <2>5, <3>2, <3>4 DEF FrameTrue
        <4>2. rows[s] = <<>>
          BY <4>1 DEF Existing
        <4>3. p = {}
          BY <2>2, <4>2, NoElements
        <4> QED BY <4>3 DEF Behind, Later
      <3>5. CASE f.id \in p
        BY <3>5 DEF Behind, Later
      <3> QED BY <3>1, <3>3, <3>4, <3>5
    <2>6. ASSUME NEW f \in ToSet(frames), f.sid # Nil PROVE Later(p, f, ToSet(rows'[f.sid]))
      BY <2>3, <2>5, <2>6 DEF Behind, Later
    <2>7. Aligned'
      <3>1. \A s_1 \in Sessions : LinedIn(<<>>, ToSet(rows'[s_1]))
        BY NoElements DEF LinedIn
      <3> QED BY <1>5, <2>3, <3>1 DEF Aligned
    <2>8. ASSUME NEW f \in ToSet(frames), f.sid # Nil PROVE Later(Shown', f, ToSet(rows'[f.sid]))
      <3>1. Shown' = ToSet(q) \/ Shown' = {}
        BY <2>3, NoElements DEF Shown
      <3> QED BY <1>6, <2>8, <3>1 DEF Behind, Later
    <2>9. ASSUME NEW f \in ToSet(frames), f.sid # Nil, NEW g \in fetches' PROVE Later(ToSet(g.page), f, ToSet(rows'[f.sid]))
      BY <1>6, <2>4, <2>6, <2>9 DEF Behind, Later
    <2> QED BY <2>3, <2>7, <2>8, <2>9 DEF Awaited, Behind
  <1>8. CASE Shows
    <2>1. PICK h : h = Head(frames)
      OBVIOUS
    <2>2. h \in Frames /\ h \in ToSet(frames) /\ h = frames[1] /\ Len(frames) \in Nat \ {0} /\ FrameTrue(h)
      BY <1>8, <2>1, HeadFrame DEF Shows, FrameInv
    <2>3. UNCHANGED <<sess, rows, turns, fetches>>
      BY <1>8 DEF Shows
    <2>4. h.id \in ChatMessages /\ (h.id \in Stored => h.sid # Nil /\ h.sid \in Sessions)
      <3>1. h.id \in Stored => h.id # Notice
        BY RankFacts
      <3> QED BY <2>2, <3>1, FrameFacts
    <2>5. view' = IF h.id \in ToSet(q) THEN q ELSE Append(q, h.id)
      BY <1>3, <1>4, <1>8, <2>1 DEF Shows
    <2>6. Shown' = ToSet(q) \cup {h.id}
      BY <1>4, <1>8, <2>1, ShownMore
    <2>7. ASSUME NEW s \in Sessions PROVE LinedIn(view', ToSet(rows'[s]))
      <3>1. CASE h.id \in ToSet(q)
        BY <1>5, <2>5, <3>1
      <3>2. CASE h.id \notin ToSet(q)
        <4>1. ASSUME h.id \in ToSet(rows'[s]), NEW m \in ToSet(q), m \in ToSet(rows'[s])
              PROVE  Rank(m) < Rank(h.id)
          <5>1. h.id \in ToSet(rows[s]) /\ m \in ToSet(rows[s])
            BY <2>3, <4>1
          <5>2. h.id \in Stored
            BY <5>1, Elements DEF Typed, TypedServer
          <5>3. h.sid = s /\ h.sid # Nil
            BY <2>2, <2>4, <5>1, <5>2 DEF FrameTrue, Placed
          <5>4. Behind(ToSet(q), h)
            BY <1>1, <1>4, <2>2, <5>3 DEF Awaited
          <5> QED BY <3>2, <4>1, <5>1, <5>3, <5>4 DEF Behind, Later
        <4>2. LinedIn(Append(q, h.id), ToSet(rows'[s]))
          BY <1>4, <1>5, <2>4, <4>1, LinedAppends
        <4> QED BY <2>5, <3>2, <4>2
      <3> QED BY <3>1, <3>2
    <2>8. ASSUME NEW f \in ToSet(frames'), f.sid # Nil
          PROVE  Later(Shown', f, ToSet(rows'[f.sid])) /\ \A g \in fetches' : Later(ToSet(g.page), f, ToSet(rows'[f.sid]))
      <3>1. f \in ToSet(frames)
        BY <1>2, <1>8, <2>8, InTurnTail DEF Shows, FrameInv
      <3>2. \A g \in fetches' : Later(ToSet(g.page), f, ToSet(rows'[f.sid]))
        BY <1>6, <2>3, <2>8, <3>1
      <3>3. Later(ToSet(q), f, ToSet(rows'[f.sid]))
        BY <1>6, <2>8, <3>1
      <3>4. h.id \in ToSet(rows'[f.sid]) => Rank(h.id) < Rank(f.id)
        <4>1. SUFFICES ASSUME h.id \in ToSet(rows[f.sid]) PROVE Rank(h.id) < Rank(f.id)
          BY <2>3
        <4>2. f \in Frames /\ f.sid \in Sessions
          BY <1>2, <2>8, <3>1, FrameFacts
        <4>3. h.id \in Stored
          BY <4>1, <4>2, Elements DEF Typed, TypedServer
        <4>4. h.sid # Nil
          BY <2>4, <4>3
        <4>5. PICK i \in 1..Len(frames) - 1 : frames[i + 1] = f
          <5>1. frames' = Tail(frames) /\ Tail(frames) \in Seq(Frames)
                /\ Len(Tail(frames)) = Len(frames) - 1
                /\ \A i \in 1..Len(frames) - 1 : Tail(frames)[i] = frames[i + 1]
            BY <1>2, <1>8, HeadTail DEF Shows
          <5>2. PICK i \in 1..Len(Tail(frames)) : Tail(frames)[i] = f
            BY <2>8, <5>1, Elements
          <5> QED BY <5>1, <5>2
        <4>6. i + 1 \in 1..Len(frames) /\ 1 \in 1..Len(frames) /\ 1 < i + 1
          BY <2>2, <4>5
        <4> QED BY <2>2, <2>8, <4>4, <4>5, <4>6 DEF FrameInv, InTurn
      <3> QED BY <2>6, <3>2, <3>3, <3>4 DEF Behind, Later
    <2> QED BY <2>7, <2>8 DEF Aligned, Awaited, Behind
  <1>9. CASE Types
    <2>1. /\ \A m \in Stored : m \in Shown' <=> m \in Shown
          /\ \A R \in SUBSET Stored : LinedIn(q, R) => LinedIn(view', R)
      BY <1>3, <1>9, Edited
    <2>2. \A s \in Sessions : ToSet(rows'[s]) \in SUBSET Stored
      BY TypedNext, Elements DEF Typed, TypedServer
    <2>3. Aligned'
      BY <1>5, <2>1, <2>2 DEF Aligned
    <2>4. UNCHANGED <<sess, rows, turns, frames, fetches>>
      BY <1>9 DEF Types
    <2>5. ASSUME NEW f \in ToSet(frames), f.sid # Nil PROVE Later(Shown', f, ToSet(rows'[f.sid]))
      <3>1. f.id \in Stored /\ f.sid \in Sessions
        BY <1>2, <2>5, FrameFacts
      <3> QED BY <1>4, <1>6, <2>1, <2>2, <2>5, <3>1 DEF Behind, Later
    <2> QED BY <1>6, <2>3, <2>4, <2>5 DEF Awaited, Behind
  <1>10. CASE Applies
    <2>1. PICK g \in fetches : view' = g.page /\ fetches' = fetches \ {g}
      BY <1>10 DEF Applies
    <2>2. UNCHANGED <<sess, rows, turns, frames>>
      BY <1>10 DEF Applies
    <2>3. Climbs(g.page)
      BY DEF TabInv
    <2>4. Aligned'
      BY <2>1, <2>3 DEF Aligned, LinedIn, Climbs
    <2>5. ASSUME NEW f \in ToSet(frames), f.sid # Nil
          PROVE  Later(Shown', f, ToSet(rows'[f.sid])) /\ \A k \in fetches' : Later(ToSet(k.page), f, ToSet(rows'[f.sid]))
      BY <1>6, <2>1, <2>5 DEF Shown
    <2> QED BY <2>2, <2>4, <2>5 DEF Awaited, Behind
  <1>11. CASE Keeps
    <2>1. view' \in {q, <<>>} /\ fetches' \subseteq fetches
      BY <1>3, <1>11 DEF Keeps
    <2>2. Aligned'
      <3>1. \A s \in Sessions : LinedIn(<<>>, ToSet(rows'[s]))
        BY NoElements DEF LinedIn
      <3> QED BY <1>5, <2>1, <3>1 DEF Aligned
    <2>3. Shown' = ToSet(q) \/ Shown' = {}
      BY <2>1, NoElements DEF Shown
    <2>4. ASSUME NEW f \in ToSet(frames), f.sid # Nil
          PROVE  Later(Shown', f, ToSet(rows'[f.sid])) /\ \A k \in fetches' : Later(ToSet(k.page), f, ToSet(rows'[f.sid]))
      BY <1>6, <2>1, <2>3, <2>4
    \* the frame of a reply that is delivered now
    <2>5. ASSUME NEW t \in turns, t.at = "completed", NEW f \in Frames,
                 f = Create(<<"assistant", t.of>>, t.sid)
          PROVE  Later(Shown', f, ToSet(rows'[f.sid])) /\ \A k \in fetches' : Later(ToSet(k.page), f, ToSet(rows'[f.sid]))
      <3>1. f.id = <<"assistant", t.of>> /\ f.sid = t.sid /\ t.at \in Answered
        BY <2>5 DEF Create, Answered
      <3>2. /\ t.of \in 1..MaxSends /\ f.id \in Stored /\ f.sid \in Sessions
            /\ Rank(f.id) = 2 * t.of + 1 /\ \A k \in Nat : Past(k) => k <= 2 * t.of + 1
        BY <3>1, ReplyPast DEF InOrder
      <3>3. ASSUME NEW S, \A m \in S : m \in Stored => Past(Rank(m)) PROVE Later(S, f, ToSet(rows'[f.sid]))
        <4>1. \A m \in S : m \in Stored => Rank(m) <= Rank(f.id) /\ Rank(m) \in Nat
          BY <3>2, <3>3, RankFacts
        <4>2. \A m \in S : m \in Stored => Rank(m) < Rank(f.id) \/ m = f.id
          BY <3>2, <4>1, RankFacts
        <4>3. \A m \in ToSet(rows'[f.sid]) : m \in Stored
          BY <3>2, TypedNext, Elements DEF Typed, TypedServer
        <4> QED BY <4>2, <4>3 DEF Behind, Later
      <3>4. Later(ToSet(q), f, ToSet(rows'[f.sid])) /\ Later({}, f, ToSet(rows'[f.sid]))
        BY <1>4, <3>3
      <3>5. ASSUME NEW g \in fetches PROVE Later(ToSet(g.page), f, ToSet(rows'[f.sid]))
        <4>1. PICK S : S = ToSet(g.page)
          OBVIOUS
        <4>2. \A m \in S : Past(Rank(m))
          BY <4>1 DEF TabInv
        <4>3. Later(S, f, ToSet(rows'[f.sid]))
          BY <3>3, <4>2
        <4> QED BY <4>1, <4>3 DEF Behind, Later
      <3> QED BY <2>1, <2>3, <3>4, <3>5
    <2>6. ASSUME NEW f \in ToSet(frames'), f.sid # Nil
          PROVE  Later(Shown', f, ToSet(rows'[f.sid])) /\ \A k \in fetches' : Later(ToSet(k.page), f, ToSet(rows'[f.sid]))
      <3>1. CASE f \in ToSet(frames)
        BY <2>4, <2>6, <3>1
      <3>2. CASE f \notin ToSet(frames)
        <4>1. \E t \in turns : t.at = "completed" /\ f \in Frames /\ f = Create(<<"assistant", t.of>>, t.sid)
          <5>1. CASE frames' \in {frames, <<>>}
            BY <2>6, <3>2, <5>1, NoElements
          <5>2. CASE frames # <<>> /\ frames' = Tail(frames)
            BY <1>2, <2>6, <3>2, <5>2, InTurnTail DEF FrameInv
          <5>3. ASSUME NEW g \in Frames, frames' = Append(frames, g) PROVE f = g
            BY <1>2, <2>6, <3>2, <5>3, AppendElements
          <5>4. ASSUME NEW g \in Frames, NEW h \in Frames, frames' = Append(Append(frames, g), h)
                PROVE  f \in {g, h}
            <6> DEFINE r == Append(frames, g)
            <6>1. r \in Seq(Frames) /\ ToSet(r) = ToSet(frames) \cup {g} /\ frames' = Append(r, h)
              BY <1>2, <5>4, AppendElements
            <6> HIDE DEF r
            <6>2. ToSet(frames') = ToSet(r) \cup {h}
              BY <6>1, AppendElements
            <6> QED BY <2>6, <3>2, <6>1, <6>2
          <5> QED BY <2>6, <5>1, <5>2, <5>3, <5>4, SocketSteps DEF FrameSteps
        <4> QED BY <2>5, <4>1
      <3> QED BY <3>1, <3>2
    <2> QED BY <2>2, <2>6 DEF Awaited, Behind
  <1> QED BY <1>7, <1>8, <1>9, <1>10, <1>11, TabSteps

-----------------------------------------------------------------------------
(* The session of a message *)

\* The tab knows only sessions that exist, and so do its messages
Known ==
  /\ cur # Nil => sess[cur] # "none"
  /\ \A f \in ToSet(frames) : f.sid # Nil => sess[f.sid] # "none"
  /\ \A i \in 1..Len(inbox) : inbox[i].from # Nil => sess[inbox[i].from] # "none"
  /\ \A t \in turns : t.from # Nil => sess[t.from] # "none"

LEMMA KnownNext == Given /\ Typed /\ Existing /\ Known /\ [ChatNext]_chatVars => Known'
  <1> SUFFICES ASSUME Given, Typed, Existing, Known, [ChatNext]_chatVars PROVE Known'
    OBVIOUS
  <1>1. \A s \in Sessions \cup {Nil} : s # Nil /\ sess[s] # "none" => sess'[s] # "none"
    BY SessionsStay
  <1>2. frames \in Seq(Frames) /\ ToSet(frames) \subseteq Frames /\ cur \in Sessions \cup {Nil}
    BY Elements DEF Typed, TypedTab
  <1>3. \A f \in ToSet(frames) : f.sid \in Sessions \cup {Nil} /\ (f.sid # Nil => sess'[f.sid] # "none")
    BY <1>1, <1>2, FrameFacts DEF Known
  <1>4. cur' # Nil => sess'[cur'] # "none"
    <2>1. CASE cur' \in {cur, Nil}
      BY <1>1, <1>2, <2>1 DEF Known
    <2>2. CASE OnFrame
      <3>1. cur' = cur \/ cur' = Head(frames).sid
        BY <2>2 DEF OnFrame, OnCreate, OnError, OnReset
      <3>2. Head(frames) \in ToSet(frames)
        BY <2>2, HeadFrame DEF OnFrame
      <3> QED BY <1>3, <2>1, <3>1, <3>2
    <2>3. ASSUME NEW s \in Sessions, SelectSession(s) PROVE cur' # Nil => sess'[cur'] # "none"
      BY <2>3 DEF SelectSession, serverVars
    <2>4. ASSUME NEW t \in turns, Handle(t) PROVE cur' \in {cur, Nil}
      BY <2>4, HandleTypes DEF tabVars
    <2>5. CASE Receive \/ Disconnect \/ Reconnect \/ Poll \/ NewChatClears \/ ResetClears \/ Send \/ Retry
               \/ StartNewChat \/ UNCHANGED chatVars
      BY <2>1, <2>5 DEF Receive, Disconnect, Reconnect, Poll, NewChatClears, ResetClears, Blank, Send, Retry,
                        StartNewChat, chatVars, tabVars
    <2>6. ASSUME NEW s, DeleteSession(s) \/ DeleteClears(s) PROVE cur' \in {cur, Nil}
      BY <2>6 DEF DeleteSession, DeleteClears, Blank
    <2>7. ASSUME NEW f \in fetches, ApplyFetch(f) \/ FetchFails(f) PROVE cur' \in {cur, Nil}
      BY <2>7 DEF ApplyFetch, FetchFails
    <2> QED BY <2>1, <2>2, <2>3, <2>4, <2>5, <2>6, <2>7 DEF ChatNext, Server, Tab, User
  <1>5. ASSUME NEW f \in ToSet(frames'), f.sid # Nil PROVE sess'[f.sid] # "none"
    <2>1. CASE f \in ToSet(frames)
      BY <1>3, <1>5, <2>1
    <2>2. CASE f \notin ToSet(frames)
      <3>1. CASE frames' \in {frames, <<>>}
        BY <1>5, <2>2, <3>1, NoElements
      <3>2. CASE frames # <<>> /\ frames' = Tail(frames)
        <4>1. \A i \in 1..Len(frames) - 1 : Tail(frames)[i] = frames[i + 1] /\ i + 1 \in 1..Len(frames)
          BY <1>2, <3>2, HeadTail
        <4>2. Tail(frames) \in Seq(Frames) /\ Len(Tail(frames)) = Len(frames) - 1
          BY <1>2, <3>2, HeadTail
        <4>3. PICK i \in 1..Len(Tail(frames)) : Tail(frames)[i] = f
          BY <1>5, <3>2, <4>2, Elements
        <4> QED BY <1>2, <2>2, <4>1, <4>2, <4>3, Elements
      <3>3. ASSUME NEW g \in Frames, frames' = Append(frames, g) PROVE f = g
        BY <1>2, <1>5, <2>2, <3>3, AppendElements
      <3>4. ASSUME NEW g \in Frames, NEW h \in Frames, frames' = Append(Append(frames, g), h)
            PROVE  f \in {g, h}
        <4> DEFINE q == Append(frames, g)
        <4>1. q \in Seq(Frames) /\ ToSet(q) = ToSet(frames) \cup {g} /\ frames' = Append(q, h)
          BY <1>2, <3>4, AppendElements
        <4> HIDE DEF q
        <4>2. ToSet(frames') = ToSet(q) \cup {h}
          BY <4>1, AppendElements
        <4> QED BY <1>5, <2>2, <4>1, <4>2
      <3>5. ASSUME NEW t \in turns, t.at = "completed", NEW g \in Frames, g = Create(<<"assistant", t.of>>, t.sid),
                   frames' = Append(frames, g)
            PROVE  sess'[f.sid] # "none"
        <4>1. f = g
          BY <3>3, <3>5
        <4>2. f.sid = t.sid
          BY <3>5, <4>1 DEF Create
        <4>3. sess[t.sid] # "none"
          BY <1>5, <4>2 DEF Existing
        <4>4. t.sid \in Sessions \cup {Nil}
          BY TurnFacts DEF Typed
        <4> QED BY <1>1, <1>5, <4>2, <4>3, <4>4
      <3> QED BY <1>5, <3>1, <2>2, <3>2, <3>3, <3>4, <3>5, SocketSteps DEF FrameSteps
    <2> QED BY <2>1, <2>2
  <1>6. \A i \in 1..Len(inbox) : inbox[i].from \in Sessions \cup {Nil}
                                 /\ (inbox[i].from # Nil => sess'[inbox[i].from] # "none")
    <2>1. \A i \in 1..Len(inbox) : inbox[i].from \in Sessions \cup {Nil}
      <3>1. \A l \in Letters : l.from \in Sessions \cup {Nil}
        BY DEF Letters
      <3>2. \A i \in 1..Len(inbox) : inbox[i] \in Letters
        BY DEF Typed, TypedServer
      <3> QED BY <3>1, <3>2
    <2> QED BY <1>1, <2>1 DEF Known
  <1>7. ASSUME NEW i \in 1..Len(inbox'), inbox'[i].from # Nil PROVE sess'[inbox'[i].from] # "none"
    <2>1. CASE UNCHANGED <<inbox, sends>>
      BY <1>6, <1>7, <2>1
    <2>2. CASE Loses
      BY <1>7, <2>2, NoElements DEF Loses
    <2>3. CASE Arrives
      <3>1. inbox'[i] = inbox[i + 1] /\ i + 1 \in 1..Len(inbox)
        BY <2>3, Received DEF Arrives, Typed
      <3> QED BY <1>6, <1>7, <3>1
    <2>4. CASE Pushes
      <3>1. /\ Len(inbox) \in Nat /\ Len(inbox') = Len(inbox) + 1
            /\ \A j \in 1..Len(inbox) : inbox'[j] = inbox[j]
            /\ inbox'[Len(inbox) + 1].from = cur
        BY <1>2, <2>4, Pushed DEF Typed
      <3>2. CASE i \in 1..Len(inbox)
        BY <1>6, <1>7, <3>1, <3>2
      <3>3. CASE i = Len(inbox) + 1
        BY <1>1, <1>2, <1>7, <3>1, <3>3 DEF Known
      <3> QED BY <3>1, <3>2, <3>3
    <2> QED BY <2>1, <2>2, <2>3, <2>4, QueueSteps DEF Queued
  <1>8. ASSUME NEW w \in turns', w.from # Nil PROVE sess'[w.from] # "none"
    <2>1. \A t \in turns : t.from \in Sessions \cup {Nil}
      BY TurnFacts DEF Typed
    <2>2. CASE \E t \in turns : w.from = t.from
      BY <1>1, <1>8, <2>1, <2>2 DEF Known
    <2>3. CASE inbox # <<>> /\ w.from = Head(inbox).from
      <3>1. Head(inbox) = inbox[1] /\ 1 \in 1..Len(inbox)
        BY <2>3, HeadTail DEF Typed, TypedServer
      <3> QED BY <1>6, <1>8, <2>3, <3>1
    <2> QED BY <2>2, <2>3, TurnsGo DEF Further
  <1> QED BY <1>4, <1>5, <1>7, <1>8 DEF Known

\* Unless two messages both found no session, one session at a time is active, and none
\* while one is to be created
Single ==
  /\ \A s, t \in Active : s = t
  /\ \A t \in turns : t.at = "missing" => Active = {}
  /\ SentWhereShown

LEMMA SingleNext ==
    ASSUME Given, Typed, Existing, Known, Single, [ChatNext]_chatVars, ~doubled, ~doubled'
    PROVE  Single'
  <1>1. \A t \in turns : t.from \in Sessions \cup {Nil} /\ t.sid \in Sessions \cup {Nil}
    BY TurnFacts DEF Typed
  <1>2. \A t \in turns : t.sid # Nil /\ t.from \notin {Nil, t.sid} => sess[t.from] # "active"
    BY DEF Single, SentWhereShown
  \* the turns but for the one that moves
  <1>3. ASSUME NEW w \in turns, ~Creates
        PROVE  w.sid # Nil /\ w.from \notin {Nil, w.sid} => sess'[w.from] # "active"
    BY <1>1, <1>2, SessionsStay DEF Known
  <1>4. CASE Creates
    <2>1. PICK t \in turns, u \in Turns :
            /\ Becomes(t, u) /\ t.at = "missing" /\ u.at = "held" /\ u.sid \in Sessions
            /\ sess[u.sid] = "none" /\ sess' = [sess EXCEPT ![u.sid] = "active"]
            /\ \A w \in turns \ {t} : w.at # "missing"
      BY <1>4 DEF Creates
    <2>2. Active' = {u.sid}
      <3>1. \A s \in Sessions : sess[s] # "active"
        BY <2>1 DEF Single, Active
      <3> QED BY <2>1, <3>1 DEF Active, Typed, TypedServer
    <2>3. \A w \in turns' : w.at # "missing"
      BY <2>1 DEF Becomes
    <2>4. ASSUME NEW w \in turns', w.from \notin {Nil, u.sid} PROVE sess'[w.from] # "active"
      <3>1. w.from \in Sessions
        BY <1>1, <2>1, <2>4 DEF Becomes
      <3> QED BY <2>2, <2>4, <3>1 DEF Active
    <2>5. ASSUME NEW w \in turns' PROVE w.from # u.sid
      <3>1. PICK v \in turns : w.from = v.from
        BY <2>1, <2>5 DEF Becomes
      <3>2. v.from # Nil => sess[v.from] # "none"
        BY DEF Known
      <3> QED BY <2>1, <3>1, <3>2 DEF Given
    <2>6. SentWhereShown'
      BY <2>4, <2>5 DEF SentWhereShown
    <2> QED BY <2>2, <2>3, <2>6 DEF Single
  <1>5. CASE Looks
    <2>1. PICK t \in turns, u \in Turns :
            /\ Becomes(t, u)
            /\ \/ Active = {} /\ u.at = "missing" /\ u.sid = Nil
               \/ u.at = "held" /\ u.sid \in Active
      BY <1>5 DEF Looks
    <2>2. sess' = sess /\ Active' = Active
      BY <1>5 DEF Looks, Active
    <2>3. \A w \in turns' : w.at = "missing" => Active' = {}
      BY <2>1, <2>2 DEF Becomes, Single
    <2>4. ASSUME NEW w \in turns', w.sid # Nil, w.from \notin {Nil, w.sid} PROVE sess'[w.from] # "active"
      <3>1. CASE w \in turns
        BY <1>2, <2>2, <2>4, <3>1
      <3>2. CASE w = u
        <4>1. w.from \in Sessions /\ w.sid \in Active
          BY <1>1, <2>1, <2>4, <3>2 DEF Becomes
        <4>2. w.from \notin Active
          BY <2>4, <4>1 DEF Single
        <4> QED BY <2>2, <4>1, <4>2 DEF Active
      <3> QED BY <2>1, <3>1, <3>2 DEF Becomes
    <2>5. SentWhereShown'
      BY <2>4 DEF SentWhereShown
    <2> QED BY <2>2, <2>3, <2>5 DEF Single
  <1>6. CASE Passes \/ Proceeds \/ Saves
    <2>1. PICK t \in turns, u \in Turns :
            Becomes(t, u) /\ u.at # "missing" /\ (u.sid = t.sid \/ u.sid = Nil)
      BY <1>6 DEF Passes, Proceeds, Saves, Stores
    <2>2. sess' = sess /\ Active' = Active
      BY <1>6 DEF Passes, Proceeds, Saves, Stores, Active
    <2>3. \A w \in turns' : w.at = "missing" => Active' = {}
      BY <2>1, <2>2 DEF Becomes, Single
    <2>4. SentWhereShown'
      BY <1>2, <2>1, <2>2 DEF Becomes, SentWhereShown
    <2> QED BY <2>2, <2>3, <2>4 DEF Single
  <1>7. CASE Arrives
    <2>1. PICK u \in Turns : turns' = turns \cup {u} /\ u.sid = Nil /\ u.at = "arrived"
      BY <1>7, Arrived DEF Typed
    <2>2. sess' = sess /\ Active' = Active
      BY <1>7 DEF Arrives, Active
    <2>3. SentWhereShown'
      BY <1>2, <2>1, <2>2 DEF SentWhereShown
    <2> QED BY <2>1, <2>2, <2>3 DEF Single
  <1>8. CASE TurnEnds \/ Loses \/ Pushes \/ Archives \/ Deletes \/ Rests
    <2>1. turns' \subseteq turns
      BY <1>8 DEF TurnEnds, Loses, Pushes, Archives, Deletes, Rests
    <2>2. Active' \subseteq Active
      <3>1. CASE TurnEnds
        BY <3>1 DEF TurnEnds, Active, Typed, TypedServer
      <3>2. CASE Archives
        BY <3>2 DEF Archives, Active, Typed, TypedServer
      <3>3. CASE Deletes
        BY <3>3 DEF Deletes, Active, Typed, TypedServer
      <3>4. CASE Loses \/ Pushes \/ Rests
        BY <3>4 DEF Loses, Pushes, Rests, Active
      <3> QED BY <1>8, <3>1, <3>2, <3>3, <3>4
    <2>3. ASSUME NEW w \in turns', w.sid # Nil, w.from \notin {Nil, w.sid} PROVE sess'[w.from] # "active"
      <3>1. w \in turns /\ w.from \in Sessions
        BY <1>1, <2>1, <2>3
      <3> QED BY <1>2, <2>2, <2>3, <3>1 DEF Active
    <2>4. SentWhereShown'
      BY <2>3 DEF SentWhereShown
    <2> QED BY <2>1, <2>2, <2>4 DEF Single
  <1> QED BY <1>4, <1>5, <1>6, <1>7, <1>8, ServerSteps DEF Typed, TypedTab

-----------------------------------------------------------------------------
(* The theorems *)

ChatInv ==
  /\ Typed /\ ServerInv /\ Known
  /\ doubled \/ Single
  /\ crossed \/ (FrameInv /\ TabInv /\ OrderInv)

LEMMA ChatInvInit == Given /\ ChatInit => ChatInv
  <1> SUFFICES ASSUME Given, ChatInit PROVE ChatInv
    OBVIOUS
  <1>1. Typed /\ ServerInv
    BY TypedInit, ServerInit
  <1>2. Shown = {} /\ ToSet(frames) = {} /\ fetches = {}
    BY NoElements DEF ChatInit, Shown
  <1>3. FrameInv /\ TabInv
    BY <1>2, NoElements DEF ChatInit, FrameInv, TabInv, InTurn
  <1>4. OrderInv
    BY <1>2, NoElements DEF ChatInit, OrderInv, Aligned, Awaited, LinedIn
  <1>5. Known /\ Single
    BY <1>2, NoElements DEF ChatInit, Known, Single, Active, SentWhereShown
  <1> QED BY <1>1, <1>3, <1>4, <1>5 DEF ChatInv

LEMMA DoubledStays ==
    ASSUME Given, Typed, [ChatNext]_chatVars, ~doubled'
    PROVE  ~doubled
  BY ServerSteps DEF Typed, TypedTab, Arrives, Passes, Looks, Creates, Proceeds, Saves, Stores, TurnEnds, Loses,
                     Pushes, Archives, Deletes, Rests

LEMMA ChatInvNext == Given /\ ChatInv /\ [ChatNext]_chatVars => ChatInv'
  <1> SUFFICES ASSUME Given, ChatInv, [ChatNext]_chatVars PROVE ChatInv'
    OBVIOUS
  <1>1. Typed' /\ ServerInv' /\ Known'
    BY TypedNext, ServerNext, KnownNext DEF ChatInv, ServerInv
  <1>2. ASSUME ~doubled' PROVE Single'
    BY <1>2, DoubledStays, SingleNext DEF ChatInv, ServerInv
  <1>3. ASSUME ~crossed' PROVE FrameInv' /\ TabInv' /\ OrderInv'
    <2>1. ~crossed
      BY <1>3, CrossedStays DEF ChatInv
    <2>2. InOrder /\ Numbered /\ Existing /\ FrameInv /\ TabInv /\ OrderInv
      BY <2>1 DEF ChatInv, ServerInv
    <2> QED BY <2>2, FrameInvNext, TabInvNext, OrderNext DEF ChatInv
  <1> QED BY <1>1, <1>2, <1>3 DEF ChatInv

LEMMA ChatHolds == ChatSpec => []ChatInv
  <1>1. Given
    BY ChatConstants DEF Given
  <1> QED BY <1>1, ChatInvInit, ChatInvNext, PTL DEF ChatSpec

LEMMA OrderShows == Given /\ ChatInv => ViewInOrder
  <1> SUFFICES ASSUME Given, ChatInv, cur # Nil, ~overtaken, ~crossed,
                      NEW i \in 1..Len(view), NEW j \in 1..Len(view), i < j,
                      {view[i], view[j]} \subseteq ToSet(rows[cur])
               PROVE  PlaceIn(cur, view[i]) < PlaceIn(cur, view[j])
    BY DEF ViewInOrder
  <1>1. cur \in Sessions /\ rows[cur] \in Seq(Stored) /\ Len(rows[cur]) \in Nat
    BY DEF ChatInv, Typed, TypedTab, TypedServer
  <1>2. Rank(view[i]) < Rank(view[j])
    BY <1>1 DEF ChatInv, OrderInv, Aligned, LinedIn
  <1>3. \A m \in ToSet(rows[cur]) : PlaceIn(cur, m) \in 1..Len(rows[cur]) /\ rows[cur][PlaceIn(cur, m)] = m
    BY <1>1, Elements DEF PlaceIn
  <1> DEFINE p == PlaceIn(cur, view[i])
             q == PlaceIn(cur, view[j])
  <1>4. /\ p \in 1..Len(rows[cur]) /\ q \in 1..Len(rows[cur])
        /\ rows[cur][p] = view[i] /\ rows[cur][q] = view[j]
    BY <1>3
  <1>5. view[i] \in Stored /\ view[j] \in Stored
    BY <1>1, Elements
  <1>6. Rank(view[i]) \in Nat /\ Rank(view[j]) \in Nat
    BY <1>5, RankFacts
  <1>7. Climbs(rows[cur])
    BY <1>1 DEF ChatInv, ServerInv, InOrder, Written
  <1> HIDE DEF p, q
  <1>8. ~(q < p) /\ q # p
    BY <1>2, <1>4, <1>6, <1>7 DEF Climbs
  <1>9. p < q
    BY <1>1, <1>4, <1>8
  <1> QED BY <1>9 DEF p, q

\* A message goes to the conversation the tab showed when the user sent it, as long as
\* that is the active one: the frame names no session (use-chat.ts), and the router, which
\* awaits between its check, the search for a session and its creation
\* (message-router.service, session-manager), finds the one the tab shows, whatever the
\* user resets, leaves or deletes meanwhile, unless two messages both find none.
THEOREM MessagesGoWhereShown == ChatSpec => []SentWhereShown
  <1>1. ChatInv => SentWhereShown
    BY DEF ChatInv, Single, SentWhereShown
  <1> QED BY <1>1, ChatHolds, PTL

\* The stored messages on screen are in the order in which the server stored
\* them, whichever way each came: a page that opened the conversation, a frame,
\* or the poll or reconnect whose answer was merged into the list (use-chat.ts),
\* unless a frame came after a page that starts behind its message, or the router
\* let one message pass beside another.
THEOREM ViewStaysInOrder == ChatSpec => []ViewInOrder
  <1>1. Given
    BY ChatConstants DEF Given
  <1> QED BY <1>1, ChatHolds, OrderShows, PTL

=============================================================================
