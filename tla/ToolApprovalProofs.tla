------------------------- MODULE ToolApprovalProofs -------------------------
(***************************************************************************)
(* The gate for any number of calls, sessions, resources, clicks, faults   *)
(* and restarts: no approval without consent, denials that hold, and rows  *)
(* that tell what became of their calls.                                   *)
(***************************************************************************)
EXTENDS ToolApproval, TLAPS

Empty == [k \in Keys |-> "none"]

---------------------------------------------------------------------------
(* Type correctness *)

LEMMA KeyType == \A g \in Gates : KeyOf(g) \in Keys
  BY ApprovalAssumption DEF KeyOf, Keys

LEMMA EmptyType == Empty \in Memories
  BY DEF Empty, Memories

\* The steps that only move a gate, or end it
LEMMA MoveType ==
    ASSUME TypeOK, NEW g \in Gates, NEW p \in Points, Goto(g, p)
    PROVE  pc' \in [Gates -> Points]
  BY DEF TypeOK, Goto

LEMMA ReturnType ==
    ASSUME TypeOK, NEW g \in Gates, NEW r \in {"allowed", "denied", "error"}, Return(g, r)
    PROVE  /\ pc' \in [Gates -> Points]
           /\ outcome' \in [Gates -> {"none", "allowed", "denied", "error", "dead"}]
  BY DEF TypeOK, Return, Goto, Points

LEMMA RelookType == TypeOK /\ Relook => denied' \subseteq [gate : Gates, store : Stores, key : Keys]
  BY DEF TypeOK, Relook

LEMMA TypeInit == Init => TypeOK
  <1> SUFFICES ASSUME Init PROVE TypeOK
    OBVIOUS
  <1>1. NoRow \in Rows
    BY DEF NoRow, Rows, Keys
  <1>2. Nothing \in Answered
    BY DEF Nothing, Answered
  <1>3. Empty \in Memories
    BY EmptyType
  <1> QED BY <1>1, <1>2, <1>3 DEF Init, TypeOK, Empty, Points

\* Steps of one gate: what each may do to the row and to what is remembered
LEMMA GateType ==
    ASSUME TypeOK, NEW g \in Gates, Starts(g) \/ Proceeds(g) \/ DeliveryFails(g) \/ Aborts(g) \/ GateThrows(g)
    PROVE  TypeOK'
  <1>0. Points = {"new", "rows", "decide", "deny", "ask", "deliver", "wait", "remember",
                  "close", "tell", "done"}
    BY DEF Points
  <1>1. CASE Starts(g)
    <2>1. pc' \in [Gates -> Points]
      BY <1>0, <1>1, MoveType DEF Starts
    <2>2. Denials(g) \subseteq [gate : Gates, store : Stores, key : Keys]
      BY KeyType DEF Denials, Keys
    <2>3. denied' \subseteq [gate : Gates, store : Stores, key : Keys]
      BY <1>1, <2>2 DEF Starts, TypeOK
    <2> QED BY <1>1, <2>1, <2>3 DEF Starts, TypeOK, memory
  <1>2. CASE ReadsRows(g)
    <2>1. pc' \in [Gates -> Points]
      BY <1>0, <1>2, MoveType DEF ReadsRows
    <2> QED BY <1>2, <2>1 DEF ReadsRows, TypeOK, memory, history
  <1>3. CASE Decides(g)
    <2>1. /\ pc' \in [Gates -> Points]
          /\ outcome' \in [Gates -> {"none", "allowed", "denied", "error", "dead"}]
      BY <1>0, <1>3, MoveType, ReturnType DEF Decides, TypeOK
    <2>2. read' \in [Gates -> Memories]
      BY <1>3, EmptyType DEF Decides, TypeOK, Empty
    <2>3. row' \in [Gates -> Rows]
      <3>1. HitStore(g, read[g]) \in Stores /\ HitKey(g, read[g]) \in Keys
        BY KeyType DEF HitStore, HitKey, Stores, Keys
      <3>2. [status |-> "none", store |-> HitStore(g, read[g]), key |-> HitKey(g, read[g])] \in Rows
        BY <3>1 DEF Rows
      <3> QED BY <1>3, <3>2 DEF Decides, TypeOK
    <2> QED BY <1>3, <2>1, <2>2, <2>3 DEF Decides, TypeOK, memory, history
  \* Steps that give the row another status
  <1>4. ASSUME NEW s \in {"PENDING", "DENIED"}, row' = [row EXCEPT ![g].status = s]
        PROVE  row' \in [Gates -> Rows]
    BY <1>4 DEF TypeOK, Rows
  <1>5. CASE DeniesByMemory(g) \/ AutoDenies(g) \/ DeliveryFails(g)
    <2>1. row' \in [Gates -> Rows]
      BY <1>4, <1>5 DEF DeniesByMemory, AutoDenies, DeliveryFails
    <2>2. pc' \in [Gates -> Points]
      BY <1>0, <1>5, MoveType DEF DeniesByMemory, AutoDenies, DeliveryFails
    <2> QED BY <1>5, <2>1, <2>2 DEF DeniesByMemory, AutoDenies, DeliveryFails, TypeOK, memory, history
  <1>6. CASE Asks(g)
    <2>1. row' \in [Gates -> Rows]
      BY <1>4, <1>6 DEF Asks
    <2>2. pc' \in [Gates -> Points]
      BY <1>0, <1>6, MoveType DEF Asks
    <2> QED BY <1>6, <2>1, <2>2 DEF Asks, TypeOK, memory, history
  <1>7. CASE Delivered(g) \/ TimesOut(g) \/ Aborts(g)
    <2>1. pc' \in [Gates -> Points]
      BY <1>0, <1>7, MoveType DEF Delivered, TimesOut, Aborts, TypeOK
    <2>2. System("timeout") \in Answered /\ System("run_aborted") \in Answered
      BY DEF System, Answered
    <2>3. answer' \in [Gates -> Answered]
      BY <1>7, <2>2 DEF Delivered, TimesOut, Aborts, TypeOK
    <2> QED BY <1>7, <2>1, <2>3 DEF Delivered, TimesOut, Aborts, TypeOK, memory, history
  <1>8. CASE Remembers(g)
    <2>1. pc' \in [Gates -> Points]
      BY <1>0, <1>8, MoveType DEF Remembers
    <2>2. Decision(g) \in Decisions /\ KeyOf(g) \in Keys
      BY KeyType DEF Decision, Decisions
    <2>3. standing' \in Memories
      BY <1>8, <2>2 DEF Remembers, TypeOK, Memories
    <2>4. session' \in [Sessions -> Memories]
      <3>1. \A s \in Sessions : session[s] \in Memories
        BY DEF TypeOK
      <3>2. ASSUME NEW s \in Sessions PROVE [session[s] EXCEPT ![KeyOf(g)] = Decision(g)] \in Memories
        BY <2>2, <3>1 DEF Memories
      <3> QED BY <1>8, <3>2 DEF Remembers, TypeOK
    <2>5. denied' \subseteq [gate : Gates, store : Stores, key : Keys]
      BY <1>8, RelookType DEF Remembers
    <2> QED BY <1>8, <2>1, <2>3, <2>4, <2>5 DEF Remembers, TypeOK
  <1>9. CASE Closes(g)
    <2>1. pc' \in [Gates -> Points]
      BY <1>0, <1>9, MoveType DEF Closes
    <2>2. Closed(g) \in Rows
      <3>1. Closed(g).status \in {"EXPIRED", "CANCELLED", "APPROVED", "DENIED"}
        BY DEF Closed
      <3>2. Closed(g).store \in {"session", "persistent", "none"}
        BY DEF Closed
      <3> QED BY <3>1, <3>2, KeyType DEF Closed, Rows, Stores
    <2>3. row' \in [Gates -> Rows]
      BY <1>9, <2>2 DEF Closes, TypeOK
    <2> QED BY <1>9, <2>1, <2>3 DEF Closes, TypeOK, memory, history
  <1>10. CASE GateThrows(g)
    <2>1. /\ pc' \in [Gates -> Points]
          /\ outcome' \in [Gates -> {"none", "allowed", "denied", "error", "dead"}]
      BY <1>10, ReturnType DEF GateThrows
    <2>2. NoRow \in Rows
      BY DEF NoRow, Rows, Keys
    <2>3. row' \in [Gates -> Rows]
      BY <1>10, <2>2 DEF GateThrows, TypeOK
    <2> QED BY <1>10, <2>1, <2>3 DEF GateThrows, TypeOK, memory, history
  <1>11. CASE Returns(g)
    <2>1. /\ pc' \in [Gates -> Points]
          /\ outcome' \in [Gates -> {"none", "allowed", "denied", "error", "dead"}]
      BY <1>11, ReturnType DEF Returns
    <2> QED BY <1>11, <2>1 DEF Returns, TypeOK, memory, history
  <1> QED BY <1>1, <1>2, <1>3, <1>5, <1>6, <1>7, <1>8, <1>9, <1>10, <1>11 DEF Proceeds

\* The steps of the user and of the host
Rest ==
  \/ \E g \in Gates : Revoke(g)
  \/ \E g \in Gates, c \in Choices : Click(g, c)
  \/ \E click \in clicks : Answers(click)
  \/ \E k \in Keys : RevokeStanding(k)
  \/ \E s \in Sessions : ResetsSession(s) \/ \E k \in Keys : SessionEntryExpires(s, k)
  \/ Restart
  \/ UNCHANGED vars

\* What remains of the memories when something is revoked, expires or is reset
Forgets ==
  /\ session' \in [Sessions -> Memories] /\ standing' \in Memories
  /\ \A s \in Sessions, k \in Keys : session'[s][k] \in {session[s][k], "none"}
  /\ \A k \in Keys : standing'[k] \in {standing[k], "none"}

LEMMA Forgetting ==
    ASSUME TypeOK,
           \/ \E g \in Gates : Revoke(g)
           \/ \E k \in Keys : RevokeStanding(k)
           \/ \E s \in Sessions : ResetsSession(s) \/ \E k \in Keys : SessionEntryExpires(s, k)
           \/ Restart
    PROVE  Forgets
  <1>1. ASSUME NEW k \in Keys, standing' = [standing EXCEPT ![k] = "none"], UNCHANGED session
        PROVE  Forgets
    BY <1>1 DEF Forgets, TypeOK, Memories
  <1>2. ASSUME NEW s \in Sessions, NEW k \in Keys, session' = [session EXCEPT ![s][k] = "none"],
               UNCHANGED standing
        PROVE  Forgets
    <2>1. \A r \in Sessions : session[r] \in Memories
      BY DEF TypeOK
    <2>2. [session[s] EXCEPT ![k] = "none"] \in Memories
      BY <2>1 DEF Memories
    <2>3. session' \in [Sessions -> Memories]
      BY <1>2, <2>2 DEF TypeOK
    <2>4. \A r \in Sessions, j \in Keys : session'[r][j] \in {session[r][j], "none"}
      BY <1>2, <2>1 DEF TypeOK, Memories
    <2> QED BY <1>2, <2>3, <2>4 DEF Forgets, TypeOK
  <1>3. ASSUME NEW g \in Gates, Revoke(g) PROVE Forgets
    <2>1. row[g].key \in Keys
      BY DEF TypeOK, Rows
    <2>2. CASE standing' = [standing EXCEPT ![row[g].key] = "none"] /\ UNCHANGED session
      BY <1>1, <2>1, <2>2
    <2>3. CASE InSession(g, row[g].key) # "none" /\ UNCHANGED standing
               /\ session' = [session EXCEPT ![SessionOf[g]][row[g].key] = "none"]
      <3>1. SessionOf[g] \in Sessions
        BY <2>3, ApprovalAssumption DEF InSession
      <3> QED BY <1>2, <2>1, <2>3, <3>1
    <2> QED BY <1>3, <2>2, <2>3 DEF Revoke
  <1>4. ASSUME NEW s \in Sessions, ResetsSession(s) PROVE Forgets
    <2>1. session' = [session EXCEPT ![s] = Empty] /\ UNCHANGED standing
      BY <1>4 DEF ResetsSession, Empty
    <2> QED BY <2>1, EmptyType DEF Forgets, TypeOK, Memories, Empty
  <1>5. CASE Restart
    <2>1. session' = [s \in Sessions |-> Empty] /\ UNCHANGED standing
      BY <1>5 DEF Restart, Empty
    <2> QED BY <2>1, EmptyType DEF Forgets, TypeOK, Memories, Empty
  <1> QED BY <1>1, <1>2, <1>3, <1>4, <1>5 DEF RevokeStanding, SessionEntryExpires

LEMMA DowngradeType == \A s \in Scopes, o \in SUBSET Scopes : Downgrade(s, o) \in Scopes
  BY DEF Downgrade, Scopes

LEMMA RestType ==
    ASSUME TypeOK, Rest
    PROVE  TypeOK'
  <1>1. ASSUME NEW g \in Gates, Revoke(g) PROVE TypeOK'
    <2>1. Forgets
      BY <1>1, Forgetting
    <2> QED BY <1>1, <2>1, RelookType DEF Revoke, Forgets, TypeOK
  <1>2. ASSUME NEW k \in Keys, RevokeStanding(k) PROVE TypeOK'
    <2>1. Forgets
      BY <1>2, Forgetting
    <2> QED BY <1>2, <2>1, RelookType DEF RevokeStanding, Forgets, TypeOK
  <1>3. ASSUME NEW s \in Sessions, ResetsSession(s) \/ \E k \in Keys : SessionEntryExpires(s, k)
        PROVE  TypeOK'
    <2>1. Forgets
      BY <1>3, Forgetting
    <2> QED BY <1>3, <2>1, RelookType DEF ResetsSession, SessionEntryExpires, Forgets, TypeOK
  <1>4. ASSUME NEW g \in Gates, NEW c \in Choices, Click(g, c) PROVE TypeOK'
    <2>1. [gate |-> g, choice |-> c] \in [gate : Gates, choice : Choices]
      OBVIOUS
    <2> QED BY <1>4, <2>1 DEF Click, TypeOK, memory, history
  <1>5. ASSUME NEW click \in clicks, Answers(click) PROVE TypeOK'
    <2>1. click.gate \in Gates /\ click.choice.allow \in BOOLEAN /\ click.choice.scope \in Scopes
          /\ click.choice \in Answered
      BY DEF TypeOK, Choices, Answered
    <2>2. Offered(click.gate) \in SUBSET Scopes
      BY DEF Offered, Scopes
    <2>3. Downgrade(click.choice.scope, Offered(click.gate)) \in Scopes
      BY <2>1, <2>2, DowngradeType
    <2>4. [allow |-> click.choice.allow, scope |-> Downgrade(click.choice.scope, Offered(click.gate))] \in Answered
      BY <2>1, <2>3 DEF Answered
    <2>5. answer' \in [Gates -> Answered] /\ requested' \in [Gates -> Answered]
      BY <1>5, <2>1, <2>4 DEF Answers, TypeOK
    <2>6. pc' \in [Gates -> Points]
      BY <1>5, <2>1 DEF Answers, Goto, Points, TypeOK
    <2> QED BY <1>5, <2>5, <2>6 DEF Answers, TypeOK, memory
  <1>6. CASE Restart
    <2>1. Forgets
      BY <1>6, Forgetting
    <2>2. row' \in [Gates -> Rows]
      <3>1. \A g \in Gates : [row[g] EXCEPT !.status = "EXPIRED"] \in Rows
        BY DEF TypeOK, Rows
      <3>2. NoRow \in Rows
        BY DEF NoRow, Rows, Keys
      <3>3. ASSUME NEW g \in Gates
            PROVE  (CASE row[g].status = "PENDING" -> [row[g] EXCEPT !.status = "EXPIRED"]
                      [] pc[g] = "deny" -> NoRow
                      [] OTHER -> row[g]) \in Rows
        BY <3>1, <3>2 DEF TypeOK
      <3> QED BY <1>6, <3>3 DEF Restart
    <2>3. /\ pc' \in [Gates -> Points]
          /\ outcome' \in [Gates -> {"none", "allowed", "denied", "error", "dead"}]
      BY <1>6 DEF Restart, Points, TypeOK
    <2>4. read' \in [Gates -> Memories] /\ clicks' = {}
      BY <1>6, EmptyType DEF Restart, Empty
    <2> QED BY <1>6, <2>1, <2>2, <2>3, <2>4, RelookType DEF Restart, Forgets, TypeOK
  <1>7. CASE UNCHANGED vars
    BY <1>7 DEF vars, memory, history, TypeOK
  <1> QED BY <1>1, <1>2, <1>3, <1>4, <1>5, <1>6, <1>7 DEF Rest

LEMMA TypeNext == TypeOK /\ [Next]_vars => TypeOK'
  BY GateType, RestType DEF Next, Rest

---------------------------------------------------------------------------
(* Rows *)

GateStep(g) == Starts(g) \/ Proceeds(g) \/ DeliveryFails(g) \/ Aborts(g) \/ GateThrows(g)

\* A step of one gate leaves the others alone
LEMMA GateFrame ==
    ASSUME TypeOK, NEW g \in Gates, GateStep(g)
    PROVE  /\ UNCHANGED <<requested, clicks>>
           /\ \A h \in Gates \ {g} : /\ row'[h] = row[h] /\ pc'[h] = pc[h] /\ outcome'[h] = outcome[h]
                                     /\ answer'[h] = answer[h] /\ read'[h] = read[h]
  <1> USE DEF GateStep, Proceeds, Starts, ReadsRows, Decides, DeniesByMemory, AutoDenies, Asks, Delivered,
              DeliveryFails, TimesOut, Aborts, Remembers, Closes, Returns, GateThrows, Return, Goto, TypeOK, history
  <1>1. UNCHANGED <<requested, clicks>>
    OBVIOUS
  <1>2. ASSUME NEW h \in Gates \ {g} PROVE row'[h] = row[h]
    OBVIOUS
  <1>3. ASSUME NEW h \in Gates \ {g} PROVE pc'[h] = pc[h] /\ outcome'[h] = outcome[h]
    OBVIOUS
  <1>4. ASSUME NEW h \in Gates \ {g} PROVE answer'[h] = answer[h] /\ read'[h] = read[h]
    OBVIOUS
  <1> QED BY <1>1, <1>2, <1>3, <1>4

\* The row of a call and the outcome of its gate, by the point the gate has reached
RowAt(g) ==
  /\ pc[g] \in {"new", "rows", "decide", "deny", "ask"} => row[g].status = "none" /\ outcome[g] = "none"
  /\ pc[g] \in {"deliver", "wait", "remember", "close"} => row[g].status = "PENDING" /\ outcome[g] = "none"
  /\ pc[g] = "tell" =>
       /\ outcome[g] = "none"
       /\ row[g].status \in IF answer[g].allow THEN {"APPROVED"} ELSE {"DENIED", "EXPIRED", "CANCELLED"}
  /\ pc[g] = "done" =>
       /\ row[g].status = "APPROVED" => outcome[g] \in {"allowed", "dead"}
       /\ outcome[g] = "allowed" => row[g].status \in {"none", "APPROVED"}
       /\ outcome[g] = "denied" => row[g].status \in {"DENIED", "EXPIRED", "CANCELLED"}
       /\ row[g].status = "PENDING" => outcome[g] = "error"
  /\ answer[g].allow => /\ answer[g].scope \notin {"timeout", "run_aborted"}
                        /\ requested[g].allow /\ pc[g] \in {"remember", "close", "tell", "done"}
  /\ row[g].status = "APPROVED" => requested[g].allow

RowInv == \A g \in Gates : RowAt(g)

LEMMA RowInit == Init => RowInv
  BY DEF Init, RowInv, RowAt, NoRow, Nothing

LEMMA RowGate ==
    ASSUME TypeOK, RowInv, NEW g \in Gates, GateStep(g)
    PROVE  RowInv'
  <1> SUFFICES RowAt(g)'
    <2>1. ASSUME NEW h \in Gates \ {g} PROVE RowAt(h)'
      BY GateFrame DEF RowInv, RowAt
    <2> QED BY <2>1 DEF RowInv
  <1>0. RowAt(g) /\ pc[g] \in Points /\ requested'[g] = requested[g]
    BY GateFrame DEF RowInv, TypeOK
  <1> USE DEF Return, Goto, TypeOK, Points, memory, history
  <1>1. CASE Starts(g) \/ ReadsRows(g)
    <2>1. pc'[g] \in {"rows", "decide", "ask"} /\ pc[g] \in {"new", "rows"} /\ UNCHANGED <<row, outcome, answer>>
      BY <1>1 DEF Starts, ReadsRows
    <2> QED BY <1>0, <2>1 DEF RowAt
  <1>2. CASE Decides(g)
    <2>1. pc[g] = "decide" /\ UNCHANGED answer
      BY <1>2 DEF Decides
    <2>2. \/ pc'[g] = "done" /\ outcome'[g] = "allowed" /\ UNCHANGED row
          \/ pc'[g] = "ask" /\ UNCHANGED <<row, outcome>>
          \/ pc'[g] = "deny" /\ row'[g].status = "none" /\ UNCHANGED outcome
      BY <1>2 DEF Decides
    <2> QED BY <1>0, <2>1, <2>2 DEF RowAt
  <1>3. CASE DeniesByMemory(g) \/ AutoDenies(g) \/ DeliveryFails(g)
    <2>1. /\ pc[g] \in {"deny", "ask", "deliver"} /\ pc'[g] = "tell" /\ UNCHANGED <<outcome, answer>>
          /\ row'[g].status = "DENIED"
      BY <1>3 DEF DeniesByMemory, AutoDenies, DeliveryFails, Rows
    <2> QED BY <1>0, <2>1 DEF RowAt
  <1>4. CASE Asks(g)
    <2>1. pc[g] = "ask" /\ pc'[g] = "deliver" /\ row'[g].status = "PENDING" /\ UNCHANGED <<answer, outcome>>
      BY <1>4 DEF Asks, Rows
    <2> QED BY <1>0, <2>1 DEF RowAt
  <1>5. CASE Delivered(g) \/ TimesOut(g)
    <2>1. /\ pc[g] \in {"deliver", "wait"} /\ pc'[g] \in {"wait", "close"} /\ UNCHANGED <<row, outcome>>
          /\ answer'[g] = answer[g] \/ ~answer'[g].allow
      BY <1>5 DEF Delivered, TimesOut, System
    <2> QED BY <1>0, <2>1 DEF RowAt
  <1>6. CASE Remembers(g)
    <2>1. pc[g] = "remember" /\ pc'[g] = "close" /\ UNCHANGED <<row, outcome, answer>>
      BY <1>6 DEF Remembers
    <2> QED BY <1>0, <2>1 DEF RowAt
  <1>7. CASE Aborts(g)
    <2>1. UNCHANGED <<row, outcome>>
      BY <1>7 DEF Aborts
    <2>2. \/ pc'[g] = pc[g] /\ answer'[g] = answer[g]
          \/ pc[g] = "wait" /\ pc'[g] = "close" /\ ~answer'[g].allow
      BY <1>7 DEF Aborts, System
    <2> QED BY <1>0, <2>1, <2>2 DEF RowAt
  <1>8. CASE Closes(g)
    <2>1. pc[g] = "close" /\ pc'[g] = "tell" /\ UNCHANGED <<answer, outcome>> /\ row'[g] = Closed(g)
      BY <1>0, <1>8 DEF Closes, RowAt
    <2>2. CASE answer[g].allow
      <3>1. row'[g].status = "APPROVED"
        BY <1>0, <2>1, <2>2 DEF Closed, RowAt
      <3> QED BY <1>0, <2>1, <2>2, <3>1 DEF RowAt
    <2>3. CASE ~answer[g].allow
      <3>1. row'[g].status \in {"DENIED", "EXPIRED", "CANCELLED"}
        BY <2>1, <2>3 DEF Closed
      <3> QED BY <1>0, <2>1, <2>3, <3>1 DEF RowAt
    <2> QED BY <2>2, <2>3
  <1>9. CASE Returns(g)
    <2>1. /\ pc[g] = "tell" /\ pc'[g] = "done" /\ UNCHANGED <<row, answer>>
          /\ outcome'[g] = IF answer[g].allow THEN "allowed" ELSE "denied"
      BY <1>9 DEF Returns
    <2> QED BY <1>0, <2>1 DEF RowAt
  <1>10. CASE GateThrows(g)
    <2>1. /\ pc[g] \notin {"tell", "done"} /\ pc'[g] = "done" /\ outcome'[g] = "error" /\ UNCHANGED answer
          /\ row'[g].status \in {"none", "PENDING"}
      BY <1>0, <1>10 DEF GateThrows, RowAt, NoRow
    <2> QED BY <1>0, <2>1 DEF RowAt
  <1> QED BY <1>1, <1>2, <1>3, <1>4, <1>5, <1>6, <1>7, <1>8, <1>9, <1>10 DEF GateStep, Proceeds

LEMMA RowRest ==
    ASSUME TypeOK, RowInv, Rest
    PROVE  RowInv'
  <1> SUFFICES ASSUME NEW h \in Gates PROVE RowAt(h)'
    BY DEF RowInv
  <1>0. RowAt(h) /\ pc[h] \in Points
    BY DEF RowInv, TypeOK
  <1>1. ASSUME NEW click \in clicks, Answers(click) PROVE RowAt(h)'
    <2>1. CASE h # click.gate \/ pc[h] # "wait"
      <3>1. UNCHANGED <<row, outcome>> /\ pc'[h] = pc[h] /\ answer'[h] = answer[h] /\ requested'[h] = requested[h]
        BY <1>1, <2>1 DEF Answers, Goto, TypeOK, memory
      <3> QED BY <1>0, <3>1 DEF RowAt
    <2>2. CASE h = click.gate /\ pc[h] = "wait"
      <3>1. UNCHANGED <<row, outcome>> /\ pc'[h] = "remember"
        BY <1>1, <2>2 DEF Answers, Goto, TypeOK, memory
      <3>2. click.choice.scope \in Scopes /\ Offered(h) \in SUBSET Scopes
        BY DEF TypeOK, Choices, Offered, Scopes
      <3>3. answer'[h].scope \in Scopes /\ answer'[h].allow = requested'[h].allow
        BY <1>1, <2>2, <3>2, DowngradeType DEF Answers, TypeOK
      <3> QED BY <1>0, <2>2, <3>1, <3>3 DEF RowAt, Scopes
    <2> QED BY <2>1, <2>2
  <1>2. CASE Restart
    <2>1. CASE pc[h] = "new"
      <3>1. /\ pc'[h] = "new" /\ outcome'[h] = outcome[h] /\ row'[h] = row[h] /\ answer'[h] = answer[h]
            /\ UNCHANGED requested
        BY <1>0, <1>2, <2>1 DEF Restart, RowAt
      <3> QED BY <1>0, <2>1, <3>1 DEF RowAt
    <2>2. CASE pc[h] # "new"
      <3>1. /\ pc'[h] = "done" /\ answer'[h] = answer[h] /\ UNCHANGED requested
            /\ outcome'[h] = IF pc[h] = "done" THEN outcome[h] ELSE "dead"
        BY <1>2, <2>2 DEF Restart
      <3>2. row'[h].status = IF row[h].status = "PENDING" THEN "EXPIRED" ELSE row[h].status
        <4>1. row[h] \in Rows
          BY DEF TypeOK
        <4>2. CASE row[h].status = "PENDING"
          <5>1. row'[h] = [row[h] EXCEPT !.status = "EXPIRED"]
            BY <1>0, <1>2, <4>2 DEF Restart, RowAt
          <5> QED BY <4>1, <4>2, <5>1 DEF Rows
        <4>3. CASE row[h].status # "PENDING"
          BY <1>0, <1>2, <4>3 DEF Restart, NoRow, RowAt
        <4> QED BY <4>2, <4>3
      <3> QED BY <1>0, <2>2, <3>1, <3>2 DEF RowAt, Points
    <2> QED BY <2>1, <2>2
  <1>3. CASE UNCHANGED <<row, pc, outcome, answer, requested>>
    BY <1>0, <1>3 DEF RowAt
  <1> QED BY <1>1, <1>2, <1>3 DEF Rest, Revoke, Click, RevokeStanding, ResetsSession, SessionEntryExpires, vars, history

LEMMA RowNext == TypeOK /\ RowInv /\ [Next]_vars => RowInv'
  BY RowGate, RowRest DEF Next, Rest, GateStep

\* For any number of calls, clicks, failing writes and restarts: the row behind a card
\* says what became of its call; an APPROVED row whose call never ran is the user's
\* approval that a restart cut off from the gate's return (gate, settle, onModuleInit).
THEOREM RowsTell == Spec => []RowTellsOutcome
  <1>1. TypeOK /\ RowInv => RowTellsOutcome
    BY DEF RowInv, RowAt, RowTellsOutcome, TypeOK, Points
  <1> QED BY <1>1, TypeInit, TypeNext, RowInit, RowNext, PTL DEF Spec

---------------------------------------------------------------------------
(* Denials *)

\* The snapshot of the standing decisions that a lookup has read shows the denial, if
\* it is a standing one, and nothing at a more specific key
Shown(d) ==
  /\ d.store = "persistent" => read[d.gate][d.key] = "deny"
  /\ d.key # KeyOf(d.gate) => read[d.gate][KeyOf(d.gate)] = "none"

DenyInv ==
  \A d \in denied :
    /\ d.key \in {KeyOf(d.gate), ANY} /\ d.store \in Stores /\ d.gate \notin Unextracted
    /\ InForce(d, session, standing)
    /\ pc[d.gate] \in {"rows", "decide", "deny", "tell", "done"}
    /\ pc[d.gate] = "tell" => ~answer[d.gate].allow
    /\ pc[d.gate] = "decide" => Shown(d)
    /\ outcome[d.gate] # "allowed"

LEMMA DenyInit == Init => DenyInv
  BY DEF Init, DenyInv

\* A denial in force that the snapshot shows is what the lookup finds
LEMMA LookupDenies ==
    ASSUME NEW d, d.key \in {KeyOf(d.gate), ANY}, d.store \in Stores,
           InForce(d, session, standing), Shown(d)
    PROVE  Lookup(d.gate, read[d.gate]) = "deny"
  <1>1. CASE d.key = KeyOf(d.gate)
    <2>1. "deny" \in {InSession(d.gate, d.key), read[d.gate][d.key]}
      BY DEF InForce, Shown, InSession, Stores
    <2> QED BY <1>1, <2>1 DEF Lookup, AtLevel
  <1>2. CASE d.key # KeyOf(d.gate)
    <2>1. "deny" \in {InSession(d.gate, ANY), read[d.gate][ANY]}
      BY <1>2 DEF InForce, Shown, InSession, Stores
    <2>2. InSession(d.gate, KeyOf(d.gate)) = "none" /\ read[d.gate][KeyOf(d.gate)] = "none"
      BY <1>2 DEF InForce, Shown, InSession, Stores
    <2> QED BY <2>1, <2>2 DEF Lookup, AtLevel
  <1> QED BY <1>1, <1>2

\* What DenyInv says of one denial
DenyOK(d) ==
  /\ d.key \in {KeyOf(d.gate), ANY} /\ d.store \in Stores /\ d.gate \notin Unextracted
  /\ InForce(d, session, standing)
  /\ pc[d.gate] \in {"rows", "decide", "deny", "tell", "done"}
  /\ pc[d.gate] = "tell" => ~answer[d.gate].allow
  /\ pc[d.gate] = "decide" => Shown(d)
  /\ outcome[d.gate] # "allowed"

LEMMA DenyGate ==
    ASSUME TypeOK, RowInv, DenyInv, NEW g \in Gates, GateStep(g)
    PROVE  DenyInv'
  <1> SUFFICES ASSUME NEW d \in denied' PROVE DenyOK(d)'
    BY DEF DenyInv, DenyOK
  <1> USE DEF Return, Goto, memory, history
  <1>0. d \in denied => DenyOK(d) /\ d.gate \in Gates
    BY DEF DenyInv, DenyOK, TypeOK
  <1>1. InForce(d, session', standing')
    <2>1. CASE Remembers(g)
      BY <2>1 DEF Remembers, Relook
    <2>2. CASE ~Remembers(g)
      <3>1. UNCHANGED <<session, standing>>
        BY <2>2 DEF GateStep, Proceeds, Starts, ReadsRows, Decides, DeniesByMemory, AutoDenies, Asks,
                    Delivered, DeliveryFails, TimesOut, Aborts, Closes, Returns, GateThrows
      <3>2. InForce(d, session, standing)
        <4>1. CASE d \in denied
          BY <1>0, <4>1 DEF DenyOK
        <4>2. CASE d \notin denied
          <5>1. Starts(g)
            BY <2>2, <4>2 DEF GateStep, Proceeds, Starts, ReadsRows, Decides, DeniesByMemory, AutoDenies, Asks,
                    Delivered, DeliveryFails, TimesOut, Aborts, Closes, Returns, GateThrows
          <5> QED BY <4>2, <5>1 DEF Starts, Denials
        <4> QED BY <4>1, <4>2
      <3> QED BY <3>1, <3>2
    <2> QED BY <2>1, <2>2
  <1>2. InForce(d, session, standing)'
    BY <1>1 DEF InForce
  <1>3. CASE d \notin denied
    <2>1. Starts(g)
      BY <1>3 DEF GateStep, Proceeds, Starts, ReadsRows, Decides, DeniesByMemory, AutoDenies, Asks,
                  Delivered, DeliveryFails, TimesOut, Aborts, Closes, Returns, GateThrows, Remembers, Relook
    <2>2. /\ d.gate = g /\ g \notin Unextracted /\ d.key \in {KeyOf(g), ANY} /\ d.store \in Stores
          /\ pc[g] = "new" /\ pc' = [pc EXCEPT ![g] = "rows"] /\ UNCHANGED outcome
      BY <1>3, <2>1 DEF Starts, Denials
    <2>3. pc'[g] = "rows"
      BY <2>2 DEF TypeOK
    <2>4. outcome[g] = "none"
      BY <2>2 DEF RowInv, RowAt
    <2> QED BY <1>2, <2>2, <2>3, <2>4 DEF DenyOK
  <1>4. CASE d \in denied /\ d.gate # g
    BY <1>0, <1>2, <1>4, GateFrame DEF DenyOK, Shown
  <1>5. CASE d \in denied /\ d.gate = g
    <2>0. DenyOK(d)
      BY <1>0, <1>5
    <2>1. pc[g] \in {"rows", "decide", "deny", "tell", "done"}
      BY <1>5, <2>0 DEF DenyOK
    <2>2. CASE ReadsRows(g)
      <3>1. pc'[g] = "decide" /\ read'[g] = standing /\ UNCHANGED outcome
        BY <2>2 DEF ReadsRows, TypeOK
      <3>2. Shown(d)'
        BY <1>5, <2>0, <3>1 DEF Shown, InForce, DenyOK, Stores
      <3> QED BY <1>2, <1>5, <2>0, <3>1, <3>2 DEF DenyOK
    <2>3. CASE Decides(g)
      <3>1. Lookup(g, read[g]) = "deny"
        BY <1>5, <2>0, <2>3, LookupDenies DEF DenyOK, Decides
      <3>2. pc'[g] = "deny" /\ UNCHANGED outcome
        BY <2>3, <3>1 DEF Decides, TypeOK
      <3> QED BY <1>2, <1>5, <2>0, <3>2 DEF DenyOK
    <2>4. CASE DeniesByMemory(g)
      <3>1. pc[g] = "deny" /\ pc'[g] = "tell" /\ UNCHANGED <<outcome, answer>>
        BY <2>4 DEF DeniesByMemory, TypeOK
      <3>2. ~answer[g].allow
        BY <3>1 DEF RowInv, RowAt
      <3> QED BY <1>2, <1>5, <2>0, <3>1, <3>2 DEF DenyOK
    <2>4a. CASE Returns(g) \/ GateThrows(g)
      <3>1. pc'[g] = "done" /\ outcome'[g] \in {"denied", "error"}
        BY <1>5, <2>0, <2>4a DEF Returns, GateThrows, TypeOK, DenyOK
      <3> QED BY <1>2, <1>5, <2>0, <3>1 DEF DenyOK
    <2>5. CASE Aborts(g)
      <3>1. UNCHANGED <<pc, outcome, read, answer>>
        BY <2>1, <2>5 DEF Aborts
      <3> QED BY <1>2, <1>5, <2>0, <3>1 DEF DenyOK, Shown
    <2> QED BY <2>1, <2>2, <2>3, <2>4, <2>4a, <2>5 DEF GateStep, Proceeds, Starts, AutoDenies, Asks, Delivered,
                  DeliveryFails, TimesOut, Remembers, Closes
  <1> QED BY <1>3, <1>4, <1>5

LEMMA DenyRest ==
    ASSUME TypeOK, DenyInv, Rest
    PROVE  DenyInv'
  <1> SUFFICES ASSUME NEW d \in denied' PROVE DenyOK(d)'
    BY DEF DenyInv, DenyOK
  <1>1. /\ d \in denied
        /\ InForce(d, session', standing') \/ UNCHANGED <<session, standing>>
    BY DEF Rest, Revoke, Click, Answers, RevokeStanding, ResetsSession, SessionEntryExpires, Restart, Relook,
           vars, memory, history
  <1>2. DenyOK(d) /\ d.gate \in Gates
    BY <1>1 DEF DenyInv, DenyOK, TypeOK
  <1>3. InForce(d, session, standing)'
    BY <1>1, <1>2 DEF DenyOK, InForce
  <1>4. CASE UNCHANGED <<pc, outcome, read, answer>>
    BY <1>2, <1>3, <1>4 DEF DenyOK, Shown
  <1>5. ASSUME NEW click \in clicks, Answers(click) PROVE DenyOK(d)'
    <2>1. pc'[d.gate] = pc[d.gate] /\ answer'[d.gate] = answer[d.gate] /\ UNCHANGED <<outcome, read>>
      BY <1>2, <1>5 DEF Answers, Goto, DenyOK, TypeOK
    <2> QED BY <1>2, <1>3, <2>1 DEF DenyOK, Shown
  <1>6. CASE Restart
    <2>1. pc'[d.gate] = "done" /\ outcome'[d.gate] # "allowed"
      BY <1>2, <1>6 DEF Restart, DenyOK
    <2> QED BY <1>2, <1>3, <2>1 DEF DenyOK
  <1> QED BY <1>4, <1>5, <1>6 DEF Rest, Revoke, Click, RevokeStanding, ResetsSession, SessionEntryExpires, vars

LEMMA DenyNext == TypeOK /\ RowInv /\ DenyInv /\ [Next]_vars => DenyInv'
  BY DenyGate, DenyRest DEF Next, Rest, GateStep

\* For any number of calls, stores' contents and restarts: a denial that is in force
\* from the start of a call to its end is what lookup() finds.
THEOREM DenialsHold == Spec => []StandingDenyHolds
  <1>1. DenyInv => StandingDenyHolds
    BY DEF DenyInv, StandingDenyHolds
  <1> QED BY <1>1, TypeInit, TypeNext, RowInit, RowNext, DenyInit, DenyNext, PTL DEF Spec

---------------------------------------------------------------------------
(* Consent *)

\* The user has settled h, and what h was settled with does not change any more
Settled(h) == pc[h] \in {"close", "tell", "done"}

SessionConsent(s, k) ==
  \E h \in Gates : /\ Settled(h) /\ requested[h].allow /\ requested[h].scope # "once"
                    /\ "session" \in Offered(h) /\ SessionOf[h] = s /\ KeyOf(h) = k

AlwaysConsent(k) ==
  \E h \in Gates : /\ Settled(h) /\ requested[h].allow /\ requested[h].scope = "always"
                    /\ "always" \in Offered(h) /\ KeyOf(h) = k

\* Every approval in a memory, or in a snapshot of one, goes back to the user
Remembered ==
  /\ \A s \in Sessions, k \in Keys : session[s][k] = "allow" => SessionConsent(s, k)
  /\ \A k \in Keys : standing[k] = "allow" => AlwaysConsent(k)
  /\ \A g \in Gates, k \in Keys : read[g][k] = "allow" => AlwaysConsent(k)

\* So does the answer a gate is about to act on
GoesBack(g) ==
  /\ pc[g] \in {"rows", "decide"} => g \notin Unextracted
  /\ pc[g] = "remember" =>
       /\ requested[g].scope \in Scopes /\ answer[g].allow = requested[g].allow
       /\ answer[g].scope = Downgrade(requested[g].scope, Offered(g))

\* And every call that was let through
Consented(g) == outcome[g] = "allowed" => pc[g] = "done" /\ \E h \in Gates : Settled(h) /\ Covers(h, g)

ConsentInv == Remembered /\ \A g \in Gates : GoesBack(g) /\ Consented(g)

LEMMA ConsentInit == Init => ConsentInv
  BY DEF Init, ConsentInv, Remembered, GoesBack, Consented

\* What is settled stays settled, so that consent is not lost
LEMMA SettledStays ==
    ASSUME TypeOK, [Next]_vars
    PROVE  /\ \A h \in Gates : Settled(h) => Settled(h)' /\ requested'[h] = requested[h]
           /\ \A s, k : SessionConsent(s, k) => SessionConsent(s, k)'
           /\ \A k : AlwaysConsent(k) => AlwaysConsent(k)'
           /\ \A g : (\E h \in Gates : Settled(h) /\ Covers(h, g)) => (\E h \in Gates : Settled(h) /\ Covers(h, g))'
  <1>1. ASSUME NEW h \in Gates, Settled(h) PROVE Settled(h)' /\ requested'[h] = requested[h]
    <2> USE <1>1 DEF Settled, TypeOK, Goto, Return
    <2>1. ASSUME NEW g \in Gates, GateStep(g) PROVE Settled(h)' /\ requested'[h] = requested[h]
      <3>1. requested' = requested /\ (h # g => pc'[h] = pc[h])
        BY <2>1, GateFrame
      <3>2. CASE h = g
        <4>1. Closes(g) \/ Returns(g) \/ GateThrows(g) \/ Aborts(g)
          BY <2>1, <3>2 DEF GateStep, Proceeds, Starts, ReadsRows, Decides, DeniesByMemory, AutoDenies, Asks,
                            Delivered, DeliveryFails, TimesOut, Remembers
        <4> QED BY <3>1, <3>2, <4>1 DEF Closes, Returns, GateThrows, Aborts
      <3> QED BY <3>1, <3>2
    <2>2. ASSUME NEW click \in clicks, Answers(click) PROVE Settled(h)' /\ requested'[h] = requested[h]
      BY <2>2 DEF Answers
    <2>3. CASE Restart
      BY <2>3 DEF Restart
    <2>4. CASE UNCHANGED <<pc, requested>>
      BY <2>4
    <2> QED BY <2>1, <2>2, <2>3, <2>4 DEF Next, GateStep, Revoke, Click, RevokeStanding, ResetsSession,
                  SessionEntryExpires, vars, history
  <1>2. \A s, k : SessionConsent(s, k) => SessionConsent(s, k)'
    BY <1>1 DEF SessionConsent
  <1>3. \A k : AlwaysConsent(k) => AlwaysConsent(k)'
    BY <1>1 DEF AlwaysConsent
  <1>4. \A g : (\E h \in Gates : Settled(h) /\ Covers(h, g)) => (\E h \in Gates : Settled(h) /\ Covers(h, g))'
    BY <1>1 DEF Covers
  <1> QED BY <1>1, <1>2, <1>3, <1>4

\* downgradeChoice() never gives more than was chosen, nor what was not offered
LEMMA DowngradeWeakens ==
    ASSUME NEW g \in Gates, NEW s \in Scopes
    PROVE  /\ Downgrade(s, Offered(g)) = "session" => s # "once" /\ "session" \in Offered(g)
           /\ Downgrade(s, Offered(g)) = "always" => s = "always" /\ "always" \in Offered(g)
  BY DEF Downgrade, Scopes, Offered

\* settle() remembers what the user has consented to
LEMMA RemembersConsent ==
    ASSUME TypeOK, ConsentInv, NEW g \in Gates, Remembers(g)
    PROVE  Remembered'
  <1> USE DEF TypeOK, Goto
  <1>1. pc[g] = "remember" /\ pc'[g] = "close" /\ UNCHANGED <<requested, read>>
    BY DEF Remembers
  <1>2. /\ requested[g].scope \in Scopes /\ answer[g].allow = requested[g].allow
        /\ answer[g].scope = Downgrade(requested[g].scope, Offered(g))
    BY <1>1 DEF ConsentInv, GoesBack
  <1>3. /\ \A s, k : SessionConsent(s, k) => SessionConsent(s, k)'
        /\ \A k : AlwaysConsent(k) => AlwaysConsent(k)'
    <2>1. Next
      BY DEF Next, Proceeds
    <2> QED BY <2>1, SettledStays
  <1>4. ASSUME answer[g].allow, answer[g].scope = "session"
        PROVE  SessionConsent(SessionOf[g], KeyOf(g))'
    BY <1>1, <1>2, <1>4, DowngradeWeakens DEF SessionConsent, Settled
  <1>5. ASSUME answer[g].allow, answer[g].scope = "always"
        PROVE  AlwaysConsent(KeyOf(g))'
    BY <1>1, <1>2, <1>5, DowngradeWeakens DEF AlwaysConsent, Settled
  <1>6. ASSUME NEW s \in Sessions, NEW k \in Keys, session'[s][k] = "allow"
        PROVE  SessionConsent(s, k)'
    <2>1. session[s] \in Memories /\ KeyOf(g) \in Keys
      BY KeyType
    <2>2. \/ session[s][k] = "allow"
          \/ s = SessionOf[g] /\ k = KeyOf(g) /\ answer[g].scope = "session" /\ answer[g].allow
      BY <1>6, <2>1 DEF Remembers, Decision, Memories
    <2> QED BY <1>3, <1>4, <2>2 DEF ConsentInv, Remembered
  <1>7. ASSUME NEW k \in Keys, standing'[k] = "allow"
        PROVE  AlwaysConsent(k)'
    <2>1. standing[k] = "allow" \/ (k = KeyOf(g) /\ answer[g].scope = "always" /\ answer[g].allow)
      BY <1>7, KeyType DEF Remembers, Decision, Memories
    <2> QED BY <1>3, <1>5, <2>1 DEF ConsentInv, Remembered
  <1>8. \A h \in Gates, k \in Keys : read'[h][k] = "allow" => AlwaysConsent(k)'
    BY <1>1, <1>3 DEF ConsentInv, Remembered
  <1> QED BY <1>6, <1>7, <1>8 DEF Remembered

LEMMA RememberedNext ==
    ASSUME TypeOK, ConsentInv, [Next]_vars
    PROVE  Remembered'
  <1>0. /\ \A s, k : SessionConsent(s, k) => SessionConsent(s, k)'
        /\ \A k : AlwaysConsent(k) => AlwaysConsent(k)'
    BY SettledStays
  <1>1. CASE \E g \in Gates : Remembers(g)
    BY <1>1, RemembersConsent
  \* Otherwise the memories do not gain an approval
  <1>2. ASSUME /\ \A s \in Sessions, k \in Keys : session'[s][k] \in {session[s][k], "none"}
               /\ \A k \in Keys : standing'[k] \in {standing[k], "none"}
               /\ \A g \in Gates : read'[g] \in {read[g], standing, Empty}
        PROVE  Remembered'
    BY <1>0, <1>2 DEF ConsentInv, Remembered, Empty
  <1>3. ASSUME NEW g \in Gates, GateStep(g), ~Remembers(g) PROVE Remembered'
    <2>1. UNCHANGED memory /\ read' \in {read, [read EXCEPT ![g] = standing], [read EXCEPT ![g] = Empty]}
      BY <1>3 DEF GateStep, Proceeds, Starts, ReadsRows, Decides, DeniesByMemory, AutoDenies, Asks, Delivered,
                  DeliveryFails, TimesOut, Aborts, Closes, Returns, GateThrows, Empty
    <2>2. \A h \in Gates : read'[h] \in {read[h], standing, Empty}
      BY <2>1 DEF TypeOK
    <2> QED BY <1>2, <2>1, <2>2 DEF memory
  <1>4. CASE Rest
    <2>1. \A g \in Gates : read'[g] \in {read[g], standing, Empty}
      BY <1>4 DEF Rest, Revoke, Click, Answers, RevokeStanding, ResetsSession, SessionEntryExpires, Restart,
                  vars, Empty
    <2>2. Forgets \/ UNCHANGED memory
      BY <1>4, Forgetting DEF Rest, Click, Answers, vars
    <2> QED BY <1>2, <2>1, <2>2 DEF Forgets, memory
  <1> QED BY <1>1, <1>3, <1>4 DEF Next, Rest, GateStep

\* A lookup that allows has found an approval of the call, by the call's own user
LEMMA LookupConsents ==
    ASSUME TypeOK, ConsentInv, NEW g \in Gates, g \notin Unextracted, Lookup(g, read[g]) = "allow"
    PROVE  \E h \in Gates : Settled(h) /\ Covers(h, g)
  <1>1. PICK k \in {KeyOf(g), ANY} : "allow" \in {InSession(g, k), read[g][k]}
    BY DEF Lookup, AtLevel
  <1>2. k \in Keys
    BY KeyType DEF Keys
  <1>3. CASE read[g][k] = "allow"
    <2>1. AlwaysConsent(k)
      BY <1>2, <1>3 DEF ConsentInv, Remembered
    <2> QED BY <1>1, <2>1 DEF AlwaysConsent, Covers
  <1>4. CASE InSession(g, k) = "allow"
    <2>1. SessionOf[g] \in Sessions /\ session[SessionOf[g]][k] = "allow"
      BY <1>4, ApprovalAssumption DEF InSession
    <2>2. SessionConsent(SessionOf[g], k)
      BY <1>2, <2>1 DEF ConsentInv, Remembered
    <2> QED BY <1>1, <2>2 DEF SessionConsent, Covers
  <1> QED BY <1>1, <1>3, <1>4

LEMMA ConsentGate ==
    ASSUME TypeOK, RowInv, ConsentInv, NEW g \in Gates, GateStep(g)
    PROVE  \A h \in Gates : GoesBack(h)' /\ Consented(h)'
  <1> USE DEF Return, Goto, TypeOK, memory, history
  <1>0. /\ \A h \in Gates : GoesBack(h) /\ Consented(h) /\ RowAt(h)
        /\ \A h : (\E f \in Gates : Settled(f) /\ Covers(f, h)) => (\E f \in Gates : Settled(f) /\ Covers(f, h))'
    <2>1. Next
      BY DEF Next, GateStep
    <2> QED BY <2>1, SettledStays DEF ConsentInv, RowInv
  <1> SUFFICES GoesBack(g)' /\ Consented(g)'
    <2>1. ASSUME NEW h \in Gates \ {g} PROVE GoesBack(h)' /\ Consented(h)'
      BY <1>0, GateFrame DEF GoesBack, Consented
    <2> QED BY <2>1
  <1>2. UNCHANGED requested
    BY GateFrame
  <1>3. ASSUME outcome'[g] = outcome[g], pc[g] # "done" PROVE Consented(g)'
    BY <1>0, <1>3 DEF Consented
  <1>4. ASSUME outcome'[g] \in {"denied", "error"} PROVE Consented(g)'
    BY <1>4 DEF Consented
  <1>5. CASE Starts(g)
    BY <1>0, <1>2, <1>3, <1>5 DEF Starts, GoesBack
  <1>6. CASE ReadsRows(g)
    BY <1>0, <1>2, <1>3, <1>6 DEF ReadsRows, GoesBack
  <1>7. CASE Decides(g)
    <2>1. pc[g] = "decide" /\ pc'[g] \in {"done", "ask", "deny"}
      BY <1>7 DEF Decides
    <2>2. CASE Lookup(g, read[g]) = "allow"
      <3>1. outcome'[g] = "allowed" /\ pc'[g] = "done"
        BY <1>7, <2>2 DEF Decides
      <3>2. \E f \in Gates : Settled(f) /\ Covers(f, g)
        BY <1>0, <2>1, <2>2, LookupConsents DEF GoesBack
      <3> QED BY <1>0, <3>1, <3>2 DEF Consented, GoesBack
    <2>3. CASE Lookup(g, read[g]) # "allow"
      <3>1. outcome'[g] = outcome[g]
        BY <1>7, <2>3 DEF Decides
      <3> QED BY <1>3, <2>1, <3>1 DEF GoesBack
    <2> QED BY <2>2, <2>3
  <1>8. CASE GateThrows(g)
    <2>1. outcome'[g] = "error" /\ pc'[g] = "done"
      BY <1>8 DEF GateThrows
    <2> QED BY <1>4, <2>1 DEF GoesBack
  <1>8a. CASE DeniesByMemory(g) \/ AutoDenies(g) \/ DeliveryFails(g) \/ Closes(g)
    <2>1. pc[g] # "done" /\ pc'[g] = "tell" /\ UNCHANGED outcome
      BY <1>8a DEF DeniesByMemory, AutoDenies, DeliveryFails, Closes
    <2> QED BY <1>3, <2>1 DEF GoesBack
  <1>9. CASE Asks(g)
    BY <1>0, <1>2, <1>3, <1>9 DEF Asks, GoesBack
  <1>10. CASE Delivered(g) \/ TimesOut(g)
    <2>1. /\ pc[g] \in {"deliver", "wait"} /\ UNCHANGED outcome
          /\ pc'[g] = "wait" \/ (pc'[g] = "close" /\ ~answer'[g].allow)
      BY <1>10 DEF Delivered, TimesOut, System
    <2> QED BY <1>3, <2>1 DEF GoesBack
  <1>11. CASE Aborts(g)
    <2>1. /\ pc[g] # "done" /\ UNCHANGED outcome
          /\ \/ pc'[g] = pc[g] /\ answer'[g] = answer[g]
             \/ pc'[g] = "close" /\ ~answer'[g].allow
      BY <1>11 DEF Aborts, System
    <2> QED BY <1>0, <1>2, <1>3, <2>1 DEF GoesBack
  <1>12. CASE Remembers(g)
    <2>1. pc[g] = "remember" /\ pc'[g] = "close" /\ UNCHANGED <<outcome, answer>>
      BY <1>12 DEF Remembers
    <2> QED BY <1>0, <1>2, <1>3, <2>1 DEF GoesBack
  <1>13. CASE Returns(g)
    <2>1. /\ pc[g] = "tell" /\ pc'[g] = "done"
          /\ outcome'[g] = IF answer[g].allow THEN "allowed" ELSE "denied"
      BY <1>13 DEF Returns
    <2>2. answer[g].allow => Settled(g) /\ Covers(g, g)
      BY <1>0, <2>1 DEF RowAt, Covers, Settled
    <2> QED BY <1>0, <1>4, <2>1, <2>2 DEF Consented, GoesBack
  <1> QED BY <1>5, <1>6, <1>7, <1>8, <1>8a, <1>9, <1>10, <1>11, <1>12, <1>13 DEF GateStep, Proceeds

LEMMA ConsentRest ==
    ASSUME TypeOK, ConsentInv, Rest
    PROVE  \A h \in Gates : GoesBack(h)' /\ Consented(h)'
  <1> SUFFICES ASSUME NEW h \in Gates PROVE GoesBack(h)' /\ Consented(h)'
    OBVIOUS
  <1>0. /\ GoesBack(h) /\ Consented(h)
        /\ (\E f \in Gates : Settled(f) /\ Covers(f, h)) => (\E f \in Gates : Settled(f) /\ Covers(f, h))'
    BY SettledStays DEF ConsentInv, Rest, Next
  <1>1. CASE UNCHANGED <<pc, outcome, answer, requested>>
    BY <1>0, <1>1 DEF GoesBack, Consented
  <1>2. ASSUME NEW click \in clicks, Answers(click) PROVE GoesBack(h)' /\ Consented(h)'
    <2>1. CASE click.gate # h \/ pc[h] # "wait"
      <3>1. /\ pc'[h] = pc[h] /\ answer'[h] = answer[h] /\ requested'[h] = requested[h] /\ UNCHANGED outcome
        BY <1>2, <2>1 DEF Answers, Goto, TypeOK
      <3> QED BY <1>0, <3>1 DEF GoesBack, Consented
    <2>2. CASE click.gate = h /\ pc[h] = "wait"
      <3>1. /\ pc'[h] = "remember" /\ UNCHANGED outcome /\ requested'[h] = click.choice
            /\ answer'[h] = [allow |-> click.choice.allow, scope |-> Downgrade(click.choice.scope, Offered(h))]
        BY <1>2, <2>2 DEF Answers, Goto, TypeOK
      <3>2. click.choice.scope \in Scopes
        BY DEF TypeOK, Choices
      <3> QED BY <1>0, <2>2, <3>1, <3>2 DEF GoesBack, Consented
    <2> QED BY <2>1, <2>2
  <1>3. CASE Restart
    <2>1. /\ pc'[h] = (IF pc[h] = "new" THEN "new" ELSE "done")
          /\ outcome'[h] = "allowed" => outcome[h] = "allowed" /\ pc[h] = "done"
      BY <1>0, <1>3 DEF Restart, Consented
    <2> QED BY <1>0, <2>1 DEF GoesBack, Consented
  <1> QED BY <1>1, <1>2, <1>3 DEF Rest, Revoke, Click, RevokeStanding, ResetsSession, SessionEntryExpires, vars, history

LEMMA ConsentNext == TypeOK /\ RowInv /\ ConsentInv /\ [Next]_vars => ConsentInv'
  <1>1. TypeOK /\ RowInv /\ ConsentInv /\ [Next]_vars => Remembered'
    BY RememberedNext
  <1>2. TypeOK /\ RowInv /\ ConsentInv /\ [Next]_vars => (\A h \in Gates : GoesBack(h) /\ Consented(h))'
    BY ConsentGate, ConsentRest DEF Next, Rest, GateStep
  <1> QED BY <1>1, <1>2 DEF ConsentInv

\* For any number of calls, users' clicks, timeouts, aborts, faults and restarts:
\* "silence is not consent".  A tool runs only on an approval by the user that was
\* offered and covers the call (gate, lookup, settle).
THEOREM SilenceIsNotConsent == Spec => []NoAllowWithoutConsent
  <1>1. ConsentInv => NoAllowWithoutConsent
    BY DEF ConsentInv, Consented, NoAllowWithoutConsent
  <1> QED BY <1>1, TypeInit, TypeNext, RowInit, RowNext, ConsentInit, ConsentNext, PTL DEF Spec
============================================================================
