--------------------------- MODULE ToolApproval ---------------------------
(***************************************************************************)
(* Approval of gated tool calls of one user and one tool: the two memories *)
(* of standing decisions and their precedence, the rendezvous of a gate     *)
(* with the user's answer, its timeout and the abort of the run, the rows   *)
(* behind the approval cards, revocation, failing writes and restarts.     *)
(***************************************************************************)
EXTENDS Naturals, FiniteSets

CONSTANTS
    Gates,         \* gated calls
    Resources,     \* resource keys other than the empty one
    Sessions,
    SessionOf,     \* the session of a call, or NoSession
    NoSession,
    Kind,          \* approvalScope of the tool, per call: "run", "resource" or "call"
    ResourceOf,    \* the resource key of a call of kind "resource"
    SubAgents,     \* calls made by sub-agents
    Unextracted,   \* calls whose resource key could not be extracted
    Abortable,     \* bound: calls whose run may be aborted
    MaxClicks,     \* bound on answers the user gives to one prompt
    MaxFaults,     \* bound on failed database writes and prompts nobody receives
    MaxCrashes     \* bound on restarts

ANY == "any"  \* the empty resource key, which stands for every resource
Keys == Resources \union {ANY}

ASSUME ApprovalAssumption ==
    /\ IsFiniteSet(Gates)
    /\ ANY \notin Resources /\ NoSession \notin Sessions
    /\ SessionOf \in [Gates -> Sessions \union {NoSession}]
    /\ Kind \in [Gates -> {"run", "resource", "call"}]
    /\ ResourceOf \in [Gates -> Resources]
    /\ SubAgents \subseteq Gates /\ Abortable \subseteq Gates
    /\ Unextracted \subseteq {g \in Gates : Kind[g] = "resource"}
    /\ {MaxClicks, MaxFaults, MaxCrashes} \subseteq Nat

VARIABLES
    session,   \* sessionMemory: per session and key, a decision or "none"
    standing,  \* user_tool_approvals: per key, a decision or "none"
    read,      \* the standing decisions a lookup has read
    row,       \* the approval_requests row of a call
    pc,        \* where gate() stands
    answer,    \* what the rendezvous of a call was settled with
    clicks,    \* resolve() calls between the pending lookup and entry.resolve()
    clicked,   \* how often the user has answered a prompt
    aborted,   \* calls whose run has been aborted
    outcome,   \* what gate() returned
    requested, \* history: the choice the user made for a call, as clicked
    denied,    \* history: denials in force since the call they deny started
    faults,    \* failing calls so far
    crashes    \* restarts so far

memory  == <<session, standing>>
history == <<requested, denied>>
bounds  == <<faults, crashes>>
vars == <<memory, read, row, pc, answer, clicks, clicked, aborted, outcome, history, bounds>>

Decisions == {"allow", "deny"}
Scopes == {"once", "session", "always"}
Stores == {"session", "persistent"}
Choices == [allow : BOOLEAN, scope : Scopes]
Nothing == [allow |-> FALSE, scope |-> "none"]
NoRow == [status |-> "none", store |-> "none", key |-> ANY]
Memories == [Keys -> Decisions \union {"none"}]
Rows == [status : {"none", "PENDING", "APPROVED", "DENIED", "EXPIRED", "CANCELLED"},
         store : Stores \union {"none"}, key : Keys]
Answered == [allow : BOOLEAN, scope : Scopes \union {"none", "timeout", "run_aborted"}]
Points == {"new", "rows", "decide", "deny", "ask", "deliver", "wait", "remember",
           "close", "tell", "done"}

KeyOf(g) == IF Kind[g] = "resource" /\ g \notin Unextracted THEN ResourceOf[g] ELSE ANY

InSession(g, k) == IF SessionOf[g] = NoSession THEN "none" ELSE session[SessionOf[g]][k]

Goto(g, point) == pc' = [pc EXCEPT ![g] = point]
Fault == faults < MaxFaults /\ faults' = faults + 1

\* gate() returns
Return(g, result) ==
    /\ outcome' = [outcome EXCEPT ![g] = result]
    /\ Goto(g, "done")

---------------------------------------------------------------------------
(* lookup(): the specific key before the empty one, at each of them a denial of     *)
(* either store before an approval of either store                                  *)

AtLevel(g, rows, k) ==
    IF "deny" \in {InSession(g, k), rows[k]} THEN "deny"
    ELSE IF "allow" \in {InSession(g, k), rows[k]} THEN "allow"
    ELSE "prompt"

Lookup_BroadFirst(g, rows) ==
    IF AtLevel(g, rows, ANY) # "prompt" THEN AtLevel(g, rows, ANY) ELSE AtLevel(g, rows, KeyOf(g))
Lookup(g, rows) ==
    IF AtLevel(g, rows, KeyOf(g)) # "prompt" THEN AtLevel(g, rows, KeyOf(g)) ELSE AtLevel(g, rows, ANY)

\* The key and the store of the denial found
HitKey(g, rows) == IF AtLevel(g, rows, KeyOf(g)) # "prompt" THEN KeyOf(g) ELSE ANY
HitStore(g, rows) == IF InSession(g, HitKey(g, rows)) = "deny" THEN "session" ELSE "persistent"

Offered(g) ==
    IF g \in Unextracted THEN {"once"}
    ELSE IF Kind[g] = "call" THEN {"once", "session"}
    ELSE Scopes

\* downgradeChoice(): the next weaker scope that was offered
Downgrade(scope, offered) ==
    IF scope \in offered THEN scope
    ELSE IF scope = "always" /\ "session" \in offered THEN "session"
    ELSE "once"

\* The documented precedence, over the given contents of the stores: this store denies
\* the call at this key, and no store decides at a more specific one
InForce(d, inSession, always) ==
    LET g == d.gate
        kept(store, k) == IF store = "persistent" THEN always[k]
                          ELSE IF SessionOf[g] = NoSession THEN "none" ELSE inSession[SessionOf[g]][k]
    IN  /\ kept(d.store, d.key) = "deny"
        /\ d.key # KeyOf(g) => \A store \in Stores : kept(store, KeyOf(g)) = "none"

Denials(g) == {d \in [gate : {g}, store : Stores, key : {KeyOf(g), ANY}] : InForce(d, session, standing)}

\* Memory changes may lift a denial
Relook == denied' = {d \in denied : InForce(d, session', standing')}

Init ==
    /\ session = [s \in Sessions |-> [k \in Keys |-> "none"]]
    /\ standing = [k \in Keys |-> "none"]
    /\ read = [g \in Gates |-> [k \in Keys |-> "none"]]
    /\ row = [g \in Gates |-> NoRow]
    /\ pc = [g \in Gates |-> "new"]
    /\ answer = [g \in Gates |-> Nothing]
    /\ clicks = {} /\ clicked = [g \in Gates |-> 0]
    /\ aborted = {}
    /\ outcome = [g \in Gates |-> "none"]
    /\ requested = [g \in Gates |-> Nothing]
    /\ denied = {}
    /\ faults = 0 /\ crashes = 0

---------------------------------------------------------------------------
(* gate() *)

\* A call whose key could not be extracted always asks
Starts(g) ==
    /\ pc[g] = "new"
    /\ Goto(g, IF g \in Unextracted THEN "ask" ELSE "rows")
    /\ denied' = IF g \in Unextracted THEN denied ELSE denied \union Denials(g)
    /\ UNCHANGED <<memory, read, row, answer, clicks, clicked, aborted, outcome, requested, bounds>>

ReadsRows(g) ==
    /\ pc[g] = "rows"
    /\ read' = [read EXCEPT ![g] = standing]
    /\ Goto(g, "decide")
    /\ UNCHANGED <<memory, row, answer, clicks, clicked, aborted, outcome, history, bounds>>

\* The rows that were read meet the session memory as it is now
Decides(g) ==
    /\ pc[g] = "decide"
    /\ read' = [read EXCEPT ![g] = [k \in Keys |-> "none"]]
    /\ \/ Lookup(g, read[g]) = "allow" /\ Return(g, "allowed") /\ UNCHANGED row
       \/ Lookup(g, read[g]) = "prompt" /\ Goto(g, "ask") /\ UNCHANGED <<outcome, row>>
       \/ /\ Lookup(g, read[g]) = "deny"
          /\ row' = [row EXCEPT ![g] = [status |-> "none", store |-> HitStore(g, read[g]),
                                        key |-> HitKey(g, read[g])]]
          /\ Goto(g, "deny") /\ UNCHANGED outcome
    /\ UNCHANGED <<memory, answer, clicks, clicked, aborted, history, bounds>>

\* The row of a call that memory denies is created resolved, with the key it may be
\* revoked by
DeniesByMemory(g) ==
    /\ pc[g] = "deny"
    /\ row' = [row EXCEPT ![g].status = "DENIED"]
    /\ Goto(g, "tell")
    /\ UNCHANGED <<memory, read, answer, clicks, clicked, aborted, outcome, history, bounds>>

\* Sub-agents and calls without a session cannot ask
AutoDenies(g) ==
    /\ pc[g] = "ask"
    /\ g \in SubAgents \/ SessionOf[g] = NoSession
    /\ row' = [row EXCEPT ![g].status = "DENIED"]
    /\ Goto(g, "tell")
    /\ UNCHANGED <<memory, read, answer, clicks, clicked, aborted, outcome, history, bounds>>

Asks(g) ==
    /\ pc[g] = "ask"
    /\ g \notin SubAgents /\ SessionOf[g] # NoSession
    /\ row' = [row EXCEPT ![g].status = "PENDING"]
    /\ Goto(g, "deliver")
    /\ UNCHANGED <<memory, read, answer, clicks, clicked, aborted, outcome, history, bounds>>

System(reason) == [allow |-> FALSE, scope |-> reason]

\* deliverPrompt() returns: the rendezvous is set up, or the run is aborted already
Delivered(g) ==
    /\ pc[g] = "deliver"
    /\ IF g \in aborted
       THEN answer' = [answer EXCEPT ![g] = System("run_aborted")] /\ Goto(g, "close")
       ELSE Goto(g, "wait") /\ UNCHANGED answer
    /\ UNCHANGED <<memory, read, row, clicks, clicked, aborted, outcome, history, bounds>>

DeliveryFails_KeepsRow(g) ==
    /\ pc[g] = "deliver"
    /\ Fault
    /\ Goto(g, "tell")
    /\ UNCHANGED <<memory, read, row, answer, clicks, clicked, aborted, outcome, history, crashes>>
DeliveryFails(g) ==
    /\ pc[g] = "deliver"
    /\ Fault
    /\ row' = [row EXCEPT ![g].status = "DENIED"]
    /\ Goto(g, "tell")
    /\ UNCHANGED <<memory, read, answer, clicks, clicked, aborted, outcome, history, crashes>>

---------------------------------------------------------------------------
(* The rendezvous *)

\* resolve() finds the pending entry and awaits its audit record
Click(g, c) ==
    /\ pc[g] = "wait"
    /\ clicked[g] < MaxClicks
    /\ clicked' = [clicked EXCEPT ![g] = @ + 1]
    /\ clicks' = clicks \union {[gate |-> g, choice |-> c]}
    /\ UNCHANGED <<memory, read, row, pc, answer, aborted, outcome, history, bounds>>

\* entry.resolve(): the first one settles the gate, the others do nothing
Answers(click) ==
    LET g == click.gate IN
    /\ click \in clicks
    /\ clicks' = clicks \ {click}
    /\ IF pc[g] = "wait"
       THEN /\ answer' = [answer EXCEPT ![g] = [allow |-> click.choice.allow,
                              scope |-> Downgrade(click.choice.scope, Offered(g))]]
            /\ requested' = [requested EXCEPT ![g] = click.choice]
            /\ Goto(g, "remember")
       ELSE UNCHANGED <<answer, requested, pc>>
    /\ UNCHANGED <<memory, read, row, clicked, aborted, outcome, denied, bounds>>

TimesOut_NeedsSignal(g) ==
    /\ pc[g] = "wait" /\ g \in Abortable
    /\ answer' = [answer EXCEPT ![g] = System("timeout")]
    /\ Goto(g, "close")
    /\ UNCHANGED <<memory, read, row, clicks, clicked, aborted, outcome, history, bounds>>
TimesOut(g) ==
    /\ pc[g] = "wait"
    /\ answer' = [answer EXCEPT ![g] = System("timeout")]
    /\ Goto(g, "close")
    /\ UNCHANGED <<memory, read, row, clicks, clicked, aborted, outcome, history, bounds>>

Aborts(g) ==
    /\ g \in Abortable \ aborted
    /\ pc[g] \notin {"new", "done"}
    /\ aborted' = aborted \union {g}
    /\ IF pc[g] = "wait"
       THEN answer' = [answer EXCEPT ![g] = System("run_aborted")] /\ Goto(g, "close")
       ELSE UNCHANGED <<answer, pc>>
    /\ UNCHANGED <<memory, read, row, clicks, clicked, outcome, history, bounds>>

---------------------------------------------------------------------------
(* settle() *)

Decision(g) == IF answer[g].allow THEN "allow" ELSE "deny"

Remembers_Broad(g) ==
    /\ pc[g] = "remember"
    /\ session' = IF answer[g].scope = "session"
                  THEN [session EXCEPT ![SessionOf[g]][ANY] = Decision(g)] ELSE session
    /\ standing' = IF answer[g].scope = "always"
                   THEN [standing EXCEPT ![ANY] = Decision(g)] ELSE standing
    /\ Goto(g, "close")
    /\ UNCHANGED <<read, row, answer, clicks, clicked, aborted, outcome, requested, bounds>>
    /\ Relook
\* writeSessionMemory() or upsert(), before the row is closed
Remembers(g) ==
    /\ pc[g] = "remember"
    /\ session' = IF answer[g].scope = "session"
                  THEN [session EXCEPT ![SessionOf[g]][KeyOf(g)] = Decision(g)] ELSE session
    /\ standing' = IF answer[g].scope = "always"
                   THEN [standing EXCEPT ![KeyOf(g)] = Decision(g)] ELSE standing
    /\ Goto(g, "close")
    /\ UNCHANGED <<read, row, answer, clicks, clicked, aborted, outcome, requested, bounds>>
    /\ Relook

\* The patch of a guarded transition from PENDING
Closed(g) ==
    [status |-> CASE answer[g].scope = "timeout" -> "EXPIRED"
                  [] answer[g].scope = "run_aborted" -> "CANCELLED"
                  [] OTHER -> IF answer[g].allow THEN "APPROVED" ELSE "DENIED",
     store |-> CASE answer[g].scope = "session" -> "session"
                 [] answer[g].scope = "always" -> "persistent"
                 [] OTHER -> "none",
     key |-> KeyOf(g)]

Closes(g) ==
    /\ pc[g] = "close"
    /\ row' = [row EXCEPT ![g] = IF @.status = "PENDING" THEN Closed(g) ELSE @]
    /\ Goto(g, "tell")
    /\ UNCHANGED <<memory, read, answer, clicks, clicked, aborted, outcome, history, bounds>>

\* The audit record and the card's resolution are awaited, and their failures only
\* logged; then the gate returns what the row says.  Without an answer it is a denial
Returns(g) ==
    /\ pc[g] = "tell"
    /\ Return(g, IF answer[g].allow THEN "allowed" ELSE "denied")
    /\ UNCHANGED <<memory, read, row, answer, clicks, clicked, aborted, history, bounds>>

\* A database call of gate() throws: so does the gate, and the tool does not run.  At
\* "deliver" it is the row's closing after a prompt that could not be delivered
GateThrows(g) ==
    /\ pc[g] \in {"rows", "deny", "ask", "deliver", "remember", "close"}
    /\ Fault
    /\ Return(g, "error")
    /\ row' = IF pc[g] = "deny" THEN [row EXCEPT ![g] = NoRow] ELSE row
    /\ UNCHANGED <<memory, read, answer, clicks, clicked, aborted, history, crashes>>

---------------------------------------------------------------------------
(* Revocation, expiry and restarts *)

\* revoke() of the card of g: the memory entry under the row's key goes, whoever
\* wrote it last
Revoke(g) ==
    /\ row[g].status \notin {"none", "PENDING"}
    /\ \/ /\ row[g].store = "persistent" /\ standing[row[g].key] # "none"
          /\ standing' = [standing EXCEPT ![row[g].key] = "none"]
          /\ UNCHANGED session
       \/ /\ row[g].store = "session" /\ InSession(g, row[g].key) # "none"
          /\ session' = [session EXCEPT ![SessionOf[g]][row[g].key] = "none"]
          /\ UNCHANGED standing
    /\ UNCHANGED <<read, row, pc, answer, clicks, clicked, aborted, outcome, requested, bounds>>
    /\ Relook

\* Settings: the user deletes a standing decision
RevokeStanding(k) ==
    /\ standing[k] # "none"
    /\ standing' = [standing EXCEPT ![k] = "none"]
    /\ UNCHANGED <<session, read, row, pc, answer, clicks, clicked, aborted, outcome, requested, bounds>>
    /\ Relook

\* A session entry that nobody has read for 24 hours
SessionEntryExpires(s, k) ==
    /\ session[s][k] # "none"
    /\ session' = [session EXCEPT ![s][k] = "none"]
    /\ UNCHANGED <<standing, read, row, pc, answer, clicks, clicked, aborted, outcome, requested, bounds>>
    /\ Relook

\* clearSessionMemory(), of the /reset command
ResetsSession(s) ==
    /\ \E k \in Keys : session[s][k] # "none"
    /\ session' = [session EXCEPT ![s] = [k \in Keys |-> "none"]]
    /\ UNCHANGED <<standing, read, row, pc, answer, clicks, clicked, aborted, outcome, requested, bounds>>
    /\ Relook

\* The session memory and every rendezvous are gone; onModuleInit() expires what pends
Restart ==
    /\ crashes < MaxCrashes
    /\ crashes' = crashes + 1
    /\ session' = [s \in Sessions |-> [k \in Keys |-> "none"]]
    /\ row' = [g \in Gates |-> CASE row[g].status = "PENDING" -> [row[g] EXCEPT !.status = "EXPIRED"]
                                 [] pc[g] = "deny" -> NoRow
                                 [] OTHER -> row[g]]
    /\ outcome' = [g \in Gates |-> IF pc[g] \in {"new", "done"} THEN outcome[g] ELSE "dead"]
    /\ pc' = [g \in Gates |-> IF pc[g] = "new" THEN "new" ELSE "done"]
    /\ read' = [g \in Gates |-> [k \in Keys |-> "none"]]
    /\ clicks' = {}
    /\ UNCHANGED <<standing, answer, clicked, aborted, requested, faults>>
    /\ Relook

---------------------------------------------------------------------------
Proceeds(g) ==
    \/ ReadsRows(g) \/ Decides(g) \/ DeniesByMemory(g) \/ AutoDenies(g)
    \/ Asks(g) \/ Delivered(g) \/ TimesOut(g) \/ Remembers(g) \/ Closes(g) \/ Returns(g)

Next ==
    \/ \E g \in Gates : Starts(g) \/ Proceeds(g) \/ DeliveryFails(g) \/ Aborts(g) \/ GateThrows(g) \/ Revoke(g)
    \/ \E g \in Gates, c \in Choices : Click(g, c)
    \/ \E click \in clicks : Answers(click)
    \/ \E k \in Keys : RevokeStanding(k)
    \/ \E s \in Sessions : ResetsSession(s) \/ \E k \in Keys : SessionEntryExpires(s, k)
    \/ Restart

Spec == Init /\ [][Next]_vars

\* Database calls return, and the timer of a rendezvous fires
FairSpec == Spec /\ \A g \in Gates : WF_vars(Proceeds(g))

---------------------------------------------------------------------------
(* Properties *)

\* Type correctness.
TypeOK ==
    /\ session \in [Sessions -> Memories] /\ standing \in Memories /\ read \in [Gates -> Memories]
    /\ row \in [Gates -> Rows]
    /\ pc \in [Gates -> Points]
    /\ answer \in [Gates -> Answered] /\ requested \in [Gates -> Answered]
    /\ clicks \subseteq [gate : Gates, choice : Choices]
    /\ outcome \in [Gates -> {"none", "allowed", "denied", "error", "dead"}]
    /\ denied \subseteq [gate : Gates, store : Stores, key : Keys]

\* The user's approval of call h covers call g: it is the same call, or what he chose
\* and was offered outlives it and has a key of g
Covers(h, g) ==
    /\ requested[h].allow
    /\ \/ h = g
       \/ /\ g \notin Unextracted
          /\ KeyOf(h) \in {KeyOf(g), ANY}
          /\ \/ requested[h].scope = "always" /\ "always" \in Offered(h)
             \/ /\ requested[h].scope # "once" /\ "session" \in Offered(h)
                /\ SessionOf[h] = SessionOf[g]

\* "Silence is not consent": no timeout, abort, restart, failed delivery or answer to
\* another prompt lets a tool run that the user has not approved.
NoAllowWithoutConsent ==
    \A g \in Gates : outcome[g] = "allowed" => \E h \in Gates : Covers(h, g)

\* A denial in force when a call starts, and until it ends, holds: the documented
\* precedence, although lookup() reads the two memories at two different moments.
\* (One that moves from the session to the standing decisions in between is missed.)
StandingDenyHolds == \A d \in denied : outcome[d.gate] # "allowed"

\* The row behind the card says what became of the call: a row is APPROVED only when
\* the user has approved this very call, and then the call runs, unless a restart falls
\* between the row's closing and the gate's return; a call that runs has no other row; a
\* denied one has a closed row that does not say APPROVED; and none stays PENDING after
\* its gate has ended, except when the write itself has failed.
RowTellsOutcome ==
    \A g \in Gates :
        /\ row[g].status = "APPROVED" =>
             requested[g].allow /\ (outcome[g] \in {"allowed", "dead"} \/ pc[g] = "tell")
        /\ outcome[g] = "allowed" => row[g].status \in {"none", "APPROVED"}
        /\ outcome[g] = "denied" => row[g].status \in {"DENIED", "EXPIRED", "CANCELLED"}
        /\ row[g].status = "PENDING" => pc[g] # "done" \/ outcome[g] = "error"

\* Every gate ends, whether the user answers or not.
GatesEnd == \A g \in Gates : pc[g] # "new" ~> pc[g] = "done"
============================================================================
