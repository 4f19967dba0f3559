----------------------------- MODULE ChatClient -----------------------------
(***************************************************************************)
(* One browser tab of the web chat and the part of the server it talks to. *)
(*                                                                         *)
(* The tab (use-chat.ts) learns of messages along four independent paths:  *)
(* the optimistic copy it adds when the user sends, the frames of the      *)
(* socket, the periodic poll, and the page it fetches when a conversation  *)
(* is opened or the socket comes back.  None of the answers is tagged with *)
(* the conversation that asked for it when it is applied.  The server      *)
(* (message-router, session manager, chat controller) decides which        *)
(* session a message belongs to: the client never names one.               *)
(*                                                                         *)
(* Abstractions.  A message is <<form, n>>: the tab's optimistic copy      *)
(* <<"tmp", n>> of send number n, the rows <<"user", n>> and               *)
(* <<"assistant", n>> its turn stores, and Notice, the reply that has no   *)
(* row and an empty id.  Agents do not stream.  The typing indicator is    *)
(* left out: it disables the input box, but its own timeout re-enables it  *)
(* at any time.  A fetch is answered when it is issued and applied later.  *)
(* Frames that answer no message of the tab (replies of sub-agent          *)
(* reinvocations, results of scheduled tasks) are outside this model.      *)
(*                                                                         *)
(* ChatInit, ChatNext and other names begin with Chat because the proofs   *)
(* extend this module and SessionRuns, the other end of a conversation.    *)
(***************************************************************************)
EXTENDS Naturals, Sequences, FiniteSets, SequencesExt

CONSTANTS
  Sessions,    \* session ids the server can create
  PageLimit,   \* MESSAGE_LIMIT: rows of one page (20 in the code)
  MaxSends,    \* bound: messages the user sends
  MaxChatEvents, \* bound: faults (sockets that drop, calls and turns that fail) and moves
               \* (conversations the user opens, leaves or deletes) together
  Nil          \* no session

ASSUME ChatConstants ==
  /\ IsFiniteSet(Sessions) /\ Cardinality(Sessions) >= MaxSends /\ Sessions # {}
  /\ PageLimit \in Nat \ {0}
  /\ MaxSends \in Nat /\ MaxChatEvents \in Nat
  /\ Nil \notin Sessions

VARIABLES
  \* the server
  sess,        \* session -> "none" | "active" | "archived" | "deleted"
  rows,        \* session -> its stored, visible messages in order
  turns,       \* messages being handled: [of, command, from, sid, at]
  inbox,       \* message.send frames on their way to the server
  \* the socket
  online,      \* the socket is open
  frames,      \* server frames on their way to the tab
  \* the tab
  cur,         \* currentSessionId
  view,        \* messages
  pending,     \* pendingCountRef (hasPending is pending > 0)
  failed,      \* failedTmpIds
  fetches,     \* issued fetches whose answers are not applied yet
  clearing,    \* a session.reset timer is running
  leaving,     \* startNewChat awaits the deactivate call
  deleting,    \* sessions deleted by a call whose answer deleteSession awaits
  readonly,    \* the open conversation is shown as archived
  \* bookkeeping
  sends,       \* number of messages sent
  moves,       \* number of conversations opened, left and deleted
  chatFaults,  \* faults that happened
  doubled,     \* a session was created while another message, too, had found none
  crossed,     \* a message passed the router's check beside one still being handled
  overtaken    \* a page was cut off before a reply whose frame was still to come

serverVars == <<sess, rows, turns, inbox>>
tabVars == <<cur, view, pending, failed, fetches, clearing, leaving, deleting, readonly>>
chatHistory == <<doubled, crossed, overtaken>>
chatVars == <<serverVars, online, frames, tabVars, sends, moves, chatFaults, chatHistory>>

-----------------------------------------------------------------------------
(* Messages *)

Notice == <<"notice", 0>>
ChatMessages == ({"tmp", "user", "assistant"} \X (1..MaxSends)) \cup {Notice}
IsReal(m) == m[1] # "tmp"
Shown == ToSet(view)
RealOf(s) == SelectSeq(s, IsReal)
Replies(S) == {m \in S : m[1] = "assistant"}

\* Mutant: the page is sent as the query returns it, newest first.
Page_Newest(s) ==
  Reverse(SubSeq(rows[s], IF Len(rows[s]) > PageLimit THEN Len(rows[s]) - PageLimit + 1 ELSE 1,
                 Len(rows[s])))

\* The page of a session: the newest PageLimit rows, oldest first.
Page(s) ==
  SubSeq(rows[s], IF Len(rows[s]) > PageLimit THEN Len(rows[s]) - PageLimit + 1 ELSE 1,
         Len(rows[s]))

Fetch(kind, s) == [kind |-> kind, sid |-> s, page |-> Page(s)]
Kinds == {"poll", "open", "reopen"}
Create(id, s) == [kind |-> "create", id |-> id, sid |-> s]
ResetFrame == [kind |-> "reset", id |-> Notice, sid |-> Nil]
ErrorFrame == [kind |-> "error", id |-> Notice, sid |-> Nil]

\* sendToUser: a frame for a user without an open socket is dropped.
Emit(fs) == frames' = IF online THEN frames \o fs ELSE frames

ChatFault == chatFaults + moves < MaxChatEvents /\ chatFaults' = chatFaults + 1

\* A GET of a session's messages is sent.
Ask(kind, s) ==
  /\ fetches' = fetches \cup {Fetch(kind, s)}
  /\ overtaken' = (overtaken \/ \E f \in ToSet(frames) : f.id \in ToSet(rows[s]) \ ToSet(Page(s)))

ChatInit ==
  /\ sess = [s \in Sessions |-> "none"]
  /\ rows = [s \in Sessions |-> <<>>]
  /\ turns = {} /\ inbox = <<>>
  /\ online = TRUE /\ frames = <<>>
  /\ cur = Nil /\ view = <<>> /\ pending = 0 /\ failed = {} /\ fetches = {}
  /\ clearing = FALSE /\ leaving = Nil /\ deleting = {} /\ readonly = FALSE
  /\ sends = 0 /\ moves = 0 /\ chatFaults = 0 /\ doubled = FALSE /\ crossed = FALSE /\ overtaken = FALSE

-----------------------------------------------------------------------------
(* The server: routing a message, running its turn.  Every await is a step: *)
(* the gateway handles the messages of a socket side by side.               *)

Goes(t, at) == turns' = (turns \ {t}) \cup {[t EXCEPT !.at = at]}
Ends(t) == turns' = turns \ {t}
Stage(t, at) == t \in turns /\ t.at = at

\* The row of a run goes with its session.
HasRunning == \E u \in turns : u.at \in {"running", "asked", "replied"} /\ sess[u.sid] # "deleted"

Receive ==
  /\ inbox # <<>>
  /\ inbox' = Tail(inbox)
  /\ LET msg == Head(inbox) IN
     turns' = turns \cup {[of |-> msg.n, command |-> msg.command, from |-> msg.from, sid |-> Nil,
                           at |-> "arrived"]}
  /\ UNCHANGED <<sess, rows, online, frames, tabVars, sends, moves, chatFaults, chatHistory>>

\* hasRunningAgentForUser: "still working on your previous message", or go on.
Check(t) ==
  /\ Stage(t, "arrived") /\ ~t.command
  /\ IF HasRunning
     THEN Ends(t) /\ Emit(<<Create(Notice, Nil)>>) /\ UNCHANGED crossed
     ELSE /\ Goes(t, "checked")
          /\ crossed' = (crossed \/ \E u \in turns \ {t} :
                                       ~u.command /\ (u.at # "arrived" \/ u.of < t.of))
          /\ UNCHANGED frames
  /\ UNCHANGED <<sess, rows, inbox, online, tabVars, sends, moves, chatFaults, doubled, overtaken>>

\* The runner refuses before it needs a session: agent, rate, budget, provider, or the
\* policy's limit of concurrent runs.
Refuse(t) ==
  /\ Stage(t, "checked")
  /\ ChatFault \/ (HasRunning /\ UNCHANGED chatFaults)
  /\ Ends(t) /\ Emit(<<ErrorFrame>>)
  /\ UNCHANGED <<sess, rows, inbox, online, tabVars, sends, moves, chatHistory>>

\* Mutant: the active session of the channel is not looked up.
Active_NoReuse == {}

\* The sessions of (user, agent, channel) that getOrCreate's query can return.
Active == {s \in Sessions : sess[s] = "active"}

\* getOrCreate looks the session up, for a command as well.
FindSession(t) ==
  /\ Stage(t, IF t.command THEN "arrived" ELSE "checked")
  /\ \/ Active = {} /\ Goes(t, "missing")
     \/ \E s \in Active : turns' = (turns \ {t}) \cup {[t EXCEPT !.sid = s, !.at = "held"]}
  /\ UNCHANGED <<sess, rows, inbox, online, frames, tabVars, sends, moves, chatFaults, chatHistory>>

\* getOrCreate has found none: it creates one, whatever happened since.
CreateSession(t) ==
  LET s == CHOOSE u \in Sessions : sess[u] = "none" IN
  /\ Stage(t, "missing")
  /\ \E u \in Sessions : sess[u] = "none"   \* a fresh id: there are as many as messages
  /\ sess' = [sess EXCEPT ![s] = "active"]
  /\ turns' = (turns \ {t}) \cup {[t EXCEPT !.sid = s, !.at = "held"]}
  /\ doubled' = (doubled \/ \E u \in turns \ {t} : u.at = "missing")
  /\ UNCHANGED <<rows, inbox, online, frames, tabVars, sends, moves, chatFaults, crossed, overtaken>>

\* A slash command is answered whatever is running.  /reset archives a session
\* that has messages and follows its reply with a session.reset frame.
RunCommand(t) ==
  /\ Stage(t, "held") /\ t.command
  /\ Ends(t)
  /\ \/ UNCHANGED sess /\ Emit(<<Create(Notice, Nil)>>)   \* another command, or nothing to reset
     \/ /\ rows[t.sid] # <<>>
        /\ sess' = [sess EXCEPT ![t.sid] = "archived"]
        /\ Emit(<<Create(Notice, Nil), ResetFrame>>)
  /\ UNCHANGED <<rows, inbox, online, tabVars, sends, moves, chatFaults, chatHistory>>

\* The run's row, which hasRunningAgentForUser counts from here on.
CreateRun(t) ==
  /\ Stage(t, "held") /\ ~t.command /\ sess[t.sid] # "deleted"
  /\ Goes(t, "running")
  /\ UNCHANGED <<sess, rows, inbox, online, frames, tabVars, sends, moves, chatFaults, chatHistory>>

\* The run stores the message, later its reply, in its session.
StoreMessage(t) ==
  /\ Stage(t, "running") /\ sess[t.sid] # "deleted"
  /\ rows' = [rows EXCEPT ![t.sid] = Append(@, <<"user", t.of>>)]
  /\ Goes(t, "asked")
  /\ UNCHANGED <<sess, inbox, online, frames, tabVars, sends, moves, chatFaults, chatHistory>>

StoreReply(t) ==
  /\ Stage(t, "asked") /\ sess[t.sid] # "deleted"
  /\ rows' = [rows EXCEPT ![t.sid] = Append(@, <<"assistant", t.of>>)]
  /\ Goes(t, "replied")
  /\ UNCHANGED <<sess, inbox, online, frames, tabVars, sends, moves, chatFaults, chatHistory>>

\* The run's row is completed, then the router sends the reply.
CompleteRun(t) ==
  /\ Stage(t, "replied") /\ sess[t.sid] # "deleted"
  /\ Goes(t, "completed")
  /\ UNCHANGED <<sess, rows, inbox, online, frames, tabVars, sends, moves, chatFaults, chatHistory>>

Deliver(t) ==
  /\ Stage(t, "completed")
  /\ Ends(t) /\ Emit(<<Create(<<"assistant", t.of>>, t.sid)>>)
  /\ UNCHANGED <<sess, rows, inbox, online, tabVars, sends, moves, chatFaults, chatHistory>>

\* The run throws: for a fault of its own, or because its session is gone.
Throw(t) ==
  /\ t \in turns /\ ~t.command /\ t.at \in {"held", "running", "asked", "replied"}
  /\ ChatFault \/ (sess[t.sid] = "deleted" /\ UNCHANGED chatFaults)
  /\ Ends(t) /\ Emit(<<ErrorFrame>>)
  /\ UNCHANGED <<sess, rows, inbox, online, tabVars, sends, moves, chatHistory>>

-----------------------------------------------------------------------------
(* The socket *)

Disconnect ==
  /\ online /\ ChatFault
  /\ online' = FALSE /\ frames' = <<>>
  /\ inbox' \in {inbox, <<>>}
  /\ UNCHANGED <<sess, rows, turns, tabVars, sends, moves, chatHistory>>

\* onopen of a reconnect fetches the open conversation.
Reconnect ==
  /\ ~online
  /\ online' = TRUE
  /\ IF cur = Nil THEN UNCHANGED <<fetches, overtaken>> ELSE Ask("reopen", cur)
  /\ UNCHANGED <<serverVars, frames, cur, view, pending, failed, clearing, leaving,
                 deleting, readonly, sends, moves, chatFaults, doubled, crossed>>

\* Mutant: a frame whose id is shown is ignored altogether.
OnCreate_Dedup(f) ==
  /\ view' = IF f.id \in Shown THEN view ELSE Append(view, f.id)
  /\ pending' = IF f.id \notin Shown /\ pending > 0 THEN pending - 1 ELSE pending
  /\ cur' = IF cur = Nil THEN f.sid ELSE cur
  /\ UNCHANGED <<failed, clearing>>

\* message.create appends whatever conversation it is of, unless its id is shown.
OnCreate(f) ==
  /\ view' = IF f.id \in Shown THEN view ELSE Append(view, f.id)
  /\ pending' = IF pending > 0 THEN pending - 1 ELSE 0
  /\ cur' = IF cur = Nil THEN f.sid ELSE cur
  /\ UNCHANGED <<failed, clearing>>

OnError ==
  /\ pending' = 0
  /\ failed' = failed \cup {m[2] : m \in {k \in Shown : ~IsReal(k)}}
  /\ UNCHANGED <<view, cur, clearing>>

OnReset ==
  /\ clearing' = TRUE
  /\ UNCHANGED <<view, pending, cur, failed>>

OnFrame ==
  /\ frames # <<>>
  /\ frames' = Tail(frames)
  /\ LET f == Head(frames) IN
     \/ f.kind = "create" /\ OnCreate(f)
     \/ f.kind = "error" /\ OnError
     \/ f.kind = "reset" /\ OnReset
  /\ UNCHANGED <<serverVars, online, fetches, leaving, deleting, readonly, sends, moves, chatFaults, chatHistory>>

-----------------------------------------------------------------------------
(* The tab: fetched pages *)

Poll ==
  /\ cur # Nil /\ sess[cur] # "deleted"
  /\ \A f \in fetches : f.kind # "poll"
  /\ Ask("poll", cur)
  /\ UNCHANGED <<serverVars, online, frames, cur, view, pending, failed, clearing, leaving,
                 deleting, readonly, sends, moves, chatFaults, doubled, crossed>>

\* Mutant: the poll, too, compares with everything shown.
Longer_All(f) == f.kind = "open" \/ Len(f.page) > Len(view)

\* The poll compares with the stored messages shown, the reconnect with all of
\* them; an opened conversation is shown as fetched.
Longer(f) ==
  CASE f.kind = "poll"   -> Len(f.page) > Len(RealOf(view))
    [] f.kind = "reopen" -> Len(f.page) > Len(view)
    [] f.kind = "open"   -> TRUE

Settled(f) ==
  LET new == Cardinality(Replies(ToSet(f.page)) \ Shown)
  IN  IF f.kind = "open" THEN pending ELSE IF pending > new THEN pending - new ELSE 0

ApplyFetch(f) ==
  /\ fetches' = fetches \ {f}
  /\ IF Longer(f) THEN view' = f.page /\ pending' = Settled(f)
                  ELSE UNCHANGED <<view, pending>>
  /\ UNCHANGED <<serverVars, online, frames, cur, failed, clearing, leaving, deleting,
                 readonly, sends, moves, chatFaults, chatHistory>>

FetchFails(f) ==
  /\ ChatFault
  /\ fetches' = fetches \ {f}
  /\ UNCHANGED <<serverVars, online, frames, cur, view, pending, failed, clearing, leaving,
                 deleting, readonly, sends, moves, chatHistory>>

-----------------------------------------------------------------------------
(* The tab: the user *)

\* sendMessage: only on an open socket; the message carries no session.
Push(base, command) ==
  /\ sends < MaxSends
  /\ sends' = sends + 1
  /\ view' = Append(base, <<"tmp", sends + 1>>)
  /\ inbox' = Append(inbox, [n |-> sends + 1, command |-> command, from |-> cur])
  /\ pending' = pending + 1

Send ==
  /\ online /\ ~readonly
  /\ \E command \in BOOLEAN : Push(view, command)
  /\ UNCHANGED <<sess, rows, turns, online, frames, cur, failed, fetches, clearing, leaving,
                 deleting, readonly, moves, chatFaults, chatHistory>>

\* retryMessage drops the failed copy (ids are unique) before it knows whether it can
\* send.
Retry ==
  \E n \in failed :
    LET rest == RemoveFirst(view, <<"tmp", n>>) IN
    /\ <<"tmp", n>> \in Shown
    /\ failed' = failed \ {n}
    /\ IF online THEN Push(rest, FALSE)
                 ELSE view' = rest /\ UNCHANGED <<sends, inbox, pending>>
    /\ UNCHANGED <<sess, rows, turns, online, frames, cur, fetches, clearing, leaving,
                   deleting, readonly, moves, chatFaults, chatHistory>>

Move == chatFaults + moves < MaxChatEvents /\ moves' = moves + 1

\* The tab shows no conversation.
Blank == cur' = Nil /\ view' = <<>> /\ pending' = 0 /\ readonly' = FALSE

SelectSession(s) ==
  /\ sess[s] \in {"active", "archived"}
  /\ Move
  /\ cur' = s /\ view' = <<>> /\ readonly' = (sess[s] = "archived")
  /\ Ask("open", s)
  /\ UNCHANGED <<serverVars, online, frames, pending, failed, clearing, leaving, deleting, sends,
                 chatFaults, doubled, crossed>>

\* startNewChat: archive the open conversation, then clear, whether or not the
\* call succeeded; without one, or for an archived one, clear at once.
StartNewChat ==
  /\ Move
  /\ \/ /\ cur # Nil /\ ~readonly /\ leaving = Nil
        /\ \/ sess' = [sess EXCEPT ![cur] = IF @ = "active" THEN "archived" ELSE @] /\ UNCHANGED chatFaults
           \/ ChatFault /\ UNCHANGED sess
        /\ leaving' = cur
        /\ UNCHANGED <<cur, view, pending, readonly>>
     \/ /\ cur = Nil \/ readonly
        /\ Blank
        /\ UNCHANGED <<sess, leaving, chatFaults>>
  /\ UNCHANGED <<rows, turns, inbox, online, frames, failed, fetches, clearing, deleting, sends,
                 chatHistory>>

NewChatClears ==
  /\ leaving # Nil
  /\ leaving' = Nil /\ Blank
  /\ UNCHANGED <<serverVars, online, frames, failed, fetches, clearing, deleting, sends, moves, chatFaults,
                 chatHistory>>

\* The 1.5 s timer of session.reset.
ResetClears ==
  /\ clearing
  /\ clearing' = FALSE /\ Blank
  /\ UNCHANGED <<serverVars, online, frames, failed, fetches, leaving, deleting, sends, moves, chatFaults,
                 chatHistory>>

\* The DELETE call.  When it fails the tab keeps the conversation on screen, though the
\* server may have deleted it.
DeleteSession(s) ==
  /\ Move
  /\ sess[s] \in {"active", "archived"}
  /\ LET gone == sess' = [sess EXCEPT ![s] = "deleted"] /\ rows' = [rows EXCEPT ![s] = <<>>] IN
     \/ gone /\ deleting' = deleting \cup {s} /\ UNCHANGED chatFaults
     \/ ChatFault /\ UNCHANGED deleting /\ (gone \/ UNCHANGED <<sess, rows>>)
  /\ UNCHANGED <<turns, inbox, online, frames, cur, view, pending, failed, fetches, clearing, leaving,
                 readonly, sends, chatHistory>>

\* Its answer blanks the screen if the deleted conversation is the open one by then.
DeleteClears(s) ==
  /\ s \in deleting
  /\ deleting' = deleting \ {s}
  /\ IF cur = s THEN Blank ELSE UNCHANGED <<cur, view, pending, readonly>>
  /\ UNCHANGED <<serverVars, online, frames, failed, fetches, clearing, leaving, sends, moves, chatFaults,
                 chatHistory>>

-----------------------------------------------------------------------------
Handle(t) ==
  \/ Check(t) \/ Refuse(t) \/ FindSession(t) \/ CreateSession(t) \/ RunCommand(t)
  \/ CreateRun(t) \/ StoreMessage(t) \/ StoreReply(t) \/ CompleteRun(t) \/ Deliver(t) \/ Throw(t)
Server == Receive \/ \E t \in turns : Handle(t)
Tab == Reconnect \/ OnFrame \/ Poll \/ NewChatClears \/ ResetClears \/ \E s \in deleting : DeleteClears(s)
User == Send \/ Retry \/ StartNewChat \/ \E s \in Sessions : SelectSession(s) \/ DeleteSession(s)

ChatNext ==
  \/ Server \/ Tab \/ User \/ Disconnect
  \/ \E f \in fetches : ApplyFetch(f) \/ FetchFails(f)

ChatSpec == ChatInit /\ [][ChatNext]_chatVars

\* The server keeps working, the socket delivers and reconnects, the interval
\* fires and every fetch and call ends.  Nothing makes the user or a fault act.
ChatFairness ==
  /\ WF_chatVars(Server)
  /\ WF_chatVars(Reconnect) /\ WF_chatVars(OnFrame) /\ WF_chatVars(Poll)
  /\ WF_chatVars(NewChatClears) /\ WF_chatVars(ResetClears)
  /\ WF_chatVars(\E s \in deleting : DeleteClears(s))
  /\ \A k \in Kinds : WF_chatVars(\E f \in fetches : f.kind = k /\ ApplyFetch(f))

ChatFairSpec == ChatSpec /\ ChatFairness

-----------------------------------------------------------------------------
(* Properties *)

\* A message goes to the conversation the tab showed when the user sent it, as long as
\* that is the active one: the message carries no session and the tab may show a
\* conversation that was reset, left or deleted meanwhile, so the tab relies on the server
\* finding the same session again.  A message is not tied to a session before the server
\* has looked one up, and the excuse is one: two messages that both found no session.
SentWhereShown ==
  doubled \/ \A t \in turns : t.sid # Nil /\ t.from \notin {Nil, t.sid} => sess[t.from] # "active"

\* What is on screen is in the order of the conversation, whichever of the
\* frames, the poll, the reconnect and the opening brought it, unless the frame of a
\* reply came after a page that starts behind the reply, or the router let a message
\* pass beside another one: frames are appended.
PlaceIn(s, m) == CHOOSE i \in 1..Len(rows[s]) : rows[s][i] = m
ViewInOrder ==
  cur # Nil /\ ~overtaken /\ ~crossed =>
    \A i, j \in 1..Len(view) :
      /\ i < j
      /\ {view[i], view[j]} \subseteq ToSet(rows[cur])
      => PlaceIn(cur, view[i]) < PlaceIn(cur, view[j])

\* A reply stored in the open conversation is on screen in the end, although
\* its frame may be lost with the socket, unless the user leaves, the
\* conversation is longer than a page, or the screen shows a message the
\* conversation does not store: the poll compares lengths only.
Hidden(n) == cur # Nil /\ <<"assistant", n>> \in ToSet(rows[cur]) \ Shown
Uncounted ==
  cur # Nil =>
    \/ Len(rows[cur]) > PageLimit
    \/ \E m \in Shown : IsReal(m) /\ m \notin ToSet(rows[cur])
RepliesShown == \A n \in 1..MaxSends : []<>(~Hidden(n) \/ Uncounted)

\* Without a fault the count of awaited replies returns to zero, so the tab
\* stops polling every two seconds: every send is answered by one frame,
\* whatever the user opens, resets or deletes meanwhile.
PendingSettles == []<>(pending = 0 \/ chatFaults > 0)
=============================================================================
