--------------------------- MODULE McpConnections ---------------------------
(***************************************************************************)
(* One user's connection to one OAuth MCP server: the server's OAuth       *)
(* configuration (discovered once), the OAuth logins, the token that agent *)
(* runs read and refresh, the status of the connection, and the approval   *)
(* overrides of its tools (mcp.service.ts, mcp-token-manager.service.ts,   *)
(* mcp-server.repository.ts).                                              *)
(*                                                                         *)
(* Every operation is a chain of awaited queries and HTTP calls, so each   *)
(* actor has a program counter and the steps of different actors           *)
(* interleave.  The two Redis locks have a TTL and are released with a     *)
(* plain DEL: whoever holds the key then.  The OAuth provider is external: *)
(* it accepts a refresh token while it is live and may rotate it on use,   *)
(* may refuse a live one for reasons of its own, may issue a grant without *)
(* a refresh token, and redeems a code only for the client it was issued   *)
(* to.                                                                     *)
(*                                                                         *)
(* Grants (a refresh token with the access token it came with) and client  *)
(* registrations are numbered in the order the provider issues them.       *)
(***************************************************************************)
EXTENDS Naturals, FiniteSets

CONSTANTS
  Callers,    \* agent runs that ask for an access token
  Logins,     \* OAuth login flows (browser tabs)
  Sorter,     \* the automatic tier sort
  Tools,      \* tools of the connection's catalog
  MaxActors,  \* bound: actors that take part in one behaviour
  MaxConns,   \* bound: connection rows created
  MaxAges,    \* bound: times an access token nears its expiry
  MaxEdits,   \* bound: edits and deletions by the user
  MaxFaults,  \* bound: failed remote calls and expired locks
  None

Connections == [id : Nat, status : {"active", "disabled", "reauth_required"}]
Tokens == [grant : Nat, fresh : BOOLEAN]

ASSUME McpConstants ==
  /\ IsFiniteSet(Callers) /\ IsFiniteSet(Logins) /\ Callers \cap Logins = {}
  /\ Sorter \notin Callers \cup Logins /\ None \notin Callers \cup Logins
  /\ None \notin Connections /\ None \notin Tokens
  /\ {MaxActors, MaxConns, MaxAges, MaxEdits, MaxFaults} \subseteq Nat

VARIABLES
  acting,     \* the actors of this behaviour
  \* the server row and the provider
  client,     \* oauthClientId, 0 while undiscovered
  clients,    \* clients registered at the provider
  live,       \* grants whose refresh token the provider accepts
  bare,       \* grants that came without a refresh token
  grants,     \* grants issued
  \* the connection row, its token and overrides
  conn,       \* [id, status] or None
  conns,      \* ids used
  token,      \* [grant, fresh] or None
  overrides,  \* tool -> "unset" | "ask" | "allow"
  \* Redis
  discoverLock, refreshLock,
  \* actors
  login,      \* login -> [at, client, conn, grant]
  call,       \* caller -> [at, conn, grant, locked]
  sort,       \* [at, conn, seen]
  \* bookkeeping
  human,      \* the overrides the user last set
  ages, edits, faults,
  overrun,    \* a lock expired, or a caller went on without it
  crossed,    \* a login and a refresh overlapped
  refused,    \* the status is due to a live grant the refresh could not use
  outdated,   \* the user chose while a sort was waiting for the model
  halfway     \* a login stored its token and then failed

provider == <<client, clients, live, bare, grants>>
row == <<conn, conns, token>>
locks == <<discoverLock, refreshLock>>
actors == <<login, call, sort>>
counts == <<ages, edits, faults>>
history == <<overrun, crossed, refused, outdated, halfway>>
vars == <<acting, provider, row, overrides, locks, actors, human, counts, history>>

LoginPoints == {"idle", "locating", "polling", "locked", "registered", "authorizing", "exchanged",
                "listing", "done"}
CallPoints == {"idle", "bound", "locking", "waiting", "reading", "asking", "granted", "denied",
               "refused"}
LoginStates == [at : LoginPoints, client : Nat, conn : Nat, grant : Nat]
CallStates == [at : CallPoints, conn : Nat, grant : Nat, locked : BOOLEAN]

Unset == [t \in Tools |-> "unset"]
Choices == {"ask", "allow"}
Tiers == [Tools -> Choices \cup {"unset"}]
Idle == [at |-> "idle", client |-> 0, conn |-> 0, grant |-> 0]
Bound(id) == [at |-> "bound", conn |-> id, grant |-> 0, locked |-> FALSE]
Quiet == [Bound(0) EXCEPT !.at = "idle"]
Unsorted == [at |-> "idle", conn |-> 0, seen |-> Unset]

Fault == faults < MaxFaults /\ faults' = faults + 1 /\ UNCHANGED <<ages, edits>>
Edit == edits < MaxEdits /\ edits' = edits + 1 /\ UNCHANGED <<ages, faults>>

\* The row an actor started with is still there (a new row has a new id).
Owns(id) == conn # None /\ conn.id = id
SetStatus(s) == conn' = [conn EXCEPT !.status = s]

\* releaseLock deletes the key, whoever holds it.
Release(lock, held) == IF held THEN None ELSE lock

\* Actors between reading the token's state and the end of their write.
Refreshing == {c \in Callers : call[c].at \in {"asking", "granted", "denied", "refused"}}
LoggingIn == {l \in Logins : login[l].at \in {"exchanged", "listing"}}

Init ==
  /\ bare = {} /\ refused = FALSE
  /\ acting \in {S \in SUBSET (Callers \cup Logins \cup {Sorter}) : Cardinality(S) = MaxActors}
  /\ clients \in {0, 1} /\ client = clients
  /\ \/ conn = None /\ conns = 0 /\ token = None /\ live = {} /\ grants = 0
     \/ /\ client = 1
        /\ conn = [id |-> 1, status |-> "active"] /\ conns = 1
        /\ token = [grant |-> 1, fresh |-> TRUE] /\ live = {1} /\ grants = 1
  /\ overrides = Unset /\ human = Unset
  /\ discoverLock = None /\ refreshLock = None
  /\ login = [l \in Logins |-> Idle]
  /\ call = [c \in Callers |-> Quiet]
  /\ sort = Unsorted
  /\ ages = 0 /\ edits = 0 /\ faults = 0
  /\ overrun = FALSE /\ crossed = FALSE /\ outdated = FALSE /\ halfway = FALSE

-----------------------------------------------------------------------------
(* startOAuth and ensureDiscovered *)

\* ensureConnection and the single-use state: the authorize URL names the
\* client of the server row read before.
Begin(l, cl) ==
  /\ IF conn = None
     THEN /\ conns < MaxConns
          /\ conns' = conns + 1
          /\ conn' = [id |-> conns + 1, status |-> "reauth_required"]
     ELSE UNCHANGED <<conn, conns>>
  /\ login' = [login EXCEPT ![l] = [at |-> "authorizing", client |-> cl, grant |-> 0,
                                    conn |-> IF conn = None THEN conns + 1 ELSE conn.id]]
  /\ UNCHANGED token

Steps(l, at) == login' = [login EXCEPT ![l].at = at]

StartOAuth(l) ==
  /\ l \in acting /\ login[l].at = "idle"
  /\ IF client = 0 THEN Steps(l, "locating") /\ UNCHANGED row ELSE Begin(l, client)
  /\ UNCHANGED <<acting, provider, overrides, locks, call, sort, human, counts, history>>

LockDiscovery(l) ==
  /\ login[l].at = "locating"
  /\ IF discoverLock = None
     THEN discoverLock' = l /\ Steps(l, "locked")
     ELSE Steps(l, "polling") /\ UNCHANGED discoverLock
  /\ UNCHANGED <<acting, provider, row, overrides, refreshLock, call, sort, human, counts, history>>

\* The loser of the lock polls for the winner's result, five times.
PollDiscovery(l) ==
  /\ login[l].at = "polling"
  /\ IF client # 0 THEN Begin(l, client) ELSE Steps(l, "done") /\ UNCHANGED row
  /\ UNCHANGED <<acting, provider, overrides, locks, call, sort, human, counts, history>>

\* Under the lock: re-read the row, then discover and register a client.
Discover(l) ==
  /\ login[l].at = "locked"
  /\ IF client # 0
     THEN /\ Begin(l, client)
          /\ discoverLock' = Release(discoverLock, TRUE)
          /\ UNCHANGED provider
     ELSE /\ clients' = clients + 1
          /\ login' = [login EXCEPT ![l].at = "registered", ![l].client = clients + 1]
          /\ UNCHANGED <<row, discoverLock, client, live, bare, grants>>
  /\ UNCHANGED <<acting, overrides, refreshLock, call, sort, human, counts, history>>

SaveDiscovery(l) ==
  /\ login[l].at = "registered"
  /\ client' = login[l].client
  /\ discoverLock' = Release(discoverLock, TRUE)
  /\ Begin(l, login[l].client)
  /\ UNCHANGED <<acting, clients, live, bare, grants, overrides, refreshLock, call, sort, human, counts,
                 history>>

DiscoveryFails(l) ==
  /\ login[l].at \in {"locked", "registered"} /\ Fault
  /\ discoverLock' = Release(discoverLock, TRUE)
  /\ Steps(l, "done")
  /\ UNCHANGED <<acting, provider, row, overrides, refreshLock, call, sort, human, history>>

(* handleOAuthCallback *)

\* The user consents, the state is redeemed, the code exchanged, for a grant
\* with or without a refresh token.  The request names the client the row has
\* now.
Callback(l) ==
  /\ login[l].at = "authorizing"
  /\ IF client = login[l].client
     THEN /\ grants' = grants + 1
          /\ \/ live' = live \cup {grants + 1} /\ UNCHANGED bare
             \/ bare' = bare \cup {grants + 1} /\ UNCHANGED live
          /\ login' = [login EXCEPT ![l].at = "exchanged", ![l].grant = grants + 1]
          /\ crossed' = (crossed \/ Refreshing # {})
     ELSE Steps(l, "done") /\ UNCHANGED <<grants, live, bare, crossed>>
  /\ UNCHANGED <<acting, client, clients, row, overrides, locks, call, sort, human, counts,
                 overrun, refused, outdated, halfway>>

StoreLogin(l) ==
  /\ login[l].at = "exchanged"
  /\ IF Owns(login[l].conn)
     THEN token' = [grant |-> login[l].grant, fresh |-> TRUE] /\ Steps(l, "listing")
     ELSE Steps(l, "done") /\ UNCHANGED token
  /\ UNCHANGED <<acting, provider, conn, conns, overrides, locks, call, sort, human, counts,
                 history>>

\* The catalog is fetched with the new token, stored, and the row activated.
Activate(l) ==
  /\ login[l].at = "listing"
  /\ IF Owns(login[l].conn) THEN SetStatus("active") /\ refused' = FALSE ELSE UNCHANGED <<conn, refused>>
  /\ Steps(l, "done")
  /\ UNCHANGED <<acting, provider, conns, token, overrides, locks, call, sort, human, counts,
                 overrun, crossed, outdated, halfway>>

ListingFails(l) ==
  /\ login[l].at = "listing" /\ Fault
  /\ Steps(l, "done") /\ halfway' = TRUE
  /\ UNCHANGED <<acting, provider, row, overrides, locks, call, sort, human, overrun, crossed,
                 refused, outdated>>

-----------------------------------------------------------------------------
(* getAccessToken *)

Becomes(c, at) == call' = [call EXCEPT ![c].at = at]
\* A run keeps the client it got a token for; after an error its next call of a
\* tool asks again.
Connected(c) == call' = [call EXCEPT ![c] = Quiet]
Ends(c) == call' = [call EXCEPT ![c] = Bound(call[c].conn)]

\* A run starts, and the tools of an active connection are registered with it, bound to the row.
Binds(c) ==
  /\ c \in acting /\ call[c].at \in {"idle", "bound"}
  /\ conn # None /\ conn.status = "active"
  /\ call' = [call EXCEPT ![c] = Bound(conn.id)]
  /\ UNCHANGED <<acting, provider, row, overrides, locks, login, sort, human, counts, history>>

\* The run uses a tool, whatever the status is by now.  A fresh token is
\* returned, a missing one is an error, one near its expiry is refreshed.
GetAccessToken(c) ==
  /\ call[c].at = "bound" /\ Owns(call[c].conn)
  /\ token # None /\ ~token.fresh
  /\ call' = [call EXCEPT ![c] = [at |-> "locking", conn |-> conn.id, grant |-> token.grant,
                                  locked |-> FALSE]]
  /\ UNCHANGED <<acting, provider, row, overrides, locks, login, sort, human, counts, history>>

\* Mutant: the refresh does not look whether the key was set.
LockRefresh_NoCheck(c) ==
  /\ call[c].at = "locking"
  /\ refreshLock' = c
  /\ call' = [call EXCEPT ![c].at = "reading", ![c].locked = TRUE]
  /\ UNCHANGED <<acting, provider, row, overrides, discoverLock, login, sort, human, counts, history>>

LockRefresh(c) ==
  /\ call[c].at = "locking"
  /\ IF refreshLock = None
     THEN /\ refreshLock' = c
          /\ call' = [call EXCEPT ![c].at = "reading", ![c].locked = TRUE]
     ELSE Becomes(c, "waiting") /\ UNCHANGED refreshLock
  /\ UNCHANGED <<acting, provider, row, overrides, discoverLock, login, sort, human, counts, history>>

\* After 500 ms the loser reads again, and goes on without the lock if the
\* token is still not fresh.
Waited(c) ==
  /\ call[c].at = "waiting"
  /\ IF Owns(call[c].conn) /\ token # None /\ token.fresh
     THEN Connected(c) /\ UNCHANGED overrun
     ELSE Becomes(c, "reading") /\ overrun' = TRUE
  /\ UNCHANGED <<acting, provider, row, overrides, locks, login, sort, human, counts, crossed,
                 refused, outdated, halfway>>

\* Mutant: no re-read under the lock.
Reread_Skipped(c) ==
  /\ call[c].at = "reading"
  /\ Becomes(c, "asking")
  /\ crossed' = (crossed \/ LoggingIn # {})
  /\ UNCHANGED <<acting, provider, row, overrides, locks, login, sort, human, counts, overrun,
                 refused, outdated, halfway>>

\* The re-read that avoids a double refresh; a row that is gone leaves the
\* token read before.
Reread(c) ==
  /\ call[c].at = "reading"
  /\ IF Owns(call[c].conn) /\ token # None
     THEN IF token.fresh
          THEN Connected(c) /\ refreshLock' = Release(refreshLock, call[c].locked)
          ELSE /\ call' = [call EXCEPT ![c].at = "asking", ![c].grant = token.grant]
               /\ UNCHANGED refreshLock
     ELSE Becomes(c, "asking") /\ UNCHANGED refreshLock
  /\ crossed' = (crossed \/ LoggingIn # {})
  /\ UNCHANGED <<acting, provider, row, overrides, discoverLock, login, sort, human, counts,
                 overrun, refused, outdated, halfway>>

\* The refresh: a live grant is renewed, with or without rotation; a dead one is
\* denied, and so is a grant without a refresh token, or a connection that is
\* gone and its server with it, without asking.
AskProvider(c) ==
  /\ call[c].at = "asking"
  /\ LET g == call[c].grant IN
     \/ /\ g \in live
        /\ grants' = grants + 1 /\ live' = (live \ {g}) \cup {grants + 1}
        /\ call' = [call EXCEPT ![c].at = "granted", ![c].grant = grants + 1]
     \/ g \in live /\ Becomes(c, "granted") /\ UNCHANGED <<live, grants>>
     \/ /\ g \notin live \/ ~Owns(call[c].conn)
        /\ Becomes(c, "denied") /\ UNCHANGED <<live, grants>>
  /\ UNCHANGED <<acting, client, clients, bare, row, overrides, locks, login, sort, human, counts, history>>

\* A live grant that cannot be used: the server's OAuth configuration is missing,
\* or the provider answers 400 or 401 for any reason.
Refused(c) ==
  /\ call[c].at = "asking" /\ call[c].grant \in live /\ Fault
  /\ Becomes(c, "refused")
  /\ UNCHANGED <<acting, provider, row, overrides, locks, login, sort, human, history>>

\* Any other failure leaves the row as it is, also when the provider has already
\* renewed or denied the grant: the answer is lost, or the write fails.
AskFails(c) ==
  /\ call[c].at \in {"asking", "granted", "denied", "refused"} /\ Fault
  /\ Ends(c) /\ refreshLock' = Release(refreshLock, call[c].locked)
  /\ UNCHANGED <<acting, provider, row, overrides, discoverLock, login, sort, human, history>>

\* Mutant: a rotated refresh token is not kept.
StoreRefreshed_OldGrant(c) ==
  /\ call[c].at = "granted"
  /\ token' = IF Owns(call[c].conn) THEN [token EXCEPT !.fresh = TRUE] ELSE token
  /\ Ends(c) /\ refreshLock' = Release(refreshLock, call[c].locked)
  /\ UNCHANGED <<acting, provider, conn, conns, overrides, discoverLock, login, sort, human, counts,
                 history>>

StoreRefreshed(c) ==
  /\ call[c].at = "granted"
  /\ IF Owns(call[c].conn)
     THEN token' = [grant |-> call[c].grant, fresh |-> TRUE]
     ELSE UNCHANGED token
  /\ IF Owns(call[c].conn) THEN Connected(c) ELSE Ends(c)
  /\ refreshLock' = Release(refreshLock, call[c].locked)
  /\ UNCHANGED <<acting, provider, conn, conns, overrides, discoverLock, login, sort, human, counts,
                 history>>

\* markReauth, whatever the row's token is by now.
MarkReauth(c) ==
  /\ call[c].at \in {"denied", "refused"}
  /\ IF Owns(call[c].conn)
     THEN SetStatus("reauth_required") /\ refused' = (refused \/ call[c].at = "refused")
     ELSE UNCHANGED <<conn, refused>>
  /\ Ends(c) /\ refreshLock' = Release(refreshLock, call[c].locked)
  /\ UNCHANGED <<acting, provider, conns, token, overrides, discoverLock, login, sort, human, counts,
                 overrun, crossed, outdated, halfway>>

-----------------------------------------------------------------------------
(* The user, time and faults *)

\* An access token nears its expiry.
Ages ==
  /\ ages < MaxAges /\ ages' = ages + 1
  /\ token # None /\ token.fresh
  /\ token' = [token EXCEPT !.fresh = FALSE]
  /\ UNCHANGED <<acting, provider, conn, conns, overrides, locks, actors, human, edits, faults,
                 history>>

\* A lock's TTL runs out while its holder is still at work.
LockExpires ==
  /\ Fault /\ overrun' = TRUE
  /\ \/ discoverLock # None /\ discoverLock' = None /\ UNCHANGED refreshLock
     \/ refreshLock # None /\ refreshLock' = None /\ UNCHANGED discoverLock
  /\ UNCHANGED <<acting, provider, row, overrides, actors, human, crossed, refused, outdated, halfway>>

\* The user switches the connection on or off, or deletes it with its token
\* and its overrides.
UpdateConnection ==
  /\ conn # None /\ Edit
  /\ \E s \in {"active", "disabled"} : SetStatus(s)
  /\ refused' = FALSE
  /\ UNCHANGED <<acting, provider, conns, token, overrides, locks, actors, human, overrun, crossed,
                 outdated, halfway>>

DeleteConnection ==
  /\ conn # None /\ Edit
  /\ conn' = None /\ token' = None /\ overrides' = Unset /\ human' = Unset /\ refused' = FALSE
  /\ UNCHANGED <<acting, provider, conns, locks, actors, overrun, crossed, outdated, halfway>>

\* The approval column is written as a whole.
SetApprovalOverrides ==
  /\ conn # None /\ Sorter \in acting /\ Edit
  /\ \E o \in Tiers : overrides' = o /\ human' = o
  /\ outdated' = (outdated \/ sort.at = "asking")
  /\ UNCHANGED <<acting, provider, row, locks, actors, overrun, crossed, refused, halfway>>

\* autoSortTiers reads the row, asks the model, and writes a merge with what it
\* read: the standing choices over the model's.
AutoSortReads ==
  /\ Sorter \in acting /\ sort.at = "idle" /\ conn # None
  /\ sort' = [at |-> "asking", conn |-> conn.id, seen |-> overrides]
  /\ UNCHANGED <<acting, provider, row, overrides, locks, login, call, human, counts, history>>

\* Mutant: the model's choices over the standing ones.
Merge_ModelFirst(proposed, standing) ==
  [t \in Tools |-> IF proposed[t] # "unset" THEN proposed[t] ELSE standing[t]]

Merge(proposed, standing) ==
  [t \in Tools |-> IF standing[t] # "unset" THEN standing[t] ELSE proposed[t]]

AutoSortWrites ==
  /\ sort.at = "asking"
  /\ \E proposed \in Tiers :
       overrides' = IF Owns(sort.conn) THEN Merge(proposed, sort.seen) ELSE overrides
  /\ sort' = Unsorted
  /\ UNCHANGED <<acting, provider, row, locks, login, call, human, counts, history>>

-----------------------------------------------------------------------------
Login(l) ==
  \/ StartOAuth(l) \/ LockDiscovery(l) \/ PollDiscovery(l) \/ Discover(l) \/ SaveDiscovery(l)
  \/ DiscoveryFails(l) \/ Callback(l) \/ StoreLogin(l) \/ Activate(l) \/ ListingFails(l)

Caller(c) ==
  \/ Binds(c) \/ GetAccessToken(c) \/ LockRefresh(c) \/ Waited(c) \/ Reread(c) \/ AskProvider(c)
  \/ Refused(c) \/ AskFails(c) \/ StoreRefreshed(c) \/ MarkReauth(c)

Next ==
  \/ \E l \in Logins : Login(l)
  \/ \E c \in Callers : Caller(c)
  \/ Ages \/ LockExpires \/ UpdateConnection \/ DeleteConnection
  \/ SetApprovalOverrides \/ AutoSortReads \/ AutoSortWrites

Spec == Init /\ [][Next]_vars

-----------------------------------------------------------------------------
(* Properties *)

\* Type correctness.
TypeOK ==
  /\ client \in Nat /\ clients \in Nat /\ grants \in Nat /\ live \subseteq Nat
  /\ bare \subseteq Nat
  /\ conn = None \/ conn \in Connections
  /\ conns \in Nat
  /\ token = None \/ token \in Tokens
  /\ overrides \in Tiers /\ human \in Tiers
  /\ login \in [Logins -> LoginStates] /\ call \in [Callers -> CallStates]
  /\ sort \in [at : {"idle", "asking"}, conn : Nat, seen : Tiers]
  /\ faults \in Nat

\* Two runs never refresh the same token at once, unless the lock's TTL ran out
\* under a slow refresh or a waiting run went on without the lock after its
\* half second.
OneRefresh == Cardinality(Refreshing) > 1 => overrun

\* A connection asks for a new sign-in (markReauth) only when its stored grant is
\* dead or came without a refresh token, or because the last request for one
\* was due to a live grant the refresh could not use: a server without its
\* OAuth configuration, or a provider that answers 400 or 401 all the same
\* (refused, until the status is set again).  The other ways round that, each
\* named by a history variable: two refreshes at once, a refresh that crosses a
\* login, a login whose catalog could not be listed, and a login that has yet
\* to activate the row it stored its token in.
ReauthJustified ==
  conn # None /\ conn.status = "reauth_required" /\ token # None /\ token.grant \in live
    => refused \/ overrun \/ crossed \/ halfway \/ \E l \in Logins : login[l].at = "listing"

\* The stored grant is one the provider still accepts, or came without a refresh
\* token, whenever no refresh is between the provider's rotation and the write
\* of the new grant, and none was lost there.  A login that crosses a refresh
\* does no harm to the grant.
StoredGrantLives ==
  token # None /\ token.grant \notin live \cup bare
    => overrun \/ faults > 0 \/ \E c \in Callers : call[c].at = "granted"

\* A standing choice of the user survives the automatic sort, unless it was
\* made while the sort was waiting for the model.
HumanChoiceStands ==
  \A t \in Tools : human[t] # "unset" => overrides[t] = human[t] \/ outdated
=============================================================================
