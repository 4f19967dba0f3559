------------------------ MODULE McpConnectionsProofs ------------------------
(***************************************************************************)
(* The connection for any number of runs, logins, tools and faults: one    *)
(* refresh at a time, a stored grant that lives, a request to sign in      *)
(* again that is justified, and standing choices that stand.               *)
(***************************************************************************)
EXTENDS McpConnections, FiniteSetTheorems, TLAPS

-----------------------------------------------------------------------------
(* Type correctness *)

LEMMA FreshToken == \A g \in Nat : [grant |-> g, fresh |-> TRUE] \in Tokens
  BY Zenon DEF Tokens

LEMMA TypeInit == Init => TypeOK
  <1> SUFFICES ASSUME Init PROVE TypeOK
    OBVIOUS
  <1>1. login \in [Logins -> LoginStates] /\ call \in [Callers -> CallStates]
    BY DEF Init, Idle, Quiet, Bound, LoginStates, CallStates, LoginPoints, CallPoints
  <1>2. Unset \in Tiers
    BY DEF Unset, Tiers
  <1>3. sort \in [at : {"idle", "asking"}, conn : Nat, seen : Tiers]
    BY <1>2 DEF Init, Unsorted
  <1>4. conn = None \/ conn \in Connections
    <2>1. conn = None \/ conn = [id |-> 1, status |-> "active"]
      BY DEF Init
    <2> QED BY <2>1 DEF Connections
  <1>5. token = None \/ token \in Tokens
    <2>1. token = None \/ token = [grant |-> 1, fresh |-> TRUE]
      BY DEF Init
    <2> QED BY <2>1, FreshToken
  <1> QED BY <1>1, <1>2, <1>3, <1>4, <1>5 DEF Init, TypeOK

LEMMA StepsType ==
    ASSUME TypeOK, NEW l \in Logins, NEW at \in LoginPoints, Steps(l, at)
    PROVE  login' \in [Logins -> LoginStates]
  BY DEF TypeOK, Steps, LoginStates

LEMMA StatusType ==
    ASSUME TypeOK, NEW s \in {"active", "disabled", "reauth_required"}, conn # None, SetStatus(s)
    PROVE  conn' \in Connections
  BY DEF Connections, TypeOK, SetStatus

LEMMA BeginType ==
    ASSUME TypeOK, NEW l \in Logins, NEW cl \in Nat, Begin(l, cl)
    PROVE  /\ conns' \in Nat /\ token' = token
           /\ conn' = None \/ conn' \in Connections
           /\ login' \in [Logins -> LoginStates]
  <1>1. (IF conn = None THEN conns + 1 ELSE conn.id) \in Nat
    BY DEF Connections, TypeOK
  <1>2. login' \in [Logins -> LoginStates]
    BY <1>1 DEF TypeOK, Begin, LoginStates, LoginPoints
  <1> QED BY <1>2 DEF Connections, TypeOK, Begin

LEMMA LoginType ==
    ASSUME TypeOK, NEW l \in Logins, Login(l)
    PROVE  TypeOK'
  <1>0. LoginPoints = {"idle", "locating", "polling", "locked", "registered", "authorizing", "exchanged",
                       "listing", "done"}
    BY DEF LoginPoints
  \* A step of a login changes no overrides and no caller, and the rest as follows
  <1>1. ASSUME /\ conns' \in Nat /\ client' \in Nat /\ clients' \in Nat /\ grants' \in Nat /\ live' \subseteq Nat
               /\ bare' \subseteq Nat
               /\ conn' = None \/ conn' \in Connections
               /\ token' = None \/ token' \in Tokens
               /\ login' \in [Logins -> LoginStates]
               /\ faults' \in Nat
        PROVE  TypeOK'
    <2>1. UNCHANGED <<overrides, human, call, sort>>
      BY DEF Login, StartOAuth, LockDiscovery, PollDiscovery, Discover, SaveDiscovery, DiscoveryFails,
             Callback, StoreLogin, Activate, ListingFails
    <2> QED BY <1>1, <2>1 DEF TypeOK
  <1>2. ASSUME NEW at \in LoginPoints, Steps(l, at), UNCHANGED <<provider, row>>, faults' \in Nat
        PROVE  TypeOK'
    BY <1>1, <1>2, StepsType DEF TypeOK, provider, row
  <1>3. ASSUME NEW cl \in Nat, Begin(l, cl), client' \in Nat, UNCHANGED <<clients, live, bare, grants, faults>>
        PROVE  TypeOK'
    BY <1>1, <1>3, BeginType DEF TypeOK
  <1>4. CASE StartOAuth(l) \/ PollDiscovery(l)
    BY <1>0, <1>2, <1>3, <1>4 DEF StartOAuth, PollDiscovery, provider, counts, TypeOK
  <1>5. CASE LockDiscovery(l)
    BY <1>0, <1>2, <1>5 DEF LockDiscovery, counts, TypeOK
  <1>6. CASE Discover(l)
    <2>1. CASE client # 0
      BY <1>3, <1>6, <2>1 DEF Discover, provider, counts, TypeOK
    <2>2. CASE client = 0
      <3>1. login' = [login EXCEPT ![l].at = "registered", ![l].client = clients + 1] /\ clients + 1 \in Nat
        BY <1>6, <2>2 DEF Discover, TypeOK
      <3>2. login' \in [Logins -> LoginStates]
        BY <1>0, <3>1, ZenonT(30) DEF TypeOK, LoginStates
      <3> QED BY <1>1, <1>6, <2>2, <3>1, <3>2 DEF Discover, row, counts, TypeOK
    <2> QED BY <2>1, <2>2
  <1>7. CASE SaveDiscovery(l)
    <2>1. login[l].client \in Nat
      BY DEF TypeOK, LoginStates
    <2> QED BY <1>3, <1>7, <2>1 DEF SaveDiscovery, counts, TypeOK
  <1>8. CASE DiscoveryFails(l) \/ ListingFails(l)
    <2>1. faults' \in Nat
      <3>1. faults \in Nat /\ faults' = faults + 1
        BY <1>8 DEF DiscoveryFails, ListingFails, Fault, TypeOK
      <3> QED BY <3>1
    <2>2. UNCHANGED <<provider, row>> /\ Steps(l, "done")
      BY <1>8 DEF DiscoveryFails, ListingFails
    <2> QED BY <1>0, <1>2, <2>1, <2>2
  <1>9. CASE Callback(l)
    <2>1. CASE client = login[l].client
      <3>1. login' = [login EXCEPT ![l].at = "exchanged", ![l].grant = grants + 1] /\ grants + 1 \in Nat
        BY <1>9, <2>1 DEF Callback, TypeOK
      <3>2. login' \in [Logins -> LoginStates]
        BY <1>0, <3>1, ZenonT(30) DEF TypeOK, LoginStates
      <3> QED BY <1>1, <1>9, <2>1, <3>1, <3>2 DEF Callback, row, counts, TypeOK
    <2>2. CASE client # login[l].client
      BY <1>0, <1>2, <1>9, <2>2 DEF Callback, provider, counts, TypeOK
    <2> QED BY <2>1, <2>2
  <1>10. CASE StoreLogin(l)
    <2>1. token' = token \/ token' \in Tokens
      <3>1. login[l].grant \in Nat
        BY DEF TypeOK, LoginStates
      <3>2. token' = token \/ token' = [grant |-> login[l].grant, fresh |-> TRUE]
        BY <1>10 DEF StoreLogin
      <3> QED BY <3>1, <3>2, FreshToken DEF TypeOK
    <2>2. login' \in [Logins -> LoginStates]
      BY <1>0, <1>10, StepsType DEF StoreLogin
    <2> QED BY <1>1, <1>10, <2>1, <2>2 DEF StoreLogin, provider, counts, TypeOK
  <1>11. CASE Activate(l)
    <2>1. conn' = conn \/ conn' \in Connections
      BY <1>11, StatusType DEF Activate, Owns
    <2>2. login' \in [Logins -> LoginStates]
      BY <1>0, <1>11, StepsType DEF Activate
    <2> QED BY <1>1, <1>11, <2>1, <2>2 DEF Activate, provider, counts, TypeOK
  <1> QED BY <1>4, <1>5, <1>6, <1>7, <1>8, <1>9, <1>10, <1>11 DEF Login

LEMMA CallerType ==
    ASSUME TypeOK, NEW c \in Callers, Caller(c)
    PROVE  TypeOK'
  <1>0. CallPoints = {"idle", "bound", "locking", "waiting", "reading", "asking", "granted", "denied",
                      "refused"}
    BY DEF CallPoints
  <1>1. call[c] \in CallStates
    BY DEF TypeOK
  <1>2. \/ call' = call
        \/ Ends(c) \/ Connected(c)
        \/ \E at \in CallPoints : Becomes(c, at)
        \/ \E at \in CallPoints, id \in Nat, g \in Nat, b \in BOOLEAN :
             call' = [call EXCEPT ![c] = [at |-> at, conn |-> id, grant |-> g, locked |-> b]]
        \/ \E at \in CallPoints : call' = [call EXCEPT ![c].at = at, ![c].locked = TRUE]
        \/ \E at \in CallPoints, g \in Nat : call' = [call EXCEPT ![c].at = at, ![c].grant = g]
    <2>0. CASE Binds(c)
      <3>1. conn.id \in Nat
        BY <2>0 DEF Binds, Connections, TypeOK
      <3> QED BY <1>0, <2>0, <3>1 DEF Binds, Bound
    <2>1. CASE GetAccessToken(c)
      BY <1>0, <2>1 DEF GetAccessToken, Owns, Connections, Tokens, TypeOK
    <2>2. CASE LockRefresh(c)
      BY <1>0, <2>2 DEF LockRefresh
    <2>3. CASE Waited(c)
      BY <1>0, <2>3 DEF Waited
    <2>4. CASE Reread(c)
      BY <1>0, <2>4 DEF Reread, Connections, Tokens, TypeOK
    <2>5. CASE AskProvider(c)
      <3>1. grants + 1 \in Nat
        BY DEF TypeOK
      <3> QED BY <1>0, <2>5, <3>1 DEF AskProvider
    <2>6. CASE Refused(c) \/ AskFails(c) \/ StoreRefreshed(c) \/ MarkReauth(c)
      BY <1>0, <2>6 DEF Refused, AskFails, StoreRefreshed, MarkReauth
    <2> QED BY <2>0, <2>1, <2>2, <2>3, <2>4, <2>5, <2>6 DEF Caller
  <1>3. call' \in [Callers -> CallStates]
    <2>1. CASE Ends(c) \/ Connected(c)
      <3>1. Quiet \in CallStates /\ \A id \in Nat : Bound(id) \in CallStates
        BY <1>0 DEF Quiet, Bound, CallStates
      <3>2. call[c].conn \in Nat
        BY <1>1 DEF CallStates
      <3> QED BY <2>1, <3>1, <3>2 DEF Ends, Connected, TypeOK
    <2>2. ASSUME NEW at \in CallPoints, Becomes(c, at) PROVE call' \in [Callers -> CallStates]
      BY <2>2 DEF Becomes, TypeOK, CallStates
    <2>3. ASSUME NEW at \in CallPoints, NEW id \in Nat, NEW g \in Nat, NEW b \in BOOLEAN,
                 call' = [call EXCEPT ![c] = [at |-> at, conn |-> id, grant |-> g, locked |-> b]]
          PROVE  call' \in [Callers -> CallStates]
      BY <2>3 DEF TypeOK, CallStates
    <2>4. ASSUME NEW at \in CallPoints, call' = [call EXCEPT ![c].at = at, ![c].locked = TRUE]
          PROVE  call' \in [Callers -> CallStates]
      BY <2>4 DEF TypeOK, CallStates
    <2>5. ASSUME NEW at \in CallPoints, NEW g \in Nat, call' = [call EXCEPT ![c].at = at, ![c].grant = g]
          PROVE  call' \in [Callers -> CallStates]
      BY <2>5 DEF TypeOK, CallStates
    <2> QED BY <1>2, <2>1, <2>2, <2>3, <2>4, <2>5 DEF TypeOK
  <1>4. token' = token \/ token' \in Tokens
    <2>1. call[c].grant \in Nat
      BY <1>1 DEF CallStates
    <2>2. token' = token \/ token' = [grant |-> call[c].grant, fresh |-> TRUE]
      BY DEF Caller, Binds, GetAccessToken, LockRefresh, Waited, Reread, AskProvider, Refused, AskFails,
         StoreRefreshed,
             MarkReauth, row
    <2> QED BY <2>1, <2>2, FreshToken
  <1>5. conn' = conn \/ conn' \in Connections
    <2>1. CASE MarkReauth(c)
      BY <2>1, StatusType DEF MarkReauth, Owns
    <2>2. CASE ~MarkReauth(c)
      BY <2>2 DEF Caller, Binds, GetAccessToken, LockRefresh, Waited, Reread, AskProvider, Refused, AskFails,
         StoreRefreshed, row
    <2> QED BY <2>1, <2>2
  <1>6. /\ client' = client /\ clients' = clients /\ conns' = conns /\ grants' \in Nat /\ live' \subseteq Nat /\ bare' = bare
        /\ UNCHANGED <<overrides, human, login, sort>> /\ faults' \in Nat
    BY DEF Caller, Binds, GetAccessToken, LockRefresh, Waited, Reread, AskProvider, Refused, AskFails, StoreRefreshed,
           MarkReauth, row, provider, counts, Fault, TypeOK
  <1> QED BY <1>3, <1>4, <1>5, <1>6 DEF TypeOK

\* The steps of the user, the sort and time
Rest ==
  \/ Ages \/ LockExpires \/ UpdateConnection \/ DeleteConnection
  \/ SetApprovalOverrides \/ AutoSortReads \/ AutoSortWrites \/ UNCHANGED vars

LEMMA RestType ==
    ASSUME TypeOK, Rest
    PROVE  TypeOK'
  <1> USE DEF TypeOK, row, provider, history, counts, locks, actors
  <1>1. CASE Ages
    <2>1. token' \in Tokens
      BY <1>1 DEF Ages, Tokens
    <2> QED BY <1>1, <2>1 DEF Ages
  <1>6. CASE LockExpires
    BY <1>6 DEF LockExpires, Fault
  <1>2. CASE UpdateConnection \/ DeleteConnection
    BY <1>2 DEF Connections, UpdateConnection, DeleteConnection, SetStatus, Edit, Unset, Tiers
  <1>3. CASE SetApprovalOverrides
    BY <1>3 DEF SetApprovalOverrides, Edit
  <1>7. CASE AutoSortReads
    <2>1. sort' \in [at : {"idle", "asking"}, conn : Nat, seen : Tiers]
      BY <1>7 DEF Connections, AutoSortReads
    <2> QED BY <1>7, <2>1 DEF AutoSortReads
  <1>4. CASE AutoSortWrites
    <2>1. \A o \in Tiers : Merge(o, sort.seen) \in Tiers
      BY DEF Merge, Tiers
    <2>2. overrides' \in Tiers
      BY <1>4, <2>1 DEF AutoSortWrites
    <2>3. sort' \in [at : {"idle", "asking"}, conn : Nat, seen : Tiers]
      BY <1>4 DEF AutoSortWrites, Unsorted, Unset, Tiers
    <2> QED BY <1>4, <2>2, <2>3 DEF AutoSortWrites
  <1>5. CASE UNCHANGED vars
    BY <1>5 DEF vars
  <1> QED BY <1>1, <1>2, <1>3, <1>4, <1>5, <1>6, <1>7 DEF Rest

LEMMA TypeNext == TypeOK /\ [Next]_vars => TypeOK'
  BY LoginType, CallerType, RestType DEF Next, Rest

-----------------------------------------------------------------------------
(* One refresh at a time *)

\* Between taking the refresh lock and the end of the write
Locked(c) == call[c].at \in {"reading", "asking", "granted", "denied", "refused"}

LockHeld == overrun \/ \A c \in Callers : Locked(c) => refreshLock = c

LEMMA LockInit == Init => LockHeld
  BY DEF Init, LockHeld, Locked, Quiet, Bound

LEMMA LockNext ==
    ASSUME TypeOK, LockHeld, [Next]_vars
    PROVE  LockHeld'
  <1> USE DEF LockHeld, Locked, TypeOK, CallPoints
  <1>1. ASSUME NEW l \in Logins, Login(l) PROVE LockHeld'
    <2>1. UNCHANGED <<call, refreshLock, overrun>>
      BY <1>1 DEF Login, StartOAuth, LockDiscovery, PollDiscovery, Discover, SaveDiscovery, DiscoveryFails,
                  Callback, StoreLogin, Activate, ListingFails, locks, history
    <2> QED BY <2>1
  <1>2. ASSUME NEW c \in Callers, Caller(c) PROVE LockHeld'
    <2> USE DEF Becomes, Ends, Connected, Quiet, Bound, Release, locks, history
    <2>1. CASE Binds(c) \/ GetAccessToken(c)
      BY <2>1 DEF Binds, GetAccessToken
    <2>2. CASE LockRefresh(c)
      <3>1. \A d \in Callers \ {c} : call'[d] = call[d]
        BY <2>2 DEF LockRefresh
      <3>2. CASE refreshLock = None
        <4>1. overrun \/ \A d \in Callers : ~Locked(d)
          BY <3>2, McpConstants
        <4> QED BY <2>2, <3>1, <3>2, <4>1 DEF LockRefresh
      <3>3. CASE refreshLock # None
        <4>1. call'[c].at = "waiting" /\ UNCHANGED <<refreshLock, overrun>>
          BY <2>2, <3>3 DEF LockRefresh, CallStates
        <4> QED BY <3>1, <4>1
      <3> QED BY <3>2, <3>3
    <2>3. CASE Waited(c)
      BY <2>3 DEF Waited
    <2>4. CASE Reread(c)
      <3>1. call'[c].at \in {"idle", "asking"} /\ \A d \in Callers \ {c} : call'[d] = call[d]
        <4>1. \/ call' = [call EXCEPT ![c] = Quiet]
              \/ call' = [call EXCEPT ![c].at = "asking", ![c].grant = token.grant]
              \/ call' = [call EXCEPT ![c].at = "asking"]
          BY <2>4 DEF Reread
        <4> QED BY <4>1 DEF CallStates
      <3>2. Locked(c) /\ (refreshLock' = refreshLock \/ ~Locked(c)') /\ overrun' = overrun
        BY <2>4, <3>1 DEF Reread
      <3>3. refreshLock' = refreshLock \/ refreshLock' = None
        BY <2>4 DEF Reread
      <3> QED BY <3>1, <3>2, <3>3
    <2>5. CASE AskProvider(c)
      BY <2>5 DEF AskProvider
    <2>6. CASE Refused(c) \/ AskFails(c) \/ StoreRefreshed(c) \/ MarkReauth(c)
      BY <2>6 DEF Refused, AskFails, StoreRefreshed, MarkReauth
    <2> QED BY <1>2, <2>1, <2>2, <2>3, <2>4, <2>5, <2>6 DEF Caller
  <1>3. CASE Rest
    <2>1. \/ overrun'
          \/ UNCHANGED <<call, refreshLock, overrun>>
      BY <1>3 DEF Rest, Ages, LockExpires, UpdateConnection, DeleteConnection, SetApprovalOverrides,
                  AutoSortReads, AutoSortWrites, locks, actors, history, vars
    <2> QED BY <2>1
  <1> QED BY <1>1, <1>2, <1>3 DEF Next, Rest

LEMMA LockHolds == Spec => [](TypeOK /\ LockHeld)
  BY TypeInit, TypeNext, LockInit, LockNext, PTL DEF Spec

\* For any number of runs: two of them refresh the token at once only after a
\* lock expired under its holder or a run went on without it (getAccessToken).
THEOREM OneRefreshAtATime == Spec => []OneRefresh
  <1>1. ASSUME LockHeld PROVE OneRefresh
    <2> SUFFICES ASSUME ~overrun PROVE ~(Cardinality(Refreshing) > 1)
      BY DEF OneRefresh
    <2>1. Refreshing \subseteq {refreshLock}
      BY <1>1 DEF LockHeld, Locked, Refreshing
    <2>2. CASE Refreshing = {}
      BY <2>2, FS_EmptySet
    <2>3. CASE Refreshing = {refreshLock}
      <3>1. Cardinality({refreshLock}) = 1
        BY FS_Singleton
      <3> QED BY <2>3, <3>1
    <2> QED BY <2>1, <2>2, <2>3
  <1> QED BY <1>1, LockHolds, PTL

-----------------------------------------------------------------------------
(* Standing choices *)

\* A sort that is waiting for the model has read the choices as the user last
\* set them; when the user has set them since, the behaviour is excused.
ChoicesStand ==
  outdated \/ \A t \in Tools : human[t] # "unset" =>
    overrides[t] = human[t] /\ (sort.at = "asking" => sort.seen[t] = human[t])

LEMMA ChoicesInit == Init => ChoicesStand
  BY DEF Init, ChoicesStand, Unset

LEMMA ChoicesNext ==
    ASSUME TypeOK, ChoicesStand, [Next]_vars
    PROVE  ChoicesStand'
  <1>1. CASE UNCHANGED <<overrides, human, sort, outdated>>
    BY <1>1 DEF ChoicesStand
  <1>2. ASSUME NEW l \in Logins, Login(l) PROVE UNCHANGED <<overrides, human, sort, outdated>>
    BY <1>2 DEF Login, StartOAuth, LockDiscovery, PollDiscovery, Discover, SaveDiscovery, DiscoveryFails,
                Callback, StoreLogin, Activate, ListingFails, history
  <1>3. ASSUME NEW c \in Callers, Caller(c) PROVE UNCHANGED <<overrides, human, sort, outdated>>
    BY <1>3 DEF Caller, Binds, GetAccessToken, LockRefresh, Waited, Reread, AskProvider, Refused, AskFails,
       StoreRefreshed,
                MarkReauth, history
  <1>4. CASE Ages \/ LockExpires \/ UpdateConnection \/ UNCHANGED vars
    BY <1>1, <1>4 DEF Ages, LockExpires, UpdateConnection, vars, actors, history
  <1>5. CASE DeleteConnection
    <2>1. \A t \in Tools : human'[t] = "unset"
      BY <1>5 DEF DeleteConnection, Unset
    <2> QED BY <2>1 DEF ChoicesStand
  <1>6. CASE SetApprovalOverrides
    <2>1. overrides' = human' /\ sort' = sort /\ (sort.at = "asking" => outdated')
      BY <1>6 DEF SetApprovalOverrides, actors
    <2> QED BY <2>1 DEF ChoicesStand
  <1>7. CASE AutoSortReads
    <2>1. sort'.seen = overrides /\ UNCHANGED <<overrides, human, outdated>>
      BY <1>7 DEF AutoSortReads, history
    <2> QED BY <2>1 DEF ChoicesStand
  <1>8. CASE AutoSortWrites
    <2>1. sort.at = "asking" /\ sort'.at = "idle" /\ UNCHANGED <<human, outdated>>
      BY <1>8 DEF AutoSortWrites, Unsorted, history
    <2>2. ASSUME NEW t \in Tools, sort.seen[t] # "unset"
          PROVE  overrides'[t] = sort.seen[t] \/ overrides' = overrides
      BY <1>8, <2>2 DEF AutoSortWrites, Merge
    <2> QED BY <2>1, <2>2 DEF ChoicesStand
  <1> QED BY <1>1, <1>2, <1>3, <1>4, <1>5, <1>6, <1>7, <1>8 DEF Next

\* For any number of tools and edits: what the user chose for a tool survives
\* the automatic sort (autoSortTiers), unless it was chosen while the sort was
\* waiting for the model.
THEOREM ChoicesSurvive == Spec => []HumanChoiceStands
  <1>1. ChoicesStand => HumanChoiceStands
    BY DEF ChoicesStand, HumanChoiceStands
  <1> QED BY <1>1, TypeInit, TypeNext, ChoicesInit, ChoicesNext, PTL DEF Spec

-----------------------------------------------------------------------------
(* Grants *)

Busy(c) == call[c].at \notin {"idle", "bound"}
Exchanged(l) == login[l].at = "exchanged"

\* Row ids and grants in use have been handed out
Ranges ==
  /\ conn = None => token = None
  /\ conn # None => conn.id <= conns
  /\ token # None => token.grant <= grants
  /\ \A c \in Callers : Busy(c) => call[c].grant <= grants /\ call[c].conn <= conns
  /\ \A l \in Logins : Exchanged(l) => login[l].grant <= grants

\* A caller whose row still exists finds a token in it; one that holds the
\* row's grant owns the row; callers with one grant have one row
Owned ==
  \A c \in Callers : Busy(c) =>
    /\ Owns(call[c].conn) => token # None
    /\ token # None /\ token.grant = call[c].grant => Owns(call[c].conn)
    /\ \A d \in Callers : Busy(d) /\ call[d].grant = call[c].grant => call[d].conn = call[c].conn

\* The grant of a login that has yet to store it is live, or has no refresh
\* token, and is nobody else's
Pending ==
  \A l \in Logins : Exchanged(l) =>
    /\ login[l].grant \in live \cup bare
    /\ token # None => token.grant # login[l].grant
    /\ \A c \in Callers : Busy(c) => call[c].grant # login[l].grant
    /\ \A k \in Logins \ {l} : Exchanged(k) => login[k].grant # login[l].grant

GrantInv == Ranges /\ Owned /\ Pending

LEMMA GrantInit == Init => GrantInv
  <1> SUFFICES ASSUME Init PROVE GrantInv
    OBVIOUS
  <1>1. (\A c \in Callers : ~Busy(c)) /\ (\A l \in Logins : ~Exchanged(l))
    BY DEF Init, Busy, Exchanged, Idle, Quiet, Bound
  <1>2. CASE conn = None /\ token = None
    BY <1>1, <1>2 DEF GrantInv, Ranges, Owned, Pending
  <1>3. CASE conn = [id |-> 1, status |-> "active"] /\ conns = 1 /\ token = [grant |-> 1, fresh |-> TRUE] /\ grants = 1
    <2>1. conn # None
      BY <1>3, McpConstants DEF Connections
    <2>2. conn.id = 1 /\ token.grant = 1
      BY <1>3
    <2> QED BY <1>1, <1>3, <2>1, <2>2 DEF GrantInv, Ranges, Owned, Pending
  <1> QED BY <1>2, <1>3 DEF Init

\* The kinds of steps a caller makes, each on its own caller state
LEMMA CallerKinds ==
    ASSUME TypeOK, NEW c \in Callers, Caller(c)
    PROVE  /\ \A d \in Callers \ {c} : call'[d] = call[d]
           /\ call'[c] \in CallStates
           /\ UNCHANGED <<login, conns>>
           /\ conn' = conn \/ (conn # None /\ conn' # None /\ conn'.id = conn.id)
  <1>1. call' \in [Callers -> CallStates]
    BY CallerType DEF TypeOK
  <1>2. \A d \in Callers \ {c} : call'[d] = call[d]
    BY DEF TypeOK, Caller, Binds, GetAccessToken, LockRefresh, Waited, Reread, AskProvider, Refused, AskFails,
       StoreRefreshed,
           MarkReauth, Becomes, Ends, Connected
  <1>3. UNCHANGED <<login, conns>>
    BY DEF Caller, Binds, GetAccessToken, LockRefresh, Waited, Reread, AskProvider, Refused, AskFails, StoreRefreshed,
           MarkReauth, row
  <1>4. conn' = conn \/ (conn # None /\ conn' # None /\ conn'.id = conn.id)
    <2>1. CASE MarkReauth(c)
      <3>1. conn' = conn \/ (conn # None /\ SetStatus("reauth_required"))
        BY <2>1 DEF MarkReauth, Owns
      <3>2. SetStatus("reauth_required") /\ conn # None => conn' \in Connections /\ conn'.id = conn.id
        BY StatusType DEF SetStatus, TypeOK, Connections
      <3> QED BY <3>1, <3>2, McpConstants
    <2>2. CASE ~MarkReauth(c)
      BY <2>2 DEF Caller, Binds, GetAccessToken, LockRefresh, Waited, Reread, AskProvider, Refused, AskFails,
         StoreRefreshed, row
    <2> QED BY <2>1, <2>2
  <1> QED BY <1>1, <1>2, <1>3, <1>4

LEMMA GrantCaller ==
    ASSUME TypeOK, GrantInv, NEW c \in Callers, Caller(c)
    PROVE  GrantInv'
  <1> USE DEF Busy, Exchanged, Owns
  <1>0. /\ \A d \in Callers \ {c} : call'[d] = call[d]
        /\ call'[c] \in CallStates
        /\ UNCHANGED <<login, conns>>
        /\ conn' = conn \/ (conn # None /\ conn' # None /\ conn'.id = conn.id)
    BY CallerKinds
  <1>1. call[c] \in CallStates /\ grants \in Nat /\ conns \in Nat
    BY DEF TypeOK
  \* The caller goes on with the grant and the row it has, or is done
  <1>2. ASSUME /\ Busy(c) /\ (Busy(c)' => call'[c].grant = call[c].grant /\ call'[c].conn = call[c].conn)
               /\ UNCHANGED <<token, grants, live, bare>>
        PROVE  GrantInv'
    <2>1. Ranges'
      BY <1>0, <1>2 DEF GrantInv, Ranges
    <2>2. Owned'
      BY <1>0, <1>2 DEF GrantInv, Owned
    <2>3. Pending'
      BY <1>0, <1>2 DEF GrantInv, Pending
    <2> QED BY <2>1, <2>2, <2>3 DEF GrantInv
  \* It takes the grant and the row that are stored
  <1>3. ASSUME /\ token # None /\ conn # None /\ UNCHANGED <<conn, token, grants, live, bare>>
               /\ call'[c].grant = token.grant /\ call'[c].conn = conn.id
        PROVE  GrantInv'
    <2>1. Ranges'
      BY <1>0, <1>3 DEF GrantInv, Ranges
    <2>2. Owned'
      BY <1>0, <1>3 DEF GrantInv, Owned
    <2>3. Pending'
      BY <1>0, <1>3 DEF GrantInv, Pending
    <2> QED BY <2>1, <2>2, <2>3 DEF GrantInv
  <1>9. CASE Binds(c)
    <2>1. ~Busy(c)' /\ UNCHANGED <<conn, token, grants, live, bare>>
      BY <1>9 DEF Binds, Bound, row, provider, TypeOK
    <2>2. Ranges' /\ Owned' /\ Pending'
      <3>1. Ranges'
        BY <1>0, <2>1 DEF GrantInv, Ranges
      <3>2. Owned'
        BY <1>0, <2>1 DEF GrantInv, Owned
      <3>3. Pending'
        BY <1>0, <2>1 DEF GrantInv, Pending
      <3> QED BY <3>1, <3>2, <3>3
    <2> QED BY <2>2 DEF GrantInv
  <1>4. CASE GetAccessToken(c)
    <2>1. /\ conn # None /\ token # None /\ UNCHANGED <<conn, token, grants, live, bare>>
          /\ call'[c] = [at |-> "locking", conn |-> conn.id, grant |-> token.grant, locked |-> FALSE]
      BY <1>4 DEF GetAccessToken, TypeOK, row, provider
    <2> QED BY <1>3, <2>1
  <1>5. CASE LockRefresh(c) \/ Waited(c) \/ Refused(c) \/ AskFails(c) \/ MarkReauth(c)
    <2>1. Busy(c) /\ UNCHANGED <<token, grants, live, bare>>
      BY <1>5 DEF LockRefresh, Waited, Refused, AskFails, MarkReauth, row, provider
    <2>2. Busy(c)' => call'[c].grant = call[c].grant /\ call'[c].conn = call[c].conn
      BY <1>1, <1>5 DEF LockRefresh, Waited, Refused, AskFails, MarkReauth, Becomes, Ends, Connected, Quiet,
         Bound, TypeOK, CallStates
    <2> QED BY <1>2, <2>1, <2>2
  <1>6. CASE Reread(c)
    <2>1. Busy(c) /\ UNCHANGED <<conn, token, grants, live, bare>>
      BY <1>6 DEF Reread, row, provider
    <2>2. CASE call' = [call EXCEPT ![c] = Quiet] \/ call' = [call EXCEPT ![c].at = "asking"]
      <3>1. Busy(c)' => call'[c].grant = call[c].grant /\ call'[c].conn = call[c].conn
        BY <1>1, <2>2 DEF Quiet, Bound, TypeOK, CallStates
      <3> QED BY <1>2, <2>1, <3>1
    <2>3. CASE /\ conn # None /\ conn.id = call[c].conn /\ token # None
               /\ call' = [call EXCEPT ![c].at = "asking", ![c].grant = token.grant]
      <3>1. call'[c].grant = token.grant /\ call'[c].conn = conn.id
        BY <1>1, <2>3 DEF TypeOK, CallStates
      <3> QED BY <1>3, <2>1, <2>3, <3>1
    <2> QED BY <1>6, <2>2, <2>3 DEF Reread, Ends, Connected, Becomes
  <1>7. CASE AskProvider(c)
    <2>1. CASE /\ grants' = grants + 1 /\ live' = (live \ {call[c].grant}) \cup {grants + 1}
               /\ call' = [call EXCEPT ![c].at = "granted", ![c].grant = grants + 1]
      <3>1. call[c].at = "asking" /\ UNCHANGED <<conn, token>>
        BY <1>7 DEF AskProvider, row
      <3>2. call'[c].grant = grants + 1 /\ call'[c].conn = call[c].conn
        BY <1>1, <2>1 DEF TypeOK, CallStates
      <3>3. /\ token # None => token.grant \in Nat
            /\ \A d \in Callers : call[d].grant \in Nat /\ call[d].conn \in Nat
            /\ \A l \in Logins : login[l].grant \in Nat
        BY DEF TypeOK, Tokens, CallStates, LoginStates
      <3>4. Ranges'
        <4>1. grants <= grants' /\ grants' = grants + 1
          BY <1>1, <2>1
        <4> QED BY <1>0, <1>1, <3>1, <3>2, <3>3, <4>1 DEF GrantInv, Ranges
      <3>5. Owned'
        BY <1>0, <1>1, <3>1, <3>2, <3>3 DEF GrantInv, Owned, Ranges
      <3>6. Pending'
        <4> SUFFICES ASSUME NEW l \in Logins, Exchanged(l)
                     PROVE  /\ login[l].grant \in (live \cup bare)'
                            /\ token # None => token.grant # login[l].grant
                            /\ \A d \in Callers : Busy(d)' => call'[d].grant # login[l].grant
                            /\ \A k \in Logins \ {l} : Exchanged(k) => login[k].grant # login[l].grant
          BY <1>0, <3>1 DEF Pending
        <4>1. login[l].grant \in live \cup bare /\ login[l].grant # call[c].grant /\ login[l].grant # grants + 1
          BY <1>1, <3>1, <3>3 DEF GrantInv, Pending, Ranges
        <4>2. login[l].grant \in (live \cup bare)'
          BY <1>7, <2>1, <4>1 DEF AskProvider
        <4>3. \A d \in Callers : Busy(d)' => call'[d].grant # login[l].grant
          BY <1>0, <3>2, <4>1 DEF GrantInv, Pending
        <4> QED BY <4>2, <4>3 DEF GrantInv, Pending
      <3> QED BY <3>4, <3>5, <3>6 DEF GrantInv
    <2>2. CASE UNCHANGED <<live, grants>> /\ (Becomes(c, "granted") \/ Becomes(c, "denied"))
      <3>1. Busy(c) /\ UNCHANGED <<token, bare>>
        BY <1>7 DEF AskProvider, row
      <3>2. call'[c].grant = call[c].grant /\ call'[c].conn = call[c].conn
        BY <1>1, <2>2 DEF Becomes, TypeOK, CallStates
      <3> QED BY <1>2, <2>2, <3>1, <3>2
    <2> QED BY <1>7, <2>1, <2>2 DEF AskProvider
  <1>8. CASE StoreRefreshed(c)
    <2>1. call[c].at = "granted" /\ call'[c] \in {Quiet, Bound(call[c].conn)} /\ UNCHANGED <<conn, grants, live, bare>>
      BY <1>8 DEF StoreRefreshed, Ends, Connected, TypeOK, provider
    <2>2. ~Busy(c)'
      BY <2>1 DEF Quiet, Bound
    <2>3. CASE ~Owns(call[c].conn)
      <3>1. UNCHANGED token
        BY <1>8, <2>3 DEF StoreRefreshed
      <3> QED BY <1>2, <2>1, <2>2, <3>1
    <2>4. CASE Owns(call[c].conn)
      <3>1. token' = [grant |-> call[c].grant, fresh |-> TRUE]
        BY <1>8, <2>4 DEF StoreRefreshed
      <3>2. token' # None /\ token'.grant = call[c].grant
        BY <1>1, <3>1, FreshToken, McpConstants DEF CallStates
      <3>3. Ranges'
        BY <1>0, <2>1, <2>2, <2>4, <3>2 DEF GrantInv, Ranges
      <3>4. Owned'
        BY <1>0, <2>1, <2>2, <2>4, <3>2 DEF GrantInv, Owned
      <3>5. Pending'
        BY <1>0, <2>1, <2>2, <2>4, <3>2 DEF GrantInv, Pending
      <3> QED BY <3>3, <3>4, <3>5 DEF GrantInv
    <2> QED BY <2>3, <2>4
  <1> QED BY <1>4, <1>5, <1>6, <1>7, <1>8, <1>9 DEF Caller

LEMMA GrantLogin ==
    ASSUME TypeOK, GrantInv, NEW l \in Logins, Login(l)
    PROVE  GrantInv'
  <1> USE DEF Busy, Exchanged, Owns
  <1>0. UNCHANGED call /\ \A k \in Logins \ {l} : login'[k] = login[k]
    BY DEF TypeOK, Login, StartOAuth, LockDiscovery, PollDiscovery, Discover, SaveDiscovery, DiscoveryFails,
           Callback, StoreLogin, Activate, ListingFails, Steps, Begin
  <1>1. /\ grants \in Nat /\ conns \in Nat /\ login[l] \in LoginStates
        /\ token # None => token.grant \in Nat
        /\ \A d \in Callers : call[d].grant \in Nat /\ call[d].conn \in Nat
        /\ \A k \in Logins : login[k].grant \in Nat
    BY DEF TypeOK, Tokens, CallStates, LoginStates
  \* The login holds no grant, and the stored ones are as they were
  <1>2. ASSUME /\ ~Exchanged(l)' /\ UNCHANGED <<token, conns, grants, live, bare>>
               /\ conn' = conn \/ (conn # None /\ conn' # None /\ conn'.id = conn.id)
        PROVE  GrantInv'
    <2>1. Ranges'
      BY <1>0, <1>2 DEF GrantInv, Ranges
    <2>2. Owned'
      BY <1>0, <1>2 DEF GrantInv, Owned
    <2>3. Pending'
      BY <1>0, <1>2 DEF GrantInv, Pending
    <2> QED BY <2>1, <2>2, <2>3 DEF GrantInv
  <1>3. ASSUME NEW at \in LoginPoints \ {"exchanged"}, Steps(l, at)
        PROVE  ~Exchanged(l)'
    BY <1>1, <1>3 DEF Steps, TypeOK, LoginStates
  \* A new row has a new id and no token
  <1>4. ASSUME NEW cl \in Nat, Begin(l, cl), UNCHANGED <<grants, live, bare>>
        PROVE  GrantInv'
    <2>1. login'[l].at = "authorizing" /\ UNCHANGED token
      BY <1>4 DEF Begin, TypeOK
    <2>2. CASE conn # None
      BY <1>2, <1>4, <2>1, <2>2 DEF Begin
    <2>3. CASE conn = None
      <3>1. token = None /\ conns' = conns + 1 /\ conn' = [id |-> conns + 1, status |-> "reauth_required"]
        BY <1>4, <2>3 DEF Begin, GrantInv, Ranges
      <3>2. conn' # None /\ conn'.id = conns + 1 /\ conns' = conns + 1
        BY <1>1, <3>1, McpConstants DEF Connections
      <3>3. Ranges'
        BY <1>0, <1>1, <1>4, <2>1, <3>1, <3>2 DEF GrantInv, Ranges
      <3>4. Owned'
        BY <1>0, <1>1, <2>1, <3>1, <3>2 DEF GrantInv, Owned, Ranges
      <3>5. Pending'
        BY <1>0, <1>4, <2>1, <3>1 DEF GrantInv, Pending
      <3> QED BY <3>3, <3>4, <3>5 DEF GrantInv
    <2> QED BY <2>2, <2>3
  <1>5. CASE StartOAuth(l) \/ PollDiscovery(l)
    BY <1>2, <1>3, <1>4, <1>5 DEF StartOAuth, PollDiscovery, provider, row, LoginPoints, TypeOK
  <1>6. CASE LockDiscovery(l) \/ DiscoveryFails(l) \/ ListingFails(l)
    BY <1>2, <1>3, <1>6 DEF LockDiscovery, DiscoveryFails, ListingFails, provider, row, LoginPoints
  <1>7. CASE Discover(l)
    <2>1. CASE client # 0
      BY <1>4, <1>7, <2>1 DEF Discover, provider, TypeOK
    <2>2. CASE client = 0
      <3>1. login'[l].at = "registered" /\ UNCHANGED <<row, grants, live, bare>>
        BY <1>1, <1>7, <2>2 DEF Discover, TypeOK, LoginStates
      <3> QED BY <1>2, <3>1 DEF row
    <2> QED BY <2>1, <2>2
  <1>8. CASE SaveDiscovery(l)
    BY <1>1, <1>4, <1>8 DEF SaveDiscovery, LoginStates
  <1>9. CASE Callback(l)
    <2>1. CASE client = login[l].client
      <3>1. /\ grants' = grants + 1 /\ UNCHANGED row
            /\ (live \cup bare)' = live \cup bare \cup {grants + 1}
            /\ login'[l].at = "exchanged" /\ login'[l].grant = grants + 1
        BY <1>1, <1>9, <2>1 DEF Callback, TypeOK, LoginStates
      <3>2. grants <= grants + 1
        BY <1>1
      <3>3. Ranges'
        BY <1>0, <1>1, <3>1, <3>2 DEF GrantInv, Ranges, row
      <3>4. Owned'
        BY <1>0, <3>1 DEF GrantInv, Owned, row
      <3>5. Pending'
        BY <1>0, <1>1, <3>1 DEF GrantInv, Pending, Ranges, row
      <3> QED BY <3>3, <3>4, <3>5 DEF GrantInv
    <2>2. CASE client # login[l].client
      BY <1>2, <1>3, <1>9, <2>2 DEF Callback, row, LoginPoints
    <2> QED BY <2>1, <2>2
  <1>10. CASE StoreLogin(l)
    <2>1. CASE ~Owns(login[l].conn)
      BY <1>2, <1>3, <1>10, <2>1 DEF StoreLogin, provider, LoginPoints
    <2>2. CASE Owns(login[l].conn)
      <3>1. Exchanged(l) /\ ~Exchanged(l)' /\ UNCHANGED <<conn, conns, grants, live, bare>>
        BY <1>3, <1>10, <2>2 DEF StoreLogin, provider, LoginPoints
      <3>2. token' # None /\ token'.grant = login[l].grant
        BY <1>1, <1>10, <2>2, FreshToken, McpConstants DEF StoreLogin
      <3>3. Ranges'
        BY <1>0, <2>2, <3>1, <3>2 DEF GrantInv, Ranges
      <3>4. Owned'
        BY <1>0, <3>1, <3>2 DEF GrantInv, Owned, Pending
      <3>5. Pending'
        BY <1>0, <3>1, <3>2 DEF GrantInv, Pending
      <3> QED BY <3>3, <3>4, <3>5 DEF GrantInv
    <2> QED BY <2>1, <2>2
  <1>11. CASE Activate(l)
    <2>1. conn' = conn \/ (conn # None /\ conn' # None /\ conn'.id = conn.id)
      <3>1. conn' = conn \/ (conn # None /\ SetStatus("active"))
        BY <1>11 DEF Activate
      <3>2. SetStatus("active") /\ conn # None => conn' \in Connections /\ conn'.id = conn.id
        BY StatusType DEF SetStatus, TypeOK, Connections
      <3> QED BY <3>1, <3>2, McpConstants
    <2> QED BY <1>2, <1>3, <1>11, <2>1 DEF Activate, provider, LoginPoints
  <1> QED BY <1>5, <1>6, <1>7, <1>8, <1>9, <1>10, <1>11 DEF Login

LEMMA GrantRest ==
    ASSUME TypeOK, GrantInv, Rest
    PROVE  GrantInv'
  <1> USE DEF Busy, Exchanged, Owns
  <1>0. UNCHANGED <<login, call, conns, grants, live, bare>>
    BY DEF Rest, Ages, LockExpires, UpdateConnection, DeleteConnection, SetApprovalOverrides, AutoSortReads,
           AutoSortWrites, vars, row, provider, actors
  <1>1. ASSUME /\ conn' = conn \/ (conn # None /\ conn' # None /\ conn'.id = conn.id)
               /\ token' = token \/ (token # None /\ token' # None /\ token'.grant = token.grant)
        PROVE  GrantInv'
    BY <1>0, <1>1 DEF GrantInv, Ranges, Owned, Pending
  <1>2. CASE Ages
    <2>1. token # None /\ token' = [token EXCEPT !.fresh = FALSE] /\ UNCHANGED conn
      BY <1>2 DEF Ages
    <2>2. token' \in Tokens /\ token'.grant = token.grant
      BY <2>1 DEF TypeOK, Tokens
    <2> QED BY <1>1, <2>1, <2>2, McpConstants
  <1>3. CASE UpdateConnection
    <2>1. conn # None /\ UNCHANGED token /\ \E s \in {"active", "disabled"} : SetStatus(s)
      BY <1>3 DEF UpdateConnection
    <2>2. conn' \in Connections /\ conn'.id = conn.id
      BY <2>1 DEF SetStatus, TypeOK, Connections
    <2> QED BY <1>1, <2>1, <2>2, McpConstants
  <1>4. CASE DeleteConnection
    <2>1. conn' = None /\ token' = None
      BY <1>4 DEF DeleteConnection
    <2> QED BY <1>0, <2>1 DEF GrantInv, Ranges, Owned, Pending
  <1>5. CASE LockExpires \/ SetApprovalOverrides \/ AutoSortReads \/ AutoSortWrites \/ UNCHANGED vars
    BY <1>1, <1>5 DEF LockExpires, SetApprovalOverrides, AutoSortReads, AutoSortWrites, vars, row
  <1> QED BY <1>2, <1>3, <1>4, <1>5 DEF Rest

LEMMA GrantNext == TypeOK /\ GrantInv /\ [Next]_vars => GrantInv'
  BY GrantLogin, GrantCaller, GrantRest DEF Next, Rest

\* While the locks hold and nothing fails, a stored grant the provider no longer
\* accepts, one with a refresh token, is about to be replaced by a live one
Lives ==
  overrun \/ faults > 0 \/
  /\ token # None /\ token.grant \notin live \cup bare
       => \E c \in Callers : call[c].at = "granted" /\ Owns(call[c].conn)
  /\ \A c \in Callers : call[c].at = "granted" => call[c].grant \in live

LEMMA Alone ==
    ASSUME LockHeld, ~overrun, NEW c \in Callers, Locked(c)
    PROVE  \A d \in Callers \ {c} : ~Locked(d)
  BY DEF LockHeld

LEMMA LivesInit == Init => Lives
  <1> SUFFICES ASSUME Init PROVE Lives
    OBVIOUS
  <1>1. \A c \in Callers : call[c].at # "granted"
    BY DEF Init, Quiet, Bound
  <1>2. token = None \/ (token.grant = 1 /\ live = {1})
    BY DEF Init
  <1> QED BY <1>1, <1>2 DEF Lives

\* The provider's answers
LEMMA Answers ==
    ASSUME TypeOK, NEW c \in Callers, AskProvider(c)
    PROVE  \/ /\ Becomes(c, "denied") /\ UNCHANGED live
              /\ call[c].grant \notin live \/ ~Owns(call[c].conn)
           \/ call[c].grant \in live /\ ~Becomes(c, "denied")
  <1>1. call[c] \in CallStates
    BY DEF TypeOK
  <1>2. CASE call' = [call EXCEPT ![c].at = "granted", ![c].grant = grants + 1] \/ Becomes(c, "granted")
    <2>1. call'[c].at = "granted"
      BY <1>1, <1>2 DEF Becomes, TypeOK, CallStates
    <2>2. ~Becomes(c, "denied")
      BY <1>1, <2>1 DEF Becomes, TypeOK, CallStates
    <2>3. call[c].grant \in live \/ Becomes(c, "denied")
      BY DEF AskProvider
    <2> QED BY <2>2, <2>3
  <1>3. CASE ~(call' = [call EXCEPT ![c].at = "granted", ![c].grant = grants + 1] \/ Becomes(c, "granted"))
    BY <1>3 DEF AskProvider
  <1> QED BY <1>2, <1>3

LEMMA LivesNext ==
    ASSUME TypeOK, LockHeld, GrantInv, Lives, [Next]_vars
    PROVE  Lives'
  <1> SUFFICES ASSUME ~overrun', ~(faults' > 0) PROVE Lives'
    BY DEF Lives
  <1> USE DEF Owns
  <1>0. faults \in Nat
    BY DEF TypeOK
  <1>1. ~Fault
    BY <1>0 DEF Fault
  <1>2. ASSUME NEW l \in Logins, Login(l) PROVE Lives'
    <2>1. UNCHANGED <<call, overrun, faults>> /\ live \subseteq live' /\ bare \subseteq bare'
      BY <1>1, <1>2 DEF Login, StartOAuth, LockDiscovery, PollDiscovery, Discover, SaveDiscovery,
                  DiscoveryFails, Callback, StoreLogin, Activate, ListingFails, history, counts, provider
    <2>2. CASE StoreLogin(l) /\ Owns(login[l].conn)
      <3>1. token'.grant = login[l].grant /\ UNCHANGED <<live, bare>> /\ login[l].at = "exchanged"
        BY <2>2 DEF StoreLogin, provider
      <3>2. token'.grant \in (live \cup bare)'
        BY <3>1 DEF GrantInv, Pending, Exchanged
      <3> QED BY <2>1, <3>2 DEF Lives
    <2>3. CASE ~(StoreLogin(l) /\ Owns(login[l].conn))
      <3>1. UNCHANGED token
        BY <1>2, <2>3 DEF Login, StartOAuth, LockDiscovery, PollDiscovery, Discover, SaveDiscovery,
                  DiscoveryFails, Callback, StoreLogin, Activate, ListingFails, row, Begin
      <3>2. token # None => conn # None /\ conn' # None /\ conn'.id = conn.id
        <4>1. token # None => conn # None
          BY DEF GrantInv, Ranges
        <4>2. conn # None => UNCHANGED conn \/ SetStatus("active")
          BY <1>2 DEF Login, StartOAuth, LockDiscovery, PollDiscovery, Discover, SaveDiscovery,
                  DiscoveryFails, Callback, StoreLogin, Activate, ListingFails, row, Begin
        <4>3. conn # None /\ SetStatus("active") => conn' \in Connections /\ conn'.id = conn.id
          BY StatusType DEF SetStatus, TypeOK, Connections
        <4> QED BY <4>1, <4>2, <4>3, McpConstants
      <3> QED BY <2>1, <3>1, <3>2 DEF Lives
    <2> QED BY <2>2, <2>3
  <1>3. ASSUME NEW c \in Callers, Caller(c) PROVE Lives'
    <2>0. /\ \A d \in Callers \ {c} : call'[d] = call[d]
          /\ conn' = conn \/ (conn # None /\ conn' # None /\ conn'.id = conn.id)
          /\ call[c] \in CallStates
      BY <1>3, CallerKinds DEF TypeOK
    <2>1. ~overrun /\ ~(faults > 0)
      BY <1>1, <1>3 DEF Caller, Binds, GetAccessToken, LockRefresh, Waited, Reread, AskProvider, Refused, AskFails,
                  StoreRefreshed, MarkReauth, history, counts
    <2>2. Locked(c) => \A d \in Callers \ {c} : call[d].at # "granted"
      BY <2>1, Alone DEF Locked
    <2>3. CASE Binds(c) \/ GetAccessToken(c) \/ LockRefresh(c) \/ Waited(c) \/ Reread(c) \/ MarkReauth(c)
      <3>1. UNCHANGED <<token, live, bare>> /\ call[c].at # "granted" /\ call'[c].at # "granted"
        BY <2>0, <2>3 DEF Binds, GetAccessToken, LockRefresh, Waited, Reread, MarkReauth, row, provider,
           Becomes, Ends, Connected,
                     Quiet, Bound, TypeOK, CallStates
      <3> QED BY <2>0, <2>1, <3>1 DEF Lives
    <2>4. CASE AskProvider(c)
      <3>1. /\ call[c].at = "asking" /\ Locked(c) /\ UNCHANGED <<conn, token, bare>>
            /\ token # None => token.grant \in live \cup bare
        BY <2>1, <2>2, <2>4 DEF AskProvider, Locked, Lives, row
      <3>2. CASE UNCHANGED live /\ Becomes(c, "denied")
        <4>1. UNCHANGED live /\ call'[c].at = "denied"
          BY <3>2 DEF Becomes, TypeOK, CallStates
        <4> QED BY <2>0, <2>2, <3>1, <4>1 DEF Lives
      <3>3. CASE call[c].grant \in live /\ ~Becomes(c, "denied")
        <4>1. call'[c].grant \in live' /\ call'[c].at = "granted" /\ call'[c].conn = call[c].conn
          BY <2>4, <3>3 DEF AskProvider, Becomes, TypeOK, CallStates
        <4>2. live \ {call[c].grant} \subseteq live'
          BY <2>4, <3>3 DEF AskProvider
        <4>3. token # None /\ token.grant = call[c].grant => Owns(call[c].conn)
          BY <3>1 DEF GrantInv, Owned, Busy
        <4>4. token # None /\ token.grant \notin (live \cup bare)' => token.grant = call[c].grant
          BY <3>1, <4>2
        <4>5. token' # None /\ token'.grant \notin (live \cup bare)'
                => (call[c].at = "granted" /\ Owns(call[c].conn))'
          BY <3>1, <4>1, <4>3, <4>4
        <4>6. \A d \in Callers : call'[d].at = "granted" => call'[d].grant \in live'
          BY <2>0, <2>2, <3>1, <4>1
        <4> QED BY <4>5, <4>6 DEF Lives
      <3> QED BY <2>4, <3>2, <3>3, Answers
    <2>5. CASE StoreRefreshed(c)
      <3>1. /\ call[c].at = "granted" /\ Locked(c) /\ call'[c].at \in {"idle", "bound"} /\ UNCHANGED <<conn, live, bare>>
            /\ call[c].grant \in live
        BY <2>1, <2>5 DEF StoreRefreshed, Ends, Connected, Quiet, Bound, Locked, Lives, provider, TypeOK
      <3>2. token' # None => token'.grant \in live \cup bare
        BY <2>1, <2>2, <2>5, <3>1 DEF StoreRefreshed, Lives
      <3> QED BY <2>0, <2>2, <3>1, <3>2 DEF Lives
    <2> QED BY <1>1, <1>3, <2>3, <2>4, <2>5 DEF Caller, Refused, AskFails
  <1>4. CASE Rest
    <2>1. UNCHANGED <<call, live, bare, overrun, faults>>
      BY <1>1, <1>4 DEF Rest, Ages, LockExpires, UpdateConnection, DeleteConnection, SetApprovalOverrides,
                  AutoSortReads, AutoSortWrites, vars, provider, actors, history, counts, Edit
    <2>2. CASE DeleteConnection
      BY <2>1, <2>2 DEF DeleteConnection, Lives
    <2>3. CASE ~DeleteConnection
      <3>1. conn' = conn \/ (conn # None /\ conn' # None /\ conn'.id = conn.id)
        <4>1. conn' = conn \/ (conn # None /\ \E s \in {"active", "disabled"} : SetStatus(s))
          BY <1>4, <2>3 DEF Rest, Ages, LockExpires, UpdateConnection, SetApprovalOverrides, AutoSortReads,
                      AutoSortWrites, vars, row
        <4>2. conn # None /\ (\E s \in {"active", "disabled"} : SetStatus(s))
                => conn' \in Connections /\ conn'.id = conn.id
          BY DEF SetStatus, TypeOK, Connections
        <4> QED BY <4>1, <4>2, McpConstants
      <3>2. token' = token \/ (token # None /\ token'.grant = token.grant)
        <4>1. token' = token \/ (token # None /\ token' = [token EXCEPT !.fresh = FALSE])
          BY <1>4, <2>3 DEF Rest, Ages, LockExpires, UpdateConnection, SetApprovalOverrides, AutoSortReads,
                      AutoSortWrites, vars, row
        <4> QED BY <4>1 DEF TypeOK, Tokens
      <3> QED BY <2>1, <3>1, <3>2 DEF Lives
    <2> QED BY <2>2, <2>3
  <1> QED BY <1>2, <1>3, <1>4 DEF Next, Rest

\* For any number of runs, logins, deletions and new connections: the stored
\* grant is one the provider accepts (getAccessToken, handleOAuthCallback), or
\* one without a refresh token, as long as no lock is overrun and no remote call fails.
THEOREM StoredGrantIsLive == Spec => []StoredGrantLives
  <1>1. TypeOK /\ Lives => StoredGrantLives
    BY DEF Lives, StoredGrantLives
  <1> QED BY <1>1, TypeInit, TypeNext, LockInit, LockNext, GrantInit, GrantNext, LivesInit, LivesNext, PTL
          DEF Spec

-----------------------------------------------------------------------------
(* Requests to sign in again *)

InRefresh(c) == call[c].at \in {"asking", "granted", "denied", "refused"}
InLogin(l) == login[l].at \in {"exchanged", "listing"}

\* A refresh and a login stay apart, or the behaviour is excused
Apart == \A c \in Callers, l \in Logins : ~(InRefresh(c) /\ InLogin(l))

\* What a caller that owns the row knows of it while it refreshes
KnowsRow ==
  \A c \in Callers : InRefresh(c) /\ Owns(call[c].conn) =>
    /\ call[c].at # "granted" => token.grant = call[c].grant
    /\ call[c].at = "denied" => call[c].grant \notin live
    /\ call[c].at = "granted" => refused \/ conn.status # "reauth_required"

\* A row that asks for a sign-in with a live grant is about to be activated, or
\* the refresh could not use a live grant
AboutToActivate ==
  conn # None /\ conn.status = "reauth_required" /\ token # None /\ token.grant \in live
    => refused \/ \E l \in Logins : login[l].at = "listing" /\ Owns(login[l].conn)

Justified == overrun \/ crossed \/ halfway \/ (Apart /\ KnowsRow /\ AboutToActivate)

LEMMA JustifiedInit == Init => Justified
  <1> SUFFICES ASSUME Init PROVE Apart /\ KnowsRow /\ AboutToActivate
    BY DEF Justified
  <1>1. \A c \in Callers : ~InRefresh(c)
    BY DEF Init, InRefresh, Quiet, Bound
  <1>2. token = None \/ conn.status = "active"
    BY DEF Init
  <1> QED BY <1>1, <1>2 DEF Apart, KnowsRow, AboutToActivate

\* The excuses are never taken back
LEMMA Excuses ==
    ASSUME [Next]_vars
    PROVE  (overrun => overrun') /\ (crossed => crossed') /\ (halfway => halfway')
  <1>1. ASSUME NEW l \in Logins, Login(l)
        PROVE  (overrun => overrun') /\ (crossed => crossed') /\ (halfway => halfway')
    <2>1. CASE Callback(l)
      BY <2>1, Zenon DEF Callback
    <2>2. CASE ListingFails(l)
      BY <2>2, Zenon DEF ListingFails
    <2>3. CASE ~Callback(l) /\ ~ListingFails(l)
      <3>1. UNCHANGED <<overrun, crossed, halfway>>
        BY <1>1, <2>3 DEF Login, StartOAuth, LockDiscovery, PollDiscovery, Discover, SaveDiscovery,
                          DiscoveryFails, StoreLogin, Activate, history
      <3> QED BY <3>1
    <2> QED BY <2>1, <2>2, <2>3
  <1>2. ASSUME NEW c \in Callers, Caller(c)
        PROVE  (overrun => overrun') /\ (crossed => crossed') /\ (halfway => halfway')
    <2>1. CASE Waited(c)
      BY <2>1, Zenon DEF Waited
    <2>2. CASE Reread(c)
      BY <2>2, Zenon DEF Reread
    <2>3. CASE ~Waited(c) /\ ~Reread(c)
      <3>1. UNCHANGED <<overrun, crossed, halfway>>
        BY <1>2, <2>3 DEF Caller, Binds, GetAccessToken, LockRefresh, AskProvider, Refused, AskFails, StoreRefreshed,
                          MarkReauth, history
      <3> QED BY <3>1
    <2> QED BY <2>1, <2>2, <2>3
  <1>3. CASE Rest
    BY <1>3 DEF Rest, Ages, LockExpires, UpdateConnection, DeleteConnection, SetApprovalOverrides,
                AutoSortReads, AutoSortWrites, vars, history
  <1> QED BY <1>1, <1>2, <1>3 DEF Next, Rest

LEMMA JustifiedLogin ==
    ASSUME TypeOK, GrantInv, Apart, KnowsRow, AboutToActivate, NEW l \in Logins, Login(l),
           ~crossed', ~halfway'
    PROVE  Apart' /\ KnowsRow' /\ AboutToActivate'
  <1> USE DEF Owns, InRefresh, InLogin, LoginPoints
  <1>0. UNCHANGED call /\ \A k \in Logins \ {l} : login'[k] = login[k]
    BY DEF TypeOK, Login, StartOAuth, LockDiscovery, PollDiscovery, Discover, SaveDiscovery, DiscoveryFails,
           Callback, StoreLogin, Activate, ListingFails, Steps, Begin
  <1>1. login[l] \in LoginStates /\ conns \in Nat /\ grants \in Nat
    BY DEF TypeOK
  \* A step of a login that holds no grant
  <1>2. ASSUME login[l].at # "listing", ~InLogin(l)', UNCHANGED <<conn, token, live, refused>>
        PROVE  Apart' /\ KnowsRow' /\ AboutToActivate'
    BY <1>0, <1>2 DEF Apart, KnowsRow, AboutToActivate
  <1>3. ASSUME NEW at \in LoginPoints \ {"exchanged", "listing"}, Steps(l, at)
        PROVE  ~InLogin(l)'
    BY <1>1, <1>3 DEF Steps, TypeOK, LoginStates
  <1>4. ASSUME NEW cl \in Nat, Begin(l, cl), UNCHANGED <<live, refused>>, login[l].at # "listing"
        PROVE  Apart' /\ KnowsRow' /\ AboutToActivate'
    <2>1. login'[l].at = "authorizing" /\ UNCHANGED token
      BY <1>4 DEF Begin, TypeOK
    <2>2. CASE conn # None
      BY <1>2, <1>4, <2>1, <2>2 DEF Begin
    <2>3. CASE conn = None
      <3>1. token = None /\ conn' = [id |-> conns + 1, status |-> "reauth_required"]
        BY <1>4, <2>3 DEF Begin, GrantInv, Ranges
      <3>2. \A c \in Callers : InRefresh(c) => call[c].conn <= conns /\ call[c].conn \in Nat
        BY DEF GrantInv, Ranges, Busy, TypeOK, CallStates
      <3>3. conn'.id = conns + 1
        BY <3>1
      <3>4. \A c \in Callers : InRefresh(c) => call[c].conn # conn'.id
        BY <1>1, <3>2, <3>3
      <3> QED BY <1>0, <2>1, <3>1, <3>4 DEF Apart, KnowsRow, AboutToActivate
    <2> QED BY <2>2, <2>3
  <1>5. CASE StartOAuth(l) \/ PollDiscovery(l)
    BY <1>2, <1>3, <1>4, <1>5 DEF StartOAuth, PollDiscovery, provider, row, history, TypeOK
  <1>6. CASE LockDiscovery(l) \/ DiscoveryFails(l)
    BY <1>2, <1>3, <1>6 DEF LockDiscovery, DiscoveryFails, provider, row, history
  <1>7. CASE Discover(l)
    <2>1. CASE client # 0
      BY <1>4, <1>7, <2>1 DEF Discover, provider, history, TypeOK
    <2>2. CASE client = 0
      <3>1. login[l].at = "locked" /\ login'[l].at = "registered" /\ UNCHANGED <<row, live, refused>>
        BY <1>1, <1>7, <2>2 DEF Discover, history, TypeOK, LoginStates
      <3> QED BY <1>2, <3>1 DEF row
    <2> QED BY <2>1, <2>2
  <1>8. CASE SaveDiscovery(l)
    BY <1>1, <1>4, <1>8 DEF SaveDiscovery, history, LoginStates
  <1>9. CASE Callback(l)
    <2>1. CASE client = login[l].client
      <3>1. /\ live' \subseteq live \cup {grants + 1} /\ live \subseteq live'
            /\ UNCHANGED <<row, refused>> /\ Refreshing = {}
            /\ login[l].at = "authorizing"
        BY <1>9, <2>1 DEF Callback
      <3>2. \A c \in Callers : ~InRefresh(c)
        BY <3>1 DEF Refreshing
      <3>3. token # None => token.grant # grants + 1
        BY <1>1 DEF GrantInv, Ranges, TypeOK, Tokens
      <3> QED BY <1>0, <3>1, <3>2, <3>3 DEF Apart, KnowsRow, AboutToActivate, row
    <2>2. CASE client # login[l].client
      BY <1>2, <1>3, <1>9, <2>2 DEF Callback, row, provider, history
    <2> QED BY <2>1, <2>2
  <1>10. CASE StoreLogin(l)
    <2>1. CASE ~Owns(login[l].conn)
      BY <1>2, <1>3, <1>10, <2>1 DEF StoreLogin, provider, history
    <2>2. CASE Owns(login[l].conn)
      <3>1. /\ login[l].at = "exchanged" /\ UNCHANGED <<conn, live, refused>>
            /\ login'[l].at = "listing" /\ login'[l].conn = login[l].conn
        BY <1>1, <1>10, <2>2 DEF StoreLogin, Steps, provider, history, TypeOK, LoginStates
      <3> QED BY <1>0, <2>2, <3>1 DEF Apart, KnowsRow, AboutToActivate
    <2> QED BY <2>1, <2>2
  <1>11. CASE Activate(l)
    <2>1. login[l].at = "listing" /\ ~InLogin(l)' /\ UNCHANGED <<token, live>>
      BY <1>3, <1>11 DEF Activate, provider
    <2>2. \A c \in Callers : ~InRefresh(c)
      BY <2>1 DEF Apart
    <2>3. CASE ~Owns(login[l].conn)
      BY <1>0, <1>11, <2>1, <2>2, <2>3 DEF Activate, Apart, KnowsRow, AboutToActivate
    <2>4. CASE Owns(login[l].conn)
      <3>1. conn'.status = "active"
        BY <1>11, <2>4 DEF Activate, SetStatus, TypeOK, Connections
      <3> QED BY <1>0, <2>1, <2>2, <3>1 DEF Apart, KnowsRow, AboutToActivate
    <2> QED BY <2>3, <2>4
  <1>12. CASE ListingFails(l)
    BY <1>12 DEF ListingFails
  <1> QED BY <1>5, <1>6, <1>7, <1>8, <1>9, <1>10, <1>11, <1>12 DEF Login

LEMMA JustifiedCaller ==
    ASSUME TypeOK, LockHeld, GrantInv, Apart, KnowsRow, AboutToActivate, NEW c \in Callers, Caller(c),
           ~overrun, ~overrun', ~crossed'
    PROVE  Apart' /\ KnowsRow' /\ AboutToActivate'
  <1> USE DEF Owns, InRefresh, InLogin
  <1>0. /\ \A d \in Callers \ {c} : call'[d] = call[d]
        /\ call[c] \in CallStates /\ UNCHANGED login
    BY CallerKinds DEF TypeOK
  <1>1. InRefresh(c) => \A d \in Callers \ {c} : ~InRefresh(d)
    BY Alone DEF Locked
  <1>2. InRefresh(c) /\ Owns(call[c].conn) => token # None
    BY DEF GrantInv, Owned, Busy
  <1>3. CASE Binds(c) \/ GetAccessToken(c) \/ LockRefresh(c) \/ Waited(c) \/ AskFails(c)
    <2>1. ~InRefresh(c)' /\ UNCHANGED <<conn, token, live, refused>>
      BY <1>3 DEF Binds, GetAccessToken, LockRefresh, Waited, AskFails, row, provider, history, Becomes, Ends,
         Connected, Quiet, Bound, TypeOK,
                  CallStates
    <2> QED BY <1>0, <2>1 DEF Apart, KnowsRow, AboutToActivate
  <1>4. CASE Reread(c)
    <2>1. UNCHANGED <<conn, token, live, refused>> /\ LoggingIn = {}
      BY <1>4 DEF Reread, row, provider
    <2>2. \A l \in Logins : ~InLogin(l)
      BY <2>1 DEF LoggingIn
    <2>3. \/ ~InRefresh(c)'
          \/ /\ call'[c].at = "asking" /\ call'[c].conn = call[c].conn
             /\ Owns(call[c].conn) => call'[c].grant = token.grant
      <3>1. Owns(call[c].conn) => token # None
        BY <1>4 DEF Reread, GrantInv, Owned, Busy
      <3>2. \/ call' = [call EXCEPT ![c] = Quiet]
            \/ call' = [call EXCEPT ![c].at = "asking", ![c].grant = token.grant]
            \/ call' = [call EXCEPT ![c].at = "asking"] /\ ~Owns(call[c].conn)
        BY <1>4, <3>1 DEF Reread, Ends, Connected, Becomes
      <3> QED BY <3>2 DEF Quiet, Bound, TypeOK, CallStates
    <2>4. KnowsRow'
      <3> SUFFICES ASSUME NEW d \in Callers, InRefresh(d)', Owns(call[d].conn)'
                   PROVE  /\ call'[d].at # "granted" => token.grant = call'[d].grant
                          /\ call'[d].at = "denied" => call'[d].grant \notin live
                          /\ call'[d].at = "granted" => refused \/ conn.status # "reauth_required"
        BY <2>1 DEF KnowsRow
      <3>1. CASE d = c
        <4>1. call'[c].at = "asking" /\ Owns(call[c].conn) /\ call'[c].grant = token.grant
          BY <2>1, <2>3, <3>1
        <4> QED BY <3>1, <4>1
      <3>2. CASE d # c
        BY <1>0, <2>1, <3>2 DEF KnowsRow
      <3> QED BY <3>1, <3>2
    <2>5. Apart' /\ AboutToActivate'
      BY <1>0, <2>1, <2>2 DEF Apart, AboutToActivate
    <2> QED BY <2>4, <2>5
  <1>5. CASE AskProvider(c)
    <2>1. call[c].at = "asking" /\ UNCHANGED <<conn, token, refused>>
      BY <1>5 DEF AskProvider, row, history
    <2>2. \A l \in Logins : ~InLogin(l)
      BY <2>1 DEF Apart
    <2>3. CASE UNCHANGED live /\ Becomes(c, "denied") /\ (call[c].grant \notin live \/ ~Owns(call[c].conn))
      <3>1. UNCHANGED live /\ call'[c].at = "denied" /\ call'[c].grant = call[c].grant /\ call'[c].conn = call[c].conn
        BY <2>3 DEF Becomes, TypeOK, CallStates
      <3> QED BY <1>0, <1>1, <2>1, <2>2, <2>3, <3>1 DEF Apart, KnowsRow, AboutToActivate
    <2>4. CASE call[c].grant \in live /\ ~Becomes(c, "denied")
      <3>1. /\ call'[c].at = "granted" /\ call'[c].conn = call[c].conn
            /\ live' \subseteq live \cup {grants + 1}
        BY <1>5, <2>4 DEF AskProvider, Becomes, TypeOK, CallStates
      <3>2. Owns(call[c].conn) => refused \/ conn.status # "reauth_required"
        BY <1>2, <2>1, <2>2, <2>4 DEF KnowsRow, AboutToActivate
      <3>3. token # None => token.grant # grants + 1
        BY DEF GrantInv, Ranges, TypeOK, Tokens
      <3>4. \A d \in Callers : InRefresh(d)' => d = c
        BY <1>0, <1>1, <2>1
      <3>5. Apart'
        BY <1>0, <2>2 DEF Apart
      <3>6. KnowsRow'
        BY <2>1, <3>1, <3>2, <3>4 DEF KnowsRow
      <3>7. AboutToActivate'
        BY <1>0, <2>1, <3>1, <3>3 DEF AboutToActivate
      <3> QED BY <3>5, <3>6, <3>7
    <2> QED BY <1>5, <2>3, <2>4, Answers
  <1>6. CASE StoreRefreshed(c)
    <2>1. call[c].at = "granted" /\ call'[c].at \in {"idle", "bound"} /\ UNCHANGED <<conn, live, refused>>
      BY <1>6 DEF StoreRefreshed, Ends, Connected, Quiet, Bound, provider, history, TypeOK
    <2>2. UNCHANGED token \/ refused \/ conn.status # "reauth_required"
      BY <1>6, <2>1 DEF StoreRefreshed, KnowsRow
    <2> QED BY <1>0, <1>1, <2>1, <2>2 DEF Apart, KnowsRow, AboutToActivate
  <1>7. CASE MarkReauth(c)
    <2>1. call[c].at \in {"denied", "refused"} /\ call'[c].at = "bound" /\ UNCHANGED <<token, live>>
      BY <1>7 DEF MarkReauth, Ends, Bound, provider, TypeOK
    <2>2. UNCHANGED <<conn, refused>> \/ refused' \/ (token.grant \notin live /\ (refused' <=> refused))
      BY <1>7, <2>1 DEF MarkReauth, KnowsRow
    <2> QED BY <1>0, <1>1, <2>1, <2>2 DEF Apart, KnowsRow, AboutToActivate
  <1>8. CASE Refused(c)
    <2>1. /\ call[c].at = "asking" /\ call'[c].at = "refused" /\ UNCHANGED <<conn, token, live, refused>>
          /\ call'[c].grant = call[c].grant /\ call'[c].conn = call[c].conn
      BY <1>8 DEF Refused, Becomes, row, provider, history, TypeOK, CallStates
    <2> QED BY <1>0, <1>1, <2>1 DEF Apart, KnowsRow, AboutToActivate
  <1> QED BY <1>3, <1>4, <1>5, <1>6, <1>7, <1>8 DEF Caller

LEMMA JustifiedRest ==
    ASSUME TypeOK, Apart, KnowsRow, AboutToActivate, Rest
    PROVE  Apart' /\ KnowsRow' /\ AboutToActivate'
  <1> USE DEF Owns, InRefresh, InLogin
  <1>0. UNCHANGED <<login, call, live>>
    BY DEF Rest, Ages, LockExpires, UpdateConnection, DeleteConnection, SetApprovalOverrides, AutoSortReads,
           AutoSortWrites, vars, provider, actors
  <1>1. CASE DeleteConnection
    BY <1>0, <1>1 DEF DeleteConnection, Apart, KnowsRow, AboutToActivate
  <1>2. CASE Ages
    <2>1. token # None /\ token' = [token EXCEPT !.fresh = FALSE] /\ UNCHANGED <<conn, refused>>
      BY <1>2 DEF Ages, history
    <2>2. token'.grant = token.grant
      BY <2>1 DEF TypeOK, Tokens
    <2> QED BY <1>0, <2>1, <2>2 DEF Apart, KnowsRow, AboutToActivate
  <1>3. CASE UpdateConnection
    <2>1. conn # None /\ UNCHANGED token /\ \E s \in {"active", "disabled"} : conn' = [conn EXCEPT !.status = s]
      BY <1>3 DEF UpdateConnection, SetStatus
    <2>2. conn'.id = conn.id /\ conn'.status # "reauth_required"
      BY <2>1 DEF TypeOK, Connections
    <2> QED BY <1>0, <2>1, <2>2 DEF Apart, KnowsRow, AboutToActivate
  <1>4. CASE LockExpires \/ SetApprovalOverrides \/ AutoSortReads \/ AutoSortWrites \/ UNCHANGED vars
    <2>1. UNCHANGED <<conn, token, refused>>
      BY <1>4 DEF LockExpires, SetApprovalOverrides, AutoSortReads, AutoSortWrites, vars, row, history
    <2> QED BY <1>0, <2>1 DEF Apart, KnowsRow, AboutToActivate
  <1> QED BY <1>1, <1>2, <1>3, <1>4 DEF Rest

LEMMA JustifiedNext ==
    ASSUME TypeOK, LockHeld, GrantInv, Justified, [Next]_vars
    PROVE  Justified'
  <1> SUFFICES ASSUME ~overrun', ~crossed', ~halfway' PROVE Apart' /\ KnowsRow' /\ AboutToActivate'
    BY DEF Justified
  <1>1. ~overrun /\ Apart /\ KnowsRow /\ AboutToActivate
    BY Excuses DEF Justified
  <1> QED BY <1>1, JustifiedLogin, JustifiedCaller, JustifiedRest DEF Next, Rest

\* For any number of runs, logins, faults and edits: a connection with a grant
\* the provider accepts asks for a new sign-in (markReauth, ensureConnection)
\* only while a login is about to activate it, when the last refresh could not
\* use a live grant (no OAuth configuration, any 400 or 401), or after a lock
\* was overrun, a refresh crossed a login, or a login failed after storing its
\* token.
THEOREM SignInsAreJustified == Spec => []ReauthJustified
  <1>1. Justified => ReauthJustified
    BY DEF Justified, AboutToActivate, ReauthJustified
  <1> QED BY <1>1, TypeInit, TypeNext, LockInit, LockNext, GrantInit, GrantNext, JustifiedInit, JustifiedNext,
          PTL DEF Spec
=============================================================================
