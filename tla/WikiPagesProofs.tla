-------------------------- MODULE WikiPagesProofs --------------------------
(***************************************************************************)
(* The wiki for any number of pages, requests and targets: the cap on       *)
(* ambient pages, the links and what unsharing takes back.                  *)
(***************************************************************************)
EXTENDS WikiPages, FiniteSetTheorems, TLAPS

Bodies == [life : {"unborn", "live", "deleted"}, scope : Scopes, says : SUBSET Pages]

Types ==
  /\ page \in [Pages -> Bodies]
  /\ known \in [Pages -> SUBSET Pages]
  /\ req = [w \in Writers |-> req[w]]
  /\ at = [w \in Writers |-> at[w]]
  /\ seen = [w \in Writers |-> seen[w]]

\* Every query belongs to the requests that make it
Asks ==
  \A w \in Writers : at[w] # "idle" =>
    /\ req[w].page \in Pages
    /\ req[w].do \in {"create", "update", "delete", "share", "unshare"}
    /\ req[w].do = "create" => req[w].scope \in Scopes /\ req[w].says \in SUBSET Pages
    /\ req[w].do = "update" => req[w].scope \in Scopes \cup {None} /\ req[w].says \in {None} \cup SUBSET Pages
    /\ at[w] = "insert" => req[w].do = "create"
    /\ at[w] \in {"promote", "raise", "write"} => req[w].do = "update"
    /\ at[w] \in {"resolve", "compare", "relink"} =>
         req[w].do \in {"create", "update"} /\ req[w].says \in SUBSET Pages
    /\ at[w] \in {"share", "insertShare", "reviveShare"} => req[w].do = "share"
    /\ at[w] \in {"unshare", "revoke"} => req[w].do = "unshare"

\* A creation has its id to itself, and what existed once is never created again
Fresh ==
  /\ \A v, w \in Writers :
       /\ at[v] # "idle" /\ req[v].do = "create" /\ at[w] # "idle" /\ req[w].do = "create"
       /\ req[v].page = req[w].page
       => v = w
  /\ \A w \in Writers : at[w] \in {"start", "insert"} /\ req[w].do = "create" => page[req[w].page].life = "unborn"
  /\ \A w \in Writers : at[w] = "delete" => page[req[w].page].life # "unborn"
  /\ \A p \in Pages : \A q \in known[p] : page[q].life # "unborn"

\* What a writer has read of the ambient pages leaves room for his own
Room ==
  /\ AmbientCap
  /\ \A w \in Writers :
       /\ at[w] = "insert" /\ req[w].scope = "AMBIENT" => seen[w] \in Nat /\ seen[w] < MaxAmbient
       /\ at[w] = "raise" => seen[w] \in SUBSET Pages /\ (req[w].page \in seen[w] \/ Cardinality(seen[w]) < MaxAmbient)
       /\ at[w] = "write" /\ req[w].scope = "AMBIENT" => seen[w] = "AMBIENT"

\* The only rebuild of a page's links knows its content, and what it will leave
Rebuilt(w) == (Linked(req[w].page) \ seen[w].remove) \cup seen[w].add
Fits(p, w) ==
  /\ page[p].says = req[w].says /\ known[p] \subseteq req[w].says
  /\ at[w] = "compare" => known[p] \cap Live \subseteq seen[w] /\ seen[w] \subseteq req[w].says
  /\ at[w] = "relink" => known[p] \cap Live \subseteq Rebuilt(w) /\ Rebuilt(w) \subseteq req[w].says
Rebuild ==
  \A p \in Pages \ contested : \A w \in Rebuilding(p) :
    /\ \A v \in Rebuilding(p) : v = w
    /\ p \in Live => Fits(p, w)

\* Rows are the work of one request each, and of one page and target there is one row,
\* unless two requests shared them at the same time
RowOf(w, s) ==
  s.by \in Writers /\ at[s.by] = "done" /\ req[s.by].page = req[w].page /\ req[s.by].target = req[w].target
Shared ==
  /\ \A r \in shares : /\ r.by \in Writers /\ at[r.by] = "done"
                       /\ r.page = req[r.by].page /\ r.target = req[r.by].target
                       /\ r = [page |-> r.page, target |-> r.target, by |-> r.by, active |-> r.active]
  /\ \A r, s \in shares : r.by = s.by => r = s
  /\ \A r, s \in shares : r.page = s.page /\ r.target = s.target => r = s \/ <<r.page, r.target>> \in doubled
  /\ \A w \in Writers : at[w] \in {"reviveShare", "revoke"} => RowOf(w, seen[w])

Shares(w) == at[w] \notin {"idle", "done"} /\ req[w].do = "share"
Sharers ==
  /\ \A w \in Writers : Shares(w) => <<req[w].page, req[w].target>> \notin unshared
  /\ \A v, w \in Writers :
       /\ Shares(v) /\ Shares(w)
       /\ req[v].page = req[w].page /\ req[v].target = req[w].target
       => v = w \/ <<req[w].page, req[w].target>> \in doubled
  /\ \A w \in Writers : at[w] = "insertShare" =>
       \/ <<req[w].page, req[w].target>> \in doubled
       \/ \A r \in shares : r.page # req[w].page \/ r.target # req[w].target

-----------------------------------------------------------------------------
(* Types *)

LEMMA RequestTypes ==
  ASSUME NEW r \in Requests
  PROVE  /\ r.page \in Pages
         /\ r.do \in {"create", "update", "delete", "share", "unshare"}
         /\ r.do = "create" => r.scope \in Scopes /\ r.says \in SUBSET Pages
         /\ r.do = "update" => r.scope \in Scopes \cup {None} /\ r.says \in {None} \cup SUBSET Pages
  BY DEF Requests

\* updateByOwner writes the scope and the content of one page
LEMMA UpdateBody ==
  ASSUME Types, Asks, NEW w \in Writers, WriteUpdate(w), req[w].page \in Live
  PROVE  /\ page' = [q \in Pages |-> IF q = req[w].page THEN page'[req[w].page] ELSE page[q]]
         /\ page'[req[w].page].life = "live" /\ page'[req[w].page] \in Bodies
         /\ page'[req[w].page].scope = IF req[w].scope = None THEN page[req[w].page].scope ELSE req[w].scope
         /\ page'[req[w].page].says = IF req[w].says = None THEN page[req[w].page].says ELSE req[w].says
  <1> DEFINE p == req[w].page
             body == [page[p] EXCEPT !.scope = IF req[w].scope = None THEN @ ELSE req[w].scope,
                                     !.says = IF req[w].says = None THEN @ ELSE req[w].says]
  <1>1. p \in Pages /\ page[p] \in Bodies /\ page[p].life = "live"
    BY DEF Live, Types
  <1>2. req[w].scope \in Scopes \cup {None} /\ req[w].says \in {None} \cup SUBSET Pages
    BY DEF WriteUpdate, Asks
  <1>3. page' = [page EXCEPT ![p] = body]
    BY <1>1 DEF WriteUpdate, Types
  <1>4. /\ body \in Bodies /\ body.life = "live"
        /\ body.scope = IF req[w].scope = None THEN page[p].scope ELSE req[w].scope
        /\ body.says = IF req[w].says = None THEN page[p].says ELSE req[w].says
    BY <1>1, <1>2 DEF Bodies
  <1> HIDE DEF body
  <1> QED BY <1>1, <1>3, <1>4 DEF Types

LEMMA AsksInit == Init => Types /\ Asks
  BY DEF Init, Types, Asks, Bodies, Scopes

LEMMA AsksNext == Types /\ Asks /\ [Next]_vars => Types' /\ Asks'
  <1> SUFFICES ASSUME Types, Asks, [Next]_vars PROVE Types' /\ Asks'
    OBVIOUS
  <1> USE DEF Types, Asks, Goto, Finish, Asked, tables, history
  <1>1. ASSUME NEW w \in Writers, Request(w) PROVE Types' /\ Asks'
    BY <1>1, RequestTypes, ZenonT(30) DEF Request
  <1>2. ASSUME NEW w \in Writers, CountForCreate(w) PROVE Types' /\ Asks'
    BY <1>2 DEF CountForCreate
  <1>3. ASSUME NEW w \in Writers, Insert(w) PROVE Types' /\ Asks'
    BY <1>3 DEF Insert, NewContent, Bodies, Live, Scopes
  <1>4. ASSUME NEW w \in Writers, ReadPage(w) PROVE Types' /\ Asks'
    BY <1>4 DEF ReadPage
  <1>5. ASSUME NEW w \in Writers, CountForPromotion(w) PROVE Types' /\ Asks'
    BY <1>5 DEF CountForPromotion
  <1>6. ASSUME NEW w \in Writers, Raise(w) PROVE Types' /\ Asks'
    BY <1>6 DEF Raise, Bodies, Live, Scopes
  <1>7. ASSUME NEW w \in Writers, WriteUpdate(w) PROVE Types' /\ Asks'
    <2>1. CASE req[w].page \notin Live
      BY <1>7, <2>1 DEF WriteUpdate
    <2>2. CASE req[w].page \in Live
      <3>1. page' \in [Pages -> Bodies]
        BY <1>7, <2>2, UpdateBody DEF WriteUpdate
      <3>2. known' \in [Pages -> SUBSET Pages]
        BY <1>7, <2>2 DEF WriteUpdate, NewContent, Live
      <3>3. at' = [at EXCEPT ![w] = IF req[w].says = None THEN "done" ELSE "resolve"] /\ req' = req
        BY <1>7, <2>2 DEF WriteUpdate
      <3>4. seen' = [v \in Writers |-> seen'[v]]
        BY <1>7, <2>2 DEF WriteUpdate
      <3> QED BY <1>7, <3>1, <3>2, <3>3, <3>4 DEF WriteUpdate
    <2> QED BY <2>1, <2>2
  <1>8. ASSUME NEW w \in Writers, Resolve(w) PROVE Types' /\ Asks'
    BY <1>8 DEF Resolve
  <1>9. ASSUME NEW w \in Writers, Compare(w) PROVE Types' /\ Asks'
    BY <1>9 DEF Compare
  <1>10. ASSUME NEW w \in Writers, Relink(w) PROVE Types' /\ Asks'
    BY <1>10 DEF Relink
  <1>11. ASSUME NEW w \in Writers, FindPage(w) PROVE Types' /\ Asks'
    BY <1>11 DEF FindPage
  <1>12. ASSUME NEW w \in Writers, Delete(w) PROVE Types' /\ Asks'
    BY <1>12 DEF Delete, Bodies, Live, Scopes
  <1>13. ASSUME NEW w \in Writers, FindShare(w) PROVE Types' /\ Asks'
    BY <1>13 DEF FindShare
  <1>14. ASSUME NEW w \in Writers, InsertShare(w) PROVE Types' /\ Asks'
    BY <1>14 DEF InsertShare
  <1>15. ASSUME NEW w \in Writers, ReviveShare(w) PROVE Types' /\ Asks'
    BY <1>15 DEF ReviveShare, Update
  <1>16. ASSUME NEW w \in Writers, FindActive(w) PROVE Types' /\ Asks'
    BY <1>16 DEF FindActive
  <1>17. ASSUME NEW w \in Writers, Revoke(w) PROVE Types' /\ Asks'
    BY <1>17 DEF Revoke, Update
  <1>18. CASE UNCHANGED vars
    BY <1>18 DEF vars, request
  <1> QED BY <1>1, <1>2, <1>3, <1>4, <1>5, <1>6, <1>7, <1>8, <1>9, <1>10, <1>11, <1>12, <1>13, <1>14, <1>15, <1>16, <1>17, <1>18 DEF Next, Write, Share

-----------------------------------------------------------------------------
(* Ids *)

LEMMA FreshNext == Types /\ Asks /\ Fresh /\ [Next]_vars => Fresh'
  <1> SUFFICES ASSUME Types, Asks, Fresh, [Next]_vars PROVE Fresh'
    OBVIOUS
  <1> USE DEF Types, Asks, Fresh, Goto, Finish, Asked
  <1>1. ASSUME NEW w \in Writers, Request(w) PROVE Fresh'
    <2> PICK r \in Requests : /\ r.do = "create" => IsNew(r.page)
                             /\ req' = [req EXCEPT ![w] = r] /\ at' = [at EXCEPT ![w] = "start"]
      BY <1>1 DEF Request
    <2>1. at[w] = "idle" /\ UNCHANGED <<page, known>>
      BY <1>1 DEF Request, tables
    <2>2. \A v \in Writers : v # w => req'[v] = req[v] /\ at'[v] = at[v]
      OBVIOUS
    <2>3. r.do = "create" => /\ page[r.page].life = "unborn"
                             /\ \A v \in Writers : at[v] # "idle" /\ req[v].do = "create" => req[v].page # r.page
      BY DEF IsNew
    <2> QED BY <2>1, <2>2, <2>3
  <1>2. ASSUME NEW w \in Writers, CountForCreate(w) PROVE Fresh'
    BY <1>2 DEF CountForCreate, tables, history
  <1>3. ASSUME NEW w \in Writers, Insert(w) PROVE Fresh'
    BY <1>3 DEF Insert, NewContent, Live, Bodies
  <1>4. ASSUME NEW w \in Writers, ReadPage(w) PROVE Fresh'
    BY <1>4 DEF ReadPage, tables, history
  <1>5. ASSUME NEW w \in Writers, CountForPromotion(w) PROVE Fresh'
    BY <1>5 DEF CountForPromotion, tables, history
  <1>6. ASSUME NEW w \in Writers, Raise(w) PROVE Fresh'
    <2>1. \A q \in Pages : page'[q].life = page[q].life
      BY <1>6 DEF Raise, Bodies
    <2> QED BY <1>6, <2>1 DEF Raise
  <1>7. ASSUME NEW w \in Writers, WriteUpdate(w) PROVE Fresh'
    <2>1. CASE req[w].page \notin Live
      BY <1>7, <2>1 DEF WriteUpdate
    <2>2. CASE req[w].page \in Live
      <3>1. /\ \A q \in Pages : page'[q].life = page[q].life
            /\ at' = [at EXCEPT ![w] = IF req[w].says = None THEN "done" ELSE "resolve"] /\ req' = req
        BY <1>7, <2>2, UpdateBody, SMTT(30) DEF WriteUpdate, Live
      <3>2. \A q \in Pages : \A t \in known'[q] : t \in Pages /\ (t \in known[q] \/ page[t].life = "live")
        BY <1>7, <2>2 DEF WriteUpdate, NewContent, Live
      <3> QED BY <1>7, <3>1, <3>2 DEF WriteUpdate
    <2> QED BY <2>1, <2>2
  <1>8. ASSUME NEW w \in Writers, Resolve(w) PROVE Fresh'
    BY <1>8 DEF Resolve, tables, history
  <1>9. ASSUME NEW w \in Writers, Compare(w) PROVE Fresh'
    BY <1>9 DEF Compare, tables, history
  <1>10. ASSUME NEW w \in Writers, Relink(w) PROVE Fresh'
    BY <1>10 DEF Relink, tables, history
  <1>11. ASSUME NEW w \in Writers, FindPage(w) PROVE Fresh'
    BY <1>11 DEF FindPage, tables, history, Live
  <1>12. ASSUME NEW w \in Writers, Delete(w) PROVE Fresh'
    <2>1. \A q \in Pages : page[q].life # "unborn" => page'[q].life # "unborn"
      BY <1>12 DEF Delete
    <2>2. \A q \in Pages : page[q].life = "unborn" => page'[q].life = "unborn"
      BY <1>12 DEF Delete
    <2> QED BY <1>12, <2>1, <2>2 DEF Delete, history
  <1>13. ASSUME NEW w \in Writers, FindShare(w) PROVE Fresh'
    BY <1>13 DEF FindShare, tables, history
  <1>14. ASSUME NEW w \in Writers, InsertShare(w) PROVE Fresh'
    BY <1>14 DEF InsertShare, tables, history
  <1>15. ASSUME NEW w \in Writers, ReviveShare(w) PROVE Fresh'
    BY <1>15 DEF ReviveShare, tables, history
  <1>16. ASSUME NEW w \in Writers, FindActive(w) PROVE Fresh'
    BY <1>16 DEF FindActive, tables, history
  <1>17. ASSUME NEW w \in Writers, Revoke(w) PROVE Fresh'
    BY <1>17 DEF Revoke
  <1>18. CASE UNCHANGED vars
    BY <1>18 DEF vars, tables, request, history, Live, Ambient
  <1> QED BY <1>1, <1>2, <1>3, <1>4, <1>5, <1>6, <1>7, <1>8, <1>9, <1>10, <1>11, <1>12, <1>13, <1>14, <1>15, <1>16, <1>17, <1>18 DEF Next, Write, Share

LEMMA FreshInit == Init => Fresh
  BY DEF Init, Fresh

-----------------------------------------------------------------------------
(* The cap *)

LEMMA AmbientFinite ==
  /\ Ambient \in SUBSET Pages /\ IsFiniteSet(Ambient) /\ Cardinality(Ambient) \in Nat
  /\ \A S \in SUBSET Pages : IsFiniteSet(S) /\ Cardinality(S) \in Nat
  <1>1. \A S \in SUBSET Pages : IsFiniteSet(S) /\ Cardinality(S) \in Nat
    BY WikiConstants, FS_Subset, FS_CardinalityType
  <1> QED BY <1>1 DEF Ambient, Live

LEMMA OneMore ==
  ASSUME NEW S \in SUBSET Pages, NEW p \in Pages,
         Cardinality(S) <= MaxAmbient, p \in S \/ Cardinality(S) < MaxAmbient
  PROVE  Cardinality(S \cup {p}) <= MaxAmbient
  BY AmbientFinite, FS_AddElement, WikiConstants

LEMMA Fewer ==
  ASSUME NEW S \in SUBSET Pages, NEW T \in SUBSET S
  PROVE  Cardinality(T) <= Cardinality(S)
  BY AmbientFinite, FS_Subset

LEMMA RoomInit == Init => Room
  <1> SUFFICES ASSUME Init PROVE Room
    OBVIOUS
  <1>1. Ambient = {}
    BY DEF Init, Ambient, Live
  <1> QED BY <1>1, FS_EmptySet, WikiConstants DEF Init, Room, AmbientCap

LEMMA RoomNext == Types /\ Asks /\ Room /\ [Next]_vars => Room'
  <1> SUFFICES ASSUME Types, Asks, Room, [Next]_vars PROVE Room'
    OBVIOUS
  <1> USE WikiConstants DEF Types, Asks, Room, AmbientCap, Goto, Finish, Asked, Scopes
  <1>1. ASSUME NEW w \in Writers, Request(w) PROVE Room'
    <2>1. Ambient' = Ambient /\ raced' = raced
      BY <1>1 DEF Request, Ambient, Live, tables, history
    <2> QED BY <1>1, <2>1 DEF Request
  <1>2. ASSUME NEW w \in Writers, CountForCreate(w) PROVE Room'
    <2>1. Ambient' = Ambient /\ raced' = raced
      BY <1>2 DEF CountForCreate, Ambient, Live, tables, history
    <2> QED BY <1>2, <2>1, AmbientFinite DEF CountForCreate
  <1>3. ASSUME NEW w \in Writers, Insert(w) PROVE Room'
    <2>1. /\ req[w].scope = "AMBIENT" => Ambient' = Ambient \cup {req[w].page}
          /\ req[w].scope # "AMBIENT" => Ambient' \subseteq Ambient
      BY <1>3 DEF Insert, Ambient, Live, Bodies
    <2>2. CASE req[w].scope = "AMBIENT" /\ ~raced'
      <3>1. Cardinality(Ambient) < MaxAmbient
        BY <1>3, <2>2 DEF Insert
      <3>2. Cardinality(Ambient') <= MaxAmbient
        BY <1>3, <2>1, <2>2, <3>1, AmbientFinite, OneMore DEF Insert
      <3> QED BY <1>3, <3>2 DEF Insert
    <2>3. CASE req[w].scope # "AMBIENT" \/ raced'
      <3>1. ~raced' => Ambient' \subseteq Ambient /\ ~raced
        BY <1>3, <2>1, <2>3 DEF Insert
      <3>2. AmbientCap'
        BY <3>1, AmbientFinite, Fewer
      <3> QED BY <1>3, <3>2 DEF Insert
    <2> QED BY <2>2, <2>3
  <1>4. ASSUME NEW w \in Writers, ReadPage(w) PROVE Room'
    <2>1. Ambient' = Ambient /\ raced' = raced
      BY <1>4 DEF ReadPage, Ambient, Live, tables, history
    <2> QED BY <1>4, <2>1 DEF ReadPage, Live
  <1>5. ASSUME NEW w \in Writers, CountForPromotion(w) PROVE Room'
    <2>1. Ambient' = Ambient /\ raced' = raced
      BY <1>5 DEF CountForPromotion, Ambient, Live, tables, history
    <2> QED BY <1>5, <2>1, AmbientFinite DEF CountForPromotion
  <1>6. ASSUME NEW w \in Writers, Raise(w) PROVE Room'
    <2>1. CASE req[w].page \notin Live
      BY <1>6, <2>1 DEF Raise, Ambient, Live
    <2>2. CASE req[w].page \in Live
      <3>1. Ambient' = Ambient \cup {req[w].page}
        BY <1>6, <2>2 DEF Raise, Ambient, Live, Bodies
      <3>2. ~raced' => req[w].page \in Ambient \/ Cardinality(Ambient) < MaxAmbient
        BY <1>6, <2>2 DEF Raise
      <3>3. ~raced' => Cardinality(Ambient') <= MaxAmbient
        BY <1>6, <2>2, <3>1, <3>2, AmbientFinite, OneMore DEF Raise
      <3> QED BY <1>6, <2>2, <3>3 DEF Raise
    <2> QED BY <2>1, <2>2
  <1>7. ASSUME NEW w \in Writers, WriteUpdate(w) PROVE Room'
    <2>1. CASE req[w].page \notin Live
      BY <1>7, <2>1 DEF WriteUpdate, Ambient, Live
    <2>2. CASE req[w].page \in Live
      <3>1. ~raced' => Ambient' \subseteq Ambient
        <4>1. ~raced' /\ req[w].scope = "AMBIENT" => req[w].page \in Ambient
          BY <1>7, <2>2 DEF WriteUpdate
        <4>2. \A q \in Ambient' : q \in Pages /\ page'[q].life = "live" /\ page'[q].scope = "AMBIENT"
          BY DEF Ambient, Live
        <4>3. \A q \in Pages : q # req[w].page => page'[q] = page[q]
          BY <1>7, <2>2, UpdateBody
        <4>4. page'[req[w].page].scope = "AMBIENT" => page[req[w].page].scope = "AMBIENT" \/ req[w].scope = "AMBIENT"
          BY <1>7, <2>2, UpdateBody
        <4> QED BY <2>2, <4>1, <4>2, <4>3, <4>4 DEF Ambient, Live
      <3>2. ~raced' => Cardinality(Ambient') <= MaxAmbient
        <4>1. ~raced' => ~raced
          BY <1>7, <2>2 DEF WriteUpdate
        <4> QED BY <3>1, <4>1, AmbientFinite, Fewer
      <3>3. /\ at' = [at EXCEPT ![w] = IF req[w].says = None THEN "done" ELSE "resolve"] /\ req' = req
            /\ \A v \in Writers : v # w => seen'[v] = seen[v]
        BY <1>7, <2>2 DEF WriteUpdate
      <3> QED BY <3>2, <3>3
    <2> QED BY <2>1, <2>2
  <1>8. ASSUME NEW w \in Writers, Resolve(w) PROVE Room'
    <2>1. Ambient' = Ambient /\ raced' = raced
      BY <1>8 DEF Resolve, Ambient, Live, tables, history
    <2> QED BY <1>8, <2>1 DEF Resolve
  <1>9. ASSUME NEW w \in Writers, Compare(w) PROVE Room'
    <2>1. Ambient' = Ambient /\ raced' = raced
      BY <1>9 DEF Compare, Ambient, Live, tables, history
    <2> QED BY <1>9, <2>1 DEF Compare
  <1>10. ASSUME NEW w \in Writers, Relink(w) PROVE Room'
    <2>1. Ambient' = Ambient /\ raced' = raced
      BY <1>10 DEF Relink, Ambient, Live
    <2>2. AmbientCap'
      BY <2>1
    <2>3. req' = req /\ at' = [at EXCEPT ![w] = "done"] /\ \A v \in Writers : v # w => seen'[v] = seen[v]
      BY <1>10 DEF Relink
    <2> QED BY <2>2, <2>3
  <1>11. ASSUME NEW w \in Writers, FindPage(w) PROVE Room'
    <2>1. Ambient' = Ambient /\ raced' = raced
      BY <1>11 DEF FindPage, Ambient, Live, tables, history
    <2> QED BY <1>11, <2>1 DEF FindPage
  <1>12. ASSUME NEW w \in Writers, Delete(w) PROVE Room'
    <2>1. Ambient' \subseteq Ambient /\ raced' = raced
      BY <1>12 DEF Delete, Ambient, Live, history
    <2>2. ~raced' => Cardinality(Ambient') <= MaxAmbient
      BY <2>1, AmbientFinite, Fewer
    <2> QED BY <1>12, <2>2 DEF Delete
  <1>13. ASSUME NEW w \in Writers, FindShare(w) PROVE Room'
    <2>1. Ambient' = Ambient /\ raced' = raced
      BY <1>13 DEF FindShare, Ambient, Live, tables, history
    <2> QED BY <1>13, <2>1 DEF FindShare
  <1>14. ASSUME NEW w \in Writers, InsertShare(w) PROVE Room'
    <2>1. Ambient' = Ambient /\ raced' = raced
      BY <1>14 DEF InsertShare, Ambient, Live, tables, history
    <2> QED BY <1>14, <2>1 DEF InsertShare
  <1>15. ASSUME NEW w \in Writers, ReviveShare(w) PROVE Room'
    <2>1. Ambient' = Ambient /\ raced' = raced
      BY <1>15 DEF ReviveShare, Ambient, Live, tables, history
    <2> QED BY <1>15, <2>1 DEF ReviveShare
  <1>16. ASSUME NEW w \in Writers, FindActive(w) PROVE Room'
    <2>1. Ambient' = Ambient /\ raced' = raced
      BY <1>16 DEF FindActive, Ambient, Live, tables, history
    <2> QED BY <1>16, <2>1 DEF FindActive
  <1>17. ASSUME NEW w \in Writers, Revoke(w) PROVE Room'
    <2>1. Ambient' = Ambient /\ raced' = raced
      BY <1>17 DEF Revoke, Ambient, Live
    <2>2. AmbientCap'
      BY <2>1
    <2>3. req' = req /\ at' = [at EXCEPT ![w] = "done"] /\ \A v \in Writers : v # w => seen'[v] = seen[v]
      BY <1>17 DEF Revoke
    <2> QED BY <2>2, <2>3
  <1>18. CASE UNCHANGED vars
    BY <1>18 DEF vars, tables, request, history, Live, Ambient
  <1> QED BY <1>1, <1>2, <1>3, <1>4, <1>5, <1>6, <1>7, <1>8, <1>9, <1>10, <1>11, <1>12, <1>13, <1>14, <1>15, <1>16, <1>17, <1>18 DEF Next, Write, Share

-----------------------------------------------------------------------------
(* The links *)

LinkInv == Rebuild /\ LinksFollowContent

Steps == {"resolve", "compare", "relink"}

LEMMA LinksInit == Init => LinkInv
  BY DEF Init, LinkInv, Rebuild, LinksFollowContent, Rebuilding, Linked, Live

\* Steps that touch neither content nor links nor anybody who rebuilds them
QuietLinks ==
  /\ UNCHANGED <<links, known, contested>>
  /\ \A p \in Pages : page'[p].life = page[p].life /\ page'[p].says = page[p].says
  /\ \A v \in Writers : at[v] \in Steps \/ at'[v] \in Steps =>
       at'[v] = at[v] /\ req'[v] = req[v] /\ seen'[v] = seen[v]

LEMMA LinksKept ==
  ASSUME LinkInv, QuietLinks
  PROVE  LinkInv'
  <1> USE DEF LinkInv, QuietLinks, Steps
  <1>1. Live' = Live
    BY DEF Live
  <1>2. \A p \in Pages : Rebuilding(p)' = Rebuilding(p) /\ Linked(p)' = Linked(p)
    BY DEF Rebuilding, Linked
  <1>3. \A p \in Pages : \A w \in Rebuilding(p) :
          at'[w] = at[w] /\ req'[w] = req[w] /\ seen'[w] = seen[w] /\ req[w].page = p
    BY DEF Rebuilding
  <1>4. Rebuild'
    BY <1>1, <1>2, <1>3 DEF Rebuild, Fits, Rebuilt
  <1>5. LinksFollowContent'
    BY <1>1, <1>2 DEF LinksFollowContent, Live
  <1> QED BY <1>4, <1>5

\* New content waits for its links
LEMMA LinksWait ==
  ASSUME Types, Fresh, LinkInv, NEW w \in Writers, NEW p \in Pages,
         req[w].page = p, req[w].says \in SUBSET Pages, at[w] \notin Steps,
         page[p].life \in {"live", "unborn"},
         page'[p].life = "live", page'[p].says = req[w].says,
         \A q \in Pages \ {p} : page'[q].life = page[q].life /\ page'[q].says = page[q].says,
         NewContent(p, req[w].says),
         at' = [at EXCEPT ![w] = "resolve"], UNCHANGED <<req, links>>,
         \A v \in Writers \ {w} : seen'[v] = seen[v]
  PROVE  LinkInv'
  <1> USE DEF Types, LinkInv, Steps
  <1>1. Live' = Live \cup {p}
    BY DEF Live
  <1>2. \A q \in Pages \ {p} : known'[q] = known[q] /\ known[q] \cap Live' = known[q] \cap Live
    BY <1>1 DEF NewContent, Fresh, Live
  <1>3. \A q \in Pages : Linked(q)' = Linked(q)
    BY DEF Linked
  <1>4. \A q \in Pages \ {p} : Rebuilding(q)' = Rebuilding(q) /\ (q \in contested' <=> q \in contested)
    BY DEF Rebuilding, NewContent
  <1>5. Rebuilding(p)' = Rebuilding(p) \cup {w}
    BY DEF Rebuilding
  <1>6. p \notin contested' => Rebuilding(p) = {}
    BY DEF NewContent
  <1>7. known'[p] \subseteq req[w].says
    BY DEF NewContent
  <1>8. \A q \in Pages : \A v \in Rebuilding(q) : v # w /\ req'[v] = req[v] /\ at'[v] = at[v] /\ seen'[v] = seen[v] /\ req[v].page = q
    BY DEF Rebuilding
  <1>9. Rebuild'
    <2> SUFFICES ASSUME NEW q \in Pages, q \notin contested', NEW v \in Rebuilding(q)'
                 PROVE  (\A u \in Rebuilding(q)' : u = v) /\ (q \in Live' => Fits(q, v)')
      BY DEF Rebuild
    <2>1. CASE q = p
      BY <1>5, <1>6, <1>7, <2>1 DEF Fits
    <2>2. CASE q # p
      <3>1. q \notin contested /\ v \in Rebuilding(q) /\ v # w /\ Rebuilding(q)' = Rebuilding(q)
        BY <1>4, <1>8, <2>2
      <3>2. Rebuilt(v)' = Rebuilt(v)
        BY <1>3, <1>8, <3>1, ZenonT(30) DEF Rebuilt
      <3>3. q \in Live' => q \in Live
        BY <1>1, <2>2
      <3>4. (\A u \in Rebuilding(q) : u = v) /\ (q \in Live => Fits(q, v))
        BY <3>1 DEF Rebuild
      <3>5. Fits(q, v) => Fits(q, v)'
        <4> SUFFICES ASSUME Fits(q, v) PROVE Fits(q, v)'
          OBVIOUS
        <4>1. /\ page'[q].says = page[q].says /\ known'[q] = known[q] /\ known'[q] \cap Live' = known[q] \cap Live
              /\ at'[v] = at[v] /\ seen'[v] = seen[v] /\ req' = req
          BY <1>2, <1>8, <2>2, <3>1
        <4> QED BY <3>2, <4>1 DEF Fits
      <3> QED BY <3>1, <3>3, <3>4, <3>5
    <2> QED BY <2>1, <2>2
  <1>10. LinksFollowContent'
    <2> SUFFICES ASSUME NEW q \in Live', q \notin contested', Rebuilding(q)' = {}
                 PROVE  known'[q] \cap Live' \subseteq Linked(q)' /\ Linked(q)' \subseteq page'[q].says
      BY DEF LinksFollowContent
    <2>1. q \in Pages /\ q # p /\ q \in Live
      BY <1>1, <1>5 DEF Live
    <2>2. q \notin contested /\ Rebuilding(q) = {}
      BY <1>4, <2>1
    <2>3. known[q] \cap Live \subseteq Linked(q) /\ Linked(q) \subseteq page[q].says
      BY <2>1, <2>2 DEF LinksFollowContent
    <2> QED BY <1>2, <1>3, <2>1, <2>3
  <1> QED BY <1>9, <1>10

LEMMA LinksNext == Types /\ Asks /\ Fresh /\ LinkInv /\ [Next]_vars => LinkInv'
  <1> SUFFICES ASSUME Types, Asks, Fresh, LinkInv, [Next]_vars PROVE LinkInv'
    OBVIOUS
  <1> USE DEF Types, Asks, Goto, Finish, Asked, Steps
  <1>1. ASSUME NEW w \in Writers, Request(w) PROVE LinkInv'
    <2>1. QuietLinks
      BY <1>1 DEF Request, QuietLinks, tables, history
    <2> QED BY <2>1, LinksKept
  <1>2. ASSUME NEW w \in Writers, CountForCreate(w) PROVE LinkInv'
    <2>1. QuietLinks
      BY <1>2 DEF CountForCreate, QuietLinks, tables, history
    <2> QED BY <2>1, LinksKept
  <1>3. ASSUME NEW w \in Writers, Insert(w) PROVE LinkInv'
    <2>1. req[w].page \in Pages /\ req[w].says \in SUBSET Pages /\ page[req[w].page].life = "unborn"
      BY <1>3 DEF Insert, Fresh
    <2> QED BY <1>3, <2>1, LinksWait DEF Insert
  <1>4. ASSUME NEW w \in Writers, ReadPage(w) PROVE LinkInv'
    <2>1. QuietLinks
      BY <1>4 DEF ReadPage, QuietLinks, tables, history
    <2> QED BY <2>1, LinksKept
  <1>5. ASSUME NEW w \in Writers, CountForPromotion(w) PROVE LinkInv'
    <2>1. QuietLinks
      BY <1>5 DEF CountForPromotion, QuietLinks, tables, history
    <2> QED BY <2>1, LinksKept
  <1>6. ASSUME NEW w \in Writers, Raise(w) PROVE LinkInv'
    <2>1. QuietLinks
      BY <1>6, SMTT(30) DEF Raise, QuietLinks, tables, history, Bodies
    <2> QED BY <2>1, LinksKept
  <1>7. ASSUME NEW w \in Writers, WriteUpdate(w) PROVE LinkInv'
    <2>1. CASE req[w].page \notin Live
      <3>1. QuietLinks
        BY <1>7, <2>1 DEF WriteUpdate, QuietLinks
      <3> QED BY <3>1, LinksKept
    <2>2. CASE req[w].page \in Live /\ req[w].says = None
      <3>1. QuietLinks
        BY <1>7, <2>2, UpdateBody DEF WriteUpdate, QuietLinks, Live
      <3> QED BY <3>1, LinksKept
    <2>3. CASE req[w].page \in Live /\ req[w].says # None
      <3>1. req[w].page \in Pages /\ req[w].says \in SUBSET Pages /\ page[req[w].page].life = "live"
        BY <1>7, <2>3 DEF WriteUpdate, Live
      <3>2. /\ page'[req[w].page].life = "live" /\ page'[req[w].page].says = req[w].says
            /\ \A q \in Pages \ {req[w].page} : page'[q].life = page[q].life /\ page'[q].says = page[q].says
        BY <1>7, <2>3, UpdateBody
      <3> QED BY <1>7, <2>3, <3>1, <3>2, LinksWait DEF WriteUpdate
    <2> QED BY <2>1, <2>2, <2>3
  <1>8. ASSUME NEW w \in Writers, Resolve(w) PROVE LinkInv'
    <2> DEFINE p == req[w].page
    <2>1. p \in Pages /\ w \in Rebuilding(p) /\ UNCHANGED <<page, known, req>>
      BY <1>8 DEF Resolve, Rebuilding, tables, history
    <2>2. /\ Live' = Live /\ contested' = contested
          /\ \A q \in Pages : Linked(q)' = Linked(q) /\ Rebuilding(q)' = Rebuilding(q)
      BY <1>8 DEF Resolve, Live, Linked, Rebuilding, tables, history
    <2>3. /\ at' = [at EXCEPT ![w] = "compare"]
          /\ seen' = [seen EXCEPT ![w] = req[w].says \cap Live]
      BY <1>8 DEF Resolve
    <2>4. \A q \in Pages : \A v \in Rebuilding(q) : v # w => /\ at'[v] = at[v] /\ seen'[v] = seen[v] /\ Rebuilt(v)' = Rebuilt(v)
      BY <2>1, <2>2, <2>3 DEF Rebuilding, Rebuilt
    <2>5. Rebuild'
      <3> SUFFICES ASSUME NEW q \in Pages, q \notin contested, NEW v \in Rebuilding(q)
                   PROVE  (\A u \in Rebuilding(q) : u = v) /\ (q \in Live => Fits(q, v)')
        BY <2>2 DEF Rebuild
      <3>0. (\A u \in Rebuilding(q) : u = v) /\ (q \in Live => Fits(q, v))
        BY DEF LinkInv, Rebuild
      <3>1. CASE v # w
        <4>1. Fits(q, v) => Fits(q, v)'
          BY <2>1, <2>2, <2>4, <3>1 DEF Fits
        <4> QED BY <3>0, <4>1
      <3>2. CASE v = w
        <4>1. q = p
          BY <3>2 DEF Rebuilding
        <4>2. seen'[w] = req[w].says \cap Live
          BY <2>3
        <4>3. Fits(q, v) => Fits(q, v)'
          BY <2>1, <2>2, <2>3, <3>2, <4>1, <4>2 DEF Fits
        <4> QED BY <3>0, <4>3
      <3> QED BY <3>1, <3>2
    <2>6. LinksFollowContent'
      BY <2>1, <2>2 DEF LinkInv, LinksFollowContent, Live
    <2> QED BY <2>5, <2>6 DEF LinkInv
  <1>9. ASSUME NEW w \in Writers, Compare(w) PROVE LinkInv'
    <2> DEFINE p == req[w].page
    <2>1. p \in Pages /\ w \in Rebuilding(p) /\ UNCHANGED <<page, known, req>>
      BY <1>9 DEF Compare, Rebuilding, tables, history
    <2>2. /\ Live' = Live /\ contested' = contested
          /\ \A q \in Pages : Linked(q)' = Linked(q) /\ Rebuilding(q)' = Rebuilding(q)
      BY <1>9 DEF Compare, Live, Linked, Rebuilding, tables, history
    <2>3. /\ at' = [at EXCEPT ![w] = "relink"]
          /\ seen' = [seen EXCEPT ![w] = [add |-> seen[w] \ Linked(p), remove |-> Linked(p) \ seen[w]]]
      BY <1>9 DEF Compare
    <2>4. \A q \in Pages : \A v \in Rebuilding(q) : v # w => /\ at'[v] = at[v] /\ seen'[v] = seen[v] /\ Rebuilt(v)' = Rebuilt(v)
      BY <2>1, <2>2, <2>3 DEF Rebuilding, Rebuilt
    <2>5. Rebuild'
      <3> SUFFICES ASSUME NEW q \in Pages, q \notin contested, NEW v \in Rebuilding(q)
                   PROVE  (\A u \in Rebuilding(q) : u = v) /\ (q \in Live => Fits(q, v)')
        BY <2>2 DEF Rebuild
      <3>0. (\A u \in Rebuilding(q) : u = v) /\ (q \in Live => Fits(q, v))
        BY DEF LinkInv, Rebuild
      <3>1. CASE v # w
        <4>1. Fits(q, v) => Fits(q, v)'
          BY <2>1, <2>2, <2>4, <3>1 DEF Fits
        <4> QED BY <3>0, <4>1
      <3>2. CASE v = w
        <4>1. q = p
          BY <3>2 DEF Rebuilding
        <4>2. Rebuilt(w)' = seen[w] /\ at[w] = "compare"
          BY <1>9, <2>1, <2>2, <2>3 DEF Rebuilt, Compare
        <4>3. Fits(q, v) => Fits(q, v)'
          BY <2>1, <2>2, <2>3, <3>2, <4>1, <4>2 DEF Fits
        <4> QED BY <3>0, <4>3
      <3> QED BY <3>1, <3>2
    <2>6. LinksFollowContent'
      BY <2>1, <2>2 DEF LinkInv, LinksFollowContent, Live
    <2> QED BY <2>5, <2>6 DEF LinkInv
  <1>10. ASSUME NEW w \in Writers, Relink(w) PROVE LinkInv'
    <2> DEFINE p == req[w].page
    <2>1. p \in Pages /\ w \in Rebuilding(p) /\ UNCHANGED <<page, known, req>> /\ at[w] = "relink"
      BY <1>10 DEF Relink, Rebuilding
    <2>2. Live' = Live /\ contested \subseteq contested' /\ contested' \subseteq contested \cup {p}
      BY <1>10 DEF Relink, Live
    <2>3. /\ at' = [at EXCEPT ![w] = "done"]
          /\ \A v \in Writers \ {w} : seen'[v] = seen[v]
      BY <1>10 DEF Relink
    <2>4. \A q \in Pages : Rebuilding(q)' = Rebuilding(q) \ {w}
      BY <2>1, <2>3 DEF Rebuilding
    <2>5. \A q \in Pages \ {p} : Linked(q)' = Linked(q)
      BY <1>10 DEF Relink, Linked
    <2>8. p \notin contested => Rebuilding(p) = {w} /\ (p \in Live => Fits(p, w) /\ Rebuilt(w) \subseteq req[w].says)
      <3>1. p \notin contested => (\A v \in Rebuilding(p) : v = w) /\ (p \in Live => Fits(p, w))
        BY <2>1 DEF LinkInv, Rebuild
      <3> QED BY <2>1, <3>1 DEF Fits
    <2>6. p \notin contested' /\ p \in Live => Linked(p)' = Rebuilt(w)
      <3>1. p \notin contested' /\ p \in Live =>
              links' = (links \ {<<p, q>> : q \in seen[w].remove}) \cup {<<p, q>> : q \in seen[w].add}
        BY <1>10 DEF Relink
      <3>2. p \notin contested' /\ p \in Live => seen[w].add \subseteq Pages
        BY <2>1, <2>2, <2>8 DEF Fits, Rebuilt
      <3>3. ASSUME p \notin contested', p \in Live, NEW t \in Pages
            PROVE  <<p, t>> \in links' <=> (<<p, t>> \in links /\ t \notin seen[w].remove) \/ t \in seen[w].add
        BY <3>1, <3>3
      <3>4. ASSUME p \notin contested', p \in Live PROVE Linked(p)' = Rebuilt(w)
        <4>1. Linked(p)' = {t \in Pages : <<p, t>> \in links'}
          BY <2>1 DEF Linked
        <4>2. Rebuilt(w) = {t \in Pages : <<p, t>> \in links /\ t \notin seen[w].remove} \cup seen[w].add
          BY DEF Linked, Rebuilt
        <4>3. \A t \in Pages : <<p, t>> \in links' <=> (<<p, t>> \in links /\ t \notin seen[w].remove) \/ t \in seen[w].add
          BY <3>3, <3>4
        <4>4. seen[w].add \subseteq Pages
          BY <3>2, <3>4
        <4> HIDE DEF p
        <4> QED BY <4>1, <4>2, <4>3, <4>4
      <3> QED BY <3>4
    <2>7. \A q \in Pages \ {p} : \A v \in Rebuilding(q) \ {w} :
            req[v].page = q /\ at'[v] = at[v] /\ seen'[v] = seen[v] /\ Rebuilt(v)' = Rebuilt(v)
      BY <2>1, <2>3, <2>5 DEF Rebuilding, Rebuilt
    <2>9. Rebuild'
      <3> SUFFICES ASSUME NEW q \in Pages, q \notin contested', NEW v \in Rebuilding(q)'
                   PROVE  (\A u \in Rebuilding(q)' : u = v) /\ (q \in Live' => Fits(q, v)')
        BY DEF Rebuild
      <3>1. q \notin contested /\ v \in Rebuilding(q) /\ v # w /\ q # p
        BY <2>2, <2>4, <2>8
      <3>2. (\A u \in Rebuilding(q) : u = v) /\ (q \in Live => Fits(q, v))
        BY <3>1 DEF LinkInv, Rebuild
      <3>3. Fits(q, v) => Fits(q, v)'
        <4> SUFFICES ASSUME Fits(q, v) PROVE Fits(q, v)'
          OBVIOUS
        <4>1. /\ page' = page /\ known' = known /\ req' = req /\ Live' = Live
              /\ at'[v] = at[v] /\ seen'[v] = seen[v] /\ Rebuilt(v)' = Rebuilt(v)
          BY <2>1, <2>2, <2>7, <3>1
        <4> QED BY <4>1 DEF Fits
      <3> QED BY <2>2, <2>4, <3>2, <3>3
    <2>10. LinksFollowContent'
      <3> SUFFICES ASSUME NEW q \in Live, q \notin contested', Rebuilding(q)' = {}
                   PROVE  known[q] \cap Live \subseteq Linked(q)' /\ Linked(q)' \subseteq page[q].says
        BY <2>1, <2>2 DEF LinksFollowContent
      <3>1. CASE q = p
        BY <2>1, <2>2, <2>6, <2>8, <3>1 DEF Fits
      <3>2. CASE q # p
        <4>1. q \in Pages /\ Rebuilding(q) = {}
          BY <2>1, <2>4, <3>2 DEF Rebuilding, Live
        <4> QED BY <2>2, <2>5, <3>2, <4>1 DEF LinkInv, LinksFollowContent
      <3> QED BY <3>1, <3>2
    <2> QED BY <2>9, <2>10 DEF LinkInv
  <1>11. ASSUME NEW w \in Writers, FindPage(w) PROVE LinkInv'
    <2>1. QuietLinks
      BY <1>11 DEF FindPage, QuietLinks, tables, history
    <2> QED BY <2>1, LinksKept
  <1>12. ASSUME NEW w \in Writers, Delete(w) PROVE LinkInv'
    <2> DEFINE p == req[w].page
    <2>1. p \in Pages /\ UNCHANGED <<known, req, contested>> /\ at[w] = "delete"
      BY <1>12 DEF Delete, history
    <2>2. /\ Live' = Live \ {p}
          /\ \A q \in Pages \ {p} : page'[q] = page[q]
      BY <1>12 DEF Delete, Live, Bodies
    <2>3. at' = [at EXCEPT ![w] = "done"] /\ \A v \in Writers \ {w} : seen'[v] = seen[v]
      BY <1>12 DEF Delete
    <2>4. \A q \in Pages : Rebuilding(q)' = Rebuilding(q)
      BY <2>1, <2>3 DEF Rebuilding
    <2>5. \A q \in Pages \ {p} : Linked(q)' = Linked(q) \ {p}
      BY <1>12 DEF Delete, Linked
    <2>6. \A q \in Pages \ {p} : \A v \in Rebuilding(q) :
            v # w /\ req[v].page = q /\ at'[v] = at[v] /\ seen'[v] = seen[v]
      BY <2>1, <2>3 DEF Rebuilding
    <2>7. \A q \in Pages \ {p} : \A v \in Rebuilding(q) : Rebuilt(v)' \subseteq Rebuilt(v) /\ Rebuilt(v) \ {p} \subseteq Rebuilt(v)'
      <3> SUFFICES ASSUME NEW q \in Pages \ {p}, NEW v \in Rebuilding(q)
                   PROVE  Rebuilt(v)' \subseteq Rebuilt(v) /\ Rebuilt(v) \ {p} \subseteq Rebuilt(v)'
        OBVIOUS
      <3>1. req'[v] = req[v] /\ req[v].page = q /\ seen'[v] = seen[v] /\ Linked(q)' = Linked(q) \ {p}
        BY <2>1, <2>5, <2>6
      <3>2. Rebuilt(v) = (Linked(q) \ seen[v].remove) \cup seen[v].add
        BY <3>1 DEF Rebuilt
      <3>3. Rebuilt(v)' = (Linked(q)' \ seen[v].remove) \cup seen[v].add
        BY <3>1 DEF Rebuilt
      <3> QED BY <3>1, <3>2, <3>3
    <2>8. Rebuild'
      <3> SUFFICES ASSUME NEW q \in Pages, q \notin contested, NEW v \in Rebuilding(q)
                   PROVE  (\A u \in Rebuilding(q) : u = v) /\ (q \in Live' => Fits(q, v)')
        BY <2>1, <2>4 DEF Rebuild
      <3>1. q \in Live' => q # p /\ q \in Live
        BY <2>2
      <3>2. (\A u \in Rebuilding(q) : u = v) /\ (q \in Live => Fits(q, v))
        BY DEF LinkInv, Rebuild
      <3>3. q # p /\ Fits(q, v) => Fits(q, v)'
        <4> SUFFICES ASSUME q # p, Fits(q, v) PROVE Fits(q, v)'
          OBVIOUS
        <4>1. /\ page'[q] = page[q] /\ at'[v] = at[v] /\ seen'[v] = seen[v] /\ req' = req /\ known' = known
              /\ Rebuilt(v)' \subseteq Rebuilt(v) /\ Rebuilt(v) \ {p} \subseteq Rebuilt(v)'
          BY <2>1, <2>2, <2>6, <2>7
        <4> QED BY <2>2, <4>1 DEF Fits
      <3> QED BY <3>1, <3>2, <3>3
    <2>9. LinksFollowContent'
      BY <2>1, <2>2, <2>4, <2>5 DEF LinkInv, LinksFollowContent, Live
    <2> QED BY <2>8, <2>9 DEF LinkInv
  <1>13. ASSUME NEW w \in Writers, FindShare(w) PROVE LinkInv'
    <2>1. QuietLinks
      BY <1>13 DEF FindShare, QuietLinks, tables, history
    <2> QED BY <2>1, LinksKept
  <1>14. ASSUME NEW w \in Writers, InsertShare(w) PROVE LinkInv'
    <2>1. QuietLinks
      BY <1>14 DEF InsertShare, QuietLinks, tables, history
    <2> QED BY <2>1, LinksKept
  <1>15. ASSUME NEW w \in Writers, ReviveShare(w) PROVE LinkInv'
    <2>1. QuietLinks
      BY <1>15 DEF ReviveShare, QuietLinks, tables, history
    <2> QED BY <2>1, LinksKept
  <1>16. ASSUME NEW w \in Writers, FindActive(w) PROVE LinkInv'
    <2>1. QuietLinks
      BY <1>16 DEF FindActive, QuietLinks, tables, history
    <2> QED BY <2>1, LinksKept
  <1>17. ASSUME NEW w \in Writers, Revoke(w) PROVE LinkInv'
    <2>1. QuietLinks
      BY <1>17 DEF Revoke, QuietLinks, tables, history
    <2> QED BY <2>1, LinksKept
  <1>18. CASE UNCHANGED vars
    <2>1. QuietLinks
      BY <1>18 DEF vars, tables, request, history, QuietLinks
    <2> QED BY <2>1, LinksKept
  <1> QED BY <1>1, <1>2, <1>3, <1>4, <1>5, <1>6, <1>7, <1>8, <1>9, <1>10, <1>11, <1>12, <1>13, <1>14, <1>15, <1>16, <1>17, <1>18 DEF Next, Write, Share
-----------------------------------------------------------------------------
(* Sharing *)

ShareInv ==
  /\ Shared /\ Sharers /\ UnsharedIsHidden
  /\ \A s \in unshared : s = <<s[1], s[2]>>

LEMMA ShareInit == Init => ShareInv
  BY DEF Init, ShareInv, Shared, Sharers, Shares, UnsharedIsHidden

\* Steps that add no row and bring nobody closer to one
QuietShares ==
  /\ UNCHANGED <<unshared, doubled>> /\ shares' \subseteq shares
  /\ \A v \in Writers :
       /\ at[v] # "idle" => at'[v] # "idle" /\ req'[v] = req[v]
       /\ at'[v] # "idle" => at[v] # "idle"
       /\ at[v] = "done" => at'[v] = "done"
       /\ at'[v] = "insertShare" => at[v] = "insertShare"
       /\ at'[v] \in {"reviveShare", "revoke"} => at[v] = at'[v] /\ seen'[v] = seen[v]

LEMMA SharesKept ==
  ASSUME ShareInv, QuietShares
  PROVE  ShareInv'
  <1> USE DEF ShareInv, QuietShares
  <1>1. \A v \in Writers : Shares(v)' => Shares(v) /\ req'[v] = req[v]
    BY DEF Shares
  <1>2. Shared'
    <2>1. \A w \in Writers : at'[w] \in {"reviveShare", "revoke"} => RowOf(w, seen[w])' /\ seen'[w] = seen[w]
      BY DEF Shared, RowOf
    <2> QED BY <2>1 DEF Shared
  <1>3. Sharers'
    BY <1>1 DEF Sharers
  <1>4. UnsharedIsHidden'
    BY DEF UnsharedIsHidden, Active
  <1> QED BY <1>2, <1>3, <1>4

\* A change of one request's row changes nothing but whether it is active
LEMMA UpdateRows ==
  ASSUME Shared, NEW w \in Writers, NEW b \in BOOLEAN
  PROVE  Update(seen[w], b) = {[page |-> r.page, target |-> r.target, by |-> r.by,
                          active |-> IF r.by = seen[w].by THEN b ELSE r.active] : r \in shares}
  <1> DEFINE New(r) == [page |-> r.page, target |-> r.target, by |-> r.by,
                        active |-> IF r.by = seen[w].by THEN b ELSE r.active]
             Old(r) == IF r.by = seen[w].by THEN [r EXCEPT !.active = b] ELSE r
  <1>1. \A r \in shares : Old(r) = New(r)
    BY DEF Shared
  <1>2. Update(seen[w], b) = {Old(r) : r \in shares}
    BY DEF Update
  <1> HIDE DEF Old, New
  <1>3. Update(seen[w], b) = {New(r) : r \in shares}
    BY <1>1, <1>2
  <1> QED BY <1>3 DEF New

\* The rows keep to their rules when a request changes one of them
LEMMA SharedUpdated ==
  ASSUME Shared, NEW w \in Writers, NEW b \in BOOLEAN, shares' = Update(seen[w], b),
         at[w] \notin {"idle", "done"}, at' = [at EXCEPT ![w] = "done"], at = [v \in Writers |-> at[v]],
         UNCHANGED <<req, doubled>>, \A v \in Writers \ {w} : seen'[v] = seen[v]
  PROVE  Shared'
  <1> DEFINE New(r) == [page |-> r.page, target |-> r.target, by |-> r.by,
                        active |-> IF r.by = seen[w].by THEN b ELSE r.active]
  <1>1. shares' = {New(r) : r \in shares}
    BY UpdateRows
  <1>2. \A r \in shares : /\ New(r).page = r.page /\ New(r).target = r.target /\ New(r).by = r.by
                          /\ New(r) = [page |-> New(r).page, target |-> New(r).target, by |-> New(r).by,
                                       active |-> New(r).active]
    OBVIOUS
  <1>3. \A v \in Writers : at[v] = "done" => at'[v] = "done"
    OBVIOUS
  <1> HIDE DEF New
  <1>4. \A r \in shares' : /\ r.by \in Writers /\ at'[r.by] = "done"
                           /\ r.page = req'[r.by].page /\ r.target = req'[r.by].target
                           /\ r = [page |-> r.page, target |-> r.target, by |-> r.by, active |-> r.active]
    BY <1>1, <1>2, <1>3 DEF Shared
  <1>5. \A r, t \in shares' : r.by = t.by => r = t
    BY <1>1, <1>2 DEF Shared
  <1>6. \A r, t \in shares' : r.page = t.page /\ r.target = t.target => r = t \/ <<r.page, r.target>> \in doubled'
    BY <1>1, <1>2 DEF Shared
  <1>7. \A v \in Writers : at'[v] \in {"reviveShare", "revoke"} => RowOf(v, seen[v])' /\ seen'[v] = seen[v]
    BY <1>3 DEF Shared, RowOf
  <1> QED BY <1>4, <1>5, <1>6, <1>7 DEF Shared

LEMMA ShareNext == Types /\ Asks /\ ShareInv /\ [Next]_vars => ShareInv'
  <1> SUFFICES ASSUME Types, Asks, ShareInv, [Next]_vars PROVE ShareInv'
    OBVIOUS
  <1> USE DEF Types, Asks, Goto, Finish, Asked
  <1>1. ASSUME NEW w \in Writers, Request(w) PROVE ShareInv'
    <2> PICK r \in Requests :
          /\ req' = [req EXCEPT ![w] = r] /\ at' = [at EXCEPT ![w] = "start"]
          /\ IF r.do = "share"
             THEN /\ unshared' = unshared \ {<<r.page, r.target>>}
                  /\ doubled' = IF Sharing(r.page, r.target) = {} THEN doubled
                                ELSE doubled \cup {<<r.page, r.target>>}
             ELSE UNCHANGED <<unshared, doubled>>
      BY <1>1 DEF Request
    <2>1. at[w] = "idle" /\ UNCHANGED <<shares, seen>>
      BY <1>1 DEF Request, tables
    <2>2. at'[w] = "start" /\ req'[w] = r /\ \A v \in Writers \ {w} : at'[v] = at[v] /\ req'[v] = req[v]
      OBVIOUS
    <2>3. doubled \subseteq doubled' /\ unshared' \subseteq unshared
      OBVIOUS
    <2>4. Shared'
      <3>1. \A v \in Writers : at'[v] \in {"reviveShare", "revoke"} => RowOf(v, seen[v])'
        BY <2>1, <2>2 DEF ShareInv, Shared, RowOf
      <3>2. \A t \in shares : t.by \in Writers /\ t.by # w /\ at'[t.by] = "done" /\ req'[t.by] = req[t.by]
        BY <2>1, <2>2 DEF ShareInv, Shared
      <3> QED BY <2>1, <2>3, <3>1, <3>2 DEF ShareInv, Shared
    <2>5. \A v \in Writers \ {w} : Shares(v)' => Shares(v) /\ req'[v] = req[v]
      BY <2>2 DEF Shares
    <2>6. Shares(w)' => /\ <<r.page, r.target>> \notin unshared'
                        /\ \A v \in Writers \ {w} : Shares(v) /\ req[v].page = r.page /\ req[v].target = r.target
                                                    => <<r.page, r.target>> \in doubled'
      BY <2>2 DEF Shares, Sharing
    <2>7. Sharers'
      <3>1. \A v \in Writers : Shares(v)' => <<req'[v].page, req'[v].target>> \notin unshared'
        BY <2>2, <2>3, <2>5, <2>6 DEF ShareInv, Sharers
      <3>2. \A u, v \in Writers :
              /\ Shares(u)' /\ Shares(v)' /\ req'[u].page = req'[v].page /\ req'[u].target = req'[v].target
              => u = v \/ <<req'[v].page, req'[v].target>> \in doubled'
        BY <2>2, <2>3, <2>5, <2>6 DEF ShareInv, Sharers
      <3>3. \A v \in Writers : at'[v] = "insertShare" =>
              \/ <<req'[v].page, req'[v].target>> \in doubled'
              \/ \A t \in shares' : t.page # req'[v].page \/ t.target # req'[v].target
        BY <2>1, <2>2, <2>3 DEF ShareInv, Sharers
      <3> QED BY <3>1, <3>2, <3>3 DEF Sharers
    <2>8. UnsharedIsHidden' /\ \A t \in unshared' : t = <<t[1], t[2]>>
      BY <2>1, <2>3 DEF ShareInv, UnsharedIsHidden, Active
    <2> QED BY <2>4, <2>7, <2>8 DEF ShareInv
  <1>2. ASSUME NEW w \in Writers, CountForCreate(w) PROVE ShareInv'
    <2>1. QuietShares
      BY <1>2 DEF CountForCreate, QuietShares, tables, history
    <2> QED BY <2>1, SharesKept
  <1>3. ASSUME NEW w \in Writers, Insert(w) PROVE ShareInv'
    <2>1. QuietShares
      BY <1>3 DEF Insert, QuietShares, tables, history
    <2> QED BY <2>1, SharesKept
  <1>4. ASSUME NEW w \in Writers, ReadPage(w) PROVE ShareInv'
    <2>1. QuietShares
      BY <1>4 DEF ReadPage, QuietShares, tables, history
    <2> QED BY <2>1, SharesKept
  <1>5. ASSUME NEW w \in Writers, CountForPromotion(w) PROVE ShareInv'
    <2>1. QuietShares
      BY <1>5 DEF CountForPromotion, QuietShares, tables, history
    <2> QED BY <2>1, SharesKept
  <1>6. ASSUME NEW w \in Writers, Raise(w) PROVE ShareInv'
    <2>1. QuietShares
      BY <1>6 DEF Raise, QuietShares, tables, history
    <2> QED BY <2>1, SharesKept
  <1>7. ASSUME NEW w \in Writers, WriteUpdate(w) PROVE ShareInv'
    <2>1. QuietShares
      <3>1. UNCHANGED <<unshared, doubled, shares, req>>
        BY <1>7 DEF WriteUpdate
      <3>2. Finish(w) \/ Goto(w, "resolve", None)
        BY <1>7 DEF WriteUpdate
      <3>3. at[w] = "write"
        BY <1>7 DEF WriteUpdate
      <3> QED BY <3>1, <3>2, <3>3 DEF QuietShares
    <2> QED BY <2>1, SharesKept
  <1>8. ASSUME NEW w \in Writers, Resolve(w) PROVE ShareInv'
    <2>1. QuietShares
      BY <1>8 DEF Resolve, QuietShares, tables, history
    <2> QED BY <2>1, SharesKept
  <1>9. ASSUME NEW w \in Writers, Compare(w) PROVE ShareInv'
    <2>1. QuietShares
      BY <1>9 DEF Compare, QuietShares, tables, history
    <2> QED BY <2>1, SharesKept
  <1>10. ASSUME NEW w \in Writers, Relink(w) PROVE ShareInv'
    <2>1. QuietShares
      BY <1>10 DEF Relink, QuietShares, tables, history
    <2> QED BY <2>1, SharesKept
  <1>11. ASSUME NEW w \in Writers, FindPage(w) PROVE ShareInv'
    <2>1. QuietShares
      BY <1>11 DEF FindPage, QuietShares, tables, history
    <2> QED BY <2>1, SharesKept
  <1>12. ASSUME NEW w \in Writers, Delete(w) PROVE ShareInv'
    <2>1. QuietShares
      BY <1>12 DEF Delete, QuietShares, tables, history
    <2> QED BY <2>1, SharesKept
  <1>13. ASSUME NEW w \in Writers, FindShare(w) PROVE ShareInv'
    <2> DEFINE found == {t \in shares : t.page = req[w].page /\ t.target = req[w].target}
    <2>1. at[w] = "share" /\ req[w].do = "share" /\ UNCHANGED <<shares, unshared, doubled, req>>
      BY <1>13 DEF FindShare, tables, history
    <2>2. /\ at' = [at EXCEPT ![w] = at'[w]] /\ \A v \in Writers \ {w} : at'[v] = at[v] /\ seen'[v] = seen[v]
          /\ \/ at'[w] = "insertShare" /\ found = {}
             \/ at'[w] = "done"
             \/ at'[w] = "reviveShare" /\ seen'[w] \in found
      BY <1>13 DEF FindShare
    <2>3. \A v \in Writers : at[v] = "done" => at'[v] = "done"
      BY <2>1, <2>2
    <2>4. Shared'
      <3>1. \A v \in Writers \ {w} : at'[v] \in {"reviveShare", "revoke"} => RowOf(v, seen[v])'
        BY <2>1, <2>2, <2>3 DEF ShareInv, Shared, RowOf
      <3>2. at'[w] \in {"reviveShare", "revoke"} => RowOf(w, seen[w])'
        BY <2>1, <2>2, <2>3 DEF ShareInv, Shared, RowOf
      <3> QED BY <2>1, <2>3, <3>1, <3>2 DEF ShareInv, Shared
    <2>5. \A v \in Writers : Shares(v)' => Shares(v)
      BY <2>1, <2>2 DEF Shares
    <2>6. Sharers'
      <3>1. \A v \in Writers : at'[v] = "insertShare" =>
              \/ <<req[v].page, req[v].target>> \in doubled
              \/ \A r \in shares : r.page # req[v].page \/ r.target # req[v].target
        BY <2>2 DEF ShareInv, Sharers
      <3> QED BY <2>1, <2>5, <3>1 DEF ShareInv, Sharers
    <2>7. UnsharedIsHidden'
      BY <2>1 DEF ShareInv, UnsharedIsHidden, Active
    <2> QED BY <2>1, <2>4, <2>6, <2>7 DEF ShareInv
  <1>14. ASSUME NEW w \in Writers, InsertShare(w) PROVE ShareInv'
    <2> DEFINE p == req[w].page
               t == req[w].target
               row == [page |-> p, target |-> t, by |-> w, active |-> TRUE]
    <2>1. at[w] = "insertShare" /\ req[w].do = "share" /\ UNCHANGED <<unshared, doubled, req>>
      BY <1>14 DEF InsertShare, history
    <2>2. at' = [at EXCEPT ![w] = "done"] /\ \A v \in Writers \ {w} : seen'[v] = seen[v]
      BY <1>14 DEF InsertShare
    <2>3. \A v \in Writers : at[v] = "done" => at'[v] = "done"
      BY <2>2
    <2>4. shares' \subseteq shares \cup {row}
      BY <1>14 DEF InsertShare
    <2>5. row.page = p /\ row.target = t /\ row.by = w
      OBVIOUS
    <2>6. \A r \in shares : r.by # w
      BY <2>1 DEF ShareInv, Shared
    <2>7. <<p, t>> \in doubled \/ \A r \in shares : r.page # p \/ r.target # t
      BY <2>1 DEF ShareInv, Sharers
    <2>8. Shares(w) /\ <<p, t>> \notin unshared
      BY <2>1 DEF ShareInv, Sharers, Shares
    <2>9. Shared'
      <3>1. \A r \in shares' : /\ r.by \in Writers /\ at'[r.by] = "done"
                               /\ r.page = req'[r.by].page /\ r.target = req'[r.by].target
                               /\ r = [page |-> r.page, target |-> r.target, by |-> r.by, active |-> r.active]
        BY <2>1, <2>2, <2>3, <2>4 DEF ShareInv, Shared
      <3> HIDE DEF row, p, t
      <3>2. \A r, u \in shares' : r.by = u.by => r = u
        BY <2>4, <2>5, <2>6 DEF ShareInv, Shared
      <3>3. \A r, u \in shares' : r.page = u.page /\ r.target = u.target => r = u \/ <<r.page, r.target>> \in doubled'
        BY <2>1, <2>4, <2>5, <2>7 DEF ShareInv, Shared
      <3>4. \A v \in Writers : at'[v] \in {"reviveShare", "revoke"} => RowOf(v, seen[v])' /\ seen'[v] = seen[v]
        BY <2>1, <2>2, <2>3 DEF ShareInv, Shared, RowOf
      <3> QED BY <3>1, <3>2, <3>3, <3>4 DEF Shared
    <2>10. \A v \in Writers : Shares(v)' => Shares(v)
      BY <2>1, <2>2 DEF Shares
    <2>11. Sharers'
      <3>1. \A v \in Writers : at'[v] = "insertShare" =>
              \/ <<req[v].page, req[v].target>> \in doubled
              \/ \A r \in shares' : r.page # req[v].page \/ r.target # req[v].target
        <4> SUFFICES ASSUME NEW v \in Writers, at'[v] = "insertShare",
                            <<req[v].page, req[v].target>> \notin doubled, NEW r \in shares'
                     PROVE  r.page # req[v].page \/ r.target # req[v].target
          OBVIOUS
        <4>1. v # w /\ at[v] = "insertShare" /\ Shares(v)
          BY <2>2 DEF Shares
        <4>2. req[v].page # p \/ req[v].target # t
          BY <2>8, <4>1 DEF ShareInv, Sharers
        <4>3. r \in shares => r.page # req[v].page \/ r.target # req[v].target
          BY <4>1 DEF ShareInv, Sharers
        <4> QED BY <2>4, <2>5, <4>2, <4>3
      <3> QED BY <2>1, <2>10, <3>1 DEF ShareInv, Sharers
    <2>12. UnsharedIsHidden'
      <3> SUFFICES ASSUME NEW u \in unshared, u \notin doubled, NEW r \in shares', r.page = u[1], r.target = u[2], r.active
                   PROVE  FALSE
        BY <2>1 DEF UnsharedIsHidden, Active
      <3>1. r # row
        BY <2>8 DEF ShareInv
      <3> QED BY <2>4, <3>1 DEF ShareInv, UnsharedIsHidden, Active
    <2> QED BY <2>1, <2>9, <2>11, <2>12 DEF ShareInv
  <1>15. ASSUME NEW w \in Writers, ReviveShare(w) PROVE ShareInv'
    <2> DEFINE pair == <<req[w].page, req[w].target>>
               New(r) == [page |-> r.page, target |-> r.target, by |-> r.by,
                          active |-> IF r.by = seen[w].by THEN TRUE ELSE r.active]
    <2>1. /\ at[w] = "reviveShare" /\ req[w].do = "share" /\ UNCHANGED <<unshared, doubled, req>>
          /\ shares' = Update(seen[w], TRUE)
      BY <1>15 DEF ReviveShare, history
    <2>2. at' = [at EXCEPT ![w] = "done"] /\ \A v \in Writers \ {w} : seen'[v] = seen[v]
      BY <1>15 DEF ReviveShare
    <2>3. Shared'
      BY <2>1, <2>2, SharedUpdated DEF ShareInv
    <2>4. shares' = {New(r) : r \in shares}
      <3>1. Update(seen[w], TRUE) = {New(r) : r \in shares}
        BY UpdateRows DEF ShareInv
      <3> QED BY <2>1, <3>1
    <2>5. \A r \in shares : New(r).page = r.page /\ New(r).target = r.target /\ New(r).by = r.by
      OBVIOUS
    <2>6. \A r \in shares : New(r).active => IF r.by = seen[w].by THEN TRUE ELSE r.active
      OBVIOUS
    <2>7. \A r \in shares : r.by = seen[w].by => <<r.page, r.target>> = pair
      <3>1. RowOf(w, seen[w])
        BY <2>1 DEF ShareInv, Shared
      <3>2. \A r \in shares : r.page = req[r.by].page /\ r.target = req[r.by].target
        BY DEF ShareInv, Shared
      <3> QED BY <3>1, <3>2 DEF RowOf
    <2> HIDE DEF New
    <2>8. \A v \in Writers : Shares(v)' => Shares(v)
      BY <2>1, <2>2 DEF Shares
    <2>9. \A v \in Writers : at'[v] = "insertShare" =>
            \/ <<req[v].page, req[v].target>> \in doubled
            \/ \A r \in shares' : r.page # req[v].page \/ r.target # req[v].target
      BY <2>2, <2>4, <2>5 DEF ShareInv, Sharers
    <2>10. pair \notin unshared
      BY <2>1 DEF ShareInv, Sharers, Shares
    <2>11. Sharers'
      BY <2>1, <2>8, <2>9 DEF ShareInv, Sharers
    <2>12. UnsharedIsHidden'
      <3> SUFFICES ASSUME NEW u \in unshared, u \notin doubled, NEW n \in shares',
                          n.page = u[1], n.target = u[2], n.active
                   PROVE  FALSE
        BY <2>1 DEF UnsharedIsHidden, Active
      <3> PICK r \in shares : n = New(r)
        BY <2>4
      <3>0. r.page = u[1] /\ r.target = u[2] /\ New(r).active
        BY <2>5
      <3>1. u = <<r.page, r.target>>
        BY <3>0 DEF ShareInv
      <3>2. r.by # seen[w].by
        BY <2>7, <2>10, <3>1
      <3>3. r.active
        BY <2>6, <3>0, <3>2
      <3> QED BY <3>0, <3>3 DEF ShareInv, UnsharedIsHidden, Active
    <2> QED BY <2>1, <2>3, <2>11, <2>12 DEF ShareInv
  <1>16. ASSUME NEW w \in Writers, FindActive(w) PROVE ShareInv'
    <2>1. at[w] = "unshare" /\ req[w].do = "unshare" /\ UNCHANGED <<shares, unshared, doubled, req>>
      BY <1>16 DEF FindActive, tables, history
    <2>2. /\ at' = [at EXCEPT ![w] = at'[w]] /\ \A v \in Writers \ {w} : at'[v] = at[v] /\ seen'[v] = seen[v]
          /\ \/ at'[w] = "done"
             \/ at'[w] = "revoke" /\ seen'[w] \in Active(req[w].page, req[w].target)
      BY <1>16 DEF FindActive
    <2>3. \A v \in Writers : at[v] = "done" => at'[v] = "done"
      BY <2>1, <2>2
    <2>4. Shared'
      <3>1. \A v \in Writers \ {w} : at'[v] \in {"reviveShare", "revoke"} => RowOf(v, seen[v])'
        BY <2>1, <2>2, <2>3 DEF ShareInv, Shared, RowOf
      <3>2. at'[w] \in {"reviveShare", "revoke"} => RowOf(w, seen[w])'
        BY <2>1, <2>2, <2>3 DEF ShareInv, Shared, RowOf, Active
      <3> QED BY <2>1, <2>3, <3>1, <3>2 DEF ShareInv, Shared
    <2>5. Sharers'
      BY <2>1, <2>2 DEF ShareInv, Sharers, Shares
    <2>6. UnsharedIsHidden'
      BY <2>1 DEF ShareInv, UnsharedIsHidden, Active
    <2> QED BY <2>1, <2>4, <2>5, <2>6 DEF ShareInv
  <1>17. ASSUME NEW w \in Writers, Revoke(w) PROVE ShareInv'
    <2> DEFINE pair == <<req[w].page, req[w].target>>
               New(r) == [page |-> r.page, target |-> r.target, by |-> r.by,
                          active |-> IF r.by = seen[w].by THEN FALSE ELSE r.active]
    <2>1. /\ at[w] = "revoke" /\ req[w].do = "unshare" /\ UNCHANGED <<doubled, req>>
          /\ shares' = Update(seen[w], FALSE)
      BY <1>17 DEF Revoke, history
    <2>2. at' = [at EXCEPT ![w] = "done"] /\ \A v \in Writers \ {w} : seen'[v] = seen[v]
      BY <1>17 DEF Revoke
    <2>3. Shared'
      BY <2>1, <2>2, SharedUpdated DEF ShareInv
    <2>4. shares' = {New(r) : r \in shares}
      <3>1. Update(seen[w], FALSE) = {New(r) : r \in shares}
        BY UpdateRows DEF ShareInv
      <3> QED BY <2>1, <3>1
    <2>5. \A r \in shares : New(r).page = r.page /\ New(r).target = r.target /\ New(r).by = r.by
      OBVIOUS
    <2>6. \A r \in shares : New(r).active => IF r.by = seen[w].by THEN FALSE ELSE r.active
      OBVIOUS
    <2>7. \A r \in shares : r.by = seen[w].by => <<r.page, r.target>> = pair
      <3>1. RowOf(w, seen[w])
        BY <2>1 DEF ShareInv, Shared
      <3>2. \A r \in shares : r.page = req[r.by].page /\ r.target = req[r.by].target
        BY DEF ShareInv, Shared
      <3> QED BY <3>1, <3>2 DEF RowOf
    <2> HIDE DEF New
    <2>8. \A v \in Writers : Shares(v)' => Shares(v)
      BY <2>1, <2>2 DEF Shares
    <2>9. \A v \in Writers : at'[v] = "insertShare" =>
            \/ <<req[v].page, req[v].target>> \in doubled
            \/ \A r \in shares' : r.page # req[v].page \/ r.target # req[v].target
      BY <2>2, <2>4, <2>5 DEF ShareInv, Sharers
    <2>10. /\ unshared' \subseteq unshared \cup {pair} /\ unshared \subseteq unshared'
           /\ unshared' # unshared => Sharing(req[w].page, req[w].target) = {} /\ seen[w] \in shares
      BY <1>17 DEF Revoke
    <2>11. Sharers'
      <3>1. \A v \in Writers : Shares(v) => <<req[v].page, req[v].target>> \notin unshared'
        <4> SUFFICES ASSUME NEW v \in Writers, Shares(v), <<req[v].page, req[v].target>> \in unshared'
                     PROVE  FALSE
          OBVIOUS
        <4>1. <<req[v].page, req[v].target>> = pair /\ unshared' # unshared
          BY <2>10 DEF ShareInv, Sharers
        <4>2. v \in Sharing(req[w].page, req[w].target)
          BY <4>1 DEF Sharing, Shares
        <4> QED BY <2>10, <4>1, <4>2
      <3> QED BY <2>1, <2>8, <2>9, <3>1 DEF ShareInv, Sharers
    <2>12. UnsharedIsHidden'
      <3> SUFFICES ASSUME NEW u \in unshared', u \notin doubled, NEW n \in shares',
                          n.page = u[1], n.target = u[2], n.active
                   PROVE  FALSE
        BY <2>1 DEF UnsharedIsHidden, Active
      <3> PICK r \in shares : n = New(r)
        BY <2>4
      <3>0. r.page = u[1] /\ r.target = u[2] /\ New(r).active
        BY <2>5
      <3>1. r.by # seen[w].by /\ r.active
        BY <2>6, <3>0
      <3>2. u \notin unshared
        BY <3>0, <3>1 DEF ShareInv, UnsharedIsHidden, Active
      <3>3. u = pair /\ seen[w] \in shares
        BY <2>10, <3>2
      <3>4. <<seen[w].page, seen[w].target>> = pair
        BY <2>7, <3>3
      <3>5. r.page = seen[w].page /\ r.target = seen[w].target /\ <<r.page, r.target>> \notin doubled
        BY <3>0, <3>3, <3>4
      <3> QED BY <3>1, <3>3, <3>5 DEF ShareInv, Shared
    <2>13. \A u \in unshared' : u = <<u[1], u[2]>>
      BY <2>10 DEF ShareInv
    <2> QED BY <2>3, <2>11, <2>12, <2>13 DEF ShareInv
  <1>18. CASE UNCHANGED vars
    <2>1. QuietShares
      BY <1>18 DEF vars, tables, request, history, QuietShares
    <2> QED BY <2>1, SharesKept
  <1> QED BY <1>1, <1>2, <1>3, <1>4, <1>5, <1>6, <1>7, <1>8, <1>9, <1>10, <1>11, <1>12, <1>13, <1>14, <1>15, <1>16, <1>17, <1>18 DEF Next, Write, Share

-----------------------------------------------------------------------------
(* Theorems *)

Inv == Types /\ Asks /\ Fresh /\ Room /\ LinkInv /\ ShareInv

LEMMA WikiInv == Spec => []Inv
  <1>1. Init => Inv
    BY AsksInit, FreshInit, RoomInit, LinksInit, ShareInit DEF Inv
  <1>2. Inv /\ [Next]_vars => Inv'
    BY AsksNext, FreshNext, RoomNext, LinksNext, ShareNext DEF Inv
  <1> QED BY <1>1, <1>2, PTL DEF Spec

\* The ambient pages of an owner stay within policy.maxAmbientPages whatever is
\* created, promoted, demoted and deleted, by any number of requests, as long as
\* no count or scope was out of date when AMBIENT was written (createWithAmbientCap,
\* setScopeWithAmbientCap, updateByOwner).
THEOREM CapHolds == Spec => []AmbientCap
  <1>1. Inv => AmbientCap
    BY DEF Inv, Room
  <1> QED BY <1>1, WikiInv, PTL

\* rebuildForPage leaves the links that the content mentions, for any pages and
\* requests, unless two rebuilds of the page met or one failed.
THEOREM LinksAreRebuilt == Spec => []LinksFollowContent
  <1>1. Inv => LinksFollowContent
    BY DEF Inv, LinkInv
  <1> QED BY <1>1, WikiInv, PTL

\* revokeGroupShare and revokeOrgShare take back all there is by revoking one row,
\* however the requests interleave, unless two requests shared at the same time.
THEOREM UnsharingHides == Spec => []UnsharedIsHidden
  <1>1. Inv => UnsharedIsHidden
    BY DEF Inv, ShareInv
  <1> QED BY <1>1, WikiInv, PTL
=============================================================================
