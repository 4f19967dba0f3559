------------------------------ MODULE WikiPages -----------------------------
(***************************************************************************)
(* The wiki pages of one owner, written by several writers at once: the    *)
(* dashboard in two windows and the wiki tools of the owner's runs         *)
(* (wiki.service, the wiki-page, wiki-link and wiki-share repositories,    *)
(* the tools wiki_write, wiki_delete, wiki_share and wiki_unshare).        *)
(*                                                                         *)
(* A writer serves one request, and each query of it is a step.  The       *)
(* transaction that enforces the cap on ambient pages runs at the default  *)
(* isolation of the database: its count and its write are two steps.       *)
(*                                                                         *)
(* A page is its scope and the pages its content mentions.  Titles do not  *)
(* change, so that a slug names one page for ever.                         *)
(***************************************************************************)
EXTENDS Naturals, FiniteSets

CONSTANTS
  Pages,        \* ids of pages
  Writers,      \* requests, one each
  Targets,      \* groups of the owner, and the organisation
  MaxAmbient,   \* policy.maxAmbientPages
  None

ASSUME WikiConstants ==
  /\ IsFiniteSet(Pages) /\ MaxAmbient \in Nat \ {0}
  /\ None \notin Pages \cup Writers

VARIABLES
  \* the database
  page,         \* id -> [life, scope, says]
  links,        \* WikiLink rows, as pairs of ids
  shares,       \* WikiShare rows: [page, target, by, active]
  \* the requests
  req,          \* writer -> what it was asked for, or None
  at,           \* writer -> its next query
  seen,         \* writer -> what its last query returned, or None
  \* bookkeeping
  known,        \* page -> the pages its content mentioned that existed when it was written
  contested,    \* pages whose last rebuild of the links met another one, or failed
  raced,        \* AMBIENT was written on a count or a scope that was out of date
  unshared,     \* <<page, target>> whose share was taken back and not given since
  doubled       \* <<page, target>> that two requests shared at the same time

tables == <<page, links, shares>>
request == <<req, at, seen>>
history == <<known, contested, raced, unshared, doubled>>
vars == <<tables, request, history>>

Live == {p \in Pages : page[p].life = "live"}
Ambient == {p \in Live : page[p].scope = "AMBIENT"}
Linked(p) == {q \in Pages : <<p, q>> \in links}
Active(p, t) == {r \in shares : r.page = p /\ r.target = t /\ r.active}

\* The next query of w, and what the last one returned.
Goto(w, next, got) == at' = [at EXCEPT ![w] = next] /\ seen' = [seen EXCEPT ![w] = got] /\ UNCHANGED req
Finish(w) == Goto(w, "done", None)
Asked(w, do, next) == at[w] = next /\ req[w].do = do

\* What a writer may be asked for; an update may leave the scope or the content.
Scopes == {"AMBIENT", "ARCHIVED"}
Requests ==
  [do : {"create"}, page : Pages, scope : Scopes, says : SUBSET Pages]
  \cup [do : {"update"}, page : Pages, scope : Scopes \cup {None}, says : {None} \cup SUBSET Pages]
  \cup [do : {"delete"}, page : Pages]
  \cup [do : {"share", "unshare"}, page : Pages, target : Targets]

Init ==
  /\ \E old \in SUBSET Pages :
       page = [p \in Pages |-> [life |-> IF p \in old THEN "live" ELSE "unborn",
                                scope |-> "ARCHIVED", says |-> {}]]
  /\ links = {} /\ shares = {}
  /\ req = [w \in Writers |-> None]
  /\ at = [w \in Writers |-> "idle"] /\ seen = [w \in Writers |-> None]
  /\ known = [p \in Pages |-> {}] /\ contested = {} /\ raced = FALSE
  /\ unshared = {} /\ doubled = {}

\* Requests on their way that share the page with the target.
Sharing(p, t) ==
  {v \in Writers : at[v] \notin {"idle", "done"} /\ req[v].do = "share" /\ req[v].page = p
                   /\ req[v].target = t}

\* A creation makes a new id.
IsNew(p) ==
  /\ page[p].life = "unborn"
  /\ {v \in Writers : at[v] # "idle" /\ req[v].do = "create" /\ req[v].page = p} = {}

Request(w) ==
  /\ at[w] = "idle"
  /\ \E r \in Requests :
       /\ r.do = "create" => IsNew(r.page)
       /\ req' = [req EXCEPT ![w] = r] /\ at' = [at EXCEPT ![w] = "start"]
       /\ IF r.do = "share"
          THEN /\ unshared' = unshared \ {<<r.page, r.target>>}
               /\ doubled' = IF Sharing(r.page, r.target) = {} THEN doubled
                             ELSE doubled \cup {<<r.page, r.target>>}
          ELSE UNCHANGED <<unshared, doubled>>
  /\ UNCHANGED <<tables, seen, known, contested, raced>>

-----------------------------------------------------------------------------
(* Creating and updating a page *)

\* Writers that are between a page's new content and its links.
Rebuilding(p) == {w \in Writers : at[w] \in {"resolve", "compare", "relink"} /\ req[w].page = p}

\* p gets new content; the rebuild of its links is next.
NewContent(p, says) ==
  /\ known' = [known EXCEPT ![p] = says \cap (Live \cup {p})]
  /\ contested' = IF Rebuilding(p) = {} THEN contested \ {p} ELSE contested \cup {p}

\* createWithAmbientCap: the count of the ambient pages, then the row.
CountForCreate(w) ==
  /\ Asked(w, "create", "start")
  /\ IF req[w].scope = "AMBIENT" /\ Cardinality(Ambient) >= MaxAmbient THEN Finish(w)
     ELSE Goto(w, "insert", Cardinality(Ambient))
  /\ UNCHANGED <<tables, history>>

Insert(w) ==
  LET r == req[w] IN
  /\ at[w] = "insert"
  /\ page' = [page EXCEPT ![r.page] = [life |-> "live", scope |-> r.scope, says |-> r.says]]
  /\ NewContent(r.page, r.says)
  /\ raced' = (raced \/ (r.scope = "AMBIENT" /\ seen[w] # Cardinality(Ambient)))
  /\ Goto(w, "resolve", None)
  /\ UNCHANGED <<links, shares, unshared, doubled>>

\* Mutant of ReadPage: the cap is for new pages only.
ReadPage_NoCap(w) ==
  /\ Asked(w, "update", "start")
  /\ IF req[w].page \notin Live THEN Finish(w) ELSE Goto(w, "write", page[req[w].page].scope)
  /\ UNCHANGED <<tables, history>>

\* updatePage: the scope read here decides whether the cap is looked at.
ReadPage(w) ==
  LET r == req[w] IN
  /\ Asked(w, "update", "start")
  /\ IF r.page \notin Live THEN Finish(w)
     ELSE IF r.scope = "AMBIENT" /\ page[r.page].scope # "AMBIENT" THEN Goto(w, "promote", None)
     ELSE Goto(w, "write", page[r.page].scope)
  /\ UNCHANGED <<tables, history>>

\* setScopeWithAmbientCap: the reads, then the write.
CountForPromotion(w) ==
  LET p == req[w].page IN
  /\ at[w] = "promote"
  /\ IF p \notin Live \/ (p \notin Ambient /\ Cardinality(Ambient) >= MaxAmbient) THEN Finish(w)
     ELSE Goto(w, "raise", Ambient)
  /\ UNCHANGED <<tables, history>>

Raise(w) ==
  LET p == req[w].page IN
  /\ at[w] = "raise"
  /\ IF p \notin Live THEN Finish(w) /\ UNCHANGED <<page, raced>>
     ELSE /\ page' = [page EXCEPT ![p].scope = "AMBIENT"]
          /\ raced' = (raced \/ seen[w] # Ambient)
          /\ Goto(w, "write", "AMBIENT")
  /\ UNCHANGED <<links, shares, known, contested, unshared, doubled>>

\* updateByOwner: every field of the request, the scope included.
WriteUpdate(w) ==
  LET r == req[w] IN
  /\ at[w] = "write"
  /\ IF r.page \notin Live THEN Finish(w) /\ UNCHANGED <<page, known, contested, raced>>
     ELSE /\ page' = [page EXCEPT ![r.page].scope = IF r.scope = None THEN @ ELSE r.scope,
                                  ![r.page].says = IF r.says = None THEN @ ELSE r.says]
          /\ raced' = (raced \/ (r.scope = "AMBIENT" /\ seen[w] = "AMBIENT" /\ r.page \notin Ambient))
          /\ IF r.says = None THEN Finish(w) /\ UNCHANGED <<known, contested>>
             ELSE NewContent(r.page, r.says) /\ Goto(w, "resolve", None)
  /\ UNCHANGED <<links, shares, unshared, doubled>>

\* rebuildForPage: the pages the content names, the rows there are, and a
\* transaction that makes the difference.
Resolve(w) ==
  /\ at[w] = "resolve"
  /\ Goto(w, "compare", req[w].says \cap Live)
  /\ UNCHANGED <<tables, history>>

\* Mutant of Compare: the rebuild only adds.
Compare_AddOnly(w) ==
  /\ at[w] = "compare"
  /\ Goto(w, "relink", [add |-> seen[w] \ Linked(req[w].page), remove |-> {}])
  /\ UNCHANGED <<tables, history>>

Compare(w) ==
  LET had == Linked(req[w].page) IN
  /\ at[w] = "compare"
  /\ Goto(w, "relink", [add |-> seen[w] \ had, remove |-> had \ seen[w]])
  /\ UNCHANGED <<tables, history>>

\* A row that exists by now, or a page that does not, fails the transaction.
Relink(w) ==
  LET p == req[w].page
      add == seen[w].add
      ok == add = {} \/ (p \in Live /\ add \subseteq Live \ Linked(p))
  IN
  /\ at[w] = "relink"
  /\ links' = IF ok THEN (links \ {<<p, q>> : q \in seen[w].remove}) \cup {<<p, q>> : q \in add} ELSE links
  /\ contested' = IF ok THEN contested ELSE contested \cup {p}
  /\ Finish(w)
  /\ UNCHANGED <<page, shares, known, raced, unshared, doubled>>

Write(w) ==
  \/ CountForCreate(w) \/ Insert(w)
  \/ ReadPage(w) \/ CountForPromotion(w) \/ Raise(w) \/ WriteUpdate(w)
  \/ Resolve(w) \/ Compare(w) \/ Relink(w)

-----------------------------------------------------------------------------
(* Deleting and sharing *)

\* The first query of the other requests: the page must exist.
FindPage(w) ==
  /\ at[w] = "start" /\ req[w].do \in {"delete", "share", "unshare"}
  /\ IF req[w].page \in Live THEN Goto(w, req[w].do, None) ELSE Finish(w)
  /\ UNCHANGED <<tables, history>>

\* The rows of links and shares go with the page (wiki_delete's second deletion
\* of the links finds none).
Delete(w) ==
  LET p == req[w].page IN
  /\ at[w] = "delete"
  /\ page' = [page EXCEPT ![p] = [life |-> "deleted", scope |-> "ARCHIVED", says |-> {}]]
  /\ links' = {l \in links : l[1] # p /\ l[2] # p}
  /\ shares' = {s \in shares : s.page # p}
  /\ Finish(w)
  /\ UNCHANGED history

\* Mutant of FindShare: a share always gets a row of its own.
FindShare_New(w) ==
  /\ at[w] = "share" /\ Goto(w, "insertShare", None)
  /\ UNCHANGED <<tables, history>>

\* setGroupShare, setOrgShare: a row of the page and the target, revoked or not;
\* findFirst has no order, so that any of them may be the one.
FindShare(w) ==
  LET found == {s \in shares : s.page = req[w].page /\ s.target = req[w].target} IN
  /\ at[w] = "share"
  /\ IF found = {} THEN Goto(w, "insertShare", None)
     ELSE \E s \in found : IF s.active THEN Finish(w) ELSE Goto(w, "reviveShare", s)
  /\ UNCHANGED <<tables, history>>

InsertShare(w) ==
  LET r == req[w] IN
  /\ at[w] = "insertShare"
  /\ shares' = IF r.page \in Live
               THEN shares \cup {[page |-> r.page, target |-> r.target, by |-> w, active |-> TRUE]}
               ELSE shares
  /\ Finish(w)
  /\ UNCHANGED <<page, links, history>>

Update(s, active) == {IF r.by = s.by THEN [r EXCEPT !.active = active] ELSE r : r \in shares}

ReviveShare(w) ==
  /\ at[w] = "reviveShare"
  /\ shares' = Update(seen[w], TRUE)
  /\ Finish(w)
  /\ UNCHANGED <<page, links, history>>

\* revokeGroupShare, revokeOrgShare: the first active row, then its revocation.
FindActive(w) ==
  LET found == Active(req[w].page, req[w].target) IN
  /\ at[w] = "unshare"
  /\ IF found = {} THEN Finish(w) ELSE \E s \in found : Goto(w, "revoke", s)
  /\ UNCHANGED <<tables, history>>

Revoke(w) ==
  LET r == req[w] IN
  /\ at[w] = "revoke"
  /\ shares' = Update(seen[w], FALSE)
  /\ unshared' = IF Sharing(r.page, r.target) = {} /\ seen[w] \in shares
                 THEN unshared \cup {<<r.page, r.target>>} ELSE unshared
  /\ Finish(w)
  /\ UNCHANGED <<page, links, known, contested, raced, doubled>>

Share(w) == FindShare(w) \/ InsertShare(w) \/ ReviveShare(w) \/ FindActive(w) \/ Revoke(w)

-----------------------------------------------------------------------------
Next == \E w \in Writers : Request(w) \/ Write(w) \/ FindPage(w) \/ Delete(w) \/ Share(w)

Spec == Init /\ [][Next]_vars

-----------------------------------------------------------------------------
(* Properties *)

\* The owner's ambient pages stay within the cap, over creations, promotions,
\* demotions and deletions by several writers, unless AMBIENT was written on a
\* count or a scope another writer had changed.
AmbientCap == raced \/ Cardinality(Ambient) <= MaxAmbient

\* Once a page's content is written and its links are rebuilt, the links are what
\* the content mentions, and hold every mentioned page that still exists, unless
\* the rebuild met another one or failed; the next one that does not, repairs.
LinksFollowContent ==
  \A p \in Live \ contested :
    Rebuilding(p) = {} => known[p] \cap Live \subseteq Linked(p) /\ Linked(p) \subseteq page[p].says

\* A share that was taken back stays so until the page is shared again, although
\* a request revokes one row only: a second one comes from two requests at once.
UnsharedIsHidden == \A s \in unshared \ doubled : Active(s[1], s[2]) = {}
=============================================================================
