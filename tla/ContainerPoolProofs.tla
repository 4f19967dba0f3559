------------------------ MODULE ContainerPoolProofs ------------------------
(***************************************************************************)
(* The pool for any number of sessions, runs, slots, faults and restarts:   *)
(* one run of a session at a time, none robbed of its container, and no     *)
(* container left behind, but for those docker fails to stop and those whose*)
(* entry goes in the name of another.                                       *)
(***************************************************************************)
EXTENDS ContainerPool, FiniteSetTheorems, TLAPS

Points == {"new", "waiting", "woken", "locked", "probe", "recycle", "makeroom", "starting",
           "using", "evict", "finish", "stop", "done"}

\* Before docker run: nothing can bear the run's name
Early == {"new", "waiting", "woken", "locked", "probe", "recycle", "makeroom", "starting"}

\* From acquireLock() to the last step that relies on it
Holding == {"locked", "probe", "recycle", "makeroom", "starting", "using", "evict"}

Entries == [container : Primary, status : {"idle", "active"}, ephemeral : BOOLEAN,
            timer : Primary \union {"none"}]

Types ==
    /\ pc \in [Runs -> Points]
    /\ pool \in [DOMAIN pool -> Entries]
    /\ DOMAIN pool \subseteq Sessions
    /\ \A r \in DOMAIN seen : r \in Primary /\ seen[r] \in Entries
    /\ \A r \in Primary : pc[r] = "probe" => r \in DOMAIN seen
    /\ \A r \in DOMAIN timers : r \in Primary /\ timers[r] \in Primary
    /\ health.phase = "probe" => health.session \in Sessions /\ health.container \in Primary

\* Whatever is written about a session names a container of that session
Named ==
    /\ \A s \in DOMAIN pool : SessionOf[pool[s].container] = s
    /\ \A r \in DOMAIN seen : SessionOf[seen[r].container] = SessionOf[r]
    /\ \A r \in DOMAIN timers : SessionOf[timers[r]] = SessionOf[r]
    /\ health.phase = "probe" => SessionOf[health.container] = health.session

\* ... and one that has been started
Born(c) == pc[c] \notin Early
Begun ==
    /\ \A s \in DOMAIN pool : Born(pool[s].container)
    /\ \A r \in DOMAIN seen : Born(seen[r].container)
    /\ \A r \in DOMAIN timers : Born(timers[r])
    /\ health.phase = "probe" => Born(health.container)
    /\ \A c \in (live \union stopping) \intersect Primary : Born(c)

Held ==
    \A r \in Primary : pc[r] \in Holding /\ SessionOf[r] \notin breached =>
        SessionOf[r] \in DOMAIN lock /\ lock[SessionOf[r]] = r

\* What the holder of a lock knows of its session's entry, whoever else acts on the
\* entry: there is none before the start, and none of another container at the probe
Vacant == \A r \in Primary : pc[r] \in {"recycle", "makeroom", "starting"} /\ SessionOf[r] \notin breached =>
             SessionOf[r] \notin DOMAIN pool
Matching == \A r \in Primary : pc[r] = "probe" /\ SessionOf[r] \in DOMAIN pool \ breached =>
             pool[SessionOf[r]].container = seen[r].container

\* ... and what it knows as long as nobody else does
Upset == disturbed \union breached
Using == \A r \in Primary : pc[r] = "using" /\ SessionOf[r] \notin Upset =>
             SessionOf[r] \in DOMAIN pool /\ pool[SessionOf[r]].status = "active"
Probing == \A r \in Primary : pc[r] = "probe" /\ SessionOf[r] \notin Upset => SessionOf[r] \in DOMAIN pool

\* No entry names a container that is being stopped
Unstopped == \A s \in DOMAIN pool \ Upset : pool[s].container \notin stopping

Entered == Vacant /\ Matching /\ Using /\ Probing /\ Unstopped /\ NoContainerLeaks

---------------------------------------------------------------------------
(* What is written about a session *)

Names == Types /\ Named /\ Begun

LEMMA NamesInit == Init => Names
  BY PoolAssumption DEF Init, Names, Types, Named, Begun, Points, Runs

\* Runs that are born stay so, and none begins to probe
Stay ==
    /\ pc' \in [Runs -> Points]
    /\ \A c \in Primary : Born(c) => Born(c)'
    /\ \A c \in Primary : pc'[c] = "probe" => pc[c] = "probe"

LEMMA GotoStays ==
    ASSUME Names, NEW r \in Runs, NEW p \in Points, Goto(r, p),
           r \in Primary => p # "probe" /\ (p \notin Early \/ pc[r] \in Early)
    PROVE  Stay
  BY DEF Names, Types, Stay, Goto, Born, Runs

LEMMA UnlockStays ==
    ASSUME Names, NEW r \in Primary, NEW s, NEW p \in Points \ Early, Unlock(r, s, p)
    PROVE  Stay
  BY DEF Names, Types, Stay, Unlock, Born, Points, Early, Runs

\* Nothing is written, or entries and timers are removed and containers of theirs stopped
LEMMA NamesKept ==
    ASSUME Names, Stay, UNCHANGED <<pool, seen, timers, health, live, stopping>>
    PROVE  Names'
  BY DEF Names, Types, Named, Begun, Stay, Entries

LEMMA NamesRemoved ==
    ASSUME Names, Stay, NEW s, NEW c \in Primary, NEW z, Born(c), StopAndRemove(s, c, z),
           seen' = seen \/ (\E r \in Primary : seen' = Drop(seen, r) /\ pc'[r] # "probe"),
           timers' = timers \/ (\E r : timers' = Drop(timers, r)),
           live' = live,
           health'.phase = "probe" => health' = health
    PROVE  Names'
  <1> USE DEF Names, Types, Named, Begun, Stay, StopAndRemove, Drop, Restrict
  <1>1. Born(c)'
    OBVIOUS
  <1>2. \A t \in DOMAIN pool' : t \in DOMAIN pool /\ pool'[t] = pool[t]
    OBVIOUS
  <1>3. \A r \in DOMAIN seen' : r \in DOMAIN seen /\ seen'[r] = seen[r]
    OBVIOUS
  <1>4. \A r \in DOMAIN timers' : r \in DOMAIN timers /\ timers'[r] = timers[r]
    OBVIOUS
  <1>5. pool' \in [DOMAIN pool' -> Entries]
    OBVIOUS
  <1>6. Types'
    BY <1>2, <1>3, <1>4, <1>5
  <1>7. Named'
    BY <1>2, <1>3, <1>4
  <1>8. Begun'
    BY <1>1, <1>2, <1>3, <1>4 DEF Entries
  <1> QED BY <1>6, <1>7, <1>8

LEMMA Reactivated ==
    ASSUME NEW e \in Entries
    PROVE  /\ [e EXCEPT !.status = "active", !.timer = "none"] \in Entries
           /\ [e EXCEPT !.status = "active", !.timer = "none"].container = e.container
  BY DEF Entries

LEMMA NamesIdle ==
    ASSUME Names, NEW r \in Primary, ReleaseIdle(r)
    PROVE  Names'
  <1> DEFINE s == SessionOf[r]
             c == pool[s].container
  <1>1. s \in DOMAIN pool /\ pool[s] \in Entries /\ c \in Primary /\ Born(c) /\ SessionOf[c] = s
    BY DEF ReleaseIdle, Names, Types, Named, Begun, Entries
  <1>2. Stay
    BY UnlockStays, Zenon DEF ReleaseIdle, Points, Early
  <1>3. /\ DOMAIN pool' = DOMAIN pool
        /\ pool' = [pool EXCEPT ![s].status = "idle", ![s].timer = r]
        /\ DOMAIN timers' = DOMAIN timers \union {r}
        /\ \A t \in DOMAIN timers' : timers'[t] = IF t = r THEN c ELSE timers[t]
        /\ UNCHANGED <<seen, live, stopping, health>>
    BY DEF ReleaseIdle, Put, docker
  <1> HIDE DEF c
  <1>4. \A t \in DOMAIN pool : pool'[t] \in Entries /\ pool'[t].container = pool[t].container
    BY <1>1, <1>3 DEF Names, Types, Entries
  <1>5. pool' \in [DOMAIN pool' -> Entries]
    <2>1. pool' = [t \in DOMAIN pool |-> pool'[t]]
      BY <1>3
    <2> QED BY <1>3, <1>4, <2>1
  <1> HIDE DEF s
  <1>6. Types'
    BY <1>1, <1>2, <1>3, <1>5 DEF Names, Types, Stay
  <1>7. Named'
    BY <1>1, <1>3, <1>4 DEF Names, Named, s
  <1>8. Begun'
    BY <1>1, <1>2, <1>3, <1>4 DEF Names, Types, Begun, Stay, Entries
  <1> QED BY <1>6, <1>7, <1>8 DEF Names

LEMMA NamesFresh ==
    ASSUME Names, NEW r \in Primary, NEW z, pc[r] \in {"locked", "recycle"},
           StartFresh(r, z), UNCHANGED <<live, seen, health>>
    PROVE  Names'
  <1> USE PoolAssumption DEF Names, Types, Named, Begun, Born, Early, Points, Runs
  <1>1. CASE FreshWarm(r, z)
    BY <1>1 DEF FreshWarm, Goto
  <1>2. CASE FreshEvicting(r, z)
    BY <1>2 DEF FreshEvicting, Goto, StopAndRemove, Drop, Restrict, Entries, Oldest, Idle
  <1>3. CASE FreshEphemeral(r, z)
    BY <1>3 DEF FreshEphemeral, Goto
  <1>4. CASE FreshRefused(r, z)
    BY <1>4, UnlockStays, NamesKept DEF FreshRefused
  <1> QED BY <1>1, <1>2, <1>3, <1>4 DEF StartFresh

LEMMA NamesNext == Names /\ [Next]_vars => Names'
  <1> SUFFICES ASSUME Names, [Next]_vars PROVE Names'
    OBVIOUS
  <1> USE PoolAssumption DEF Names, Types, Named, Begun, Born, Early, Points, Runs
  <1>1. ASSUME NEW r \in Primary, Acquire(r) PROVE Names'
    BY <1>1, GotoStays, NamesKept DEF Acquire, TakeLock, entries, docker
  <1>2. ASSUME NEW r \in Primary, ForceLock(r) PROVE Names'
    <2>1. Stay
      BY <1>2 DEF ForceLock, Stay
    <2> QED BY <1>2, <2>1, NamesKept DEF ForceLock, entries, docker
  <1>3. ASSUME NEW r \in Primary, FindNothing(r) PROVE Names'
    BY <1>3, NamesFresh DEF FindNothing
  <1>4. ASSUME NEW r \in Primary, FindEntry(r) PROVE Names'
    BY <1>4 DEF FindEntry, Goto, Put, Drop, Restrict, docker
  <1>5. ASSUME NEW r \in Primary, FindExpired(r) PROVE Names'
    BY <1>5 DEF FindExpired, Recycle, StopAndRemove, Goto, Drop, Restrict
  <1>6. ASSUME NEW r \in Primary, ProbeAlive(r) PROVE Names'
    <2>1. Stay
      BY <1>6, GotoStays DEF ProbeAlive
    <2> DEFINE e == [seen[r] EXCEPT !.status = "active", !.timer = "none"]
    <2>2. pool' = Put(pool, SessionOf[r], e) /\ seen' = Drop(seen, r)
      BY <1>6 DEF ProbeAlive, Enter
    <2>3. UNCHANGED <<timers, health, live, stopping>>
      BY <1>6 DEF ProbeAlive, docker
    <2>4. e \in Entries /\ SessionOf[e.container] = SessionOf[r] /\ Born(e.container)
      BY <1>6, Reactivated, ZenonT(30) DEF ProbeAlive, Entries
    <2>5. /\ DOMAIN pool' = DOMAIN pool \union {SessionOf[r]}
          /\ \A s \in DOMAIN pool' : pool'[s] = IF s = SessionOf[r] THEN e ELSE pool[s]
          /\ pool' = [s \in DOMAIN pool' |-> pool'[s]]
      BY <2>2 DEF Put
    <2>6. \A q \in DOMAIN seen' : q \in DOMAIN seen /\ seen'[q] = seen[q]
      BY <2>2 DEF Drop, Restrict
    <2>7. \A q \in Primary : pc'[q] = "probe" => q \in DOMAIN seen'
      BY <2>1, <2>2, <1>6 DEF ProbeAlive, Goto, Stay, Drop, Restrict
    <2>8. Types'
      BY <2>1, <2>3, <2>4, <2>5, <2>6, <2>7 DEF Stay
    <2>9. Named'
      BY <2>3, <2>4, <2>5, <2>6, ZenonT(30)
    <2>10. Begun'
      <3> HIDE DEF e
      <3>0. e.container \in Primary
        BY <2>4 DEF Entries
      <3>1. \A s \in DOMAIN pool' : pool'[s].container \in Primary /\ Born(pool'[s].container)
        BY <2>4, <2>5, <3>0 DEF Entries
      <3> QED BY <2>1, <2>3, <2>6, <3>1 DEF Stay, Entries
    <2> QED BY <2>8, <2>9, <2>10
  <1>7. ASSUME NEW r \in Primary, ProbeDead(r) PROVE Names'
    <2>1. Stay
      BY <1>7, GotoStays DEF ProbeDead, Recycle
    <2> DEFINE c == IF r \in DOMAIN seen THEN seen[r].container ELSE pool[SessionOf[r]].container
    <2>2. c \in Primary /\ Born(c)
      BY <1>7 DEF ProbeDead, Entries
    <2>3. StopAndRemove(SessionOf[r], c, zero) /\ seen' = Drop(seen, r) /\ pc'[r] # "probe"
      BY <1>7 DEF ProbeDead, Recycle, Goto
    <2> QED BY <1>7, <2>1, <2>2, <2>3, NamesRemoved DEF ProbeDead
  <1>8. ASSUME NEW r \in Primary, Recycled(r) PROVE Names'
    BY <1>8, NamesFresh DEF Recycled
  <1>9. ASSUME NEW r \in Primary, RoomMade(r) PROVE Names'
    BY <1>9 DEF RoomMade, Goto, entries, docker
  <1>10. ASSUME NEW r \in Primary, Started(r) PROVE Names'
    BY <1>10 DEF Started, Enter, Goto, Put, Entries
  <1>11. ASSUME NEW r \in Primary, StartFails(r) PROVE Names'
    BY <1>11, UnlockStays, NamesKept DEF StartFails, entries, docker
  <1>12. ASSUME NEW r \in Primary, EarlyFail(r) PROVE Names'
    BY <1>12 DEF EarlyFail, Goto, entries, docker
  <1>13. ASSUME NEW r \in Primary, Completes(r) PROVE Names'
    BY <1>13 DEF Completes, Goto, entries, docker
  <1>14. ASSUME NEW r \in Primary, Fails(r) PROVE Names'
    <2>1. Stay
      BY <1>14, GotoStays DEF Fails
    <2>2. CASE SessionOf[r] \in DOMAIN pool
      <3>1. pool[SessionOf[r]].container \in Primary /\ Born(pool[SessionOf[r]].container)
        BY <2>2 DEF Entries
      <3> QED BY <1>14, <2>1, <2>2, <3>1, NamesRemoved DEF Fails
    <2>3. CASE SessionOf[r] \notin DOMAIN pool
      BY <1>14, <2>1, <2>3, NamesKept DEF Fails, entries
    <2> QED BY <2>2, <2>3
  <1>15. ASSUME NEW r \in Primary, Evicted(r) PROVE Names'
    BY <1>15, UnlockStays, NamesKept DEF Evicted, entries, docker
  <1>16. ASSUME NEW r \in Primary, ReleaseNothing(r) PROVE Names'
    BY <1>16, UnlockStays, NamesKept DEF ReleaseNothing, entries, docker
  <1>17. ASSUME NEW r \in Primary, ReleaseStops(r) PROVE Names'
    <2>1. Stay
      BY <1>17, UnlockStays DEF ReleaseStops
    <2>2. pool[SessionOf[r]].container \in Primary /\ Born(pool[SessionOf[r]].container)
      BY <1>17 DEF ReleaseStops, Entries
    <2> QED BY <1>17, <2>1, <2>2, NamesRemoved DEF ReleaseStops
  <1>18. ASSUME NEW r \in Primary, ReleaseIdle(r) PROVE Names'
    BY <1>18, NamesIdle
  <1>19. ASSUME NEW r \in Primary, TimerFires(r) PROVE Names'
    BY <1>19 DEF TimerFires, StopAndRemove, Drop, Restrict, runs
  <1>20. CASE \E r \in SubAgents : Admit(r) \/ Subs(r) \/ SubFailsToStart(r)
    <2> PICK r \in SubAgents : Admit(r) \/ Subs(r) \/ SubFailsToStart(r)
      BY <1>20
    <2>1. Stay
      BY GotoStays DEF Admit, Subs, SubStarted, SubEnds, SubStopped, SubFailsToStart
    <2>2. CASE Admit(r) \/ SubStopped(r) \/ SubFailsToStart(r)
      BY <2>1, <2>2, NamesKept DEF Admit, SubStopped, SubFailsToStart, entries, docker
    <2>3. CASE SubStarted(r) \/ SubEnds(r)
      <3>1. UNCHANGED <<pool, seen, timers, health>>
        BY <2>3 DEF SubStarted, SubEnds, entries
      <3>2. (live' \union stopping') \intersect Primary \subseteq live \union stopping
        BY <2>3 DEF SubStarted, SubEnds, entries
      <3> QED BY <2>1, <3>1, <3>2 DEF Stay, Entries
    <2> QED BY <2>2, <2>3 DEF Subs
  <1>21. CASE \E s \in Sessions : HealthExpired(s) \/ HealthProbes(s)
    BY <1>21 DEF HealthExpired, HealthProbes, StopAndRemove, Drop, Restrict, Idle, Entries, runs, entries, docker
  <1>22. CASE Health
    BY <1>22 DEF Health, HealthAlive, HealthDead, HealthMovesOn, StopAndRemove, Drop, Restrict, runs, entries, docker
  <1>23. CASE \E c \in Runs : Stopped(c) \/ StopFails(c) \/ Dies(c)
    BY <1>23 DEF Stopped, StopFails, Dies, runs, entries
  <1>24. CASE Drain
    BY <1>24 DEF Drain, Restrict, runs
  <1>25. CASE DrainUnlocks
    <2>1. Stay
      BY <1>25 DEF DrainUnlocks, Stay
    <2> QED BY <1>25, <2>1, NamesKept DEF DrainUnlocks, entries, docker
  <1>26. CASE Restart
    BY <1>26 DEF Restart
  <1>27. CASE UNCHANGED vars
    BY <1>27 DEF vars, runs, entries, docker
  <1> QED BY <1>1, <1>2, <1>3, <1>4, <1>5, <1>6, <1>7, <1>8, <1>9, <1>10, <1>11, <1>12, <1>13, <1>14, <1>15, <1>16, <1>17, <1>18, <1>19, <1>20, <1>21, <1>22, <1>23, <1>24, <1>25, <1>26, <1>27 DEF Next, Primaries, Release

---------------------------------------------------------------------------
(* The lock *)

\* Whoever takes or releases a lock that is another's is noted
LEMMA HeldInit == Init => Held
  BY PoolAssumption DEF Init, Held, Holding, Runs

LEMMA HeldFresh ==
    ASSUME Types, Held, NEW r \in Primary, NEW z, pc[r] \in Holding, StartFresh(r, z)
    PROVE  Held'
  <1> USE PoolAssumption DEF Types, Held, Holding, Runs, history
  <1>1. CASE FreshWarm(r, z)
    BY <1>1 DEF FreshWarm, Goto
  <1>2. CASE FreshEvicting(r, z)
    BY <1>2 DEF FreshEvicting, Goto, Note
  <1>3. CASE FreshEphemeral(r, z)
    BY <1>3 DEF FreshEphemeral, Goto
  <1>4. CASE FreshRefused(r, z)
    BY <1>4 DEF FreshRefused, Unlock, Drop, Restrict, Breach
  <1> QED BY <1>1, <1>2, <1>3, <1>4 DEF StartFresh

LEMMA HeldNext == Types /\ Held /\ [Next]_vars => Held'
  <1> SUFFICES ASSUME Types, Held, [Next]_vars PROVE Held'
    OBVIOUS
  <1> USE PoolAssumption DEF Types, Held, Holding, Runs, history
  <1>1. ASSUME NEW r \in Primary, Acquire(r) PROVE Held'
    BY <1>1 DEF Acquire, TakeLock, Put, Goto, runs
  <1>2. ASSUME NEW r \in Primary, ForceLock(r) PROVE Held'
    BY <1>2 DEF ForceLock, Put, runs
  <1>3. ASSUME NEW r \in Primary, FindNothing(r) PROVE Held'
    BY <1>3, HeldFresh DEF FindNothing
  <1>4. ASSUME NEW r \in Primary, FindEntry(r) PROVE Held'
    BY <1>4 DEF FindEntry, Goto, runs
  <1>5. ASSUME NEW r \in Primary, FindExpired(r) PROVE Held'
    BY <1>5 DEF FindExpired, Recycle, Goto, Note, runs
  <1>6. ASSUME NEW r \in Primary, ProbeAlive(r) PROVE Held'
    BY <1>6 DEF ProbeAlive, Goto, runs
  <1>7. ASSUME NEW r \in Primary, ProbeDead(r) PROVE Held'
    BY <1>7 DEF ProbeDead, Recycle, Goto, Note, runs
  <1>8. ASSUME NEW r \in Primary, Recycled(r) PROVE Held'
    BY <1>8, HeldFresh DEF Recycled
  <1>9. ASSUME NEW r \in Primary, RoomMade(r) PROVE Held'
    BY <1>9 DEF RoomMade, Goto, runs
  <1>10. ASSUME NEW r \in Primary, Started(r) PROVE Held'
    BY <1>10 DEF Started, Goto, runs
  <1>11. ASSUME NEW r \in Primary, StartFails(r) PROVE Held'
    BY <1>11 DEF StartFails, Unlock, Drop, Restrict, Breach, runs
  <1>12. ASSUME NEW r \in Primary, EarlyFail(r) PROVE Held'
    BY <1>12 DEF EarlyFail, Goto, runs
  <1>13. ASSUME NEW r \in Primary, Completes(r) PROVE Held'
    BY <1>13 DEF Completes, Goto, runs
  <1>14. ASSUME NEW r \in Primary, Fails(r) PROVE Held'
    BY <1>14 DEF Fails, Goto, Note, runs
  <1>15. ASSUME NEW r \in Primary, Evicted(r) PROVE Held'
    BY <1>15 DEF Evicted, Unlock, Drop, Restrict, Breach, runs
  <1>16. ASSUME NEW r \in Primary, Release(r) PROVE Held'
    BY <1>16 DEF Release, ReleaseNothing, ReleaseStops, ReleaseIdle, Unlock, Drop, Restrict, Breach, Note, Trespass, runs
  <1>17. ASSUME NEW r \in Primary, TimerFires(r) PROVE Held'
    BY <1>17 DEF TimerFires, Note, runs
  <1>18. CASE \E r \in SubAgents : Admit(r) \/ Subs(r) \/ SubFailsToStart(r)
    BY <1>18 DEF Admit, Subs, SubStarted, SubEnds, SubStopped, SubFailsToStart, Goto
  <1>19. CASE \E s \in Sessions : HealthExpired(s) \/ HealthProbes(s)
    BY <1>19 DEF HealthExpired, HealthProbes, Note, runs
  <1>20. CASE Health
    BY <1>20 DEF Health, HealthAlive, HealthDead, HealthMovesOn, Note, runs
  <1>21. CASE \E c \in Runs : Stopped(c) \/ StopFails(c) \/ Dies(c)
    BY <1>21 DEF Stopped, StopFails, Dies, runs
  <1>22. CASE Drain
    BY <1>22 DEF Drain, runs
  <1>23. CASE DrainUnlocks
    BY <1>23 DEF DrainUnlocks
  <1>24. CASE Restart
    BY <1>24 DEF Restart
  <1>25. CASE UNCHANGED vars
    BY <1>25 DEF vars, runs
  <1> QED BY <1>1, <1>2, <1>3, <1>4, <1>5, <1>6, <1>7, <1>8, <1>9, <1>10, <1>11, <1>12, <1>13, <1>14, <1>15, <1>16, <1>17, <1>18, <1>19, <1>20, <1>21, <1>22, <1>23, <1>24, <1>25 DEF Next, Primaries

\* The per-session lock serialises the runs of a session, as long as nobody takes
\* or releases it while another holds it (a forced lock, a release() after an error
\* has released it, a shutdown).
THEOREM LockIsExclusive == Spec => []SessionExclusive
  <1> USE PoolAssumption
  <1>1. Types /\ Held => SessionExclusive
    <2> SUFFICES ASSUME Types, Held, NEW s \in Sessions \ breached
                 PROVE  Cardinality(Holders(s)) <= 1
      BY DEF SessionExclusive
    <2>1. \A r \in Holders(s) : lock[s] = r
      BY DEF Holders, Held, Holding
    <2>2. Holders(s) = {} \/ Holders(s) = {lock[s]}
      BY <2>1
    <2>3. Cardinality(Holders(s)) \in {0, 1}
      BY <2>2, FS_EmptySet, FS_Singleton
    <2> QED BY <2>3
  <1>2. Names => Types
    BY DEF Names
  <1> QED BY <1>1, <1>2, NamesInit, NamesNext, HeldInit, HeldNext, PTL DEF Spec

---------------------------------------------------------------------------
(* The entries *)

\* No primary run begins to use or to probe a container in this step, and one that
\* recycles, makes room or starts has no entry
NoNews ==
    /\ \A r \in Primary : pc'[r] \in {"using", "probe"} => pc[r] = pc'[r]
    /\ \A r \in Primary : pc'[r] = "probe" => seen'[r] = seen[r]
    /\ \A r \in Primary : pc'[r] \in {"recycle", "makeroom", "starting"} =>
          pc[r] \in {"recycle", "makeroom", "starting"} \/ SessionOf[r] \notin DOMAIN pool'

LEMMA EnteredInit == Init => Entered
  BY PoolAssumption DEF Init, Entered, Vacant, Matching, Using, Probing, Unstopped, NoContainerLeaks, Runs

\* What has happened stays in the records until a restart
Grows ==
    /\ disturbed \subseteq disturbed' /\ breached \subseteq breached'
    /\ orphaned \subseteq orphaned' /\ left \subseteq left'

LEMMA RecordsGrow == Next => Grows \/ Restart
  <1> SUFFICES ASSUME Next, ~Restart PROVE Grows
    OBVIOUS
  <1> USE DEF Grows, history, StopAndRemove, Unlock, Note, Lose, Breach, Enter
  <1>1. ASSUME NEW r \in Primary, NEW z, StartFresh(r, z), left' = left PROVE Grows
    BY <1>1 DEF StartFresh, FreshWarm, FreshEvicting, FreshEphemeral, FreshRefused
  <1>2. ASSUME NEW r \in Primary, Acquire(r) \/ ForceLock(r) \/ EarlyFail(r) \/ StartFails(r) \/ Fails(r) \/ TimerFires(r)
        PROVE  Grows
    BY <1>2 DEF Acquire, ForceLock, EarlyFail, StartFails, Fails, TimerFires
  <1>3. ASSUME NEW r \in Primary, FindNothing(r) \/ Recycled(r) PROVE Grows
    BY <1>1, <1>3 DEF FindNothing, Recycled
  <1>4. ASSUME NEW r \in Primary, FindEntry(r) \/ FindExpired(r) \/ ProbeAlive(r) \/ ProbeDead(r) PROVE Grows
    BY <1>4 DEF FindEntry, FindExpired, ProbeAlive, ProbeDead, Recycle
  <1>5. ASSUME NEW r \in Primary, RoomMade(r) \/ Started(r) \/ Completes(r) \/ Evicted(r) \/ Release(r) PROVE Grows
    BY <1>5 DEF RoomMade, Started, Completes, Evicted, Release, ReleaseNothing, ReleaseStops, ReleaseIdle
  <1>6. ASSUME NEW r \in SubAgents, Admit(r) \/ Subs(r) \/ SubFailsToStart(r) PROVE Grows
    BY <1>6 DEF Admit, Subs, SubStarted, SubEnds, SubStopped, SubFailsToStart
  <1>7. ASSUME NEW s \in Sessions, HealthExpired(s) \/ HealthProbes(s) PROVE Grows
    BY <1>7 DEF HealthExpired, HealthProbes
  <1>8. CASE Health
    BY <1>8 DEF Health, HealthAlive, HealthDead, HealthMovesOn
  <1>9. ASSUME NEW c \in Runs, Stopped(c) \/ StopFails(c) \/ Dies(c) PROVE Grows
    BY <1>9 DEF Stopped, StopFails, Dies
  <1>10. CASE Drain \/ DrainUnlocks
    BY <1>10 DEF Drain, DrainUnlocks
  <1> QED BY <1>2, <1>3, <1>4, <1>5, <1>6, <1>7, <1>8, <1>9, <1>10 DEF Next, Primaries

LEMMA EnteredKept ==
    ASSUME Entered, NoNews, Grows, UNCHANGED <<pool, live, stopping>>
    PROVE  Entered'
  BY DEF Entered, NoNews, Grows, Upset, Vacant, Matching, Using, Probing, Unstopped, NoContainerLeaks

\* Whoever removes an entry is the only one who relies on it, or is noted
LEMMA EnteredRemoved ==
    ASSUME Names, Held, Entered, NoNews, Grows,
           NEW who, NEW s \in Sessions, NEW c \in Primary, NEW z,
           SessionOf[c] = s, StopAndRemove(s, c, z), Note(who, s, c), live' = live,
           who \in Primary => pc'[who] \notin {"using", "probe"}
    PROVE  Entered'
  <1> USE PoolAssumption DEF NoNews
  <1>1. /\ \A t \in DOMAIN pool' : t # s /\ t \in DOMAIN pool /\ pool'[t] = pool[t]
        /\ \A t \in DOMAIN pool \ {s} : t \in DOMAIN pool'
        /\ stopping' = stopping \union {c}
    BY DEF StopAndRemove, Drop, Restrict
  <1>2. Trespass(who, s, c) => s \in Upset'
    BY DEF Note, Upset
  <1>3. \A r \in Primary : pc'[r] \in {"using", "probe"} /\ SessionOf[r] = s => s \in Upset'
    BY <1>2 DEF Held, Holding, Trespass, Grows, Upset
  <1>4. Using'
    BY <1>1, <1>3 DEF Entered, Using, Names, Types, Grows, Upset
  <1>5. Probing'
    BY <1>1, <1>3 DEF Entered, Probing, Names, Types, Grows, Upset
  <1>6. Vacant' /\ Matching'
    BY <1>1 DEF Entered, Vacant, Matching, Grows
  <1>7. Unstopped'
    BY <1>1 DEF Entered, Unstopped, Names, Named, Grows, Upset
  <1>8. NoContainerLeaks'
    BY <1>1 DEF Entered, NoContainerLeaks, StopAndRemove, Lose, Grows
  <1> QED BY <1>4, <1>5, <1>6, <1>7, <1>8 DEF Entered

LEMMA EnteredFresh ==
    ASSUME Names, Held, Entered, NEW r \in Primary, NEW z,
           pc[r] = "recycle" \/ (pc[r] = "locked" /\ SessionOf[r] \notin DOMAIN pool),
           StartFresh(r, z), UNCHANGED <<live, seen>>, Grows
    PROVE  Entered'
  <1> USE PoolAssumption DEF Names, Types
  <1>1. CASE FreshWarm(r, z)
    <2>1. NoNews
      BY <1>1 DEF FreshWarm, Goto, NoNews, Runs
    <2> QED BY <1>1, <2>1, EnteredKept DEF FreshWarm
  <1>2. CASE FreshEvicting(r, z)
    <2>1. PICK s \in Sessions : /\ Oldest(s)
                               /\ StopAndRemove(s, pool[s].container, z)
                               /\ Note(r, s, pool[s].container)
      BY <1>2 DEF FreshEvicting
    <2>2. pool[s].container \in Primary /\ SessionOf[pool[s].container] = s
      BY <2>1 DEF Oldest, Idle, Entries, Named
    <2>3. NoNews /\ pc'[r] = "makeroom"
      BY <1>2, <2>1 DEF FreshEvicting, Goto, NoNews, StopAndRemove, Drop, Restrict, Runs
    <2> QED BY <2>1, <2>2, <2>3, EnteredRemoved
  <1>3. CASE FreshEphemeral(r, z)
    <2>1. NoNews
      BY <1>3 DEF FreshEphemeral, Goto, NoNews, Runs
    <2> QED BY <1>3, <2>1, EnteredKept DEF FreshEphemeral
  <1>4. CASE FreshRefused(r, z)
    <2>1. NoNews
      BY <1>4 DEF FreshRefused, Unlock, NoNews, Runs
    <2> QED BY <1>4, <2>1, EnteredKept DEF FreshRefused
  <1> QED BY <1>1, <1>2, <1>3, <1>4 DEF StartFresh

LEMMA EnteredStep ==
    ASSUME Names, Held, Entered, Next, Grows
    PROVE  Entered'
  <1> USE PoolAssumption DEF Names, Types, Runs
  <1>1. ASSUME NEW r \in Primary, Acquire(r) PROVE Entered'
    <2>1. NoNews
      BY <1>1 DEF Acquire, NoNews, TakeLock, Goto
    <2> QED BY <1>1, <2>1, EnteredKept DEF Acquire, entries, docker
  <1>2. ASSUME NEW r \in Primary, ForceLock(r) PROVE Entered'
    <2>1. NoNews
      BY <1>2 DEF ForceLock, NoNews, runs
    <2> QED BY <1>2, <2>1, EnteredKept DEF ForceLock, entries, docker
  <1>3. ASSUME NEW r \in Primary, FindNothing(r) PROVE Entered'
    BY <1>3, EnteredFresh DEF FindNothing
  <1>4. ASSUME NEW r \in Primary, FindEntry(r) PROVE Entered'
    BY <1>4 DEF FindEntry, Goto, Put, docker, history, Upset, Entered, Vacant, Matching, Using, Probing, Unstopped,
                NoContainerLeaks
  <1>5. ASSUME NEW r \in Primary, FindExpired(r) PROVE Entered'
    <2> DEFINE c == IF r \in DOMAIN seen THEN seen[r].container ELSE pool[SessionOf[r]].container
    <2>1. c \in Primary /\ SessionOf[c] = SessionOf[r] /\ SessionOf[r] \in Sessions
      BY <1>5 DEF FindExpired, Entries, Named
    <2>2. StopAndRemove(SessionOf[r], c, Recorded(r)) /\ Note(r, SessionOf[r], c) /\ live' = live
      BY <1>5 DEF FindExpired, Recycle
    <2>3. NoNews /\ pc'[r] = "recycle"
      BY <1>5, <2>2 DEF FindExpired, Recycle, Goto, NoNews, StopAndRemove, Drop, Restrict
    <2> QED BY <2>1, <2>2, <2>3, EnteredRemoved
  <1>6. ASSUME NEW r \in Primary, ProbeAlive(r) PROVE Entered'
    <2> DEFINE e == [seen[r] EXCEPT !.status = "active", !.timer = "none"]
    <2>1. /\ pool' = Put(pool, SessionOf[r], e) /\ seen' = Drop(seen, r)
          /\ UNCHANGED <<live, stopping, disturbed, breached, left>>
          /\ IF SessionOf[r] \in breached THEN Lose(SessionOf[r], e.container) ELSE UNCHANGED orphaned
      BY <1>6 DEF ProbeAlive, Enter, docker
    <2>2. e.status = "active" /\ e.container = seen[r].container
      BY <1>6 DEF ProbeAlive, Entries
    <2>3. pc[r] = "probe" /\ pc' = [pc EXCEPT ![r] = "using"]
      BY <1>6 DEF ProbeAlive, Goto
    <2> HIDE DEF e
    <2>4. /\ DOMAIN pool' = DOMAIN pool \union {SessionOf[r]}
          /\ \A s \in DOMAIN pool' : pool'[s] = IF s = SessionOf[r] THEN e ELSE pool[s]
      BY <2>1 DEF Put
    <2>5. \A q \in Primary : SessionOf[q] = SessionOf[r] /\ q # r /\ pc[q] \in Holding => SessionOf[r] \in breached
      BY <2>3 DEF Held, Holding
    <2>6. SessionOf[r] \notin Upset =>
            SessionOf[r] \in DOMAIN pool /\ pool[SessionOf[r]].container = e.container
      BY <2>2, <2>3 DEF Entered, Probing, Matching, Upset
    <2>7. Using' /\ Probing'
      BY <2>1, <2>2, <2>3, <2>4 DEF Entered, Using, Probing, Upset
    <2>8. Matching'
      BY <2>1, <2>3, <2>4, <2>5 DEF Entered, Matching, Drop, Restrict, Holding
    <2>9. Vacant'
      BY <2>1, <2>3, <2>4, <2>5 DEF Entered, Vacant, Holding
    <2>10. Unstopped'
      BY <2>1, <2>4, <2>6 DEF Entered, Unstopped, Upset
    <2>11. NoContainerLeaks'
      <3>1. SessionOf[r] \in DOMAIN pool \ breached => pool[SessionOf[r]].container = e.container
        BY <2>2, <2>3 DEF Entered, Matching
      <3>2. \A c \in Primary : SessionOf[c] = SessionOf[r] /\ SessionOf[r] \in DOMAIN pool
                 /\ pool[SessionOf[r]].container = c => c = e.container \/ c \in orphaned'
        BY <2>1, <3>1 DEF Lose
      <3> QED BY <2>1, <2>4, <3>2 DEF Entered, NoContainerLeaks, Grows
    <2> QED BY <2>7, <2>8, <2>9, <2>10, <2>11 DEF Entered
  <1>7. ASSUME NEW r \in Primary, ProbeDead(r) PROVE Entered'
    <2> DEFINE c == IF r \in DOMAIN seen THEN seen[r].container ELSE pool[SessionOf[r]].container
    <2>1. c \in Primary /\ SessionOf[c] = SessionOf[r] /\ SessionOf[r] \in Sessions
      BY <1>7 DEF ProbeDead, Entries, Named
    <2>2. StopAndRemove(SessionOf[r], c, zero) /\ Note(r, SessionOf[r], c) /\ live' = live
      BY <1>7 DEF ProbeDead, Recycle
    <2>3. NoNews /\ pc'[r] = "recycle"
      BY <1>7, <2>2 DEF ProbeDead, Recycle, Goto, NoNews, StopAndRemove, Drop, Restrict
    <2> QED BY <2>1, <2>2, <2>3, EnteredRemoved
  <1>8. ASSUME NEW r \in Primary, Recycled(r) PROVE Entered'
    BY <1>8, EnteredFresh DEF Recycled
  <1>9. ASSUME NEW r \in Primary, RoomMade(r) PROVE Entered'
    <2>1. NoNews
      BY <1>9 DEF RoomMade, NoNews, Goto
    <2> QED BY <1>9, <2>1, EnteredKept DEF RoomMade, entries, docker
  <1>10. ASSUME NEW r \in Primary, Started(r) PROVE Entered'
    <2> DEFINE e == [container |-> r, status |-> "active", ephemeral |-> r \in overflow, timer |-> "none"]
    <2>1. /\ pool' = Put(pool, SessionOf[r], e) /\ live' = live \union {r}
          /\ UNCHANGED <<seen, stopping, disturbed, breached, left>>
          /\ IF SessionOf[r] \in breached THEN Lose(SessionOf[r], e.container) ELSE UNCHANGED orphaned
      BY <1>10 DEF Started, Enter
    <2>2. e.status = "active" /\ e.container = r
      OBVIOUS
    <2>3. pc[r] = "starting" /\ pc' = [pc EXCEPT ![r] = "using"]
      BY <1>10 DEF Started, Goto
    <2> HIDE DEF e
    <2>4. /\ DOMAIN pool' = DOMAIN pool \union {SessionOf[r]}
          /\ \A s \in DOMAIN pool' : pool'[s] = IF s = SessionOf[r] THEN e ELSE pool[s]
      BY <2>1 DEF Put
    <2>5. \A q \in Primary : SessionOf[q] = SessionOf[r] /\ q # r /\ pc[q] \in Holding => SessionOf[r] \in breached
      BY <2>3 DEF Held, Holding
    <2>6. r \notin stopping
      BY <2>3 DEF Begun, Born, Early
    <2>7. Using' /\ Probing'
      BY <2>1, <2>2, <2>3, <2>4 DEF Entered, Using, Probing, Upset
    <2>8. Matching'
      BY <2>1, <2>3, <2>4, <2>5 DEF Entered, Matching, Holding
    <2>9. Vacant'
      BY <2>1, <2>3, <2>4, <2>5 DEF Entered, Vacant, Holding
    <2>10. Unstopped'
      BY <2>1, <2>2, <2>4, <2>6 DEF Entered, Unstopped, Upset
    <2>11. NoContainerLeaks'
      <3>1. SessionOf[r] \in DOMAIN pool => SessionOf[r] \in breached
        BY <2>3 DEF Entered, Vacant
      <3>2. \A c \in Primary : SessionOf[c] = SessionOf[r] /\ SessionOf[r] \in DOMAIN pool
                 /\ pool[SessionOf[r]].container = c => c = e.container \/ c \in orphaned'
        BY <2>1, <3>1 DEF Lose
      <3> QED BY <2>1, <2>2, <2>4, <3>2 DEF Entered, NoContainerLeaks, Grows
    <2> QED BY <2>7, <2>8, <2>9, <2>10, <2>11 DEF Entered
  <1>11. ASSUME NEW r \in Primary, StartFails(r) PROVE Entered'
    <2>1. NoNews
      BY <1>11 DEF StartFails, NoNews, Unlock
    <2> QED BY <1>11, <2>1, EnteredKept DEF StartFails, entries, docker
  <1>12. ASSUME NEW r \in Primary, EarlyFail(r) PROVE Entered'
    <2>1. NoNews
      BY <1>12 DEF EarlyFail, NoNews, Goto
    <2> QED BY <1>12, <2>1, EnteredKept DEF EarlyFail, entries, docker
  <1>13. ASSUME NEW r \in Primary, Completes(r) PROVE Entered'
    <2>1. NoNews
      BY <1>13 DEF Completes, NoNews, Goto
    <2> QED BY <1>13, <2>1, EnteredKept DEF Completes, entries, docker
  <1>14. ASSUME NEW r \in Primary, Fails(r) PROVE Entered'
    <2>1. CASE SessionOf[r] \in DOMAIN pool
      <3>1. pool[SessionOf[r]].container \in Primary /\ SessionOf[pool[SessionOf[r]].container] = SessionOf[r] /\ SessionOf[r] \in Sessions
        BY <1>14, <2>1 DEF Fails, Entries, Named
      <3>2. StopAndRemove(SessionOf[r], pool[SessionOf[r]].container, zero) /\ Note(r, SessionOf[r], pool[SessionOf[r]].container) /\ live' = live
        BY <1>14, <2>1 DEF Fails
      <3>3. NoNews /\ pc'[r] \notin {"using", "probe"}
        BY <1>14, <2>1, <3>2 DEF Fails, NoNews, StopAndRemove, Drop, Restrict, Goto
      <3> QED BY <3>1, <3>2, <3>3, EnteredRemoved
    <2>2. CASE SessionOf[r] \notin DOMAIN pool
      <3>1. NoNews
        BY <1>14, <2>2 DEF Fails, Goto, NoNews
      <3> QED BY <1>14, <2>2, <3>1, EnteredKept DEF Fails, entries
    <2> QED BY <2>1, <2>2
  <1>15. ASSUME NEW r \in Primary, Evicted(r) PROVE Entered'
    <2>1. NoNews
      BY <1>15 DEF Evicted, NoNews, Unlock
    <2> QED BY <1>15, <2>1, EnteredKept DEF Evicted, entries, docker
  <1>16. ASSUME NEW r \in Primary, ReleaseNothing(r) PROVE Entered'
    <2>1. NoNews
      BY <1>16 DEF ReleaseNothing, NoNews, Unlock
    <2> QED BY <1>16, <2>1, EnteredKept DEF ReleaseNothing, entries, docker
  <1>17. ASSUME NEW r \in Primary, ReleaseStops(r) PROVE Entered'
    <2>1. pool[SessionOf[r]].container \in Primary /\ SessionOf[pool[SessionOf[r]].container] = SessionOf[r] /\ SessionOf[r] \in Sessions
      BY <1>17 DEF ReleaseStops, Entries, Named
    <2>2. StopAndRemove(SessionOf[r], pool[SessionOf[r]].container, zero) /\ Note(r, SessionOf[r], pool[SessionOf[r]].container) /\ live' = live
      BY <1>17 DEF ReleaseStops
    <2>3. NoNews /\ pc'[r] \notin {"using", "probe"}
      BY <1>17, <2>2 DEF ReleaseStops, NoNews, StopAndRemove, Drop, Restrict, Unlock
    <2> QED BY <2>1, <2>2, <2>3, EnteredRemoved
  <1>18. ASSUME NEW r \in Primary, ReleaseIdle(r) PROVE Entered'
    <2>1. /\ UNCHANGED <<live, stopping, seen>>
          /\ SessionOf[r] \in DOMAIN lock /\ lock[SessionOf[r]] # r => SessionOf[r] \in Upset'
      BY <1>18 DEF ReleaseIdle, Note, Trespass, docker, Upset
    <2>2. /\ DOMAIN pool' = DOMAIN pool
          /\ \A s \in DOMAIN pool : pool'[s].container = pool[s].container
          /\ \A s \in DOMAIN pool \ {SessionOf[r]} : pool'[s] = pool[s]
      BY <1>18 DEF ReleaseIdle, Entries
    <2>3. NoNews /\ pc[r] = "finish" /\ pc'[r] = "done"
      BY <1>18, <2>2 DEF ReleaseIdle, NoNews, Unlock
    <2>4. \A q \in Primary : pc'[q] = "using" /\ SessionOf[q] = SessionOf[r] => SessionOf[r] \in Upset'
      BY <2>1, <2>3 DEF NoNews, Held, Holding, Upset, Grows
    <2>5. Using'
      BY <2>1, <2>2, <2>3, <2>4 DEF Entered, Using, NoNews, Upset, Grows
    <2>6. Vacant' /\ Matching' /\ Probing' /\ Unstopped' /\ NoContainerLeaks'
      BY <2>1, <2>2, <2>3 DEF Entered, Vacant, Matching, Probing, Unstopped, NoContainerLeaks, NoNews, Upset, Grows
    <2> QED BY <2>5, <2>6 DEF Entered
  <1>19. ASSUME NEW r \in Primary, TimerFires(r) PROVE Entered'
    <2>1. timers[r] \in Primary /\ SessionOf[timers[r]] = SessionOf[r] /\ SessionOf[r] \in Sessions
      BY <1>19 DEF TimerFires, Entries, Named
    <2>2. StopAndRemove(SessionOf[r], timers[r], zero) /\ Note("none", SessionOf[r], timers[r]) /\ live' = live
      BY <1>19 DEF TimerFires
    <2>3. NoNews
      BY <1>19, <2>2 DEF TimerFires, NoNews, StopAndRemove, Drop, Restrict, runs
    <2> QED BY <2>1, <2>2, <2>3, EnteredRemoved
  <1>20. CASE \E r \in SubAgents : Admit(r) \/ Subs(r) \/ SubFailsToStart(r)
    <2> PICK r \in SubAgents : Admit(r) \/ Subs(r) \/ SubFailsToStart(r)
      BY <1>20
    <2>1. NoNews /\ UNCHANGED <<pool, history>> /\ r \notin Primary
      BY DEF Admit, Subs, SubStarted, SubEnds, SubStopped, SubFailsToStart, Goto, NoNews, entries
    <2>2. /\ live' = live \/ live' = live \union {r}
          /\ stopping' = stopping \/ stopping' = stopping \union {r}
      BY DEF Admit, Subs, SubStarted, SubEnds, SubStopped, SubFailsToStart, docker
    <2> QED BY <2>1, <2>2 DEF NoNews, history, Upset, Entries, Entered, Vacant, Matching, Using, Probing, Unstopped,
                              NoContainerLeaks
  <1>21. ASSUME NEW s \in Sessions, HealthExpired(s) PROVE Entered'
    <2>1. pool[s].container \in Primary /\ SessionOf[pool[s].container] = s /\ s \in Sessions
      BY <1>21 DEF HealthExpired, Entries, Named, Idle
    <2>2. StopAndRemove(s, pool[s].container, zero) /\ Note("none", s, pool[s].container) /\ live' = live
      BY <1>21 DEF HealthExpired
    <2>3. NoNews
      BY <1>21, <2>2 DEF HealthExpired, NoNews, StopAndRemove, Drop, Restrict, runs
    <2> QED BY <2>1, <2>2, <2>3, EnteredRemoved
  <1>22. CASE (\E s \in Sessions : HealthProbes(s)) \/ HealthAlive \/ HealthMovesOn
    <2>1. NoNews /\ UNCHANGED <<pool, live, stopping>>
      BY <1>22 DEF HealthProbes, HealthAlive, HealthMovesOn, NoNews, entries, docker, runs
    <2> QED BY <2>1, EnteredKept
  <1>23. CASE HealthDead
    <2>1. health.container \in Primary /\ SessionOf[health.container] = health.session /\ health.session \in Sessions
      BY <1>23 DEF HealthDead, Entries, Named
    <2>2. StopAndRemove(health.session, health.container, zero) /\ Note("none", health.session, health.container) /\ live' = live
      BY <1>23 DEF HealthDead
    <2>3. NoNews
      BY <1>23, <2>2 DEF HealthDead, NoNews, StopAndRemove, Drop, Restrict, runs
    <2> QED BY <2>1, <2>2, <2>3, EnteredRemoved
  <1>24. CASE \E c \in Runs : Stopped(c) \/ StopFails(c) \/ Dies(c)
    BY <1>24 DEF Stopped, StopFails, Dies, runs, entries, history, Upset, Entered, Vacant, Matching, Using, Probing,
                 Unstopped, NoContainerLeaks
  <1>25. CASE Drain
    <2>1. /\ DOMAIN pool' = {}
          /\ stopping' = stopping \union {pool[s].container : s \in DOMAIN pool}
          /\ disturbed' = disturbed \union DOMAIN lock
          /\ UNCHANGED <<pc, live, seen, breached, orphaned, left>>
      BY <1>25 DEF Drain, runs
    <2> QED BY <2>1 DEF Held, Holding, Upset, Entered, Vacant, Matching, Using, Probing, Unstopped, NoContainerLeaks
  <1>26. CASE DrainUnlocks
    <2>1. NoNews
      BY <1>26 DEF DrainUnlocks, NoNews
    <2> QED BY <1>26, <2>1, EnteredKept DEF DrainUnlocks, entries, docker
  <1>27. CASE Restart
    BY <1>27 DEF Restart, Entered, Vacant, Matching, Using, Probing, Unstopped, NoContainerLeaks
  <1> QED BY <1>1, <1>2, <1>3, <1>4, <1>5, <1>6, <1>7, <1>8, <1>9, <1>10, <1>11, <1>12, <1>13, <1>14, <1>15, <1>16, <1>17, <1>18, <1>19, <1>20, <1>21, <1>22, <1>23, <1>24, <1>25, <1>26, <1>27 DEF Next, Primaries, Release, Health

LEMMA EnteredNext == Names /\ Held /\ Entered /\ [Next]_vars => Entered'
  <1> SUFFICES ASSUME Names, Held, Entered, [Next]_vars PROVE Entered'
    OBVIOUS
  <1>1. CASE Restart
    BY <1>1, PoolAssumption DEF Restart, Entered, Vacant, Matching, Using, Probing, Unstopped, NoContainerLeaks, Runs
  <1>2. CASE Next /\ ~Restart
    BY <1>2, RecordsGrow, EnteredStep
  <1>3. CASE UNCHANGED vars
    <2>1. NoNews /\ Grows
      BY <1>3 DEF vars, runs, history, NoNews, Grows
    <2> QED BY <1>3, <2>1, EnteredKept DEF vars, entries, docker
  <1> QED BY <1>1, <1>2, <1>3

Inv == Names /\ Held /\ Entered

LEMMA Inductive == Spec => []Inv
  <1>1. Init => Inv
    BY NamesInit, HeldInit, EnteredInit DEF Inv
  <1>2. Inv /\ [Next]_vars => Inv'
    BY NamesNext, HeldNext, EnteredNext DEF Inv, Names
  <1> QED BY <1>1, <1>2, PTL DEF Spec

\* Through reuse, recycling, eviction, failed runs, timers, the health check and
\* shutdown no container is left behind, but for one docker failed to stop, one whose
\* entry went with a verdict or a timer about its session's container before it, and
\* one whose entry a second run replaced after a breach of the session's lock.
THEOREM ContainersAreKnown == Spec => []NoContainerLeaks
  <1>1. Inv => NoContainerLeaks
    BY DEF Inv, Entered
  <1> QED BY <1>1, Inductive, PTL

\* Nobody stops or idles the container a run works in, unless the session's lock was
\* breached or somebody who does not hold it (a timer, the health check, an eviction
\* for room, a shutdown) acts on the entry.
THEOREM RunsKeepTheirContainers == Spec => []ContainerKept
  <1>1. Inv => ContainerKept
    BY DEF Inv, Entered, Using, Unstopped, Upset, ContainerKept
  <1> QED BY <1>1, Inductive, PTL
=============================================================================
