------------------------ MODULE CronSchedulerProofs ------------------------
(***************************************************************************)
(* The cron scheduler for any number of tasks, overlapping ticks and       *)
(* executions, any limits, and any number of edits, failing calls and      *)
(* restarts.                                                               *)
(***************************************************************************)
EXTENDS CronScheduler, FiniteSetTheorems, SequenceTheorems, TLAPS

Points == {"create", "run", "reset", "reschedule", "deliver", "fail", "count", "breaker"}

Calls == [pc : Points, of : Snapshots]
EditCalls == [pc : {"write", "next", "reset"}, task : Tasks, change : Changes, failures : 0 .. MaxFailures]

Types ==
    /\ exists \subseteq Tasks /\ enabled \subseteq exists /\ tripped \subseteq Tasks
    /\ failures \in [Tasks -> 0 .. MaxFailures] /\ streak \in [Tasks -> 0 .. MaxFailures]
    /\ running \in Nat
    /\ edit \in [Editors -> EditCalls \union {NoEdit}]
    /\ tick \in [Ticks -> Seq(Snapshots)]
    /\ exec \in [Execs -> Calls \union {NoExec}]
    /\ row \in [Execs -> {"none", "running", "completed", "failed"}]

\* runningCount is the number of executions in progress
Busy == {e \in Execs : InFlight(e)}
SlotsCounted == running = Cardinality(Busy)

\* A task whose time has come is not waiting for it, and no task comes before itself
Calendar ==
    /\ later \intersect due = {}
    /\ \A pair \in earlier : pair[1] # pair[2]

\* An execution that runs has an open row, unless its task is gone
Open == \A e \in Execs : exec[e].pc = "run" /\ exec[e].of.task \in exists => row[e] = "running"

\* Of a task that was never found again there is one snapshot
Single ==
    \A t \in Tasks \ refound :
        /\ \A e, f \in ExecsOf(t) : e = f
        /\ \A k \in Ticks : t \in Found(k) =>
               /\ ExecsOf(t) = {}
               /\ \A j \in Ticks : t \in Found(j) => j = k
               /\ \A i, j \in DOMAIN tick[k] : tick[k][i].task = t /\ tick[k][j].task = t => i = j

\* The snapshots ticks hold
Waiting == UNION {{tick[k][i] : i \in DOMAIN tick[k]} : k \in Ticks}

\* Where a run has ended and its success or failure is still to be recorded
Ended == {"reset", "count"}

\* The failures an execution has read are those of the row, but for what it has written since
Counted(e) ==
    LET t == exec[e].of.task IN
    /\ failures[t] = CASE exec[e].pc = "breaker" -> exec[e].of.failures + 1
                       [] exec[e].pc \in {"reschedule", "deliver"} -> 0
                       [] OTHER -> exec[e].of.failures
    /\ exec[e].pc = "reset" => streak[t] = 0
    /\ exec[e].pc = "count" => streak[t] = Another(failures[t])

\* The counter of a task is its streak, but at the end of a run; everybody has read it as it
\* is, and the breaker goes by it
Even(t) ==
    t \notin drifted =>
        /\ \A s \in Waiting : s.task = t => s.failures = failures[t]
        /\ \A d \in EditsOf(t) : edit[d].failures = failures[t]
        /\ \A e \in ExecsOf(t) : Counted(e)
        /\ (\A e \in ExecsOf(t) : exec[e].pc \notin Ended) => streak[t] = failures[t]
        /\ t \in tripped => failures[t] >= MaxFailures
        /\ failures[t] >= MaxFailures /\ t \in enabled =>
               \/ \E e \in ExecsOf(t) : exec[e].pc = "breaker"
               \/ \E d \in EditsOf(t) : Reenables(d)

\* Everybody has read the schedule of a task as it is, and its next run follows from it
Planned(t) ==
    t \notin unplanned =>
        /\ \A s \in Waiting : s.task = t => s.oneShot = (t \in oneShot)
        /\ \A e \in ExecsOf(t) : exec[e].of.oneShot = (t \in oneShot)
        /\ \A d \in EditsOf(t) : edit[d].pc = "next" =>
               edit[d].change.schedule = IF t \in oneShot THEN "at" ELSE "every"
        /\ t \in exists \ oneShot => t \in later \union due \/ \E d \in EditsOf(t) : Replans(d)

\* Tasks are dispatched below the limit
Below == \A e \in Busy : exec[e].of.failures < MaxFailures

LEMMA SnapshotsApart ==
    ASSUME NEW e \in Execs, exec \in [Execs -> Calls \union {NoExec}]
    PROVE  /\ InFlight(e) => exec[e] \in Calls /\ exec[e].pc \in Points /\ exec[e].of \in Snapshots
           /\ exec[e].pc # "free" => InFlight(e)
           /\ ~InFlight(e) => exec[e].pc = "free"
  BY DEF InFlight, NoExec, Calls

---------------------------------------------------------------------------
(* What the steps do to executions and snapshots *)

\* The counters are changed in these two ways
LEMMA CounterSet ==
    ASSUME NEW f \in [Tasks -> 0 .. MaxFailures], NEW g, NEW t,
           g = f \/ g = [f EXCEPT ![t] = 0] \/ g = [f EXCEPT ![t] = Another(@)]
    PROVE  g \in [Tasks -> 0 .. MaxFailures]
  <1>1. \A n \in 0 .. MaxFailures : Another(n) \in 0 .. MaxFailures
    BY CronAssumption DEF Another
  <1>2. 0 \in 0 .. MaxFailures
    BY CronAssumption
  <1> QED BY <1>1, <1>2

LEMMA Goes ==
    ASSUME Types, NEW e \in Execs, InFlight(e), NEW p \in Points, Set(e, p)
    PROVE  /\ exec' \in [Execs -> Calls \union {NoExec}]
           /\ exec'[e].pc = p /\ exec'[e].of = exec[e].of
           /\ \A f \in Execs \ {e} : exec'[f] = exec[f]
           /\ Busy' = Busy
           /\ \A t \in Tasks : ExecsOf(t)' = ExecsOf(t)
  <1>1. exec \in [Execs -> Calls \union {NoExec}] /\ exec[e] \in Calls
    BY SnapshotsApart DEF Types
  <1>2. /\ [exec[e] EXCEPT !.pc = p] \in Calls
        /\ [exec[e] EXCEPT !.pc = p].pc = p
        /\ [exec[e] EXCEPT !.pc = p].of = exec[e].of
        /\ [exec[e] EXCEPT !.pc = p] # NoExec
    BY <1>1 DEF Calls, Points, NoExec
  <1>3. exec' = [exec EXCEPT ![e] = [exec[e] EXCEPT !.pc = p]]
    BY DEF Set
  <1>4. /\ exec'[e] = [exec[e] EXCEPT !.pc = p]
        /\ \A f \in Execs \ {e} : exec'[f] = exec[f]
        /\ exec' \in [Execs -> Calls \union {NoExec}]
    BY <1>1, <1>2, <1>3, Zenon
  <1>5. \A f \in Execs : InFlight(f)' = InFlight(f) /\ (InFlight(f) => exec'[f].of = exec[f].of)
    BY <1>2, <1>4 DEF InFlight
  <1>6. Busy' = Busy /\ \A t \in Tasks : ExecsOf(t)' = ExecsOf(t)
    BY <1>5 DEF Busy, ExecsOf
  <1> QED BY <1>2, <1>4, <1>6

LEMMA Ends ==
    ASSUME Types, NEW e \in Execs, InFlight(e), Finish(e)
    PROVE  /\ exec' \in [Execs -> Calls \union {NoExec}]
           /\ exec'[e].pc = "free"
           /\ \A f \in Execs \ {e} : exec'[f] = exec[f] /\ row'[f] = row[f]
           /\ row' \in [Execs -> {"none", "running", "completed", "failed"}]
           /\ e \in Busy /\ Busy' = Busy \ {e}
           /\ \A t \in Tasks : ExecsOf(t)' = ExecsOf(t) \ {e}
  <1>1. exec' = [exec EXCEPT ![e] = NoExec] /\ row' = [row EXCEPT ![e] = "none"]
    BY DEF Finish
  <1>2. /\ exec' \in [Execs -> Calls \union {NoExec}]
        /\ row' \in [Execs -> {"none", "running", "completed", "failed"}]
        /\ exec'[e] = NoExec
        /\ \A f \in Execs \ {e} : exec'[f] = exec[f] /\ row'[f] = row[f]
    BY <1>1 DEF Types
  <1>3. Busy' = Busy \ {e} /\ \A t \in Tasks : ExecsOf(t)' = ExecsOf(t) \ {e}
    BY <1>2 DEF Busy, ExecsOf, InFlight
  <1> QED BY <1>2, <1>3 DEF NoExec, Busy

LEMMA SlotFreed ==
    ASSUME Types, SlotsCounted, NEW e \in Execs, InFlight(e), Finish(e)
    PROVE  running' \in Nat /\ SlotsCounted'
  <1>1. Busy \subseteq Execs /\ IsFiniteSet(Busy) /\ e \in Busy /\ Busy' = Busy \ {e}
    BY Ends, CronAssumption, FS_Subset DEF Busy
  <1>2. Cardinality(Busy) \in Nat /\ Cardinality(Busy) # 0
    BY <1>1, FS_CardinalityType, FS_EmptySet
  <1>3. Cardinality(Busy') = Cardinality(Busy) - 1
    BY <1>1, FS_RemoveElement
  <1> QED BY <1>2, <1>3 DEF SlotsCounted, Finish

\* The tick goes on to the next snapshot
LEMMA Passes ==
    ASSUME Types, NEW k \in Ticks, tick[k] # <<>>, Advance(k)
    PROVE  /\ tick' \in [Ticks -> Seq(Snapshots)]
           /\ Head(tick[k]) \in Snapshots /\ 1 \in DOMAIN tick[k] /\ Head(tick[k]) = tick[k][1]
           /\ \A j \in Ticks \ {k} : tick'[j] = tick[j]
           /\ \A i \in DOMAIN tick'[k] : i \in Nat \ {0} /\ i + 1 \in DOMAIN tick[k] /\ tick'[k][i] = tick[k][i + 1]
  <1>1. tick[k] \in Seq(Snapshots) /\ tick' = [tick EXCEPT ![k] = Tail(@)]
    BY DEF Types, Advance
  <1>2. /\ Tail(tick[k]) \in Seq(Snapshots) /\ Head(tick[k]) = tick[k][1] /\ Head(tick[k]) \in Snapshots
        /\ DOMAIN tick[k] = 1 .. Len(tick[k]) /\ Len(tick[k]) \in Nat \ {0}
        /\ DOMAIN Tail(tick[k]) = 1 .. Len(tick[k]) - 1
        /\ \A i \in 1 .. Len(tick[k]) - 1 : Tail(tick[k])[i] = tick[k][i + 1]
    BY <1>1
  <1>3. tick' \in [Ticks -> Seq(Snapshots)] /\ tick'[k] = Tail(tick[k]) /\ \A j \in Ticks \ {k} : tick'[j] = tick[j]
    BY <1>1, <1>2 DEF Types
  <1>4. \A i \in DOMAIN tick'[k] : i \in Nat \ {0} /\ i + 1 \in DOMAIN tick[k] /\ tick'[k][i] = tick[k][i + 1]
    BY <1>2, <1>3
  <1> QED BY <1>2, <1>3, <1>4

LEMMA PassesFound ==
    ASSUME Types, NEW k \in Ticks, tick[k] # <<>>, Advance(k)
    PROVE  /\ \A j \in Ticks : Found(j)' \subseteq Found(j)
           /\ Head(tick[k]).task \in Found(k)
  <1>1. ASSUME NEW j \in Ticks, NEW t \in Found(j)' PROVE t \in Found(j)
    <2>1. PICK i \in DOMAIN tick'[j] : t = tick'[j][i].task
      BY <1>1 DEF Found
    <2>2. CASE j = k
      <3>1. i + 1 \in DOMAIN tick[j] /\ tick'[j][i] = tick[j][i + 1]
        BY <2>2, Passes
      <3> QED BY <2>1, <3>1 DEF Found
    <2>3. CASE j # k
      BY <2>1, <2>3, Passes DEF Found
    <2> QED BY <2>2, <2>3
  <1> QED BY <1>1, Passes, Zenon DEF Found

---------------------------------------------------------------------------
(* One snapshot *)

\* A step that finds nothing and dispatches nothing
LEMMA SingleKept ==
    ASSUME Types, Single, refound \subseteq refound',
           \A t \in Tasks : ExecsOf(t)' \subseteq ExecsOf(t),
           tick' = tick \/ (\E k \in Ticks : tick[k] # <<>> /\ Advance(k)) \/ tick' = [k \in Ticks |-> <<>>]
    PROVE  Single'
  <1> SUFFICES ASSUME NEW t \in Tasks \ refound'
               PROVE  /\ \A e, f \in ExecsOf(t)' : e = f
                      /\ \A k \in Ticks : t \in Found(k)' =>
                             /\ ExecsOf(t)' = {}
                             /\ \A j \in Ticks : t \in Found(j)' => j = k
                             /\ \A i, j \in DOMAIN tick'[k] : tick'[k][i].task = t /\ tick'[k][j].task = t => i = j
    BY DEF Single
  <1>1. t \in Tasks \ refound
    OBVIOUS
  <1>2. CASE tick' = tick
    BY <1>1, <1>2 DEF Single, Found
  <1>3. ASSUME NEW k \in Ticks, tick[k] # <<>>, Advance(k)
        PROVE  \A j \in Ticks : /\ Found(j)' \subseteq Found(j)
                                /\ t \in Found(j)' => \A i, h \in DOMAIN tick'[j] :
                                       tick'[j][i].task = t /\ tick'[j][h].task = t => i = h
    <2> SUFFICES ASSUME NEW j \in Ticks
                 PROVE  /\ Found(j)' \subseteq Found(j)
                        /\ t \in Found(j)' => \A i, h \in DOMAIN tick'[j] :
                               tick'[j][i].task = t /\ tick'[j][h].task = t => i = h
      OBVIOUS
    <2>1. Found(j)' \subseteq Found(j)
      BY <1>3, PassesFound
    <2>2. ASSUME t \in Found(j)', NEW i \in DOMAIN tick'[j], NEW h \in DOMAIN tick'[j],
                 tick'[j][i].task = t, tick'[j][h].task = t
          PROVE  i = h
      <3>1. \A m, n \in DOMAIN tick[j] : tick[j][m].task = t /\ tick[j][n].task = t => m = n
        BY <1>1, <2>1, <2>2 DEF Single
      <3>2. CASE j = k
        <4>1. /\ i \in Nat /\ i + 1 \in DOMAIN tick[j] /\ tick'[j][i] = tick[j][i + 1]
              /\ h \in Nat /\ h + 1 \in DOMAIN tick[j] /\ tick'[j][h] = tick[j][h + 1]
          BY <1>3, <2>2, <3>2, Passes
        <4>2. i + 1 = h + 1
          BY <2>2, <3>1, <4>1
        <4> QED BY <4>1, <4>2
      <3>3. CASE j # k
        BY <1>3, <2>2, <3>1, <3>3, Passes
      <3> QED BY <3>2, <3>3
    <2> QED BY <2>1, <2>2
  <1>4. CASE \E k \in Ticks : tick[k] # <<>> /\ Advance(k)
    <2>1. \A j \in Ticks : /\ Found(j)' \subseteq Found(j)
                           /\ t \in Found(j)' => \A i, h \in DOMAIN tick'[j] :
                                  tick'[j][i].task = t /\ tick'[j][h].task = t => i = h
      BY <1>3, <1>4
    <2> QED BY <1>1, <2>1 DEF Single
  <1>5. CASE tick' = [k \in Ticks |-> <<>>]
    <2>1. \A k \in Ticks : tick'[k] = <<>> /\ DOMAIN <<>> = {}
      BY <1>5
    <2>2. \A k \in Ticks : Found(k)' = {}
      BY <2>1 DEF Found
    <2> QED BY <1>1, <2>2 DEF Single
  <1> QED BY <1>2, <1>4, <1>5

\* execute() takes over the snapshot the tick has passed
LEMMA SingleDispatched ==
    ASSUME Types, Single, NEW k \in Ticks, NEW e \in Execs, TickDispatches(k, e)
    PROVE  Single'
  <1> DEFINE s == tick[k][1].task
  <1>1. /\ tick[k] # <<>> /\ Advance(k) /\ refound' = refound
        /\ exec[e] = NoExec /\ exec' = [exec EXCEPT ![e] = [pc |-> "create", of |-> tick[k][1]]]
        /\ 1 \in DOMAIN tick[k]
    BY Passes DEF TickDispatches, history
  <1>2. \A t \in Tasks : ExecsOf(t)' = IF t = s THEN ExecsOf(t) \union {e} ELSE ExecsOf(t)
    <2>1. /\ exec'[e] = [pc |-> "create", of |-> tick[k][1]] /\ exec'[e] # NoExec
          /\ \A f \in Execs \ {e} : exec'[f] = exec[f]
      BY <1>1 DEF Types, NoExec
    <2> QED BY <1>1, <2>1 DEF ExecsOf, InFlight
  <1>3. s \in Found(k)
    BY <1>1 DEF Found
  <1>4. ASSUME NEW t \in Tasks \ refound, NEW j \in Ticks, t \in Found(j)'
        PROVE  t # s /\ t \in Found(j) /\ \A i, h \in DOMAIN tick'[j] : tick'[j][i].task = t /\ tick'[j][h].task = t => i = h
    <2>1. t \in Found(j)
      BY <1>1, <1>4, PassesFound
    <2>2. \A m, n \in DOMAIN tick[j] : tick[j][m].task = t /\ tick[j][n].task = t => m = n
      BY <2>1 DEF Single
    <2>3. CASE j = k
      <3>1. \A i \in DOMAIN tick'[j] : i \in Nat \ {0} /\ i + 1 \in DOMAIN tick[j] /\ tick'[j][i] = tick[j][i + 1]
        BY <1>1, <2>3, Passes
      <3>2. PICK i \in DOMAIN tick'[j] : tick'[j][i].task = t
        BY <1>4 DEF Found
      <3>3. i \in Nat \ {0} /\ i + 1 \in DOMAIN tick[j] /\ tick[j][i + 1].task = t
        BY <3>1, <3>2
      <3>4. s # t
        BY <1>1, <2>2, <2>3, <3>3
      <3>5. \A m, n \in DOMAIN tick'[j] : tick'[j][m].task = t /\ tick'[j][n].task = t => m + 1 = n + 1
        BY <2>2, <3>1
      <3> QED BY <2>1, <3>1, <3>4, <3>5
    <2>4. CASE j # k
      <3>1. tick'[j] = tick[j]
        BY <1>1, <2>4, Passes
      <3>2. s # t
        BY <1>3, <2>1, <2>4 DEF Single
      <3> QED BY <2>1, <2>2, <3>1, <3>2
    <2> QED BY <2>3, <2>4
  <1> HIDE DEF s
  <1>5. ASSUME NEW t \in Tasks \ refound, NEW f \in ExecsOf(t)', NEW g \in ExecsOf(t)' PROVE f = g
    <2>1. t = s => ExecsOf(t) = {}
      BY <1>3 DEF Single
    <2> QED BY <1>2, <1>5, <2>1 DEF Single
  <1>6. ASSUME NEW t \in Tasks \ refound, NEW j \in Ticks, t \in Found(j)'
        PROVE  ExecsOf(t)' = {} /\ \A h \in Ticks : t \in Found(h)' => h = j
    BY <1>2, <1>4, <1>6 DEF Single
  <1> QED BY <1>1, <1>4, <1>5, <1>6 DEF Single

LEMMA BatchBounded ==
    ASSUME Types
    PROVE  Fewer(Slots, Cardinality({t \in due : Findable(t)})) \in Nat
  <1>1. {t \in due : Findable(t)} \subseteq Tasks
    BY DEF Types, Findable
  <1>2. Cardinality({t \in due : Findable(t)}) \in Nat
    BY <1>1, CronAssumption, FS_Subset, FS_CardinalityType
  <1>3. Slots \in Nat
    BY CronAssumption DEF Types, Slots, Fewer
  <1> QED BY <1>2, <1>3 DEF Fewer

\* findDue() leaves a task with an open row alone, and refound notes the other ways
\* to find one that is under way
LEMMA SingleFound ==
    ASSUME Types, Single, Open, Calendar, NEW k \in Ticks, TickFinds(k)
    PROVE  Single'
  <1> DEFINE ready == {t \in due : Findable(t)}
  <1>1. PICK found \in [1 .. Fewer(Slots, Cardinality(ready)) -> ready] :
          /\ IsFirst(found, ready)
          /\ tick' = [tick EXCEPT ![k] = [i \in DOMAIN found |-> Snapshot(found[i])]]
          /\ refound' = refound \union
                {t \in Tasks : /\ \E i \in DOMAIN found : found[i] = t
                               /\ \/ \E e \in ExecsOf(t) : exec[e].pc # "run"
                                  \/ \E j \in Ticks : t \in Found(j)}
    BY DEF TickFinds
  <1> DEFINE n == Fewer(Slots, Cardinality(ready))
  <1> HIDE DEF n
  <1>2. DOMAIN found = 1 .. n
    BY <1>1 DEF n
  <1>3. /\ tick'[k] = [i \in 1 .. n |-> Snapshot(found[i])]
        /\ \A j \in Ticks \ {k} : tick'[j] = tick[j]
        /\ UNCHANGED exec
    BY <1>1, <1>2 DEF Types, TickFinds, runs
  <1>4. /\ DOMAIN tick'[k] = 1 .. n
        /\ \A i \in 1 .. n : tick'[k][i].task = found[i] /\ found[i] \in ready
    <2>1. found \in [1 .. n -> ready]
      BY <1>1 DEF n
    <2> HIDE DEF ready
    <2>2. \A i \in 1 .. n : found[i] \in ready
      BY <2>1
    <2>3. \A i \in 1 .. n : tick'[k][i] = Snapshot(found[i])
      BY <1>3
    <2> QED BY <1>3, <2>2, <2>3 DEF Snapshot
  <1>5. ASSUME NEW i \in 1 .. n, NEW j \in 1 .. n, i < j PROVE found[i] # found[j]
    <2>1. <<found[i], found[j]>> \in earlier
      BY <1>1, <1>2, <1>5 DEF IsFirst
    <2>2. <<found[i], found[j]>>[1] # <<found[i], found[j]>>[2]
      BY <2>1, Zenon DEF Calendar
    <2> QED BY <2>2, Zenon
  <1>6. \A i, j \in 1 .. n : found[i] = found[j] => i = j
    <2>1. n \in Nat
      BY BatchBounded DEF n
    <2> QED BY <1>5, <2>1
  <1>7. ASSUME NEW t \in Tasks \ refound', t \in Found(k)'
        PROVE  ExecsOf(t) = {} /\ \A j \in Ticks : t \notin Found(j)
    <2>1. PICK i \in 1 .. n : found[i] = t
      BY <1>4, <1>7 DEF Found
    <2>2. Findable(t)
      BY <1>4, <2>1
    <2>3. (\A e \in ExecsOf(t) : exec[e].pc = "run") /\ \A j \in Ticks : t \notin Found(j)
      BY <1>1, <1>2, <1>7, <2>1
    <2>4. ASSUME NEW e \in ExecsOf(t) PROVE FALSE
      <3>1. exec[e].pc = "run" /\ exec[e].of.task = t /\ t \in exists /\ e \in Execs
        BY <2>2, <2>3 DEF ExecsOf, Findable
      <3>2. row[e] = "running"
        BY <3>1 DEF Open
      <3> QED BY <2>2, <3>2 DEF Findable, HasRunningRow
    <2> QED BY <2>3, <2>4
  <1>8. \A t \in Tasks : ExecsOf(t)' = ExecsOf(t)
    BY <1>3 DEF ExecsOf, InFlight
  <1>9. \A j \in Ticks \ {k} : Found(j)' = Found(j)
    BY <1>3 DEF Found
  <1>10. refound \subseteq refound'
    BY <1>1
  <1> SUFFICES ASSUME NEW t \in Tasks \ refound'
               PROVE  /\ \A e, f \in ExecsOf(t)' : e = f
                      /\ \A j \in Ticks : t \in Found(j)' =>
                             /\ ExecsOf(t)' = {}
                             /\ \A h \in Ticks : t \in Found(h)' => h = j
                             /\ \A i, h \in DOMAIN tick'[j] : tick'[j][i].task = t /\ tick'[j][h].task = t => i = h
    BY DEF Single
  <1>11. t \in Tasks \ refound
    BY <1>10
  <1>12. CASE t \in Found(k)'
    <2>1. ExecsOf(t)' = {} /\ \A j \in Ticks \ {k} : t \notin Found(j)'
      BY <1>7, <1>8, <1>9, <1>12
    <2>2. \A i, h \in DOMAIN tick'[k] : tick'[k][i].task = t /\ tick'[k][h].task = t => i = h
      BY <1>4, <1>6
    <2>3. \A j \in Ticks : t \in Found(j)' => j = k
      BY <2>1
    <2> QED BY <2>1, <2>2, <2>3, Zenon
  <1>13. CASE t \notin Found(k)'
    BY <1>3, <1>8, <1>9, <1>11, <1>13 DEF Single
  <1> QED BY <1>12, <1>13

---------------------------------------------------------------------------
(* Types, slots, the calendar and the open rows *)

Basics == Types /\ SlotsCounted /\ Calendar /\ Open

LEMMA BasicsInit == Init => Basics
  <1> SUFFICES ASSUME Init PROVE Basics
    OBVIOUS
  <1>1. \A e \in Execs : exec[e] = NoExec /\ exec[e].pc = "free"
    BY DEF Init, NoExec
  <1>2. Types
    <2>1. tick \in [Ticks -> Seq(Snapshots)]
      BY DEF Init
    <2> QED BY <2>1, CronAssumption DEF Init, Types
  <1>3. Busy = {}
    BY <1>1 DEF Busy, InFlight
  <1>4. SlotsCounted
    BY <1>3, FS_EmptySet DEF Init, SlotsCounted
  <1>5. Calendar /\ Open
    BY <1>1 DEF Init, Calendar, Open
  <1> QED BY <1>2, <1>4, <1>5 DEF Basics

\* Whatever takes a task off the calendar, and whatever puts it there
LEMMA CalendarMoves ==
    ASSUME Calendar, NEW t \in Tasks,
           \/ UNCHANGED <<later, due, earlier>>
           \/ \E future \in BOOLEAN : NextRunAt(t, future)
           \/ later' = later \ {t} /\ OffCalendar(t)
           \/ t \in later /\ later' = later \ {t} /\ due' = due \union {t} /\ earlier' = earlier \union (due \X {t})
    PROVE  Calendar'
  BY DEF Calendar, NextRunAt, OffCalendar

\* Executions go on or end, and rows are closed; none begins to run
LEMMA OpenKept ==
    ASSUME Types, Open, exists' \subseteq exists,
           \A e \in Execs : exec'[e].pc = "run" =>
               /\ exec[e].pc = "run" /\ exec'[e].of = exec[e].of
               /\ exec[e].of.task \in exists' => row'[e] = row[e]
    PROVE  Open'
  BY DEF Open

\* The steps of an execution that goes on
LEMMA BasicsGoes ==
    ASSUME Basics, NEW e \in Execs, InFlight(e), NEW p \in Points, Set(e, p), UNCHANGED <<running, tick, edit>>,
           row' = row \/ (\E status \in {"running", "completed", "failed"} : row' = [row EXCEPT ![e] = status]),
           p = "run" => row'[e] = "running",
           UNCHANGED exists, enabled' \subseteq enabled, tripped' \subseteq Tasks,
           failures' \in [Tasks -> 0 .. MaxFailures], streak' \in [Tasks -> 0 .. MaxFailures], Calendar'
    PROVE  Basics'
  <1>1. Types'
    BY Goes DEF Basics, Types
  <1>2. SlotsCounted'
    BY Goes DEF Basics, SlotsCounted
  <1>3. Open'
    <2>1. \A f \in Execs \ {e} : row'[f] = row[f] /\ exec'[f] = exec[f]
      BY Goes DEF Basics, Types
    <2>2. exec'[e].pc = p
      BY Goes DEF Basics
    <2> QED BY <2>1, <2>2 DEF Basics, Open
  <1> QED BY <1>1, <1>2, <1>3 DEF Basics

\* The steps at which one ends
LEMMA BasicsEnds ==
    ASSUME Basics, NEW e \in Execs, InFlight(e), Finish(e), UNCHANGED <<exists, tick, edit>>,
           enabled' \subseteq enabled, tripped' \subseteq Tasks, UNCHANGED <<failures, streak>>, Calendar'
    PROVE  Basics'
  <1>1. Types'
    BY Ends, SlotFreed DEF Basics, Types
  <1>2. SlotsCounted'
    BY SlotFreed DEF Basics
  <1>3. Open'
    BY Ends, OpenKept DEF Basics
  <1> QED BY <1>1, <1>2, <1>3 DEF Basics

\* The steps that leave the executions alone
LEMMA BasicsFrame ==
    ASSUME Basics, UNCHANGED <<exec, running>>, exists' \subseteq exists, enabled' \subseteq exists',
           tripped' \subseteq Tasks,
           failures' \in [Tasks -> 0 .. MaxFailures], streak' \in [Tasks -> 0 .. MaxFailures],
           edit' \in [Editors -> EditCalls \union {NoEdit}], tick' \in [Ticks -> Seq(Snapshots)],
           row' \in [Execs -> {"none", "running", "completed", "failed"}],
           \A e \in Execs : exec[e].pc = "run" /\ exec[e].of.task \in exists' => row'[e] = row[e],
           Calendar'
    PROVE  Basics'
  <1>1. Types'
    BY DEF Basics, Types
  <1>2. Busy' = Busy /\ SlotsCounted'
    BY DEF Basics, SlotsCounted, Busy, InFlight
  <1>3. Open'
    BY OpenKept DEF Basics
  <1> QED BY <1>1, <1>2, <1>3 DEF Basics

LEMMA BasicsDispatched ==
    ASSUME Basics, NEW k \in Ticks, NEW e \in Execs, TickDispatches(k, e)
    PROVE  Basics'
  <1> USE DEF Basics
  <1>1. /\ tick[k] # <<>> /\ Advance(k) /\ running' = running + 1 /\ exec[e] = NoExec
        /\ exec' = [exec EXCEPT ![e] = [pc |-> "create", of |-> Head(tick[k])]]
        /\ UNCHANGED <<exists, enabled, tripped, failures, streak, edit, later, due, earlier, row>>
    BY DEF TickDispatches, table, history, apart
  <1>2. tick' \in [Ticks -> Seq(Snapshots)] /\ Head(tick[k]) \in Snapshots
    BY <1>1, Passes
  <1>3. [pc |-> "create", of |-> Head(tick[k])] \in Calls
    BY <1>2 DEF Calls, Points
  <1>4. /\ exec' \in [Execs -> Calls \union {NoExec}]
        /\ exec'[e] = [pc |-> "create", of |-> Head(tick[k])]
        /\ \A f \in Execs \ {e} : exec'[f] = exec[f]
    BY <1>1, <1>3 DEF Types
  <1>5. Types'
    BY <1>1, <1>2, <1>4 DEF Types
  <1>6. e \notin Busy /\ Busy' = Busy \union {e}
    BY <1>1, <1>4 DEF Busy, InFlight, NoExec
  <1>7. IsFiniteSet(Busy) /\ Cardinality(Busy') = Cardinality(Busy) + 1
    <2>1. IsFiniteSet(Busy)
      BY CronAssumption, FS_Subset DEF Busy
    <2> QED BY <1>6, <2>1, FS_AddElement
  <1>8. SlotsCounted'
    BY <1>1, <1>7 DEF SlotsCounted
  <1>9. Open'
    BY <1>1, <1>4 DEF Open
  <1> QED BY <1>1, <1>5, <1>8, <1>9 DEF Calendar

LEMMA BasicsFound ==
    ASSUME Basics, NEW k \in Ticks, TickFinds(k)
    PROVE  Basics'
  <1> DEFINE ready == {t \in due : Findable(t)}
             n == Fewer(Slots, Cardinality(ready))
  <1>1. PICK found \in [1 .. n -> ready] :
          tick' = [tick EXCEPT ![k] = [i \in DOMAIN found |-> Snapshot(found[i])]]
    BY DEF TickFinds
  <1>2. n \in Nat
    BY BatchBounded DEF Basics
  <1>3. ready \subseteq Tasks
    BY DEF Basics, Types, Findable
  <1>4. \A t \in Tasks : Snapshot(t) \in Snapshots
    BY DEF Basics, Types, Snapshot, Snapshots
  <1> HIDE DEF ready, n
  <1>5. \A i \in DOMAIN found : Snapshot(found[i]) \in Snapshots
    BY <1>3, <1>4
  <1>6. [i \in 1 .. n |-> Snapshot(found[i])] \in Seq(Snapshots)
    BY <1>2, <1>5
  <1>7. tick' \in [Ticks -> Seq(Snapshots)]
    BY <1>1, <1>6 DEF Basics, Types
  <1>8. UNCHANGED <<table, runs, edit, streak>>
    BY DEF TickFinds, apart
  <1> QED BY <1>7, <1>8, BasicsFrame, CalendarMoves DEF Basics, Types, Calendar, table, runs

LEMMA BasicsRestarted ==
    ASSUME Basics, Restart
    PROVE  Basics'
  <1>1. \A e \in Execs : exec'[e] = NoExec /\ exec'[e].pc = "free"
    BY DEF Restart, NoExec
  <1>2. Busy' = {}
    BY <1>1 DEF Busy, InFlight
  <1>3. SlotsCounted'
    BY <1>2, FS_EmptySet DEF Restart, SlotsCounted
  <1>4. Types'
    <2>1. tick' \in [Ticks -> Seq(Snapshots)]
      BY DEF Restart
    <2>2. exec' \in [Execs -> Calls \union {NoExec}]
      BY DEF Restart
    <2> QED BY <2>1, <2>2 DEF Basics, Types, Restart, table
  <1>5. Open' /\ Calendar'
    BY <1>1 DEF Basics, Open, Calendar, Restart, table
  <1> QED BY <1>3, <1>4, <1>5 DEF Basics

LEMMA BasicsExecutes ==
    ASSUME Basics, NEW e \in Execs, Executes(e) \/ Throws(e)
    PROVE  Basics'
  <1> DEFINE t == exec[e].of.task
  <1>1. InFlight(e)
    BY SnapshotsApart DEF Basics, Types, Executes, Throws, Creates, Completes, RunFails, Resets, Reschedules,
       Delivers, MarksFailed, CountsFailure, Breaks
  <1>2. t \in Tasks /\ exec[e].of \in Snapshots /\ exec[e].of.oneShot \in BOOLEAN
    BY <1>1, SnapshotsApart DEF Basics, Types, Snapshots
  <1> HIDE DEF t
  <1>3. CASE Creates(e) \/ Completes(e) \/ RunFails(e) \/ MarksFailed(e)
    <2>1. PICK p \in Points : Set(e, p) /\ (p = "run" => Creates(e))
      BY <1>3, Zenon DEF Creates, Completes, RunFails, MarksFailed, Points
    <2>2. /\ row' = row \/ \E status \in {"running", "completed", "failed"} : row' = [row EXCEPT ![e] = status]
          /\ Creates(e) => row'[e] = "running"
      BY <1>3 DEF Creates, Completes, RunFails, MarksFailed, Basics, Types
    <2>3. UNCHANGED <<table, running, tick, edit>>
      BY <1>3 DEF Creates, Completes, RunFails, MarksFailed
    <2>4. \/ streak' = streak \/ streak' = [streak EXCEPT ![exec[e].of.task] = 0]
          \/ streak' = [streak EXCEPT ![exec[e].of.task] = Another(@)]
      BY <1>3 DEF Creates, Completes, RunFails, MarksFailed, history, apart
    <2>5. streak' \in [Tasks -> 0 .. MaxFailures]
      <3>1. streak \in [Tasks -> 0 .. MaxFailures]
        BY DEF Basics, Types
      <3> QED BY <2>4, <3>1, CounterSet
    <2> QED BY <1>1, <2>1, <2>2, <2>3, <2>5, BasicsGoes, CalendarMoves DEF Basics, Types, Calendar, table
  <1>4. CASE Resets(e) \/ CountsFailure(e)
    <2>1. PICK p \in Points : Set(e, p) /\ p # "run"
      BY <1>4, Zenon DEF Resets, CountsFailure, Points
    <2>2. failures' \in [Tasks -> 0 .. MaxFailures]
      <3>1. \/ failures' = [failures EXCEPT ![exec[e].of.task] = 0]
            \/ failures' = [failures EXCEPT ![exec[e].of.task] = Another(@)]
        BY <1>4 DEF Resets, CountsFailure, ResetFailures
      <3>2. failures \in [Tasks -> 0 .. MaxFailures]
        BY DEF Basics, Types
      <3> QED BY <3>1, <3>2, CounterSet
    <2>3. UNCHANGED <<exists, enabled, later, due, earlier, running, row, tick, edit, streak>> /\ tripped' \subseteq tripped
      BY <1>4 DEF Resets, CountsFailure, ResetFailures
    <2> QED BY <1>1, <2>1, <2>2, <2>3, BasicsGoes DEF Basics, Types, Calendar
  <1>5. CASE Reschedules(e)
    <2>1. /\ Set(e, "deliver") /\ enabled' \subseteq enabled /\ tripped' \subseteq tripped
          /\ UNCHANGED <<exists, failures, streak, running, row, tick, edit>>
          /\ UNCHANGED <<later, due, earlier>> \/ NextRunAt(t, TRUE)
      BY <1>5 DEF Reschedules, history, apart, t
    <2>2. Calendar'
      BY <1>2, <2>1, CalendarMoves DEF Basics
    <2>3. "deliver" \in Points /\ "deliver" # "run"
      BY DEF Points
    <2> QED BY <1>1, <2>1, <2>2, <2>3, BasicsGoes DEF Basics, Types
  <1>6. CASE Delivers(e)
    BY <1>1, <1>6, BasicsEnds DEF Delivers, table, history, apart, Basics, Types, Calendar
  <1>7. CASE Breaks(e)
    <2>1. /\ Finish(e) /\ enabled' \subseteq enabled /\ tripped' \subseteq Tasks
          /\ UNCHANGED <<exists, failures, streak, tick, edit>>
          /\ UNCHANGED <<later, due, earlier>> \/ NextRunAt(t, ~exec[e].of.oneShot)
      BY <1>2, <1>7 DEF Breaks, history, apart, t, Basics, Types
    <2>2. Calendar'
      BY <1>2, <2>1, CalendarMoves DEF Basics
    <2> QED BY <1>1, <2>1, <2>2, BasicsEnds DEF Basics, Types
  <1>8. CASE Throws(e)
    <2>1. UNCHANGED <<table, tick, edit, streak>>
      BY <1>8 DEF Throws
    <2>2. CASE Set(e, "fail") /\ UNCHANGED <<running, row>>
      <3>1. "fail" \in Points /\ "fail" # "run"
        BY DEF Points
      <3> QED BY <1>1, <2>1, <2>2, <3>1, BasicsGoes DEF Basics, Types, Calendar, table
    <2>3. CASE Finish(e)
      BY <1>1, <2>1, <2>3, BasicsEnds DEF Basics, Types, Calendar, table
    <2> QED BY <1>8, <2>2, <2>3 DEF Throws
  <1> QED BY <1>3, <1>4, <1>5, <1>6, <1>7, <1>8 DEF Executes

\* A call of update() in progress
LEMMA EditTyped ==
    ASSUME Types, NEW d \in Editors, edit[d] # NoEdit \/ edit[d].pc # "free"
    PROVE  /\ edit[d] # NoEdit /\ edit[d] \in EditCalls
           /\ edit[d].task \in Tasks /\ edit[d].failures \in 0 .. MaxFailures
           /\ edit[d].pc \in {"write", "next", "reset"} /\ edit[d].change \in Changes
           /\ d \in EditsOf(edit[d].task)
  <1>1. edit[d] # NoEdit
    BY DEF NoEdit
  <1>2. edit[d] \in EditCalls
    BY <1>1 DEF Types
  <1> QED BY <1>1, <1>2 DEF EditCalls, EditsOf

\* Where the steps of an edit leave it, and what they leave alone
LEMMA EditGoes ==
    ASSUME Types, NEW d \in Editors, EditWrites(d) \/ EditSchedules(d) \/ EditResets(d) \/ EditFails(d)
    PROVE  /\ edit[d] # NoEdit /\ d \in EditsOf(edit[d].task)
           /\ edit' \in [Editors -> EditCalls \union {NoEdit}]
           /\ \/ edit'[d] = NoEdit
              \/ \E p \in {"next", "reset"} :
                     edit'[d] = [pc |-> p, task |-> edit[d].task, change |-> edit[d].change, failures |-> edit[d].failures]
           /\ \A f \in Editors \ {d} : edit'[f] = edit[f]
           /\ UNCHANGED <<exists, tick, exec, row, running, refound, cronOn>>
  <1>1. edit[d] # NoEdit \/ edit[d].pc # "free"
    BY DEF EditWrites, EditSchedules, EditResets, EditFails
  <1>2. edit[d] # NoEdit /\ edit[d] \in EditCalls /\ d \in EditsOf(edit[d].task)
    BY <1>1, EditTyped
  <1> DEFINE To(p) == [pc |-> p, task |-> edit[d].task, change |-> edit[d].change, failures |-> edit[d].failures]
  <1>3. \A p \in {"next", "reset"} : [edit[d] EXCEPT !.pc = p] = To(p) /\ To(p) \in EditCalls
    BY <1>2 DEF EditCalls
  <1>4. \/ edit' = [edit EXCEPT ![d] = NoEdit]
        \/ \E p \in {"next", "reset"} : edit' = [edit EXCEPT ![d] = [edit[d] EXCEPT !.pc = p]]
    <2>1. CASE EditWrites(d) \/ EditSchedules(d)
      <3>1. AfterSchedule(d) \/ edit' = [edit EXCEPT ![d].pc = "next"]
        BY <2>1 DEF EditWrites, EditSchedules
      <3>2. AfterSchedule(d) => edit' = [edit EXCEPT ![d] = NoEdit] \/ edit' = [edit EXCEPT ![d] = [edit[d] EXCEPT !.pc = "reset"]]
        BY DEF AfterSchedule
      <3> QED BY <3>1, <3>2
    <2>2. CASE EditResets(d) \/ EditFails(d)
      BY <2>2 DEF EditResets, EditFails
    <2> QED BY <2>1, <2>2
  <1> HIDE DEF To
  <1>5. \/ edit' = [edit EXCEPT ![d] = NoEdit]
        \/ \E p \in {"next", "reset"} : edit' = [edit EXCEPT ![d] = To(p)] /\ To(p) \in EditCalls
    BY <1>3, <1>4
  <1>6. /\ edit' \in [Editors -> EditCalls \union {NoEdit}]
        /\ edit'[d] = NoEdit \/ \E p \in {"next", "reset"} : edit'[d] = To(p)
        /\ \A f \in Editors \ {d} : edit'[f] = edit[f]
    BY <1>5 DEF Types
  <1>7. UNCHANGED <<exists, tick, exec, row, running, refound, cronOn>>
    BY DEF EditWrites, EditSchedules, EditResets, EditFails, table, runs
  <1> QED BY <1>2, <1>6, <1>7 DEF To

LEMMA EditBegins ==
    ASSUME Types, NEW d \in Editors, NEW t \in Tasks, NEW change \in Changes, EditReads(d, t, change)
    PROVE  /\ edit[d] = NoEdit /\ edit' \in [Editors -> EditCalls \union {NoEdit}]
           /\ edit'[d] = [pc |-> "write", task |-> t, change |-> change, failures |-> failures[t]]
           /\ \A f \in Editors \ {d} : edit'[f] = edit[f]
           /\ UNCHANGED <<table, cronOn, tick, runs, history>>
  <1>1. [pc |-> "write", task |-> t, change |-> change, failures |-> failures[t]] \in EditCalls
    BY DEF EditCalls, Types
  <1>2. edit' = [edit EXCEPT ![d] = [pc |-> "write", task |-> t, change |-> change, failures |-> failures[t]]]
    BY DEF EditReads
  <1>3. /\ edit' \in [Editors -> EditCalls \union {NoEdit}]
        /\ edit'[d] = [pc |-> "write", task |-> t, change |-> change, failures |-> failures[t]]
        /\ \A f \in Editors \ {d} : edit'[f] = edit[f]
    BY <1>1, <1>2 DEF Types
  <1> QED BY <1>3 DEF EditReads

LEMMA BasicsEdits ==
    ASSUME Basics, NEW d \in Editors, Edits(d)
    PROVE  Basics'
  <1>1. ASSUME NEW t \in Tasks, NEW change \in Changes, EditReads(d, t, change) PROVE Basics'
    <2>1. UNCHANGED <<table, tick, runs, streak>> /\ edit' \in [Editors -> EditCalls \union {NoEdit}]
      BY <1>1, EditBegins DEF Basics, history, apart
    <2> QED BY <2>1, BasicsFrame DEF Basics, Types, Calendar, table, runs
  <1>2. ASSUME EditWrites(d) \/ EditSchedules(d) \/ EditResets(d) \/ EditFails(d) PROVE Basics'
    <2> DEFINE t == edit[d].task
    <2>1. /\ t \in Tasks /\ edit' \in [Editors -> EditCalls \union {NoEdit}]
          /\ UNCHANGED <<exists, tick, exec, row, running>>
      BY <1>2, EditGoes, EditTyped DEF Basics
    <2> HIDE DEF t
    <2>2. /\ enabled' \subseteq enabled \/ (t \in exists /\ enabled' \subseteq enabled \union {t})
          /\ tripped' \subseteq tripped
          /\ failures' = failures \/ failures' = [failures EXCEPT ![t] = 0]
          /\ streak' = streak \/ streak' = [streak EXCEPT ![t] = 0]
      BY <1>2 DEF EditWrites, EditSchedules, EditResets, EditFails, ResetFailures, table, t
    <2>3. UNCHANGED <<later, due, earlier>> \/ \E future \in BOOLEAN : NextRunAt(t, future)
      BY <1>2 DEF EditWrites, EditSchedules, EditResets, EditFails, table, t
    <2>4. Calendar'
      BY <2>1, <2>3, CalendarMoves DEF Basics
    <2>5. failures' \in [Tasks -> 0 .. MaxFailures] /\ streak' \in [Tasks -> 0 .. MaxFailures]
      <3>1. failures \in [Tasks -> 0 .. MaxFailures] /\ streak \in [Tasks -> 0 .. MaxFailures]
        BY DEF Basics, Types
      <3> QED BY <2>2, <3>1, CounterSet
    <2>6. enabled' \subseteq exists' /\ tripped' \subseteq Tasks
      BY <2>1, <2>2 DEF Basics, Types
    <2> QED BY <2>1, <2>4, <2>5, <2>6, BasicsFrame DEF Basics, Types
  <1> QED BY <1>1, <1>2 DEF Edits

LEMMA BasicsTasks ==
    ASSUME Basics, NEW t \in Tasks, BecomesDue(t) \/ Removes(t)
    PROVE  Basics'
  <1>1. CASE BecomesDue(t)
    <2>1. Calendar'
      BY <1>1, CalendarMoves DEF BecomesDue, Basics
    <2> QED BY <1>1, <2>1, BasicsFrame DEF BecomesDue, Basics, Types, runs, history, apart
  <1>2. CASE Removes(t)
    <2>1. Calendar'
      BY <1>2, CalendarMoves DEF Removes, Basics
    <2>2. row' \in [Execs -> {"none", "running", "completed", "failed"}]
      BY <1>2 DEF Removes, Basics, Types
    <2>3. \A e \in Execs : exec[e].pc = "run" /\ exec[e].of.task \in exists' => row'[e] = row[e]
      BY <1>2 DEF Removes, ExecsOf
    <2>4. /\ UNCHANGED <<failures, streak, tick, exec, running, edit>> /\ exists' \subseteq exists
          /\ enabled' \subseteq exists' /\ tripped' \subseteq tripped
      BY <1>2 DEF Removes, Basics, Types, history, apart
    <2> QED BY <2>1, <2>2, <2>3, <2>4, BasicsFrame DEF Basics, Types
  <1> QED BY <1>1, <1>2

LEMMA BasicsNext == Basics /\ [Next]_vars => Basics'
  <1> SUFFICES ASSUME Basics, [Next]_vars PROVE Basics'
    OBVIOUS
  <1>1. ASSUME NEW t \in Tasks, BecomesDue(t) \/ Removes(t) PROVE Basics'
    BY <1>1, BasicsTasks
  <1>2. ASSUME NEW u \in Users, PolicyChanges(u) PROVE Basics'
    BY <1>2, BasicsFrame DEF PolicyChanges, table, runs, history, apart, Basics, Types, Calendar
  <1>3. ASSUME NEW k \in Ticks, TickSkips(k) \/ TickFails(k) PROVE Basics'
    <2>1. tick[k] # <<>> /\ Advance(k) /\ UNCHANGED <<table, runs, edit, streak>>
      BY <1>3 DEF TickSkips, TickFails, history, apart
    <2>2. tick' \in [Ticks -> Seq(Snapshots)]
      BY <2>1, Passes DEF Basics
    <2> QED BY <2>1, <2>2, BasicsFrame DEF table, runs, Basics, Types, Calendar
  <1>4. ASSUME UNCHANGED vars PROVE Basics'
    BY <1>4, BasicsFrame DEF vars, table, runs, history, apart, Basics, Types, Calendar
  <1> QED BY <1>1, <1>2, <1>3, <1>4, BasicsFound, BasicsDispatched, BasicsExecutes, BasicsEdits, BasicsRestarted
          DEF Next, Ticking, Dispatches

---------------------------------------------------------------------------
(* A task runs twice at once only if it was found twice *)

LEMMA StepsOn ==
    ASSUME Types, NEW e \in Execs, Executes(e) \/ Throws(e)
    PROVE  /\ InFlight(e)
           /\ (\E p \in Points : Set(e, p)) \/ Finish(e)
           /\ UNCHANGED <<tick, refound, cronOn, exists, oneShot, edit, unplanned>>
           /\ \A t \in Tasks : ExecsOf(t)' \subseteq ExecsOf(t)
  <1>1. InFlight(e)
    BY SnapshotsApart DEF Types, Executes, Throws, Creates, Completes, RunFails, Resets, Reschedules, Delivers,
       MarksFailed, CountsFailure, Breaks
  <1>2. (\E p \in {"run", "reset", "fail", "reschedule", "deliver", "count", "breaker"} : Set(e, p)) \/ Finish(e)
    <2>1. CASE Creates(e) \/ Completes(e) \/ RunFails(e) \/ Resets(e)
      BY <2>1, Zenon DEF Creates, Completes, RunFails, Resets
    <2>2. CASE Reschedules(e) \/ Delivers(e) \/ MarksFailed(e) \/ CountsFailure(e)
      BY <2>2, Zenon DEF Reschedules, Delivers, MarksFailed, CountsFailure
    <2>3. CASE Breaks(e) \/ Throws(e)
      BY <2>3, Zenon DEF Breaks, Throws
    <2> QED BY <2>1, <2>2, <2>3 DEF Executes
  <1>3. UNCHANGED <<tick, refound, cronOn, exists, oneShot, edit, unplanned>>
    BY DEF Executes, Throws, Creates, Completes, RunFails, Resets, Reschedules, Delivers, MarksFailed,
       CountsFailure, Breaks, table, history, apart
  <1>4. \A t \in Tasks : ExecsOf(t)' \subseteq ExecsOf(t)
    BY <1>1, <1>2, Goes, Ends DEF Points
  <1> QED BY <1>1, <1>2, <1>3, <1>4 DEF Points

LEMMA SingleNext == Basics /\ Single /\ [Next]_vars => Single'
  <1> SUFFICES ASSUME Basics, Single, [Next]_vars PROVE Single'
    OBVIOUS
  <1> USE DEF Basics
  <1>1. ASSUME UNCHANGED <<exec, refound>>, UNCHANGED tick \/ \E k \in Ticks : tick[k] # <<>> /\ Advance(k)
        PROVE  Single'
    <2>1. \A t \in Tasks : ExecsOf(t)' = ExecsOf(t)
      BY <1>1 DEF ExecsOf, InFlight
    <2> QED BY <1>1, <2>1, SingleKept
  <1>2. ASSUME NEW t \in Tasks, BecomesDue(t) \/ Removes(t) PROVE Single'
    BY <1>1, <1>2 DEF BecomesDue, Removes, runs, history
  <1>10. ASSUME NEW d \in Editors, Edits(d) PROVE Single'
    <2>1. UNCHANGED <<exec, refound, tick>>
      BY <1>10, EditBegins, EditGoes DEF Edits, runs, history
    <2> QED BY <1>1, <2>1
  <1>3. ASSUME NEW u \in Users, PolicyChanges(u) PROVE Single'
    BY <1>1, <1>3 DEF PolicyChanges, runs, history
  <1>4. ASSUME NEW k \in Ticks, TickSkips(k) \/ TickFails(k) PROVE Single'
    BY <1>1, <1>4 DEF TickSkips, TickFails, runs, history
  <1>5. ASSUME NEW k \in Ticks, NEW e \in Execs, TickDispatches(k, e) PROVE Single'
    BY <1>5, SingleDispatched
  <1>6. ASSUME NEW k \in Ticks, TickFinds(k) PROVE Single'
    BY <1>6, SingleFound
  <1>7. ASSUME NEW e \in Execs, Executes(e) \/ Throws(e) PROVE Single'
    BY <1>7, StepsOn, SingleKept
  <1>8. CASE Restart
    <2>1. \A t \in Tasks : ExecsOf(t)' = {}
      BY <1>8 DEF Restart, ExecsOf, InFlight
    <2> QED BY <1>8, <2>1, SingleKept DEF Restart, history
  <1>9. CASE UNCHANGED vars
    BY <1>1, <1>9 DEF vars, runs, history
  <1> QED BY <1>2, <1>3, <1>4, <1>5, <1>6, <1>7, <1>8, <1>9, <1>10 DEF Next, Ticking, Dispatches

\* findDue(): no two executions run the same task together, unless that task was found again
\* while the first was outside of its run or still held by a tick
THEOREM TasksRunOnce == Spec => []NoDoubleRun
  <1>1. Init => Basics /\ Single
    <2> SUFFICES ASSUME Init PROVE Single
      BY BasicsInit
    <2>1. \A e \in Execs : ~InFlight(e)
      BY DEF Init, InFlight
    <2>2. \A k \in Ticks : Found(k) = {}
      BY DEF Init, Found
    <2> QED BY <2>1, <2>2 DEF Single, ExecsOf
  <1>2. Basics /\ Single => NoDoubleRun
    <2> SUFFICES ASSUME Basics, Single, NEW e \in Execs, NEW f \in Execs, e # f, InFlight(e), InFlight(f),
                        exec[e].of.task = exec[f].of.task, exec[e].of.task \notin refound
                 PROVE  FALSE
      BY DEF NoDoubleRun
    <2>1. exec[e].of.task \in Tasks \ refound
      BY SnapshotsApart DEF Basics, Types, Snapshots
    <2> QED BY <2>1, Zenon DEF Single, ExecsOf
  <1> QED BY <1>1, <1>2, BasicsNext, SingleNext, PTL DEF Spec

\* runningCount: the slots in use are the executions in progress, whatever way they end
THEOREM SlotsAreCounted == Spec => []SlotsCounted
  <1>1. Basics => SlotsCounted
    BY DEF Basics
  <1> QED BY <1>1, BasicsInit, BasicsNext, PTL DEF Spec

---------------------------------------------------------------------------
(* Counters and breakers *)

LEMMA WaitingTyped ==
    ASSUME Types
    PROVE  Waiting \subseteq Snapshots /\ \A s \in Waiting : s.task \in Tasks /\ s.oneShot \in BOOLEAN
  <1>1. ASSUME NEW k \in Ticks, NEW i \in DOMAIN tick[k] PROVE tick[k][i] \in Snapshots
    <2>1. tick[k] \in Seq(Snapshots)
      BY DEF Types
    <2> QED BY <2>1
  <1> QED BY <1>1 DEF Waiting, Snapshots

LEMMA WaitingKept ==
    ASSUME Types, UNCHANGED tick \/ (\E k \in Ticks : tick[k] # <<>> /\ Advance(k))
    PROVE  Waiting' \subseteq Waiting
  <1>1. CASE UNCHANGED tick
    BY <1>1 DEF Waiting
  <1>2. ASSUME NEW k \in Ticks, tick[k] # <<>>, Advance(k), NEW j \in Ticks, NEW i \in DOMAIN tick'[j]
        PROVE  tick'[j][i] \in Waiting
    <2>1. CASE j = k
      <3>1. i + 1 \in DOMAIN tick[k] /\ tick'[k][i] = tick[k][i + 1]
        BY <1>2, <2>1, Passes
      <3> QED BY <2>1, <3>1 DEF Waiting
    <2>2. CASE j # k
      BY <1>2, <2>2, Passes DEF Waiting
    <2> QED BY <2>1, <2>2
  <1>3. ASSUME NEW k \in Ticks, tick[k] # <<>>, Advance(k), NEW s \in Waiting' PROVE s \in Waiting
    <2>1. PICK j \in Ticks : \E i \in DOMAIN tick'[j] : s = tick'[j][i]
      BY <1>3 DEF Waiting
    <2> QED BY <1>2, <1>3, <2>1
  <1> QED BY <1>1, <1>3

LEMMA WaitingFound ==
    ASSUME Types, NEW k \in Ticks, TickFinds(k)
    PROVE  \A s \in Waiting' : s \in Waiting \/ s = Snapshot(s.task)
  <1> DEFINE ready == {t \in due : Findable(t)}
             n == Fewer(Slots, Cardinality(ready))
  <1>1. PICK found \in [1 .. n -> ready] :
          tick' = [tick EXCEPT ![k] = [i \in DOMAIN found |-> Snapshot(found[i])]]
    BY DEF TickFinds
  <1> HIDE DEF ready, n
  <1>2. /\ tick'[k] = [i \in 1 .. n |-> Snapshot(found[i])]
        /\ \A j \in Ticks \ {k} : tick'[j] = tick[j]
    BY <1>1 DEF Types
  <1>3. \A i \in DOMAIN tick'[k] : tick'[k][i] = Snapshot(tick'[k][i].task)
    BY <1>2 DEF Snapshot
  <1>4. \A j \in Ticks \ {k} : \A i \in DOMAIN tick'[j] : tick'[j][i] \in Waiting
    BY <1>2 DEF Waiting
  <1> QED BY <1>3, <1>4 DEF Waiting

LEMMA WaitingDispatched ==
    ASSUME Types, NEW k \in Ticks, NEW e \in Execs, TickDispatches(k, e)
    PROVE  /\ Waiting' \subseteq Waiting /\ Head(tick[k]) \in Waiting /\ e \notin Busy
           /\ exec'[e] = [pc |-> "create", of |-> Head(tick[k])]
           /\ \A f \in Execs \ {e} : exec'[f] = exec[f]
           /\ \A t \in Tasks : ExecsOf(t)' = IF t = Head(tick[k]).task THEN ExecsOf(t) \union {e} ELSE ExecsOf(t)
  <1>1. /\ tick[k] # <<>> /\ Advance(k) /\ exec[e] = NoExec
        /\ exec' = [exec EXCEPT ![e] = [pc |-> "create", of |-> Head(tick[k])]]
    BY DEF TickDispatches
  <1>2. 1 \in DOMAIN tick[k] /\ Head(tick[k]) = tick[k][1]
    BY <1>1, Passes
  <1>3. /\ exec'[e] = [pc |-> "create", of |-> Head(tick[k])] /\ exec'[e] # NoExec
        /\ \A f \in Execs \ {e} : exec'[f] = exec[f]
    BY <1>1 DEF Types, NoExec
  <1>4. \A t \in Tasks : ExecsOf(t)' = IF t = Head(tick[k]).task THEN ExecsOf(t) \union {e} ELSE ExecsOf(t)
    BY <1>1, <1>3 DEF ExecsOf, InFlight
  <1>5. Waiting' \subseteq Waiting
    BY <1>1, WaitingKept
  <1>6. Head(tick[k]) \in Waiting
    BY <1>2 DEF Waiting
  <1> QED BY <1>1, <1>3, <1>4, <1>5, <1>6 DEF Busy, InFlight

\* Nobody else has read the row of t
LEMMA HeldByNone ==
    ASSUME Types, NEW t \in Tasks, NEW W, ~Held(t, W)
    PROVE  /\ \A s \in Waiting : s.task # t
           /\ ExecsOf(t) \subseteq W /\ EditsOf(t) \subseteq W
  <1>1. \A k \in Ticks : t \notin Found(k)
    BY DEF Held
  <1>2. \A k \in Ticks : \A i \in DOMAIN tick[k] : tick[k][i].task # t
    BY <1>1 DEF Found
  <1> QED BY <1>2 DEF Held, Waiting

\* A task whose counter and readers stay
LEMMA EvenKept ==
    ASSUME NEW u \in Tasks, Even(u), u \notin drifted,
           failures'[u] = failures[u], streak'[u] = streak[u],
           u \in tripped' => u \in tripped \/ failures[u] >= MaxFailures,
           \A s \in Waiting' : s.task = u => s \in Waiting \/ s.failures = failures[u],
           \A d \in EditsOf(u)' : edit'[d].failures = failures[u],
           \A e \in ExecsOf(u)' : (e \in ExecsOf(u) /\ exec'[e] = exec[e]) \/ Counted(e)',
           \/ streak[u] = failures[u]
           \/ \A e \in ExecsOf(u) : exec[e].pc \in Ended => e \in ExecsOf(u)' /\ exec'[e] = exec[e],
           failures[u] >= MaxFailures /\ u \in enabled' =>
               \/ \E e \in ExecsOf(u)' : exec'[e].pc = "breaker"
               \/ \E d \in EditsOf(u)' : Reenables(d)'
    PROVE  Even(u)'
  <1>1. \A s \in Waiting' : s.task = u => s.failures = failures'[u]
    BY DEF Even
  <1>2. ASSUME NEW e \in ExecsOf(u)' PROVE Counted(e)'
    <2>1. CASE e \in ExecsOf(u) /\ exec'[e] = exec[e]
      <3>1. Counted(e) /\ exec[e].of.task = u
        BY <2>1 DEF Even, ExecsOf
      <3>2. Counted(e)' <=> Counted(e)
        BY <2>1, <3>1 DEF Counted, Another
      <3> QED BY <3>1, <3>2
    <2> QED BY <1>2, <2>1
  <1>3. (\A e \in ExecsOf(u)' : exec'[e].pc \notin Ended) => streak'[u] = failures'[u]
    BY DEF Even
  <1>4. u \in tripped' => failures'[u] >= MaxFailures
    BY DEF Even
  <1> QED BY <1>1, <1>2, <1>3, <1>4 DEF Even

\* A task that the step does not touch
LEMMA EvenFrame ==
    ASSUME NEW u \in Tasks, Even(u), u \in drifted => u \in drifted',
           failures'[u] = failures[u], streak'[u] = streak[u],
           u \in tripped' => u \in tripped, u \in enabled' => u \in enabled,
           \A s \in Waiting' : s.task = u => s \in Waiting \/ s.failures = failures[u],
           EditsOf(u)' = EditsOf(u), \A d \in EditsOf(u) : edit'[d] = edit[d],
           ExecsOf(u)' = ExecsOf(u), \A e \in ExecsOf(u) : exec'[e] = exec[e]
    PROVE  Even(u)'
  <1> SUFFICES ASSUME u \notin drifted' PROVE Even(u)'
    BY DEF Even
  <1>1. u \notin drifted
    OBVIOUS
  <1>2. \A d \in EditsOf(u)' : edit'[d].failures = failures[u]
    BY <1>1 DEF Even
  <1>3. failures[u] >= MaxFailures /\ u \in enabled' =>
               \/ \E e \in ExecsOf(u)' : exec'[e].pc = "breaker"
               \/ \E d \in EditsOf(u)' : Reenables(d)'
    BY <1>1 DEF Even, Reenables
  <1>4. \/ streak[u] = failures[u]
        \/ \A e \in ExecsOf(u) : exec[e].pc \in Ended => e \in ExecsOf(u)' /\ exec'[e] = exec[e]
    OBVIOUS
  <1> QED BY <1>1, <1>2, <1>3, <1>4, EvenKept

\* Nobody but e has read the row of its task
LEMMA EvenAlone ==
    ASSUME Types, NEW e \in Execs, InFlight(e), NEW p \in Points, Set(e, p), UNCHANGED <<tick, edit>>,
           NEW t \in Tasks, t = exec[e].of.task, ~Held(t, {e}), Counted(e)',
           p \notin Ended => streak'[t] = failures'[t],
           t \in tripped' => failures'[t] >= MaxFailures,
           failures'[t] >= MaxFailures /\ t \in enabled' => p = "breaker"
    PROVE  Even(t)'
  <1>1. ExecsOf(t) = {e}
    BY HeldByNone DEF ExecsOf
  <1>2. ExecsOf(t)' = {e} /\ exec'[e].pc = p
    BY <1>1, Goes
  <1>3. EditsOf(t) \subseteq {e} /\ \A s \in Waiting : s.task # t
    BY HeldByNone
  <1>4. EditsOf(t)' = {} /\ \A s \in Waiting' : s.task # t
    <2>1. EditsOf(t)' = EditsOf(t) /\ Waiting' = Waiting
      BY DEF EditsOf, Waiting
    <2> QED BY <1>3, <2>1, CronAssumption DEF EditsOf
  <1> QED BY <1>2, <1>4 DEF Even

\* Below the limit, and at it
LEMMA AtLimit ==
    ASSUME Types, Below, NEW t \in Tasks, Even(t), t \notin drifted, failures[t] >= MaxFailures
    PROVE  streak[t] >= MaxFailures
  <1>1. failures[t] \in 0 .. MaxFailures /\ MaxFailures \in Nat /\ failures[t] = MaxFailures
    BY CronAssumption DEF Types
  <1>2. CASE \A e \in ExecsOf(t) : exec[e].pc \notin Ended
    BY <1>1, <1>2 DEF Even
  <1>3. ASSUME NEW e \in ExecsOf(t), exec[e].pc \in Ended PROVE streak[t] >= MaxFailures
    <2>1. Counted(e) /\ exec[e].of.task = t /\ e \in Execs /\ e \in Busy
      BY DEF Even, ExecsOf, Busy
    <2>2. exec[e].pc # "reset"
      <3>1. exec[e].of.failures < MaxFailures
        BY <2>1 DEF Below
      <3> QED BY <1>1, <2>1, <3>1 DEF Counted
    <2>3. streak[t] = Another(failures[t])
      BY <1>3, <2>1, <2>2 DEF Counted, Ended
    <2> QED BY <1>1, <2>3 DEF Another
  <1> QED BY <1>2, <1>3

\* What an execution writes to the counter, the streak or the breaker of its own task
LEMMA EvenCounts ==
    ASSUME Types, Below, NEW e \in Execs, Completes(e) \/ Resets(e) \/ MarksFailed(e) \/ CountsFailure(e),
           NEW t \in Tasks, t = exec[e].of.task, Even(t)
    PROVE  Even(t)'
  <1>1. /\ InFlight(e) /\ UNCHANGED <<tick, edit>>
        /\ drifted' = Overlooked(t, {e}, drifted)
    BY SnapshotsApart DEF Types, Completes, Resets, MarksFailed, CountsFailure
  <1> SUFFICES ASSUME t \notin drifted' PROVE Even(t)'
    BY DEF Even
  <1>2. ~Held(t, {e}) /\ t \notin drifted
    BY <1>1 DEF Overlooked
  <1>3. ExecsOf(t) = {e} /\ Counted(e)
    <2>1. ExecsOf(t) = {e}
      BY <1>1, <1>2, HeldByNone DEF ExecsOf
    <2> QED BY <1>2, <2>1 DEF Even
  <1>4. /\ exec[e].of.failures < MaxFailures /\ exec[e].of.failures \in Nat /\ MaxFailures \in Nat \ {0}
        /\ failures[t] \in Nat /\ streak[t] \in Nat
    BY <1>1, SnapshotsApart, CronAssumption DEF Below, Busy, Types, Snapshots
  <1>5. \A p \in Points : Set(e, p) => exec'[e].pc = p /\ exec'[e].of = exec[e].of
    BY <1>1, Goes
  <1>6. CASE Completes(e)
    <2>1. /\ exec[e].pc = "run" /\ Set(e, "reset") /\ streak' = [streak EXCEPT ![t] = 0]
          /\ UNCHANGED <<failures, tripped>>
      BY <1>6 DEF Completes, table
    <2>2. streak'[t] = 0
      BY <2>1 DEF Types
    <2>3. failures[t] = exec[e].of.failures
      BY <1>3, <2>1 DEF Counted
    <2>4. exec'[e].pc = "reset" /\ exec'[e].of = exec[e].of /\ "reset" \in Points
      BY <1>5, <2>1 DEF Points
    <2>5. Counted(e)'
      BY <2>1, <2>2, <2>3, <2>4 DEF Counted
    <2>6. t \notin tripped'
      BY <1>2, <1>4, <2>1, <2>3 DEF Even
    <2> QED BY <1>1, <1>2, <1>4, <2>1, <2>3, <2>4, <2>5, <2>6, EvenAlone DEF Ended
  <1>7. CASE Resets(e)
    <2>1. /\ exec[e].pc = "reset" /\ Set(e, "reschedule") /\ failures' = [failures EXCEPT ![t] = 0]
          /\ tripped' = tripped \ {t} /\ UNCHANGED streak
      BY <1>7 DEF Resets, ResetFailures
    <2>2. failures'[t] = 0 /\ streak'[t] = 0
      BY <1>3, <2>1 DEF Types, Counted
    <2>3. exec'[e].pc = "reschedule" /\ exec'[e].of = exec[e].of /\ "reschedule" \in Points
      BY <1>5, <2>1 DEF Points
    <2>4. Counted(e)'
      BY <2>2, <2>3 DEF Counted
    <2> QED BY <1>1, <1>2, <1>4, <2>1, <2>2, <2>3, <2>4, EvenAlone
  <1>8. CASE MarksFailed(e)
    <2>1. /\ exec[e].pc = "fail" /\ Set(e, "count") /\ streak' = [streak EXCEPT ![t] = Another(@)]
          /\ UNCHANGED <<failures, tripped>>
      BY <1>8 DEF MarksFailed, table
    <2>2. streak[t] = failures[t]
      BY <1>2, <1>3, <2>1 DEF Even, Ended
    <2>3. streak'[t] = Another(failures[t])
      BY <2>1, <2>2 DEF Types
    <2>4. failures[t] = exec[e].of.failures
      BY <1>3, <2>1 DEF Counted
    <2>5. exec'[e].pc = "count" /\ exec'[e].of = exec[e].of /\ "count" \in Points
      BY <1>5, <2>1 DEF Points
    <2>6. Counted(e)'
      BY <2>1, <2>3, <2>4, <2>5 DEF Counted, Another
    <2>7. t \notin tripped'
      BY <1>2, <1>4, <2>1, <2>4 DEF Even
    <2>8. ~(failures'[t] >= MaxFailures) /\ "count" \in Ended
      BY <1>4, <2>1, <2>4 DEF Ended
    <2> QED BY <1>1, <1>2, <2>1, <2>5, <2>6, <2>7, <2>8, EvenAlone
  <1>9. CASE CountsFailure(e)
    <2>1. /\ exec[e].pc = "count" /\ Set(e, "breaker") /\ failures' = [failures EXCEPT ![t] = Another(@)]
          /\ UNCHANGED <<tripped, streak>>
      BY <1>9 DEF CountsFailure
    <2>2. failures[t] = exec[e].of.failures /\ streak[t] = Another(failures[t])
      BY <1>3, <2>1 DEF Counted
    <2>3. failures'[t] = Another(failures[t])
      BY <2>1 DEF Types
    <2>4. failures'[t] = exec[e].of.failures + 1
      BY <1>4, <2>2, <2>3 DEF Another
    <2>5. exec'[e].pc = "breaker" /\ exec'[e].of = exec[e].of /\ "breaker" \in Points
      BY <1>5, <2>1 DEF Points
    <2>6. Counted(e)'
      BY <2>4, <2>5 DEF Counted
    <2>7. t \notin tripped'
      BY <1>2, <1>4, <2>1, <2>2 DEF Even
    <2> QED BY <1>1, <1>2, <2>1, <2>2, <2>3, <2>5, <2>6, <2>7, EvenAlone
  <1> QED BY <1>6, <1>7, <1>8, <1>9 DEF Completes, Resets, MarksFailed, CountsFailure

LEMMA EvenExecutes ==
    ASSUME Types, Below, NEW e \in Execs, Executes(e) \/ Throws(e), NEW u \in Tasks, Even(u)
    PROVE  Even(u)'
  <1> DEFINE t == exec[e].of.task
  <1>1. /\ InFlight(e) /\ UNCHANGED <<tick, edit>> /\ ((\E p \in Points : Set(e, p)) \/ Finish(e))
        /\ t \in Tasks /\ e \in Busy
    BY StepsOn, SnapshotsApart DEF Types, Snapshots, Busy
  <1>2. /\ \A f \in Execs \ {e} : exec'[f] = exec[f]
        /\ \A w \in Tasks \ {t} : ExecsOf(w)' = ExecsOf(w) /\ e \notin ExecsOf(w)
    <2>1. \A f \in Execs \ {e} : exec'[f] = exec[f]
      BY <1>1, Goes, Ends
    <2>2. ASSUME NEW w \in Tasks \ {t} PROVE ExecsOf(w)' = ExecsOf(w) /\ e \notin ExecsOf(w)
      <3>1. e \notin ExecsOf(w)
        BY DEF ExecsOf
      <3> QED BY <1>1, <3>1, Goes, Ends
    <2> QED BY <2>1, <2>2
  <1>3. Waiting' = Waiting /\ \A w \in Tasks : EditsOf(w)' = EditsOf(w)
    BY <1>1 DEF Waiting, EditsOf
  <1>4. /\ \A w \in Tasks \ {t} : /\ failures'[w] = failures[w] /\ streak'[w] = streak[w]
                                  /\ (w \in tripped' => w \in tripped) /\ (w \in drifted => w \in drifted')
        /\ enabled' \subseteq enabled
    BY DEF Types, Executes, Throws, Creates, Completes, RunFails, Resets, Reschedules, Delivers, MarksFailed,
       CountsFailure, Breaks, Overlooked, ResetFailures, table, history, apart
  <1>5. CASE u # t
    BY <1>1, <1>2, <1>3, <1>4, <1>5, EvenFrame DEF ExecsOf
  <1>6. ASSUME u = t, u \notin drifted, Creates(e) \/ RunFails(e) \/ Reschedules(e) \/ Delivers(e) \/ Breaks(e) \/ Throws(e),
               exec[e].pc \notin {"reset", "count", "breaker"},
               exec[e].pc \in {"reschedule", "deliver"} => Finish(e) \/ Set(e, "deliver") \/ exec[e].of.failures = 0,
               UNCHANGED <<failures, streak>>, tripped' \subseteq tripped
        PROVE  Even(u)'
    <2>1. Counted(e) /\ e \in ExecsOf(u)
      BY <1>1, <1>6 DEF Even, ExecsOf
    <2>2. \A f \in ExecsOf(u) \ {e} : f \in ExecsOf(u)' /\ exec'[f] = exec[f]
      BY <1>1, <1>2, Goes, Ends DEF ExecsOf
    <2>3. ExecsOf(u)' \subseteq ExecsOf(u)
      BY <1>1, Goes, Ends
    <2>4. \/ Finish(e)
          \/ \E p \in {"run", "fail"} : Set(e, p)
          \/ Set(e, "deliver") /\ exec[e].pc = "reschedule"
      BY <1>6, Zenon DEF Creates, RunFails, Reschedules, Delivers, Breaks, Throws
    <2>5. e \in ExecsOf(u)' => Counted(e)'
      <3>1. CASE Finish(e)
        BY <1>1, <3>1, Ends
      <3>2. ASSUME NEW p \in {"run", "fail"}, Set(e, p) PROVE Counted(e)'
        <4>1. exec'[e].pc = p /\ exec'[e].of = exec[e].of
          BY <1>1, <3>2, Goes DEF Points
        <4>2. failures[u] = exec[e].of.failures
          <5>1. exec[e].pc \in {"reschedule", "deliver"} => exec[e].of.failures = 0
            <6>1. p # "deliver" /\ exec'[e].pc # "free"
              BY <4>1
            <6>2. ~Finish(e)
              BY <1>1, <6>1, Ends
            <6>3. Set(e, "deliver") => exec'[e].pc = "deliver"
              BY <1>1, Goes DEF Points
            <6> QED BY <1>6, <4>1, <6>1, <6>2, <6>3
          <5> QED BY <1>6, <2>1, <5>1 DEF Counted
        <4> QED BY <1>6, <4>1, <4>2 DEF Counted
      <3>3. CASE Set(e, "deliver") /\ exec[e].pc = "reschedule"
        <4>1. exec'[e].pc = "deliver" /\ exec'[e].of = exec[e].of
          BY <1>1, <3>3, Goes DEF Points
        <4> QED BY <1>6, <2>1, <3>3, <4>1 DEF Counted
      <3> QED BY <2>4, <3>1, <3>2, <3>3
    <2>6. \A f \in ExecsOf(u) : exec[f].pc \in Ended \union {"breaker"} => f \in ExecsOf(u)' /\ exec'[f] = exec[f]
      BY <1>6, <2>2 DEF Ended
    <2>7. failures[u] >= MaxFailures /\ u \in enabled' =>
               \/ \E f \in ExecsOf(u)' : exec'[f].pc = "breaker"
               \/ \E d \in EditsOf(u)' : Reenables(d)'
      <3>1. failures[u] >= MaxFailures /\ u \in enabled' =>
               \/ \E f \in ExecsOf(u) : exec[f].pc = "breaker"
               \/ \E d \in EditsOf(u) : Reenables(d)
        BY <1>4, <1>6 DEF Even
      <3>2. \A d \in EditsOf(u) : d \in EditsOf(u)' /\ Reenables(d)' = Reenables(d)
        BY <1>1, <1>3 DEF Reenables
      <3> QED BY <2>6, <3>1, <3>2
    <2>8. \A d \in EditsOf(u)' : edit'[d].failures = failures[u]
      BY <1>1, <1>3, <1>6 DEF Even
    <2>9. \A f \in ExecsOf(u)' : (f \in ExecsOf(u) /\ exec'[f] = exec[f]) \/ Counted(f)'
      BY <2>2, <2>3, <2>5
    <2> QED BY <1>3, <1>6, <2>6, <2>7, <2>8, <2>9, EvenKept
  <1>7. ASSUME u = t, u \notin drifted, Finish(e), exec[e].pc = "breaker", UNCHANGED <<failures, streak>>,
               IF Trips(e) THEN u \notin enabled' /\ tripped' \subseteq tripped \union {u} ELSE tripped' \subseteq tripped
        PROVE  Even(u)'
    <2>1. Counted(e) /\ e \in ExecsOf(u)
      BY <1>1, <1>7 DEF Even, ExecsOf
    <2>2. Trips(e) <=> failures[u] >= MaxFailures
      BY <1>7, <2>1 DEF Counted, Trips
    <2>3. ExecsOf(u)' = ExecsOf(u) \ {e} /\ \A f \in ExecsOf(u)' : exec'[f] = exec[f]
      BY <1>1, <1>2, <1>7, Ends DEF ExecsOf
    <2>4. \A f \in ExecsOf(u) : exec[f].pc \in Ended => f \in ExecsOf(u)' /\ exec'[f] = exec[f]
      BY <1>7, <2>3 DEF Ended
    <2>5. \A d \in EditsOf(u)' : edit'[d].failures = failures[u]
      BY <1>1, <1>3, <1>7 DEF Even
    <2>6. ~(failures[u] >= MaxFailures /\ u \in enabled')
      BY <1>7, <2>2
    <2>7. CASE ~Trips(e)
      <3>1. u \in tripped' => u \in tripped \/ failures[u] >= MaxFailures
        BY <1>7, <2>7
      <3> QED BY <1>3, <1>7, <2>3, <2>4, <2>5, <2>6, <3>1, EvenKept
    <2>8. CASE Trips(e)
      <3>1. u \in tripped' => u \in tripped \/ failures[u] >= MaxFailures
        BY <2>2, <2>8
      <3> QED BY <1>3, <1>7, <2>3, <2>4, <2>5, <2>6, <3>1, EvenKept
    <2> QED BY <2>7, <2>8
  <1> HIDE DEF t
  <1>8. CASE u = t /\ (Completes(e) \/ Resets(e) \/ MarksFailed(e) \/ CountsFailure(e))
    BY <1>8, EvenCounts DEF t
  <1>9. CASE u = t /\ (Creates(e) \/ RunFails(e) \/ Reschedules(e) \/ Delivers(e))
    <2>1. /\ exec[e].pc \in {"create", "run", "reschedule", "deliver"} /\ UNCHANGED <<failures, streak, drifted>>
          /\ tripped' \subseteq tripped
          /\ exec[e].pc \in {"reschedule", "deliver"} => Finish(e) \/ Set(e, "deliver")
      BY <1>9 DEF Creates, RunFails, Reschedules, Delivers, table, history, apart
    <2> QED BY <1>6, <1>9, <2>1 DEF Even
  <1>10. CASE u = t /\ Breaks(e)
    <2>1. /\ exec[e].pc = "breaker" /\ Finish(e) /\ UNCHANGED <<failures, streak, drifted>>
          /\ IF Trips(e) THEN u \notin enabled' /\ tripped' \subseteq tripped \union {u} ELSE tripped' \subseteq tripped
      BY <1>10 DEF Breaks, history, apart, t
    <2> QED BY <1>7, <1>10, <2>1 DEF Even
  <1>11. CASE u = t /\ Throws(e)
    <2>1. /\ UNCHANGED <<failures, streak, tripped, enabled>>
          /\ drifted' = IF CutsBreaker(e) \/ Relapses(e) THEN drifted \union {t} ELSE drifted
      BY <1>11 DEF Throws, table, t
    <2> SUFFICES ASSUME u \notin drifted' PROVE Even(u)'
      BY DEF Even
    <2>2. u \notin drifted /\ ~CutsBreaker(e) /\ ~Relapses(e)
      BY <1>11, <2>1
    <2>3. exec[e].of.failures \in Nat /\ exec[e].pc \in Points
      BY <1>1, SnapshotsApart, CronAssumption DEF Types, Snapshots
    <2>4. CASE exec[e].pc = "breaker"
      <3>1. Finish(e) /\ ~Trips(e)
        BY <1>11, <2>2, <2>4 DEF Throws, CutsBreaker
      <3> QED BY <1>7, <1>11, <2>1, <2>2, <2>4, <3>1
    <2>5. CASE exec[e].pc = "reset"
      <3>1. Set(e, "fail") /\ exec[e].of.failures = 0
        BY <1>11, <2>2, <2>3, <2>5 DEF Throws, CutsBreaker
      <3>2. Counted(e) /\ e \in ExecsOf(u)
        BY <1>1, <1>11, <2>2 DEF Even, ExecsOf, t
      <3>3. exec'[e].pc = "fail" /\ exec'[e].of = exec[e].of /\ ExecsOf(u)' = ExecsOf(u)
        BY <1>1, <3>1, Goes DEF Points
      <3>4. failures[u] = 0 /\ streak[u] = 0
        BY <1>11, <2>5, <3>1, <3>2 DEF Counted, t
      <3>5. Counted(e)'
        BY <1>11, <2>1, <3>1, <3>3, <3>4 DEF Counted, t
      <3>6. \A f \in ExecsOf(u)' : (f \in ExecsOf(u) /\ exec'[f] = exec[f]) \/ Counted(f)'
        BY <1>2, <3>3, <3>5 DEF ExecsOf
      <3>7. ~(failures[u] >= MaxFailures)
        BY <3>4, CronAssumption
      <3>8. \A d \in EditsOf(u)' : edit'[d].failures = failures[u]
        BY <1>1, <1>3, <2>2 DEF Even
      <3> QED BY <1>3, <2>1, <2>2, <3>4, <3>6, <3>7, <3>8, EvenKept
    <2>6. CASE exec[e].pc \notin {"breaker", "reset"}
      <3>1. exec[e].pc # "count" /\ (exec[e].pc \in {"reschedule", "deliver"} => exec[e].of.failures = 0)
        BY <2>2, <2>3, <2>6 DEF CutsBreaker, Relapses
      <3> QED BY <1>6, <1>11, <2>1, <2>2, <2>6, <3>1
    <2> QED BY <2>4, <2>5, <2>6
  <1> QED BY <1>5, <1>8, <1>9, <1>10, <1>11 DEF Executes

\* Who edits a task when a call of update() goes on
LEMMA EditsKept ==
    ASSUME Types, NEW d \in Editors, EditWrites(d) \/ EditSchedules(d) \/ EditResets(d) \/ EditFails(d), NEW u \in Tasks
    PROVE  /\ EditsOf(u)' \subseteq EditsOf(u)
           /\ \A f \in EditsOf(u)' : edit'[f].failures = edit[f].failures /\ edit'[f].change = edit[f].change
           /\ \A f \in EditsOf(u) \ {d} : f \in EditsOf(u)' /\ edit'[f] = edit[f]
           /\ edit'[d] # NoEdit /\ d \in EditsOf(u) => d \in EditsOf(u)' /\ edit'[d].pc \in {"next", "reset"}
           /\ u # edit[d].task => d \notin EditsOf(u)
  <1>1. d \in Editors /\ edit[d] # NoEdit
    BY EditGoes
  <1>2. \/ edit'[d] = NoEdit
        \/ /\ edit'[d].task = edit[d].task /\ edit'[d].failures = edit[d].failures
           /\ edit'[d].change = edit[d].change /\ edit'[d].pc \in {"next", "reset"}
    <2>1. \/ edit'[d] = NoEdit
          \/ \E p \in {"next", "reset"} :
                 edit'[d] = [pc |-> p, task |-> edit[d].task, change |-> edit[d].change, failures |-> edit[d].failures]
      BY EditGoes
    <2>2. ASSUME NEW p \in {"next", "reset"},
                 edit'[d] = [pc |-> p, task |-> edit[d].task, change |-> edit[d].change, failures |-> edit[d].failures]
          PROVE  /\ edit'[d].task = edit[d].task /\ edit'[d].failures = edit[d].failures
                 /\ edit'[d].change = edit[d].change /\ edit'[d].pc \in {"next", "reset"}
      BY <2>2
    <2> QED BY <2>1, <2>2, Zenon
  <1>3. \A f \in Editors \ {d} : edit'[f] = edit[f]
    BY EditGoes
  <1> QED BY <1>1, <1>2, <1>3 DEF EditsOf

LEMMA EvenEdits ==
    ASSUME Types, Below, NEW d \in Editors, Edits(d), NEW u \in Tasks, Even(u)
    PROVE  Even(u)'
  <1>1. ASSUME NEW t \in Tasks, NEW change \in Changes, EditReads(d, t, change) PROVE Even(u)'
    <2>1. /\ edit[d] = NoEdit /\ UNCHANGED <<table, tick, exec, streak, drifted>>
          /\ edit'[d].failures = failures[t] /\ edit'[d].task = t
          /\ \A f \in Editors \ {d} : edit'[f] = edit[f]
      <3>1. edit'[d] = [pc |-> "write", task |-> t, change |-> change, failures |-> failures[t]]
        BY <1>1, EditBegins
      <3>2. edit[d] = NoEdit /\ UNCHANGED <<table, tick, runs, history>> /\ \A f \in Editors \ {d} : edit'[f] = edit[f]
        BY <1>1, EditBegins
      <3> QED BY <3>1, <3>2 DEF runs, history, apart
    <2> SUFFICES ASSUME u \notin drifted PROVE Even(u)'
      BY <2>1 DEF Even
    <2>2. Waiting' = Waiting /\ ExecsOf(u)' = ExecsOf(u) /\ UNCHANGED <<failures, tripped, enabled>>
      BY <2>1 DEF Waiting, ExecsOf, InFlight, table
    <2>3. \A f \in EditsOf(u) : f \in EditsOf(u)' /\ edit'[f] = edit[f]
      BY <2>1 DEF EditsOf
    <2>4. \A f \in EditsOf(u)' : edit'[f].failures = failures[u]
      <3>1. \A f \in EditsOf(u)' : f \in EditsOf(u) \/ (f = d /\ t = u)
        BY <2>1 DEF EditsOf
      <3> QED BY <2>1, <2>3, <3>1 DEF Even
    <2>5. failures[u] >= MaxFailures /\ u \in enabled' =>
               \/ \E e \in ExecsOf(u)' : exec'[e].pc = "breaker"
               \/ \E f \in EditsOf(u)' : Reenables(f)'
      BY <2>1, <2>2, <2>3 DEF Even, Reenables
    <2> QED BY <2>1, <2>2, <2>4, <2>5, EvenKept
  <1>2. ASSUME EditWrites(d) \/ EditSchedules(d) \/ EditResets(d) \/ EditFails(d) PROVE Even(u)'
    <2> DEFINE t == edit[d].task
    <2>1. /\ t \in Tasks /\ edit[d].failures \in Nat /\ d \in EditsOf(t)
          /\ UNCHANGED <<tick, exec>> /\ edit[d] \in EditCalls
      <3>1. edit[d] # NoEdit /\ d \in EditsOf(edit[d].task) /\ UNCHANGED <<tick, exec>>
        BY <1>2, EditGoes
      <3>2. edit[d].task \in Tasks /\ edit[d].failures \in 0 .. MaxFailures /\ edit[d] \in EditCalls
        BY <3>1, EditTyped
      <3> QED BY <3>1, <3>2, CronAssumption
    <2>2. Waiting' = Waiting /\ \A w \in Tasks : ExecsOf(w)' = ExecsOf(w)
      BY <2>1 DEF Waiting, ExecsOf, InFlight
    <2>3. \A w \in Tasks \ {t} : /\ failures'[w] = failures[w] /\ streak'[w] = streak[w]
                                 /\ (w \in tripped' => w \in tripped) /\ (w \in enabled' => w \in enabled)
                                 /\ (w \in drifted => w \in drifted')
      <3>1. /\ failures' = failures \/ failures' = [failures EXCEPT ![t] = 0]
            /\ streak' = streak \/ streak' = [streak EXCEPT ![t] = 0]
            /\ tripped' \subseteq tripped /\ enabled' \subseteq enabled \union {t} /\ drifted \ {t} \subseteq drifted'
        BY <1>2 DEF EditWrites, EditSchedules, EditResets, EditFails, ResetFailures, table
      <3> HIDE DEF t
      <3> QED BY <2>1, <3>1 DEF Types
    <2>4. CASE u # t
      <3>1. EditsOf(u)' = EditsOf(u) /\ \A f \in EditsOf(u) : edit'[f] = edit[f]
        <4>1. d \notin EditsOf(u) /\ EditsOf(u)' \subseteq EditsOf(u)
          BY <1>2, <2>4, EditsKept
        <4>2. \A f \in EditsOf(u) \ {d} : f \in EditsOf(u)' /\ edit'[f] = edit[f]
          BY <1>2, EditsKept
        <4> QED BY <4>1, <4>2
      <3> QED BY <2>1, <2>2, <2>3, <2>4, <3>1, EvenFrame
    <2>5. ASSUME u = t, u \notin drifted, u \notin drifted', UNCHANGED <<failures, streak, tripped>>,
                 u \in enabled' /\ u \notin enabled /\ failures[u] >= MaxFailures => Reenables(d)' /\ d \in EditsOf(u)',
                 u \in enabled' /\ u \in enabled /\ failures[u] >= MaxFailures /\ Reenables(d) =>
                     Reenables(d)' /\ d \in EditsOf(u)'
          PROVE  Even(u)'
      <3>1. \A f \in EditsOf(u)' : edit'[f].failures = failures[u]
        BY <1>2, <2>5, EditsKept DEF Even
      <3>2. ASSUME failures[u] >= MaxFailures, u \in enabled'
            PROVE  \/ \E e \in ExecsOf(u)' : exec'[e].pc = "breaker"
                   \/ \E f \in EditsOf(u)' : Reenables(f)'
        <4>1. CASE u \notin enabled
          BY <2>5, <3>2, <4>1
        <4>2. CASE u \in enabled /\ \E e \in ExecsOf(u) : exec[e].pc = "breaker"
          BY <2>1, <2>2, <4>2
        <4>3. ASSUME u \in enabled, NEW f \in EditsOf(u), Reenables(f)
              PROVE  \E g \in EditsOf(u)' : Reenables(g)'
          <5>1. CASE f = d
            BY <2>5, <3>2, <4>3, <5>1
          <5>2. CASE f # d
            <6>1. f \in EditsOf(u)' /\ edit'[f] = edit[f]
              BY <1>2, <5>2, <4>3, EditsKept
            <6> QED BY <4>3, <6>1 DEF Reenables
          <5> QED BY <5>1, <5>2
        <4> QED BY <2>5, <3>2, <4>1, <4>2, <4>3 DEF Even
      <3> QED BY <2>1, <2>2, <2>5, <3>1, <3>2, EvenKept
    <2>6. CASE u = t /\ EditWrites(d)
      <3> SUFFICES ASSUME u \notin drifted' PROVE Even(u)'
        BY DEF Even
      <3>1. /\ edit[d].pc = "write" /\ UNCHANGED <<failures, streak, tripped, drifted>>
            /\ AfterSchedule(d) \/ edit' = [edit EXCEPT ![d].pc = "next"]
            /\ u \in enabled' /\ u \notin enabled => edit[d].change.enabled = "on"
        BY <2>6 DEF EditWrites
      <3>2. ~Reenables(d)
        BY <3>1 DEF Reenables
      <3>3. ASSUME u \in enabled', u \notin enabled, failures[u] >= MaxFailures
            PROVE  Reenables(d)' /\ d \in EditsOf(u)'
        <4>1. edit[d].failures > 0
          <5>1. edit[d].failures = failures[u]
            BY <2>1, <2>6, <3>1 DEF Even
          <5> QED BY <3>3, <5>1, CronAssumption DEF Types
        <4>2. edit'[d] # NoEdit
          <5>1. \A p \in {"next", "reset"} : [edit[d] EXCEPT !.pc = p] # NoEdit
            BY <2>1 DEF EditCalls, NoEdit
          <5>2. edit'[d] = [edit[d] EXCEPT !.pc = "next"] \/ edit'[d] = [edit[d] EXCEPT !.pc = "reset"]
            BY <1>2, <3>1, <4>1 DEF AfterSchedule, Types
          <5> QED BY <5>1, <5>2
        <4>3. d \in EditsOf(u)' /\ edit'[d].pc \in {"next", "reset"} /\ edit'[d].failures = edit[d].failures
              /\ edit'[d].change = edit[d].change
          BY <1>2, <2>1, <2>6, <4>2, EditsKept
        <4> QED BY <3>1, <3>3, <4>1, <4>3 DEF Reenables
      <3> QED BY <2>5, <2>6, <3>1, <3>2, <3>3
    <2>7. CASE u = t /\ EditSchedules(d)
      <3> SUFFICES ASSUME u \notin drifted' PROVE Even(u)'
        BY DEF Even
      <3>1. /\ edit[d].pc = "next" /\ UNCHANGED <<failures, streak, tripped, drifted, enabled>> /\ AfterSchedule(d)
        BY <2>7 DEF EditSchedules
      <3>2. ASSUME Reenables(d) PROVE Reenables(d)' /\ d \in EditsOf(u)'
        <4>1. edit'[d] = [edit[d] EXCEPT !.pc = "reset"]
          BY <3>1, <3>2 DEF AfterSchedule, Reenables, Types
        <4>2. edit'[d] # NoEdit
          BY <2>1, <4>1 DEF EditCalls, NoEdit
        <4>3. d \in EditsOf(u)' /\ edit'[d].pc \in {"next", "reset"} /\ edit'[d].failures = edit[d].failures
              /\ edit'[d].change = edit[d].change
          BY <1>2, <2>1, <2>7, <4>2, EditsKept
        <4> QED BY <3>2, <4>3 DEF Reenables
      <3> QED BY <2>5, <2>7, <3>1, <3>2
    <2>8. CASE u = t /\ EditResets(d)
      <3> SUFFICES ASSUME u \notin drifted' PROVE Even(u)'
        BY DEF Even
      <3>1. /\ ~Held(u, {d}) /\ failures' = [failures EXCEPT ![u] = 0] /\ streak' = [streak EXCEPT ![u] = 0]
            /\ tripped' = tripped \ {u} /\ edit' = [edit EXCEPT ![d] = NoEdit]
        BY <2>8 DEF EditResets, ResetFailures
      <3>2. failures'[u] = 0 /\ streak'[u] = 0 /\ edit'[d] = NoEdit
        BY <3>1 DEF Types
      <3>3. ExecsOf(u) = {} /\ EditsOf(u) \subseteq {d} /\ \A s \in Waiting : s.task # u
        BY <3>1, HeldByNone, CronAssumption DEF ExecsOf
      <3>4. EditsOf(u)' = {} /\ ExecsOf(u)' = {}
        <4>1. EditsOf(u)' \subseteq EditsOf(u)
          BY <1>2, EditsKept
        <4> QED BY <2>2, <3>2, <3>3, <4>1 DEF EditsOf
      <3> QED BY <2>2, <3>1, <3>2, <3>3, <3>4, CronAssumption DEF Even
    <2>9. CASE u = t /\ EditFails(d)
      <3> SUFFICES ASSUME u \notin drifted' PROVE Even(u)'
        BY DEF Even
      <3>1. /\ UNCHANGED <<failures, streak, tripped, enabled>>
            /\ drifted' = IF Reenables(d) /\ streak[u] >= MaxFailures THEN drifted \union {u} ELSE drifted
        BY <2>9 DEF EditFails, table
      <3>2. u \notin drifted /\ ~(Reenables(d) /\ failures[u] >= MaxFailures)
        BY <3>1, AtLimit
      <3> QED BY <2>5, <2>9, <3>1, <3>2
    <2> QED BY <1>2, <2>4, <2>6, <2>7, <2>8, <2>9
  <1> QED BY <1>1, <1>2 DEF Edits

LEMMA EvenRestarted ==
    ASSUME Types, Below, Restart, NEW u \in Tasks, Even(u)
    PROVE  Even(u)'
  <1> SUFFICES ASSUME u \notin drifted' PROVE Even(u)'
    BY DEF Even
  <1>1. /\ u \notin drifted
        /\ \A e \in ExecsOf(u) : ~CutsBreaker(e)
        /\ streak[u] >= MaxFailures => \A d \in EditsOf(u) : ~Reenables(d)
        /\ UNCHANGED <<failures, streak, tripped, enabled>>
    BY DEF Restart, table
  <1>2. Waiting' = {} /\ ExecsOf(u)' = {} /\ EditsOf(u)' = {}
    <2>1. \A k \in Ticks : tick'[k] = <<>> /\ DOMAIN <<>> = {}
      BY DEF Restart
    <2> QED BY <2>1 DEF Restart, Waiting, ExecsOf, EditsOf, InFlight
  <1>3. \A e \in ExecsOf(u) : Counted(e) /\ exec[e].of.failures \in Nat /\ exec[e].of.task = u
    BY <1>1, SnapshotsApart, CronAssumption DEF Even, ExecsOf, Types, Snapshots
  <1>4. streak[u] = failures[u]
    <2>1. ASSUME NEW e \in ExecsOf(u), exec[e].pc \in Ended PROVE streak[u] = failures[u]
      <3>1. exec[e].pc = "reset" /\ exec[e].of.failures = 0
        BY <1>1, <1>3, <2>1 DEF CutsBreaker, Ended
      <3> QED BY <1>3, <3>1 DEF Counted
    <2> QED BY <1>1, <2>1 DEF Even
  <1>5. ~(failures[u] >= MaxFailures /\ u \in enabled')
    <2> SUFFICES ASSUME failures[u] >= MaxFailures, u \in enabled PROVE FALSE
      BY <1>1
    <2>1. \A d \in EditsOf(u) : ~Reenables(d)
      BY <1>1, AtLimit
    <2>2. \A e \in ExecsOf(u) : exec[e].pc # "breaker"
      BY <1>1, <1>3 DEF Counted, CutsBreaker, Trips
    <2> QED BY <1>1, <2>1, <2>2 DEF Even
  <1> QED BY <1>1, <1>2, <1>4, <1>5, EvenKept

LEMMA EvenNext ==
    ASSUME Types, Below, NEW u \in Tasks, Even(u), [Next]_vars
    PROVE  Even(u)'
  <1>1. ASSUME UNCHANGED <<failures, streak, drifted, exec, edit>>, tripped' \subseteq tripped, enabled' \subseteq enabled,
               \A s \in Waiting' : s \in Waiting \/ s = Snapshot(s.task)
        PROVE  Even(u)'
    <2>1. ExecsOf(u)' = ExecsOf(u) /\ EditsOf(u)' = EditsOf(u)
      BY <1>1 DEF ExecsOf, EditsOf, InFlight
    <2>2. \A s \in Waiting' : s.task = u => s \in Waiting \/ s.failures = failures[u]
      BY <1>1 DEF Snapshot
    <2> QED BY <1>1, <2>1, <2>2, EvenFrame
  <1>2. ASSUME NEW t \in Tasks, BecomesDue(t) \/ Removes(t) PROVE Even(u)'
    <2>1. UNCHANGED <<failures, streak, drifted, exec, edit, tick>> /\ tripped' \subseteq tripped /\ enabled' \subseteq enabled
      BY <1>2 DEF BecomesDue, Removes, runs, history, apart
    <2> QED BY <1>1, <2>1, WaitingKept
  <1>3. ASSUME NEW v \in Users, PolicyChanges(v) PROVE Even(u)'
    BY <1>1, <1>3, WaitingKept DEF PolicyChanges, table, runs, history, apart
  <1>4. ASSUME NEW k \in Ticks, TickSkips(k) \/ TickFails(k) PROVE Even(u)'
    BY <1>1, <1>4, WaitingKept DEF TickSkips, TickFails, table, runs, history, apart
  <1>5. ASSUME NEW k \in Ticks, TickFinds(k) PROVE Even(u)'
    BY <1>1, <1>5, WaitingFound DEF TickFinds, table, runs, apart
  <1>6. ASSUME NEW k \in Ticks, NEW e \in Execs, TickDispatches(k, e) PROVE Even(u)'
    <2> SUFFICES ASSUME u \notin drifted' PROVE Even(u)'
      BY DEF Even
    <2>1. UNCHANGED <<table, failures, streak, tripped, enabled, drifted, edit>> /\ u \notin drifted
      BY <1>6 DEF TickDispatches, table, history, apart
    <2>2. EditsOf(u)' = EditsOf(u) /\ \A d \in EditsOf(u) : Reenables(d)' = Reenables(d) /\ edit'[d].failures = failures[u]
      BY <2>1 DEF EditsOf, Reenables, Even
    <2>3. \A f \in ExecsOf(u) : f \in ExecsOf(u)' /\ exec'[f] = exec[f]
      BY <1>6, WaitingDispatched DEF ExecsOf, Busy
    <2>4. \A f \in ExecsOf(u)' : (f \in ExecsOf(u) /\ exec'[f] = exec[f]) \/ Counted(f)'
      <3> SUFFICES ASSUME e \in ExecsOf(u)', e \notin ExecsOf(u) PROVE Counted(e)'
        <4>1. ExecsOf(u)' \subseteq ExecsOf(u) \union {e}
          BY <1>6, WaitingDispatched
        <4> QED BY <2>3, <4>1
      <3>1. exec'[e] = [pc |-> "create", of |-> Head(tick[k])] /\ Head(tick[k]) \in Waiting
        BY <1>6, WaitingDispatched
      <3>2. Head(tick[k]).task = u
        BY <3>1 DEF ExecsOf
      <3>3. Head(tick[k]).failures = failures[u]
        BY <2>1, <3>1, <3>2 DEF Even
      <3> QED BY <2>1, <3>1, <3>2, <3>3 DEF Counted
    <2>5. failures[u] >= MaxFailures /\ u \in enabled' =>
               \/ \E f \in ExecsOf(u)' : exec'[f].pc = "breaker"
               \/ \E d \in EditsOf(u)' : Reenables(d)'
      BY <2>1, <2>2, <2>3 DEF Even
    <2>6. Waiting' \subseteq Waiting
      BY <1>6, WaitingDispatched
    <2> QED BY <2>1, <2>2, <2>3, <2>4, <2>5, <2>6, EvenKept
  <1>7. CASE UNCHANGED vars
    BY <1>1, <1>7, WaitingKept DEF vars, table, runs, history, apart
  <1> QED BY <1>2, <1>3, <1>4, <1>5, <1>6, <1>7, EvenExecutes, EvenEdits, EvenRestarted DEF Next, Ticking, Dispatches

LEMMA BelowNext ==
    ASSUME Types, Below, [Next]_vars
    PROVE  Below'
  <1>1. CASE UNCHANGED exec
    BY <1>1 DEF Below, Busy, InFlight
  <1>2. ASSUME NEW k \in Ticks, NEW e \in Execs, TickDispatches(k, e) PROVE Below'
    <2>1. Head(tick[k]).failures < MaxFailures
      BY <1>2 DEF TickDispatches, CanDispatch
    <2>2. exec'[e].of.failures < MaxFailures
      <3>1. exec'[e] = [pc |-> "create", of |-> Head(tick[k])]
        BY <1>2, WaitingDispatched
      <3> QED BY <2>1, <3>1
    <2>3. \A f \in Busy' \ {e} : f \in Busy /\ exec'[f] = exec[f]
      BY <1>2, WaitingDispatched DEF Busy, InFlight
    <2> QED BY <2>2, <2>3 DEF Below
  <1>3. ASSUME NEW e \in Execs, Executes(e) \/ Throws(e) PROVE Below'
    <2>1. InFlight(e) /\ ((\E p \in Points : Set(e, p)) \/ Finish(e))
      BY <1>3, StepsOn
    <2>2. \A f \in Busy' : f \in Busy /\ exec'[f].of = exec[f].of
      <3>1. ASSUME NEW p \in Points, Set(e, p) PROVE \A f \in Busy' : f \in Busy /\ exec'[f].of = exec[f].of
        BY <2>1, <3>1, Goes DEF Busy
      <3>2. CASE Finish(e)
        BY <2>1, <3>2, Ends DEF Busy
      <3> QED BY <2>1, <3>1, <3>2
    <2> QED BY <2>2 DEF Below
  <1>4. CASE Restart
    BY <1>4 DEF Restart, Below, Busy, InFlight
  <1>5. ASSUME NEW d \in Editors, Edits(d) PROVE Below'
    <2>1. UNCHANGED exec
      BY <1>5, EditBegins, EditGoes DEF Edits, runs
    <2> QED BY <1>1, <2>1
  <1> QED BY <1>1, <1>2, <1>3, <1>4, <1>5 DEF Next, Ticking, Dispatches, BecomesDue, Removes, PolicyChanges, TickFinds,
          TickSkips, TickFails, vars, runs

---------------------------------------------------------------------------
(* Schedules and next runs *)

\* A task whose schedule and readers stay
LEMMA PlannedKept ==
    ASSUME NEW u \in Tasks, Planned(u), u \notin unplanned, u \in oneShot' <=> u \in oneShot,
           \A s \in Waiting' : s.task = u => s \in Waiting \/ s.oneShot = (u \in oneShot),
           \A e \in ExecsOf(u)' : exec'[e].of.oneShot = (u \in oneShot),
           \A d \in EditsOf(u)' : edit'[d].pc = "next" => d \in EditsOf(u) /\ edit'[d] = edit[d],
           u \in exists' => u \in exists,
           u \in exists' /\ u \notin oneShot => u \in later' \union due' \/ \E d \in EditsOf(u)' : Replans(d)'
    PROVE  Planned(u)'
  BY DEF Planned

\* The next run of t is written, or nobody's
LEMMA StaysPlanned ==
    ASSUME NEW t \in Tasks, NEW u \in Tasks, u \in later \union due,
           \/ UNCHANGED <<later, due, earlier>>
           \/ NextRunAt(t, TRUE)
           \/ u # t /\ \E future \in BOOLEAN : NextRunAt(t, future)
    PROVE  u \in later' \union due'
  BY DEF NextRunAt, OffCalendar

LEMMA PlannedExecutes ==
    ASSUME Types, NEW e \in Execs, Executes(e) \/ Throws(e), NEW u \in Tasks, Planned(u)
    PROVE  Planned(u)'
  <1> DEFINE t == exec[e].of.task
  <1>1. /\ InFlight(e) /\ UNCHANGED <<tick, exists, oneShot, edit, unplanned>>
        /\ ((\E p \in Points : Set(e, p)) \/ Finish(e))
        /\ t \in Tasks /\ exec[e].of.oneShot \in BOOLEAN /\ e \in ExecsOf(t)
    BY StepsOn, SnapshotsApart DEF Types, Snapshots, ExecsOf
  <1> SUFFICES ASSUME u \notin unplanned PROVE Planned(u)'
    BY <1>1 DEF Planned
  <1>2. \A f \in ExecsOf(u)' : f \in ExecsOf(u) /\ exec'[f].of = exec[f].of
    <2>1. ASSUME NEW p \in Points, Set(e, p), NEW f \in ExecsOf(u)' PROVE f \in ExecsOf(u) /\ exec'[f].of = exec[f].of
      BY <1>1, <2>1, Goes DEF ExecsOf
    <2>2. ASSUME Finish(e), NEW f \in ExecsOf(u)' PROVE f \in ExecsOf(u) /\ exec'[f].of = exec[f].of
      <3>1. f \in ExecsOf(u) \ {e}
        BY <1>1, <2>2, Ends
      <3> QED BY <1>1, <2>2, <3>1, Ends DEF ExecsOf
    <2> QED BY <1>1, <2>1, <2>2
  <1>3. Waiting' = Waiting /\ EditsOf(u)' = EditsOf(u) /\ \A d \in EditsOf(u) : Replans(d)' = Replans(d)
    BY <1>1 DEF Waiting, EditsOf, Replans
  <1>4. \A f \in ExecsOf(u)' : exec'[f].of.oneShot = (u \in oneShot)
    BY <1>2 DEF Planned
  <1>5. u = t => exec[e].of.oneShot = (u \in oneShot)
    BY <1>1 DEF Planned
  <1> HIDE DEF t
  <1>6. u \in exists' /\ u \notin oneShot => u \in later' \union due' \/ \E d \in EditsOf(u)' : Replans(d)'
    <2>1. \/ UNCHANGED <<later, due, earlier>> \/ NextRunAt(t, TRUE)
          \/ Breaks(e) /\ NextRunAt(t, ~exec[e].of.oneShot)
      BY DEF Executes, Throws, Creates, Completes, RunFails, Resets, Reschedules, Delivers, MarksFailed,
         CountsFailure, Breaks, table, t
    <2>2. u \notin oneShot => \/ UNCHANGED <<later, due, earlier>> \/ NextRunAt(t, TRUE)
                              \/ u # t /\ \E future \in BOOLEAN : NextRunAt(t, future)
      BY <1>1, <1>5, <2>1
    <2> QED BY <1>1, <1>3, <2>2, StaysPlanned DEF Planned
  <1> QED BY <1>1, <1>3, <1>4, <1>6, PlannedKept

LEMMA PlannedEdits ==
    ASSUME Types, NEW d \in Editors, Edits(d), NEW u \in Tasks, Planned(u)
    PROVE  Planned(u)'
  <1>1. ASSUME NEW t \in Tasks, NEW change \in Changes, EditReads(d, t, change) PROVE Planned(u)'
    <2>1. edit[d] = NoEdit /\ UNCHANGED <<table, tick, exec, unplanned>> /\ \A f \in Editors \ {d} : edit'[f] = edit[f]
      BY <1>1, EditBegins DEF runs, history, apart
    <2>2. edit'[d].pc = "write"
      <3>1. edit'[d] = [pc |-> "write", task |-> t, change |-> change, failures |-> failures[t]]
        BY <1>1, EditBegins
      <3> QED BY <3>1
    <2> SUFFICES ASSUME u \notin unplanned PROVE Planned(u)'
      BY <2>1 DEF Planned
    <2>3. /\ Waiting' = Waiting /\ ExecsOf(u)' = ExecsOf(u)
          /\ UNCHANGED <<oneShot, exists, later, due>>
      BY <2>1 DEF Waiting, ExecsOf, InFlight, table
    <2>4. \A f \in EditsOf(u) : f \in EditsOf(u)' /\ edit'[f] = edit[f]
      BY <2>1 DEF EditsOf
    <2>5. \A f \in EditsOf(u)' : edit'[f].pc = "next" => f \in EditsOf(u) /\ edit'[f] = edit[f]
      BY <2>1, <2>2 DEF EditsOf
    <2>6. u \in exists' /\ u \notin oneShot => u \in later' \union due' \/ \E f \in EditsOf(u)' : Replans(f)'
      BY <2>3, <2>4 DEF Planned, Replans
    <2>7. \A e \in ExecsOf(u)' : exec'[e].of.oneShot = (u \in oneShot)
      BY <2>1, <2>3 DEF Planned
    <2> QED BY <2>3, <2>5, <2>6, <2>7, PlannedKept
  <1>2. ASSUME EditWrites(d) \/ EditSchedules(d) \/ EditResets(d) \/ EditFails(d) PROVE Planned(u)'
    <2> SUFFICES ASSUME u \notin unplanned' PROVE Planned(u)'
      BY DEF Planned
    <2> DEFINE t == edit[d].task
    <2>1. d \in EditsOf(t) /\ UNCHANGED <<tick, exec, exists>> /\ edit[d] # NoEdit
      BY <1>2, EditGoes
    <2>2. t \in Tasks /\ edit[d] \in EditCalls
      BY <2>1, EditTyped
    <2>3. Waiting' = Waiting /\ ExecsOf(u)' = ExecsOf(u)
      BY <2>1 DEF Waiting, ExecsOf, InFlight
    <2>4. /\ EditsOf(u)' \subseteq EditsOf(u)
          /\ \A f \in EditsOf(u) \ {d} : f \in EditsOf(u)' /\ edit'[f] = edit[f]
          /\ u # t => d \notin EditsOf(u)
      BY <1>2, EditsKept
    <2>5. (u # t => oneShot' \ {t} = oneShot \ {t}) /\ (u # t => unplanned' \ {t} = unplanned \ {t})
      BY <1>2 DEF EditWrites, EditSchedules, EditResets, EditFails, Overlooked, table
    <2>6. UNCHANGED <<later, due, earlier>> \/ \E future \in BOOLEAN : NextRunAt(t, future)
      BY <1>2 DEF EditWrites, EditSchedules, EditResets, EditFails, table
    <2> HIDE DEF t
    <2>7. CASE u # t
      <3>1. u \notin unplanned /\ (u \in oneShot' <=> u \in oneShot)
        BY <2>5, <2>7
      <3>2. \A f \in EditsOf(u)' : f \in EditsOf(u) /\ edit'[f] = edit[f]
        BY <2>4, <2>7
      <3>3. u \in exists' /\ u \notin oneShot => u \in later' \union due' \/ \E f \in EditsOf(u)' : Replans(f)'
        <4>1. \A f \in EditsOf(u) : f \in EditsOf(u)' /\ Replans(f)' = Replans(f)
          BY <2>4, <2>7 DEF Replans
        <4>2. u \in later \union due => u \in later' \union due'
          BY <2>2, <2>6, <2>7, StaysPlanned DEF t
        <4> QED BY <2>1, <3>1, <4>1, <4>2 DEF Planned
      <3>4. \A e \in ExecsOf(u)' : exec'[e].of.oneShot = (u \in oneShot)
        BY <2>1, <2>3, <3>1 DEF Planned
      <3> QED BY <2>1, <2>3, <3>1, <3>2, <3>3, <3>4, PlannedKept
    <2>8. ASSUME u = t, u \notin unplanned, UNCHANGED oneShot,
                 ~(d \in EditsOf(u)' /\ edit'[d].pc = "next"),
                 UNCHANGED <<later, due>> \/ u \in later',
                 u \in oneShot \/ u \in later' \/ ~Replans(d)
          PROVE  Planned(u)'
      <3>1. \A f \in EditsOf(u)' : edit'[f].pc = "next" => f \in EditsOf(u) /\ edit'[f] = edit[f]
        BY <2>4, <2>8
      <3>2. u \in exists' /\ u \notin oneShot => u \in later' \union due' \/ \E f \in EditsOf(u)' : Replans(f)'
        <4>1. \A f \in EditsOf(u) \ {d} : f \in EditsOf(u)' /\ Replans(f)' = Replans(f)
          BY <2>4 DEF Replans
        <4> QED BY <2>1, <2>8, <4>1 DEF Planned
      <3>3. \A e \in ExecsOf(u)' : exec'[e].of.oneShot = (u \in oneShot)
        BY <2>1, <2>3, <2>8 DEF Planned
      <3> QED BY <2>1, <2>3, <2>8, <3>1, <3>2, <3>3, PlannedKept
    <2>9. CASE u = t /\ EditWrites(d) /\ edit[d].change.schedule = "keep"
      <3>1. edit[d].pc = "write" /\ AfterSchedule(d) /\ UNCHANGED <<oneShot, unplanned, later, due>>
        BY <2>9 DEF EditWrites
      <3>2. edit'[d] = NoEdit \/ edit'[d] = [edit[d] EXCEPT !.pc = "reset"]
        BY <3>1 DEF AfterSchedule, Types
      <3>3. edit'[d].pc # "next"
        BY <2>2, <3>2 DEF NoEdit, EditCalls
      <3> QED BY <2>8, <2>9, <3>1, <3>3 DEF Replans
    <2>10. CASE u = t /\ EditWrites(d) /\ edit[d].change.schedule # "keep"
      <3>1. /\ oneShot' = IF edit[d].change.schedule = "at" THEN oneShot \union {u} ELSE oneShot \ {u}
            /\ ~Held(u, {d}) /\ edit' = [edit EXCEPT ![d].pc = "next"]
        BY <2>10 DEF EditWrites, Overlooked, t
      <3>2. (\A s \in Waiting : s.task # u) /\ ExecsOf(u) = {} /\ EditsOf(u) \subseteq {d}
        BY <3>1, HeldByNone, CronAssumption DEF ExecsOf
      <3>3. edit'[d] = [edit[d] EXCEPT !.pc = "next"]
        BY <2>1, <3>1 DEF Types, EditsOf
      <3>4. edit'[d] # NoEdit /\ edit'[d].pc = "next" /\ edit'[d].change = edit[d].change
        BY <2>2, <3>3 DEF NoEdit, EditCalls
      <3>5. EditsOf(u)' = {d}
        BY <1>2, <2>1, <2>4, <2>10, <3>2, <3>4, EditsKept
      <3>6. edit[d].change.schedule \in {"at", "every"}
        BY <2>2, <2>10, CronAssumption DEF EditCalls
      <3>7. edit'[d].change.schedule = IF u \in oneShot' THEN "at" ELSE "every"
        BY <3>1, <3>4, <3>6
      <3>8. u \notin oneShot' => Replans(d)'
        BY <3>4, <3>7 DEF Replans
      <3> QED BY <2>3, <3>2, <3>5, <3>7, <3>8 DEF Planned
    <2>11. CASE u = t /\ EditSchedules(d)
      <3>1. /\ edit[d].pc = "next" /\ AfterSchedule(d) /\ UNCHANGED oneShot
            /\ unplanned' = IF edit[d].change.schedule = "every" /\ ~Held(u, {d}) THEN unplanned \ {u} ELSE unplanned
            /\ \E future \in BOOLEAN : (edit[d].change.schedule = "every" => future) /\ NextRunAt(u, future)
        BY <2>11 DEF EditSchedules, t
      <3>2. edit'[d] = NoEdit \/ edit'[d] = [edit[d] EXCEPT !.pc = "reset"]
        BY <3>1 DEF AfterSchedule, Types
      <3>3. edit'[d].pc # "next"
        BY <2>2, <3>2 DEF NoEdit, EditCalls
      <3>4. edit[d].change.schedule = "every" => u \in later'
        BY <3>1 DEF NextRunAt
      <3>5. CASE u \in unplanned
        <4>1. edit[d].change.schedule = "every" /\ ~Held(u, {d})
          BY <3>1, <3>5
        <4>2. (\A s \in Waiting : s.task # u) /\ ExecsOf(u) = {} /\ EditsOf(u) \subseteq {d}
          BY <4>1, HeldByNone, CronAssumption DEF ExecsOf
        <4> QED BY <2>3, <2>4, <3>3, <3>4, <4>1, <4>2 DEF Planned
      <3>6. CASE u \notin unplanned
        <4>1. edit[d].change.schedule = IF u \in oneShot THEN "at" ELSE "every"
          BY <2>1, <2>11, <3>1, <3>6 DEF Planned
        <4>2. u \in oneShot \/ u \in later'
          BY <3>4, <4>1
        <4>3. \A f \in EditsOf(u)' : edit'[f].pc = "next" => f \in EditsOf(u) /\ edit'[f] = edit[f]
          BY <2>4, <3>3
        <4>4. \A e \in ExecsOf(u)' : exec'[e].of.oneShot = (u \in oneShot)
          BY <2>1, <2>3, <3>6 DEF Planned
        <4> QED BY <2>1, <2>3, <3>1, <3>6, <4>2, <4>3, <4>4, PlannedKept
      <3> QED BY <3>5, <3>6
    <2>12. CASE u = t /\ EditResets(d)
      <3>1. edit[d].pc = "reset" /\ UNCHANGED <<oneShot, unplanned, later, due>> /\ edit'[d] = NoEdit
        BY <2>1, <2>12 DEF EditResets, EditsOf, Types
      <3> QED BY <2>8, <2>12, <3>1 DEF Replans, EditsOf
    <2>13. CASE u = t /\ EditFails(d)
      <3>1. /\ UNCHANGED <<oneShot, later, due>> /\ edit'[d] = NoEdit
            /\ unplanned' = IF Replans(d) THEN unplanned \union {u} ELSE unplanned
        BY <2>1, <2>13 DEF EditFails, EditsOf, Types, table, t
      <3> QED BY <2>8, <2>13, <3>1 DEF EditsOf
    <2> QED BY <1>2, <2>7, <2>9, <2>10, <2>11, <2>12, <2>13
  <1> QED BY <1>1, <1>2 DEF Edits

LEMMA PlannedNext ==
    ASSUME Types, NEW u \in Tasks, Planned(u), [Next]_vars
    PROVE  Planned(u)'
  <1>1. ASSUME UNCHANGED <<oneShot, unplanned, exec, edit>>, exists' \subseteq exists,
               UNCHANGED <<later, due>> \/ (\E t \in Tasks : BecomesDue(t)) \/ u \notin exists'
                   \/ (\E t \in Tasks \ {u} : Removes(t)),
               \A s \in Waiting' : s \in Waiting \/ s = Snapshot(s.task)
        PROVE  Planned(u)'
    <2> SUFFICES ASSUME u \notin unplanned PROVE Planned(u)'
      BY <1>1 DEF Planned
    <2>1. ExecsOf(u)' = ExecsOf(u) /\ EditsOf(u)' = EditsOf(u) /\ \A d \in EditsOf(u) : Replans(d)' = Replans(d)
      BY <1>1 DEF ExecsOf, EditsOf, InFlight, Replans
    <2>2. \A s \in Waiting' : s.task = u => s \in Waiting \/ s.oneShot = (u \in oneShot)
      BY <1>1 DEF Snapshot
    <2>3. u \in exists' /\ u \in later \union due => u \in later' \union due'
      BY <1>1 DEF BecomesDue, Removes, OffCalendar
    <2>4. u \in exists' /\ u \notin oneShot => u \in later' \union due' \/ \E d \in EditsOf(u)' : Replans(d)'
      BY <1>1, <2>1, <2>3 DEF Planned
    <2>5. \A e \in ExecsOf(u)' : exec'[e].of.oneShot = (u \in oneShot)
      BY <1>1, <2>1 DEF Planned
    <2> QED BY <1>1, <2>1, <2>2, <2>4, <2>5, PlannedKept
  <1>2. ASSUME NEW t \in Tasks, BecomesDue(t) \/ Removes(t) PROVE Planned(u)'
    <2>1. UNCHANGED <<oneShot, unplanned, exec, edit, tick>> /\ exists' \subseteq exists
      BY <1>2 DEF BecomesDue, Removes, runs, history, apart
    <2>2. Waiting' \subseteq Waiting
      BY <2>1, WaitingKept
    <2>3. (\E w \in Tasks : BecomesDue(w)) \/ u \notin exists' \/ (\E w \in Tasks \ {u} : Removes(w))
      BY <1>2 DEF Removes
    <2> QED BY <1>1, <2>1, <2>2, <2>3
  <1>3. ASSUME NEW v \in Users, PolicyChanges(v) PROVE Planned(u)'
    BY <1>1, <1>3, WaitingKept DEF PolicyChanges, table, runs, history, apart
  <1>4. ASSUME NEW k \in Ticks, TickSkips(k) \/ TickFails(k) PROVE Planned(u)'
    BY <1>1, <1>4, WaitingKept DEF TickSkips, TickFails, table, runs, history, apart
  <1>5. ASSUME NEW k \in Ticks, TickFinds(k) PROVE Planned(u)'
    BY <1>1, <1>5, WaitingFound DEF TickFinds, table, runs, apart
  <1>6. ASSUME NEW k \in Ticks, NEW e \in Execs, TickDispatches(k, e) PROVE Planned(u)'
    <2>1. UNCHANGED <<table, edit, unplanned>>
      BY <1>6 DEF TickDispatches, history, apart
    <2> SUFFICES ASSUME u \notin unplanned PROVE Planned(u)'
      BY <2>1 DEF Planned
    <2>2. EditsOf(u)' = EditsOf(u) /\ \A d \in EditsOf(u) : Replans(d)' = Replans(d)
      BY <2>1 DEF EditsOf, Replans
    <2>3. ASSUME NEW f \in ExecsOf(u)' PROVE exec'[f].of.oneShot = (u \in oneShot)
      <3>1. CASE f = e
        <4>1. exec'[e] = [pc |-> "create", of |-> Head(tick[k])] /\ Head(tick[k]) \in Waiting
          BY <1>6, WaitingDispatched
        <4>2. Head(tick[k]).task = u
          BY <2>3, <3>1, <4>1 DEF ExecsOf
        <4> QED BY <3>1, <4>1, <4>2 DEF Planned
      <3>2. CASE f # e
        <4>1. f \in ExecsOf(u) /\ exec'[f] = exec[f]
          BY <1>6, <2>3, <3>2, WaitingDispatched DEF ExecsOf, InFlight
        <4> QED BY <4>1 DEF Planned
      <3> QED BY <3>1, <3>2
    <2>4. Waiting' \subseteq Waiting
      BY <1>6, WaitingDispatched
    <2>5. u \in exists' /\ u \notin oneShot => u \in later' \union due' \/ \E d \in EditsOf(u)' : Replans(d)'
      BY <2>1, <2>2 DEF Planned, table
    <2> QED BY <2>1, <2>2, <2>3, <2>4, <2>5, PlannedKept DEF table
  <1>7. CASE Restart
    <2> SUFFICES ASSUME u \notin unplanned' PROVE Planned(u)'
      BY DEF Planned
    <2>1. UNCHANGED table /\ u \notin unplanned /\ \A d \in EditsOf(u) : ~Replans(d)
      BY <1>7 DEF Restart
    <2>2. Waiting' = {} /\ ExecsOf(u)' = {} /\ EditsOf(u)' = {}
      <3>1. \A k \in Ticks : tick'[k] = <<>> /\ DOMAIN <<>> = {}
        BY <1>7 DEF Restart
      <3> QED BY <1>7, <3>1 DEF Restart, Waiting, ExecsOf, EditsOf, InFlight
    <2> QED BY <2>1, <2>2 DEF Planned, table
  <1>8. CASE UNCHANGED vars
    BY <1>1, <1>8, WaitingKept DEF vars, table, runs, history, apart
  <1> QED BY <1>2, <1>3, <1>4, <1>5, <1>6, <1>7, <1>8, PlannedExecutes, PlannedEdits DEF Next, Ticking, Dispatches

---------------------------------------------------------------------------

LEMMA NothingYet == Init => Below /\ \A t \in Tasks : Even(t) /\ Planned(t)
  <1> SUFFICES ASSUME Init PROVE Below /\ \A t \in Tasks : Even(t) /\ Planned(t)
    OBVIOUS
  <1>1. Waiting = {} /\ Busy = {} /\ \A t \in Tasks : ExecsOf(t) = {} /\ EditsOf(t) = {}
    BY DEF Init, Waiting, Busy, ExecsOf, EditsOf, InFlight
  <1>2. MaxFailures \in Nat \ {0}
    BY CronAssumption
  <1> QED BY <1>1, <1>2 DEF Init, Below, Even, Planned

\* The breaker's bookkeeping is exact, whatever ticks, executions, edits, failing calls and
\* restarts do, but for the tasks whose counter came apart at one of the steps that drifted
\* names: a task is disabled for its failures exactly when so many of its runs have failed
\* since its last completed run or resetting edit, or someone is about to see to it
THEOREM BreakerIsExact == Spec => []BreakerTrips
  <1> DEFINE Inv == Basics /\ Below /\ \A t \in Tasks : Even(t)
  <1>1. Init => Inv
    BY BasicsInit, NothingYet
  <1>2. Inv /\ [Next]_vars => Inv'
    BY BasicsNext, BelowNext, EvenNext DEF Basics
  <1>3. Inv => BreakerTrips
    <2> SUFFICES ASSUME Inv, NEW t \in exists \ drifted
                 PROVE  /\ t \in tripped => streak[t] >= MaxFailures
                        /\ streak[t] >= MaxFailures /\ t \in enabled =>
                               \/ \E e \in ExecsOf(t) : exec[e].pc \in {"count", "breaker"}
                               \/ \E d \in EditsOf(t) : Reenables(d)
      BY DEF BreakerTrips
    <2>1. Types /\ Below /\ t \in Tasks /\ Even(t) /\ t \notin drifted
      BY DEF Basics, Types
    <2>2. t \in tripped => streak[t] >= MaxFailures
      BY <2>1, AtLimit DEF Even
    <2>3. ASSUME streak[t] >= MaxFailures, \A e \in ExecsOf(t) : exec[e].pc # "count"
          PROVE  failures[t] >= MaxFailures
      <3>1. \A e \in ExecsOf(t) : exec[e].pc # "reset"
        <4> SUFFICES ASSUME NEW e \in ExecsOf(t), exec[e].pc = "reset" PROVE FALSE
          OBVIOUS
        <4>1. exec[e].of.task = t /\ Counted(e)
          BY <2>1 DEF Even, ExecsOf
        <4>2. streak[t] = 0
          BY <4>1 DEF Counted
        <4> QED BY <2>3, <4>2, CronAssumption
      <3>2. streak[t] = failures[t]
        BY <2>1, <2>3, <3>1 DEF Even, Ended
      <3> QED BY <2>3, <3>2
    <2> QED BY <2>1, <2>2, <2>3 DEF Even
  <1> QED BY <1>1, <1>2, <1>3, PTL DEF Spec

\* A recurring task has a next run, however its last one ended and whatever edits interleave
\* with it call by call, or an edit is about to write it; but for the tasks whose schedule
\* was edited under somebody who had read it, or by an edit cut off before the next run
THEOREM SchedulesGoOn == Spec => []ScheduleKept
  <1> DEFINE Inv == Basics /\ \A t \in Tasks : Planned(t)
  <1>1. Init => Inv
    BY BasicsInit, NothingYet
  <1>2. Inv /\ [Next]_vars => Inv'
    BY BasicsNext, PlannedNext DEF Basics
  <1>3. Inv => ScheduleKept
    BY DEF Basics, Types, Planned, ScheduleKept
  <1> QED BY <1>1, <1>2, <1>3, PTL DEF Spec
=============================================================================
