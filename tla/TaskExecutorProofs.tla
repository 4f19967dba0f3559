------------------------ MODULE TaskExecutorProofs ------------------------
(***************************************************************************)
(* Proofs about TaskExecutor for any number of tasks, users and slots, any *)
(* quotas, and any number of restarts and failing calls.                   *)
(***************************************************************************)
EXTENDS TaskExecutor, FiniteSetTheorems, SequenceTheorems, TLAPS

---------------------------------------------------------------------------
(* Sequences without repetition *)

\* push() of an element that is not in the queue
LEMMA PushFresh ==
    ASSUME NEW S, NEW q \in Seq(S), NEW e \in S, IsInjective(q), e \notin ToSet(q)
    PROVE  /\ IsInjective(Append(q, e))
           /\ ToSet(Append(q, e)) = ToSet(q) \union {e}
  <1> DEFINE r == Append(q, e)
  <1>1. Len(r) = Len(q) + 1 /\ \A i \in 1 .. Len(r) : r[i] = IF i <= Len(q) THEN q[i] ELSE e
    OBVIOUS
  <1>2. r \in Seq(S) /\ DOMAIN r = 1 .. Len(q) + 1 /\ DOMAIN q = 1 .. Len(q) /\ Len(q) \in Nat
    OBVIOUS
  <1>3. IsInjective(r)
    BY <1>1, <1>2 DEF IsInjective, ToSet
  <1>4. ToSet(r) = ToSet(q) \union {e}
    <2>1. ASSUME NEW x \in ToSet(r) PROVE x \in ToSet(q) \union {e}
      BY <1>1, <1>2 DEF ToSet
    <2>2. ASSUME NEW x \in ToSet(q) PROVE x \in ToSet(r)
      BY <1>1, <1>2 DEF ToSet
    <2>3. e \in ToSet(r)
      <3>1. r[Len(q) + 1] = e /\ Len(q) + 1 \in DOMAIN r
        BY <1>1, <1>2
      <3> QED BY <3>1 DEF ToSet
    <2> QED BY <2>1, <2>2, <2>3
  <1> QED BY <1>3, <1>4

\* shift()
LEMMA ShiftFirst ==
    ASSUME NEW S, NEW q \in Seq(S), q # <<>>, IsInjective(q)
    PROVE  /\ IsInjective(Tail(q))
           /\ ToSet(Tail(q)) = ToSet(q) \ {Head(q)}
  <1> DEFINE r == Tail(q)
  <1>1. /\ Len(q) \in Nat \ {0} /\ DOMAIN q = 1 .. Len(q) /\ Head(q) = q[1]
        /\ DOMAIN r = 1 .. Len(q) - 1
        /\ \A i \in 1 .. Len(q) - 1 : r[i] = q[i + 1]
    OBVIOUS
  <1>2. IsInjective(r)
    BY <1>1 DEF IsInjective
  <1>3. ASSUME NEW x \in ToSet(r) PROVE x \in ToSet(q) \ {Head(q)}
    <2>1. PICK i \in 1 .. Len(q) - 1 : x = q[i + 1]
      BY <1>1, <1>3 DEF ToSet
    <2>2. i + 1 \in DOMAIN q /\ i + 1 # 1 /\ 1 \in DOMAIN q
      BY <1>1
    <2> QED BY <2>1, <2>2, <1>1 DEF ToSet, IsInjective
  <1>4. ASSUME NEW x \in ToSet(q) \ {Head(q)} PROVE x \in ToSet(r)
    <2>1. PICK i \in 1 .. Len(q) : x = q[i]
      BY <1>1, <1>4 DEF ToSet
    <2>2. i - 1 \in 1 .. Len(q) - 1 /\ r[i - 1] = x
      BY <2>1, <1>1, <1>4
    <2> QED BY <2>2, <1>1 DEF ToSet
  <1> QED BY <1>2, <1>3, <1>4

\* splice(i, 1)
LEMMA SpliceOne ==
    ASSUME NEW S, NEW q \in Seq(S), NEW i \in DOMAIN q, IsInjective(q)
    PROVE  /\ RemoveAt(q, i) \in Seq(S)
           /\ Len(RemoveAt(q, i)) = Len(q) - 1
           /\ IsInjective(RemoveAt(q, i))
           /\ ToSet(RemoveAt(q, i)) = ToSet(q) \ {q[i]}
  <1> DEFINE r == RemoveAt(q, i)
  <1>1. Len(q) \in Nat /\ DOMAIN q = 1 .. Len(q) /\ i \in 1 .. Len(q)
    OBVIOUS
  <1>2. /\ r \in Seq(S) /\ Len(r) = Len(q) - 1 /\ DOMAIN r = 1 .. Len(q) - 1
        /\ \A j \in 1 .. Len(q) - 1 : r[j] = IF j < i THEN q[j] ELSE q[j + 1]
    <2> DEFINE a == SubSeq(q, 1, i - 1)
               b == SubSeq(q, i + 1, Len(q))
    <2>1. a \in Seq(S) /\ Len(a) = i - 1 /\ \A j \in 1 .. i - 1 : a[j] = q[j]
      BY <1>1, SubSeqProperties
    <2>2. b \in Seq(S) /\ Len(b) = Len(q) - i /\ \A j \in 1 .. Len(q) - i : b[j] = q[i + j]
      BY <1>1, SubSeqProperties
    <2>3. r = a \o b
      BY DEF RemoveAt
    <2> HIDE DEF a, b, r
    <2>4. /\ r \in Seq(S) /\ Len(r) = Len(a) + Len(b)
          /\ \A j \in 1 .. Len(a) + Len(b) : r[j] = IF j <= Len(a) THEN a[j] ELSE b[j - Len(a)]
      BY <2>1, <2>2, <2>3, ConcatProperties
    <2>5. ASSUME NEW j \in 1 .. Len(q) - 1
          PROVE  r[j] = IF j < i THEN q[j] ELSE q[j + 1]
      <3>1. CASE j < i
        BY <1>1, <2>1, <2>2, <2>4, <3>1
      <3>2. CASE ~(j < i)
        <4>1. j - (i - 1) \in 1 .. Len(q) - i /\ i + (j - (i - 1)) = j + 1
          BY <1>1, <3>2
        <4>2. r[j] = b[j - (i - 1)]
          BY <1>1, <2>1, <2>2, <2>4, <3>2
        <4> QED BY <4>1, <4>2, <2>2, <3>2
      <3> QED BY <3>1, <3>2
    <2> QED BY <1>1, <2>1, <2>2, <2>4, <2>5
  <1>3. IsInjective(r)
    BY <1>1, <1>2, SMTT(30) DEF IsInjective
  <1>4. ASSUME NEW x \in ToSet(r) PROVE x \in ToSet(q) \ {q[i]}
    <2>1. PICK j \in 1 .. Len(q) - 1 : x = r[j]
      BY <1>2, <1>4 DEF ToSet
    <2>2. PICK k \in 1 .. Len(q) : x = q[k] /\ k # i
      BY <2>1, <1>1, <1>2
    <2> QED BY <2>2, <1>1 DEF ToSet, IsInjective
  <1>5. ASSUME NEW x \in ToSet(q) \ {q[i]} PROVE x \in ToSet(r)
    <2>1. PICK k \in 1 .. Len(q) : x = q[k] /\ k # i
      BY <1>1, <1>5 DEF ToSet
    <2>2. PICK j \in 1 .. Len(q) - 1 : r[j] = x
      <3>1. CASE k < i
        BY <3>1, <2>1, <1>1, <1>2
      <3>2. CASE k > i
        <4>1. k - 1 \in 1 .. Len(q) - 1 /\ ~(k - 1 < i) /\ (k - 1) + 1 = k
          BY <3>2, <1>1
        <4> QED BY <4>1, <2>1, <1>2
      <3> QED BY <3>1, <3>2, <2>1, <1>1
    <2> QED BY <2>2, <1>2 DEF ToSet
  <1> QED BY <1>2, <1>3, <1>4, <1>5

---------------------------------------------------------------------------
(* Type correctness *)

\* A run that unwinds knows the status it will settle with
ResultKnown == \A t \in Tasks : promise[t] = "unwinding" => result[t] \in Outcomes

TypeInv == TypeOK /\ ResultKnown

LEMMA TypeInit == Init => TypeInv
  <1> SUFFICES ASSUME Init PROVE TypeInv
    OBVIOUS
  <1>1. /\ queue \in [Users -> Seq(Tasks)] /\ rotation \in Seq(Users) /\ rotationIdx \in Nat
        /\ userActive \in [Users -> Nat] /\ activeCount \in Nat /\ draining \in BOOLEAN
    <2>1. queue = [u \in Users |-> <<>>] /\ <<>> \in Seq(Tasks) /\ <<>> \in Seq(Users)
      BY DEF Init
    <2>2. queue \in [Users -> Seq(Tasks)]
      BY <2>1
    <2>3. userActive \in [Users -> Nat]
      BY DEF Init
    <2> QED BY <2>1, <2>2, <2>3 DEF Init
  <1>2. /\ phase \in [Tasks -> Phases] /\ promise \in [Tasks -> Promises]
        /\ result \in [Tasks -> Outcomes \union {"none"}] /\ row \in [Tasks -> Rows]
        /\ cancel \in [Tasks -> Cancels]
    BY DEF Init, Phases, Promises, Rows, Cancels
  <1>3. /\ rescoped \subseteq Tasks /\ failWrite \subseteq Tasks /\ recovered \subseteq Tasks
        /\ publishing \subseteq Publications /\ reports \in [Tasks -> Seq(Outcomes)] /\ lost \subseteq Tasks
    BY DEF Init
  <1>4. crashes \in 0 .. MaxCrashes /\ faults \in 0 .. MaxFaults
    BY LimitsAssumption DEF Init
  <1>5. ResultKnown
    BY DEF Init, ResultKnown
  <1> QED BY <1>1, <1>2, <1>3, <1>4, <1>5 DEF TypeInv, TypeOK

LEMMA ModRange == ASSUME NEW m \in Nat, NEW n \in Nat \ {0} PROVE m % n \in 0 .. n - 1
  OBVIOUS

\* The user a round of the drain loop examines is one of the rotation
LEMMA RotationUserType ==
    ASSUME TypeOK, NEW i \in 0 .. Len(rotation) - 1
    PROVE  /\ RotationUser(i) \in Users
           /\ RotationUser(i) \in ToSet(rotation)
           /\ IdxAfter(i) \in Nat
  <1>1. /\ rotation \in Seq(Users) /\ rotationIdx \in Nat
        /\ Len(rotation) \in Nat \ {0} /\ DOMAIN rotation = 1 .. Len(rotation)
    <2>1. rotation \in Seq(Users) /\ rotationIdx \in Nat
      BY DEF TypeOK
    <2>2. Len(rotation) \in Nat /\ DOMAIN rotation = 1 .. Len(rotation)
      BY <2>1, LenProperties
    <2> QED BY <2>1, <2>2
  <1> DEFINE k == (rotationIdx + i) % Len(rotation)
             n == (rotationIdx + i + 1) % Len(rotation)
  <1>2. rotationIdx + i \in Nat /\ rotationIdx + i + 1 \in Nat
    BY <1>1
  <1>3. k \in 0 .. Len(rotation) - 1
    BY <1>1, <1>2, ModRange, Zenon
  <1>4. n \in 0 .. Len(rotation) - 1
    BY <1>1, <1>2, ModRange, Zenon
  <1>5. IdxAfter(i) = n /\ RotationUser(i) = rotation[k + 1]
    BY Zenon DEF IdxAfter, RotationUser
  <1> HIDE DEF k, n
  <1>6. k + 1 \in DOMAIN rotation /\ n \in Nat
    BY <1>1, <1>3, <1>4
  <1> QED BY <1>1, <1>5, <1>6 DEF ToSet

LEMMA PublishType ==
    ASSUME TypeOK, NEW t \in Tasks, NEW s \in Outcomes, NEW by \in {"executor", "reaper"},
           Publish(t, s, by)
    PROVE  publishing' \subseteq Publications
  BY DEF TypeOK, Publish, Publications

LEMMA ReleaseType ==
    ASSUME TypeOK, NEW t \in Tasks, activeCount > 0, ReleaseSlot(t)
    PROVE  /\ activeCount' \in Nat /\ userActive' \in [Users -> Nat] /\ draining' \in BOOLEAN
           /\ UNCHANGED <<queue, rotation, rotationIdx>>
  BY TasksAssumption DEF TypeOK, ReleaseSlot

---------------------------------------------------------------------------
(* The inductive invariant.  That the slot counters stay natural numbers   *)
(* needs SlotAccounting, SlotAccounting needs to know that a task taken    *)
(* from a queue held no slot, and that is QueueIntegrity: the three are    *)
(* proved together.                                                        *)

Inv == TypeInv /\ QueueIntegrity /\ SlotAccounting

LEMMA HoldersFinite ==
    /\ IsFiniteSet(Holders)
    /\ \A u \in Users : IsFiniteSet(HoldersOf(u))
  <1>1. Holders \subseteq Tasks /\ \A u \in Users : HoldersOf(u) \subseteq Tasks
    BY DEF Holders, HoldersOf
  <1> QED BY <1>1, TasksAssumption, FS_Subset

\* A step that moves no task into or out of "queued"
LEMMA QueueFrame ==
    ASSUME QueueIntegrity, queue' = queue,
           \A t \in Tasks : phase'[t] = "queued" <=> phase[t] = "queued"
    PROVE  QueueIntegrity'
  <1> SUFFICES ASSUME NEW u \in Users
               PROVE  /\ IsInjective(queue'[u])
                      /\ ToSet(queue'[u]) = {t \in Tasks : phase'[t] = "queued" /\ UserOf[t] = u}
    BY DEF QueueIntegrity
  <1>1. /\ IsInjective(queue[u])
        /\ ToSet(queue[u]) = {t \in Tasks : phase[t] = "queued" /\ UserOf[t] = u}
    BY DEF QueueIntegrity
  <1> QED BY <1>1

\* A step that moves no slot
LEMMA SlotFrame ==
    ASSUME SlotAccounting, Holders' = Holders, UNCHANGED <<activeCount, userActive>>
    PROVE  SlotAccounting'
  BY DEF SlotAccounting, HoldersOf

\* executeTask() takes a slot
LEMMA SlotTaken ==
    ASSUME TypeOK, SlotAccounting, NEW t \in Tasks, t \notin Holders, Holders' = Holders \union {t},
           activeCount' = activeCount + 1,
           userActive' = [userActive EXCEPT ![UserOf[t]] = @ + 1]
    PROVE  SlotAccounting'
  <1>1. Cardinality(Holders') = Cardinality(Holders) + 1
    BY HoldersFinite, FS_AddElement
  <1>2. ASSUME NEW u \in Users PROVE userActive'[u] = Cardinality(HoldersOf(u)')
    <2>1. CASE u = UserOf[t]
      <3>1. HoldersOf(u)' = HoldersOf(u) \union {t} /\ t \notin HoldersOf(u)
        BY <2>1 DEF HoldersOf
      <3>2. Cardinality(HoldersOf(u)') = Cardinality(HoldersOf(u)) + 1
        BY <3>1, HoldersFinite, FS_AddElement
      <3> QED BY <2>1, <3>2 DEF SlotAccounting, TypeOK
    <2>2. CASE u # UserOf[t]
      <3>1. HoldersOf(u)' = HoldersOf(u)
        BY <2>2 DEF HoldersOf
      <3> QED BY <2>2, <3>1 DEF SlotAccounting, TypeOK
    <2> QED BY <2>1, <2>2
  <1> QED BY <1>1, <1>2 DEF SlotAccounting

\* finalize() gives it back
LEMMA SlotReleased ==
    ASSUME TypeOK, SlotAccounting, NEW t \in Holders, Holders' = Holders \ {t}, ReleaseSlot(t)
    PROVE  /\ SlotAccounting' /\ activeCount > 0
           /\ activeCount' \in Nat /\ userActive' \in [Users -> Nat] /\ draining' \in BOOLEAN
           /\ UNCHANGED <<queue, rotation, rotationIdx>>
  <1>1. t \in Tasks /\ UserOf[t] \in Users /\ t \in HoldersOf(UserOf[t])
    BY TasksAssumption DEF Holders, HoldersOf
  <1>2. Cardinality(Holders') = Cardinality(Holders) - 1 /\ Cardinality(Holders) \in Nat
    BY HoldersFinite, FS_RemoveElement, FS_CardinalityType
  <1>3. Cardinality(Holders) > 0
    BY <1>2, HoldersFinite, FS_EmptySet
  <1>4. ASSUME NEW u \in Users PROVE userActive'[u] = Cardinality(HoldersOf(u)')
    <2>1. CASE u = UserOf[t]
      <3>1. HoldersOf(u)' = HoldersOf(u) \ {t} /\ t \in HoldersOf(u)
        BY <1>1, <2>1 DEF HoldersOf
      <3>2. Cardinality(HoldersOf(u)') = Cardinality(HoldersOf(u)) - 1
        BY <3>1, HoldersFinite, FS_RemoveElement
      <3>3. Cardinality(HoldersOf(u)) \in Nat /\ Cardinality(HoldersOf(u)) # 0
        BY <3>1, HoldersFinite, FS_CardinalityType, FS_EmptySet
      <3>4. userActive[u] = Cardinality(HoldersOf(u)) /\ userActive \in [Users -> Nat]
        BY DEF SlotAccounting, TypeOK
      <3>5. userActive'[u] = IF userActive[u] > 0 THEN userActive[u] - 1 ELSE 0
        BY <2>1, <3>4 DEF ReleaseSlot
      <3> QED BY <3>2, <3>3, <3>4, <3>5
    <2>2. CASE u # UserOf[t]
      <3>1. HoldersOf(u)' = HoldersOf(u)
        BY <2>2 DEF HoldersOf
      <3> QED BY <2>2, <3>1 DEF SlotAccounting, TypeOK, ReleaseSlot
    <2> QED BY <2>1, <2>2
  <1>5. activeCount = Cardinality(Holders) /\ activeCount' = activeCount - 1
    BY DEF SlotAccounting, ReleaseSlot
  <1>6. SlotAccounting'
    BY <1>2, <1>4, <1>5 DEF SlotAccounting
  <1> QED BY <1>1, <1>2, <1>3, <1>5, <1>6, ReleaseType
---------------------------------------------------------------------------
(* One lemma per action.  Each shows the type invariant first, then what   *)
(* happens to queues and slots.                                            *)

LEMMA SpawnStep ==
    ASSUME Inv, NEW t \in Tasks, SpawnCreate(t)
    PROVE  Inv'
  <1>1. TypeInv'
    BY DEF Inv, TypeInv, TypeOK, ResultKnown, SpawnCreate, scheduler, outbox, bounds, Phases, Rows
  <1>2. QueueIntegrity'
    BY QueueFrame DEF Inv, SpawnCreate, scheduler, TypeInv, TypeOK
  <1>3. SlotAccounting'
    <2>1. Holders' = Holders
      BY DEF Inv, TypeInv, TypeOK, SpawnCreate, Holders
    <2> QED BY <2>1, SlotFrame DEF Inv, SpawnCreate, scheduler
  <1> QED BY <1>1, <1>2, <1>3 DEF Inv

LEMMA SubmitAcceptedStep ==
    ASSUME Inv, NEW t \in Tasks, SubmitAccepted(t)
    PROVE  Inv'
  <1> DEFINE u == UserOf[t]
  <1>1. /\ u \in Users /\ queue[u] \in Seq(Tasks) /\ queue \in [Users -> Seq(Tasks)]
        /\ rotation \in Seq(Users) /\ phase \in [Tasks -> Phases]
        /\ phase[t] = "created" /\ phase' = [phase EXCEPT ![t] = "queued"]
        /\ queue' = [queue EXCEPT ![u] = Append(@, t)]
    BY TasksAssumption DEF Inv, TypeInv, TypeOK, SubmitAccepted
  <1>2. TypeInv'
    <2>1. queue' \in [Users -> Seq(Tasks)]
      BY <1>1, AppendProperties
    <2>2. rotation' \in Seq(Users)
      BY <1>1, AppendProperties DEF SubmitAccepted
    <2>3. phase' \in [Tasks -> Phases] /\ draining' \in BOOLEAN
      BY <1>1 DEF Phases, SubmitAccepted
    <2> QED BY <2>1, <2>2, <2>3 DEF Inv, TypeInv, TypeOK, ResultKnown, SubmitAccepted, runs, outbox, bounds
  <1>3. QueueIntegrity'
    <2> SUFFICES ASSUME NEW v \in Users
                 PROVE  /\ IsInjective(queue'[v])
                        /\ ToSet(queue'[v]) = {x \in Tasks : phase'[x] = "queued" /\ UserOf[x] = v}
      BY DEF QueueIntegrity
    <2>1. /\ IsInjective(queue[v])
          /\ ToSet(queue[v]) = {x \in Tasks : phase[x] = "queued" /\ UserOf[x] = v}
      BY DEF Inv, QueueIntegrity
    <2>2. CASE v = u
      <3>1. t \notin ToSet(queue[v]) /\ queue'[v] = Append(queue[v], t) /\ queue[v] \in Seq(Tasks)
        BY <1>1, <2>1, <2>2
      <3>2. IsInjective(queue'[v]) /\ ToSet(queue'[v]) = ToSet(queue[v]) \union {t}
        BY <2>1, <3>1, PushFresh
      <3> QED BY <1>1, <2>1, <2>2, <3>2
    <2>3. CASE v # u
      BY <1>1, <2>1, <2>3
    <2> QED BY <2>2, <2>3
  <1>4. SlotAccounting'
    <2>1. Holders' = Holders
      BY <1>1 DEF Holders
    <2> QED BY <2>1, SlotFrame DEF Inv, SubmitAccepted
  <1> QED BY <1>2, <1>3, <1>4 DEF Inv

LEMMA SubmitRejectedStep ==
    ASSUME Inv, NEW t \in Tasks, SubmitRejected(t)
    PROVE  Inv'
  <1>1. publishing' \subseteq Publications
    BY PublishType DEF Inv, TypeInv, SubmitRejected, Outcomes
  <1>2. TypeInv'
    BY <1>1 DEF Inv, TypeInv, TypeOK, ResultKnown, SubmitRejected, scheduler, bounds, Phases
  <1>3. QueueIntegrity'
    BY QueueFrame DEF Inv, SubmitRejected, scheduler, TypeInv, TypeOK
  <1>4. SlotAccounting'
    <2>1. Holders' = Holders
      BY DEF Inv, TypeInv, TypeOK, SubmitRejected, Holders
    <2> QED BY <2>1, SlotFrame DEF Inv, SubmitRejected, scheduler
  <1> QED BY <1>2, <1>3, <1>4 DEF Inv

LEMMA DrainStartStep == Inv /\ DrainStart => Inv'
  <1> SUFFICES ASSUME Inv, DrainStart PROVE Inv'
    OBVIOUS
  <1>1. PICK i \in 0 .. Len(rotation) - 1 :
          LET u == RotationUser(i)
              t == Head(queue[u]) IN
          /\ Eligible(u)
          /\ rotationIdx' = IdxAfter(i)
          /\ queue' = [queue EXCEPT ![u] = Tail(@)]
          /\ activeCount' = activeCount + 1
          /\ userActive' = [userActive EXCEPT ![u] = @ + 1]
          /\ phase' = [phase EXCEPT ![t] = "active"]
          /\ promise' = [promise EXCEPT ![t] = "starting"]
    BY DEF DrainStart
  <1> DEFINE u == RotationUser(i)
             t == Head(queue[u])
  <1>2. u \in Users /\ rotationIdx' \in Nat /\ Len(rotation) \in Nat
    BY <1>1, RotationUserType, LenProperties DEF Inv, TypeInv, TypeOK
  <1> HIDE DEF u
  <1>3. /\ queue \in [Users -> Seq(Tasks)] /\ queue[u] \in Seq(Tasks) /\ queue[u] # <<>>
        /\ phase \in [Tasks -> Phases] /\ IsInjective(queue[u])
        /\ ToSet(queue[u]) = {x \in Tasks : phase[x] = "queued" /\ UserOf[x] = u}
    BY <1>1, <1>2 DEF u, Inv, TypeInv, TypeOK, QueueIntegrity, Eligible
  <1>4. /\ Tail(queue[u]) \in Seq(Tasks) /\ t \in ToSet(queue[u])
    BY <1>3, HeadTailProperties DEF ToSet
  <1>5. t \in Tasks /\ phase[t] = "queued" /\ UserOf[t] = u
    BY <1>3, <1>4
  <1>6. /\ queue' = [queue EXCEPT ![u] = Tail(@)]
        /\ activeCount' = activeCount + 1
        /\ userActive' = [userActive EXCEPT ![u] = @ + 1]
        /\ phase' = [phase EXCEPT ![t] = "active"]
        /\ promise' = [promise EXCEPT ![t] = "starting"]
    BY <1>1 DEF u
  <1> HIDE DEF t
  <1>7. TypeInv'
    <2>1. queue' \in [Users -> Seq(Tasks)]
      BY <1>2, <1>3, <1>4, <1>6
    <2>2. phase' \in [Tasks -> Phases] /\ promise' \in [Tasks -> Promises] /\ ResultKnown'
      BY <1>5, <1>6 DEF Inv, TypeInv, TypeOK, ResultKnown, Phases, Promises, DrainStart
    <2>3. activeCount' \in Nat /\ userActive' \in [Users -> Nat]
      <3>1. activeCount \in Nat /\ userActive \in [Users -> Nat]
        BY DEF Inv, TypeInv, TypeOK
      <3>2. userActive[u] + 1 \in Nat
        BY <1>2, <3>1
      <3>3. activeCount' \in Nat
        BY <1>6, <3>1
      <3>4. userActive' \in [Users -> Nat]
        BY <1>6, <3>1, <3>2, ZenonT(30)
      <3> QED BY <3>3, <3>4
    <2> QED BY <1>2, <2>1, <2>2, <2>3 DEF Inv, TypeInv, TypeOK, DrainStart, outbox, bounds
  <1>8. QueueIntegrity'
    <2> SUFFICES ASSUME NEW v \in Users
                 PROVE  /\ IsInjective(queue'[v])
                        /\ ToSet(queue'[v]) = {x \in Tasks : phase'[x] = "queued" /\ UserOf[x] = v}
      BY DEF QueueIntegrity
    <2>1. /\ IsInjective(queue[v])
          /\ ToSet(queue[v]) = {x \in Tasks : phase[x] = "queued" /\ UserOf[x] = v}
      BY DEF Inv, QueueIntegrity
    <2>2. CASE v = u
      <3>1. IsInjective(queue'[v]) /\ ToSet(queue'[v]) = ToSet(queue[v]) \ {t}
        BY <1>3, <1>6, <2>2, ShiftFirst DEF t
      <3> QED BY <1>3, <1>5, <1>6, <2>1, <3>1
    <2>3. CASE v # u
      BY <1>3, <1>5, <1>6, <2>1, <2>3
    <2> QED BY <2>2, <2>3
  <1>9. SlotAccounting'
    <2>1. t \notin Holders /\ Holders' = Holders \union {t}
      BY <1>3, <1>5, <1>6 DEF Holders
    <2> QED BY <1>5, <1>6, <2>1, SlotTaken DEF Inv, TypeInv
  <1> QED BY <1>7, <1>8, <1>9 DEF Inv

LEMMA DrainStopStep == Inv /\ DrainStop => Inv'
  <1> SUFFICES ASSUME Inv, DrainStop PROVE Inv'
    OBVIOUS
  <1>1. TypeInv'
    BY DEF Inv, TypeInv, TypeOK, ResultKnown, DrainStop, runs, outbox, bounds
  <1>2. QueueIntegrity'
    BY QueueFrame DEF Inv, DrainStop
  <1>3. SlotAccounting'
    <2>1. Holders' = Holders
      BY DEF DrainStop, Holders
    <2> QED BY <2>1, SlotFrame DEF Inv, DrainStop
  <1> QED BY <1>1, <1>2, <1>3 DEF Inv
\* The latch moves a task from one phase that holds a slot to another
LEMMA SettleFrame ==
    ASSUME Inv, NEW t \in Tasks, NEW s \in Outcomes, Settle(t, s), UNCHANGED scheduler
    PROVE  /\ phase' \in [Tasks -> Phases] /\ publishing' \subseteq Publications
           /\ QueueIntegrity' /\ SlotAccounting'
  <1>1. phase \in [Tasks -> Phases] /\ publishing \subseteq Publications
    BY DEF Inv, TypeInv, TypeOK
  <1>2. CASE phase[t] = "active"
    <2>1. phase' = [phase EXCEPT ![t] = "reporting"] /\ Publish(t, s, "executor")
      BY <1>2 DEF Settle
    <2>2. phase' \in [Tasks -> Phases] /\ publishing' \subseteq Publications
      BY <1>1, <2>1, PublishType DEF Phases, Inv, TypeInv
    <2>3. Holders' = Holders
      BY <1>1, <1>2, <2>1 DEF Holders
    <2>4. QueueIntegrity'
      BY <1>1, <1>2, <2>1, QueueFrame DEF Inv, scheduler
    <2> QED BY <2>2, <2>3, <2>4, SlotFrame DEF Inv, scheduler
  <1>3. CASE phase[t] # "active"
    <2>1. UNCHANGED <<phase, publishing>>
      BY <1>3 DEF Settle
    <2>2. Holders' = Holders
      BY <2>1 DEF Holders
    <2>3. QueueIntegrity'
      BY <2>1, QueueFrame DEF Inv, scheduler
    <2> QED BY <1>1, <2>1, <2>2, <2>3, SlotFrame DEF Inv, scheduler
  <1> QED BY <1>2, <1>3

\* A step that touches neither the executor's memory nor its phases
LEMMA OutsideFrame ==
    ASSUME Inv, UNCHANGED <<scheduler, phase>>
    PROVE  QueueIntegrity' /\ SlotAccounting'
  <1>1. Holders' = Holders
    BY DEF Holders
  <1>2. QueueIntegrity'
    BY QueueFrame DEF Inv, scheduler
  <1> QED BY <1>1, <1>2, SlotFrame DEF Inv, scheduler

LEMMA RunStepInv ==
    ASSUME Inv, NEW t \in Tasks, RunStep(t)
    PROVE  Inv'
  <1>1. CASE RunRefused(t)
    <2>1. /\ phase' \in [Tasks -> Phases] /\ publishing' \subseteq Publications
          /\ QueueIntegrity' /\ SlotAccounting'
      BY <1>1, SettleFrame DEF RunRefused, Outcomes
    <2>2. TypeInv'
      BY <1>1, <2>1 DEF Inv, TypeInv, TypeOK, ResultKnown, RunRefused, scheduler, bounds, Promises
    <2> QED BY <2>1, <2>2 DEF Inv
  <1>2. CASE RunStarts(t)
    <2>1. TypeInv'
      BY <1>2 DEF Inv, TypeInv, TypeOK, ResultKnown, RunStarts, scheduler, outbox, bounds, Promises, Rows
    <2>2. QueueIntegrity' /\ SlotAccounting'
      BY <1>2, OutsideFrame DEF RunStarts
    <2> QED BY <2>1, <2>2 DEF Inv
  <1>3. CASE RunWrites(t)
    <2>1. PICK s \in Outcomes :
            /\ result' = [result EXCEPT ![t] = s]
            /\ row' = [row EXCEPT ![t] = IF @ = "running" THEN s ELSE @]
      BY <1>3 DEF RunWrites
    <2>2. TypeInv'
      BY <1>3, <2>1 DEF Inv, TypeInv, TypeOK, ResultKnown, RunWrites, scheduler, outbox, bounds, Promises, Rows
    <2>3. QueueIntegrity' /\ SlotAccounting'
      BY <1>3, OutsideFrame DEF RunWrites
    <2> QED BY <2>2, <2>3 DEF Inv
  <1>4. CASE RunWriteFails(t)
    <2>1. faults' \in 0 .. MaxFaults
      BY <1>4, LimitsAssumption DEF RunWriteFails, Fault, Inv, TypeInv, TypeOK
    <2>2. TypeInv'
      BY <1>4, <2>1 DEF Inv, TypeInv, TypeOK, ResultKnown, RunWriteFails, scheduler, outbox, Promises, Outcomes
    <2>3. QueueIntegrity' /\ SlotAccounting'
      BY <1>4, OutsideFrame DEF RunWriteFails
    <2> QED BY <2>2, <2>3 DEF Inv
  <1>5. CASE RunReturns(t)
    <2>1. result[t] \in Outcomes
      BY <1>5 DEF RunReturns, Inv, TypeInv, ResultKnown
    <2>2. /\ phase' \in [Tasks -> Phases] /\ publishing' \subseteq Publications
          /\ QueueIntegrity' /\ SlotAccounting'
      BY <1>5, <2>1, SettleFrame DEF RunReturns
    <2>3. TypeInv'
      BY <1>5, <2>2 DEF Inv, TypeInv, TypeOK, ResultKnown, RunReturns, scheduler, bounds, Promises
    <2> QED BY <2>2, <2>3 DEF Inv
  <1> QED BY <1>1, <1>2, <1>3, <1>4, <1>5 DEF RunStep

LEMMA WatchdogStep ==
    ASSUME Inv, NEW t \in Tasks, Watchdog(t)
    PROVE  Inv'
  <1>1. phase \in [Tasks -> Phases] /\ phase[t] = "active" /\ phase' = [phase EXCEPT ![t] = "done"]
    BY DEF Inv, TypeInv, TypeOK, Watchdog
  <1>2. t \in Holders /\ Holders' = Holders \ {t}
    BY <1>1 DEF Holders
  <1>3. /\ SlotAccounting'
        /\ activeCount' \in Nat /\ userActive' \in [Users -> Nat] /\ draining' \in BOOLEAN
        /\ UNCHANGED <<queue, rotation, rotationIdx>>
    BY <1>2, SlotReleased DEF Watchdog, Inv, TypeInv
  <1>4. publishing' \subseteq Publications
    BY PublishType DEF Inv, TypeInv, Watchdog, Outcomes
  <1>5. phase' \in [Tasks -> Phases]
    BY <1>1 DEF Phases
  <1>6. TypeInv'
    BY <1>3, <1>4, <1>5 DEF Inv, TypeInv, TypeOK, ResultKnown, Watchdog, bounds
  <1>7. QueueIntegrity'
    BY <1>1, <1>3, QueueFrame DEF Inv
  <1> QED BY <1>3, <1>6, <1>7 DEF Inv

LEMMA FailWriteStep ==
    ASSUME Inv, NEW t \in Tasks, FailWriteLands(t)
    PROVE  Inv'
  <1>1. row' \in [Tasks -> Rows] /\ faults' \in 0 .. MaxFaults
    <2>1. row \in [Tasks -> Rows] /\ faults \in 0 .. MaxFaults /\ "failed" \in Rows
          /\ MaxFaults \in Nat /\ crashes \in 0 .. MaxCrashes /\ MaxCrashes \in Nat
      BY LimitsAssumption DEF Inv, TypeInv, TypeOK, Rows, Outcomes
    <2>2. \/ row' = [row EXCEPT ![t] = "failed"] /\ UNCHANGED faults
          \/ Fault /\ UNCHANGED row
      BY DEF FailWriteLands
    <2>3. CASE row' = [row EXCEPT ![t] = "failed"] /\ UNCHANGED faults
      BY <2>1, <2>3
    <2>4. CASE Fault /\ UNCHANGED row
      BY <2>1, <2>4 DEF Fault
    <2> QED BY <2>2, <2>3, <2>4
  <1>2. TypeInv'
    BY <1>1 DEF Inv, TypeInv, TypeOK, ResultKnown, FailWriteLands, scheduler, outbox
  <1>3. QueueIntegrity' /\ SlotAccounting'
    BY OutsideFrame DEF FailWriteLands
  <1> QED BY <1>2, <1>3 DEF Inv

\* executeTask() resumes after publishOutcome(), whatever became of the push
LEMMA AfterPublishFrame ==
    ASSUME Inv, NEW p \in Publications, AfterPublish(p)
    PROVE  /\ phase' \in [Tasks -> Phases] /\ QueueIntegrity' /\ SlotAccounting'
           /\ activeCount' \in Nat /\ userActive' \in [Users -> Nat] /\ draining' \in BOOLEAN
           /\ UNCHANGED <<queue, rotation, rotationIdx>>
  <1>1. p.task \in Tasks /\ phase \in [Tasks -> Phases]
    BY DEF Publications, Inv, TypeInv, TypeOK
  <1>2. CASE p.by = "executor" /\ phase[p.task] = "reporting"
    <2>1. phase' = [phase EXCEPT ![p.task] = "done"] /\ ReleaseSlot(p.task)
      BY <1>2 DEF AfterPublish
    <2>2. p.task \in Holders /\ Holders' = Holders \ {p.task}
      BY <1>1, <1>2, <2>1 DEF Holders
    <2>3. /\ SlotAccounting'
          /\ activeCount' \in Nat /\ userActive' \in [Users -> Nat] /\ draining' \in BOOLEAN
          /\ UNCHANGED <<queue, rotation, rotationIdx>>
      BY <2>1, <2>2, SlotReleased DEF Inv, TypeInv
    <2>4. QueueIntegrity'
      BY <1>1, <1>2, <2>1, <2>3, QueueFrame DEF Inv
    <2>5. phase' \in [Tasks -> Phases]
      BY <1>1, <2>1 DEF Phases
    <2> QED BY <2>3, <2>4, <2>5
  <1>3. CASE ~(p.by = "executor" /\ phase[p.task] = "reporting")
    <2>1. UNCHANGED <<phase, scheduler>>
      BY <1>3 DEF AfterPublish
    <2>2. QueueIntegrity' /\ SlotAccounting'
      BY <2>1, OutsideFrame
    <2> QED BY <2>1, <2>2 DEF scheduler, Inv, TypeInv, TypeOK
  <1> QED BY <1>2, <1>3
LEMMA PublishStep ==
    ASSUME Inv, NEW p \in publishing, PublishLands(p) \/ PublishLost(p)
    PROVE  Inv'
  <1>1. p \in Publications /\ AfterPublish(p)
    BY DEF Inv, TypeInv, TypeOK, PublishLands, PublishLost
  <1>2. /\ phase' \in [Tasks -> Phases] /\ QueueIntegrity' /\ SlotAccounting'
        /\ activeCount' \in Nat /\ userActive' \in [Users -> Nat] /\ draining' \in BOOLEAN
        /\ UNCHANGED <<queue, rotation, rotationIdx>>
    BY <1>1, AfterPublishFrame
  <1>3. CASE PublishLands(p)
    <2>1. reports' \in [Tasks -> Seq(Outcomes)]
      <3>1. p.task \in Tasks /\ p.status \in Outcomes
        BY <1>1 DEF Publications
      <3>2. reports \in [Tasks -> Seq(Outcomes)]
        BY DEF Inv, TypeInv, TypeOK
      <3>3. Append(reports[p.task], p.status) \in Seq(Outcomes)
        BY <3>1, <3>2, AppendProperties
      <3> QED BY <1>3, <3>1, <3>2, <3>3 DEF PublishLands
    <2>2. publishing' \subseteq Publications
      BY <1>3 DEF Inv, TypeInv, TypeOK, PublishLands
    <2>3. TypeInv'
      BY <1>2, <1>3, <2>1, <2>2 DEF Inv, TypeInv, TypeOK, ResultKnown, PublishLands, runs, bounds
    <2> QED BY <1>2, <2>3 DEF Inv
  <1>4. CASE PublishLost(p)
    <2>1. faults' \in 0 .. MaxFaults
      BY <1>4, LimitsAssumption DEF PublishLost, Fault, Inv, TypeInv, TypeOK
    <2>2. publishing' \subseteq Publications
      BY <1>4 DEF Inv, TypeInv, TypeOK, PublishLost
    <2>3. lost' \subseteq Tasks
      BY <1>1, <1>4 DEF Inv, TypeInv, TypeOK, PublishLost, Publications
    <2>4. TypeInv'
      BY <1>2, <1>4, <2>1, <2>2, <2>3 DEF Inv, TypeInv, TypeOK, ResultKnown, PublishLost, runs
    <2> QED BY <1>2, <2>4 DEF Inv
  <1> QED BY <1>3, <1>4

\* cancelQueued() takes out the task it looks for, wherever it stands
LEMMA DequeueFrame ==
    ASSUME Inv, NEW t \in Tasks, phase[t] = "queued", NEW i \in DOMAIN queue[UserOf[t]],
           Dequeue(t, i), UNCHANGED <<activeCount, userActive>>
    PROVE  /\ queue' \in [Users -> Seq(Tasks)] /\ phase' \in [Tasks -> Phases]
           /\ QueueIntegrity' /\ SlotAccounting'
  <1> DEFINE u == UserOf[t]
  <1>1. /\ u \in Users /\ queue \in [Users -> Seq(Tasks)] /\ queue[u] \in Seq(Tasks)
        /\ phase \in [Tasks -> Phases] /\ phase' = [phase EXCEPT ![t] = "dequeued"]
        /\ queue[u][i] = t /\ queue' = [queue EXCEPT ![u] = RemoveAt(@, i)]
        /\ IsInjective(queue[u])
    BY TasksAssumption DEF Inv, TypeInv, TypeOK, QueueIntegrity, Dequeue
  <1> HIDE DEF u
  <1>2. /\ RemoveAt(queue[u], i) \in Seq(Tasks)
        /\ IsInjective(RemoveAt(queue[u], i))
        /\ ToSet(RemoveAt(queue[u], i)) = ToSet(queue[u]) \ {t}
    BY <1>1, SpliceOne DEF u
  <1>3. queue' \in [Users -> Seq(Tasks)] /\ phase' \in [Tasks -> Phases]
    BY <1>1, <1>2 DEF Phases
  <1>4. QueueIntegrity'
    <2> SUFFICES ASSUME NEW v \in Users
                 PROVE  /\ IsInjective(queue'[v])
                        /\ ToSet(queue'[v]) = {x \in Tasks : phase'[x] = "queued" /\ UserOf[x] = v}
      BY DEF QueueIntegrity
    <2>1. /\ IsInjective(queue[v])
          /\ ToSet(queue[v]) = {x \in Tasks : phase[x] = "queued" /\ UserOf[x] = v}
      BY DEF Inv, QueueIntegrity
    <2>2. CASE v = u
      <3>1. queue'[v] = RemoveAt(queue[u], i)
        BY <1>1, <2>2
      <3> QED BY <1>1, <1>2, <2>1, <2>2, <3>1
    <2>3. CASE v # u
      BY <1>1, <2>1, <2>3 DEF u
    <2> QED BY <2>2, <2>3
  <1>5. Holders' = Holders
    BY <1>1 DEF Holders
  <1> QED BY <1>3, <1>4, <1>5, SlotFrame DEF Inv

LEMMA CancelStepInv ==
    ASSUME Inv, NEW t \in Tasks, CancelStep(t)
    PROVE  Inv'
  <1>1. CASE CancelLoad(t)
    <2>1. TypeInv'
      BY <1>1 DEF Inv, TypeInv, TypeOK, ResultKnown, CancelLoad, scheduler, runs, outbox, bounds, Cancels
    <2>2. QueueIntegrity' /\ SlotAccounting'
      BY <1>1, OutsideFrame DEF CancelLoad
    <2> QED BY <2>1, <2>2 DEF Inv
  <1>2. CASE CancelHit(t)
    <2>1. cancel' \in [Tasks -> Cancels]
      BY <1>2 DEF CancelHit, Inv, TypeInv, TypeOK, Cancels
    <2>2. /\ queue' \in [Users -> Seq(Tasks)] /\ phase' \in [Tasks -> Phases]
          /\ QueueIntegrity' /\ SlotAccounting'
      <3>1. CASE phase[t] = "queued"
        <4>1. PICK i \in DOMAIN queue[UserOf[t]] : Dequeue(t, i)
          BY <1>2, <3>1 DEF CancelHit
        <4> QED BY <1>2, <3>1, <4>1, DequeueFrame DEF CancelHit
      <3>2. CASE phase[t] # "queued"
        <4>1. UNCHANGED <<scheduler, phase>>
          BY <1>2, <3>2 DEF CancelHit, scheduler
        <4> QED BY <4>1, OutsideFrame DEF Inv, TypeInv, TypeOK, scheduler
      <3> QED BY <3>1, <3>2
    <2>3. TypeInv'
      BY <1>2, <2>1, <2>2 DEF Inv, TypeInv, TypeOK, ResultKnown, CancelHit, runs, outbox, bounds
    <2> QED BY <2>2, <2>3 DEF Inv
  <1>3. CASE CancelFlip(t)
    <2>1. row' \in [Tasks -> Rows] /\ cancel' \in [Tasks -> Cancels]
      BY <1>3 DEF CancelFlip, Inv, TypeInv, TypeOK, Rows, Cancels
    <2>2. TypeInv'
      BY <1>3, <2>1 DEF Inv, TypeInv, TypeOK, ResultKnown, CancelFlip, scheduler, outbox, bounds
    <2>3. QueueIntegrity' /\ SlotAccounting'
      BY <1>3, OutsideFrame DEF CancelFlip
    <2> QED BY <2>2, <2>3 DEF Inv
  <1>4. CASE CancelFlipFails(t)
    <2>1. faults' \in 0 .. MaxFaults
      BY <1>4, LimitsAssumption DEF CancelFlipFails, Fault, Inv, TypeInv, TypeOK
    <2>2. cancel' \in [Tasks -> Cancels] /\ lost' \subseteq Tasks
      BY <1>4 DEF CancelFlipFails, Inv, TypeInv, TypeOK, Cancels
    <2>3. TypeInv'
      BY <1>4, <2>1, <2>2 DEF Inv, TypeInv, TypeOK, ResultKnown, CancelFlipFails, scheduler, runs
    <2>4. QueueIntegrity' /\ SlotAccounting'
      BY <1>4, OutsideFrame DEF CancelFlipFails
    <2> QED BY <2>3, <2>4 DEF Inv
  <1>5. CASE StopWrites(t)
    <2>1. row' \in [Tasks -> Rows] /\ lost' \subseteq Tasks
      BY <1>5 DEF StopWrites, Inv, TypeInv, TypeOK, Rows
    <2>2. TypeInv'
      BY <1>5, <2>1 DEF Inv, TypeInv, TypeOK, ResultKnown, StopWrites, scheduler, bounds
    <2>3. QueueIntegrity' /\ SlotAccounting'
      BY <1>5, OutsideFrame DEF StopWrites
    <2> QED BY <2>2, <2>3 DEF Inv
  <1> QED BY <1>1, <1>2, <1>3, <1>4, <1>5 DEF CancelStep

LEMMA ReapStep ==
    ASSUME Inv, NEW t \in Tasks, Reap(t)
    PROVE  Inv'
  <1>1. publishing' \subseteq Publications
    <2>1. CASE Registered(t)
      BY <2>1 DEF Reap, Inv, TypeInv, TypeOK
    <2>2. CASE ~Registered(t)
      BY <2>2, PublishType DEF Reap, Inv, TypeInv, Outcomes
    <2> QED BY <2>1, <2>2
  <1>2. row' \in [Tasks -> Rows]
    BY DEF Reap, Inv, TypeInv, TypeOK, Rows, Outcomes
  <1>3. TypeInv'
    BY <1>1, <1>2 DEF Inv, TypeInv, TypeOK, ResultKnown, Reap, scheduler, bounds
  <1>4. QueueIntegrity' /\ SlotAccounting'
    BY OutsideFrame DEF Reap
  <1> QED BY <1>3, <1>4 DEF Inv
\* A restart empties the queues and the slots together
LEMMA RestartStep == Inv /\ Restart => Inv'
  <1> SUFFICES ASSUME Inv, Restart PROVE Inv'
    OBVIOUS
  <1>1. phase' \in [Tasks -> {"new", "created", "done"}]
    BY DEF Restart
  <1>2. TypeInv'
    <2>1. queue' \in [Users -> Seq(Tasks)] /\ rotation' \in Seq(Users)
      <3>1. <<>> \in Seq(Tasks) /\ <<>> \in Seq(Users)
        OBVIOUS
      <3>2. queue' = [u \in Users |-> <<>>] /\ rotation' = <<>>
        BY DEF Restart
      <3> QED BY <3>1, <3>2
    <2>2. /\ phase' \in [Tasks -> Phases]
          /\ result' \in [Tasks -> Outcomes \union {"none"}]
      BY <1>1 DEF Phases, Restart
    <2>3. promise' \in [Tasks -> Promises] /\ ResultKnown'
      BY DEF Restart, Promises, ResultKnown
    <2>4. cancel' \in [Tasks -> Cancels]
      BY DEF Restart, Cancels, Inv, TypeInv, TypeOK
    <2>5. /\ userActive' \in [Users -> Nat] /\ activeCount' \in Nat /\ rotationIdx' \in Nat
          /\ draining' \in BOOLEAN
      BY DEF Restart
    <2>6. crashes' \in 0 .. MaxCrashes
      BY LimitsAssumption DEF Restart, Inv, TypeInv, TypeOK
    <2>7. /\ recovered' \subseteq Tasks /\ failWrite' \subseteq Tasks /\ publishing' \subseteq Publications
          /\ lost' \subseteq Tasks
      BY DEF Restart, Inv, TypeInv, TypeOK
    <2>8. UNCHANGED <<row, rescoped, reports, faults>>
      BY DEF Restart
    <2> QED BY <2>1, <2>2, <2>3, <2>4, <2>5, <2>6, <2>7, <2>8 DEF Inv, TypeInv, TypeOK
  <1>3. QueueIntegrity'
    <2> SUFFICES ASSUME NEW v \in Users
                 PROVE  /\ IsInjective(queue'[v])
                        /\ ToSet(queue'[v]) = {x \in Tasks : phase'[x] = "queued" /\ UserOf[x] = v}
      BY DEF QueueIntegrity
    <2>1. queue'[v] = <<>>
      BY DEF Restart
    <2> QED BY <1>1, <2>1 DEF IsInjective, ToSet
  <1>4. SlotAccounting'
    <2>1. Holders' = {} /\ \A u \in Users : HoldersOf(u)' = {}
      BY <1>1 DEF Holders, HoldersOf
    <2>2. activeCount' = 0 /\ \A u \in Users : userActive'[u] = 0
      BY DEF Restart
    <2> QED BY <2>1, <2>2, FS_EmptySet DEF SlotAccounting
  <1> QED BY <1>2, <1>3, <1>4 DEF Inv

LEMMA InvInit == Init => Inv
  <1> SUFFICES ASSUME Init PROVE Inv
    OBVIOUS
  <1>1. QueueIntegrity
    <2>1. \A u \in Users : queue[u] = <<>>
      BY DEF Init
    <2> QED BY <2>1 DEF Init, QueueIntegrity, IsInjective, ToSet
  <1>2. SlotAccounting
    <2>1. Holders = {} /\ \A u \in Users : HoldersOf(u) = {}
      BY DEF Init, Holders, HoldersOf
    <2> QED BY <2>1, FS_EmptySet DEF Init, SlotAccounting
  <1> QED BY <1>1, <1>2, TypeInit DEF Inv

LEMMA InvStep == Inv /\ [Next]_vars => Inv'
  <1> SUFFICES ASSUME Inv, [Next]_vars PROVE Inv'
    OBVIOUS
  <1>1. CASE DrainStart
    BY <1>1, DrainStartStep
  <1>2. CASE DrainStop
    BY <1>2, DrainStopStep
  <1>3. ASSUME NEW t \in Tasks, SpawnCreate(t) PROVE Inv'
    BY <1>3, SpawnStep
  <1>4. ASSUME NEW t \in Tasks, ExecutorStep(t) PROVE Inv'
    BY <1>4, SubmitAcceptedStep, SubmitRejectedStep, WatchdogStep, FailWriteStep DEF ExecutorStep
  <1>5. ASSUME NEW t \in Tasks, RunStep(t) PROVE Inv'
    BY <1>5, RunStepInv
  <1>6. ASSUME NEW t \in Tasks, CancelStep(t) PROVE Inv'
    BY <1>6, CancelStepInv
  <1>7. ASSUME NEW t \in Tasks, Reap(t) PROVE Inv'
    BY <1>7, ReapStep
  <1>8. ASSUME NEW p \in publishing, PublishLands(p) \/ PublishLost(p) PROVE Inv'
    BY <1>8, PublishStep
  <1>9. CASE Restart
    BY <1>9, RestartStep
  <1>10. CASE UNCHANGED vars
    <2>1. UNCHANGED <<scheduler, phase>>
      BY <1>10 DEF vars
    <2>2. TypeInv'
      BY <1>10 DEF Inv, TypeInv, TypeOK, ResultKnown, vars, scheduler, runs, outbox, bounds
    <2> QED BY <2>1, <2>2, OutsideFrame DEF Inv
  <1> QED BY <1>1, <1>2, <1>3, <1>4, <1>5, <1>6, <1>7, <1>8, <1>9, <1>10 DEF Next

LEMMA InvHolds == Spec => []Inv
  <1> QED BY InvInit, InvStep, PTL DEF Spec

---------------------------------------------------------------------------
(* The theorems *)

\* Every variable keeps its type; in particular no release makes a slot counter
\* negative, however outcome, watchdog and publication interleave.
THEOREM TypeCorrect == Spec => []TypeOK
  <1>1. Inv => TypeOK
    BY DEF Inv, TypeInv
  <1> QED BY <1>1, InvHolds, PTL

\* activeCount and userActive count exactly the tasks between executeTask() and
\* finalize(): executeTask()'s three exits give each slot back once between them.
THEOREM SlotsAccountedFor == Spec => []SlotAccounting
  <1>1. Inv => SlotAccounting
    BY DEF Inv
  <1> QED BY <1>1, InvHolds, PTL

\* submit(), drain() and cancelQueued() neither lose nor repeat a waiting task.
THEOREM QueuesIntact == Spec => []QueueIntegrity
  <1>1. Inv => QueueIntegrity
    BY DEF Inv
  <1> QED BY <1>1, InvHolds, PTL

---------------------------------------------------------------------------
(* What the counters and queues promise to users: the limits hold, and no  *)
(* backlog waits beside a free slot.                                       *)

(* What the actions do to queues and counters *)

\* The places of the queues; pendingCount() is their number
Places == UNION {{u} \X DOMAIN queue[u] : u \in Users}

\* No queue gets longer, no counter larger
Shrinks ==
    /\ activeCount' <= activeCount
    /\ \A u \in Users : /\ userActive'[u] <= userActive[u]
                        /\ Len(queue'[u]) <= Len(queue[u])
    /\ recovered \subseteq recovered'

LEMMA QueueLengths ==
    ASSUME TypeOK, NEW u \in Users
    PROVE  /\ queue[u] \in Seq(Tasks) /\ Len(queue[u]) \in Nat /\ DOMAIN queue[u] = 1 .. Len(queue[u])
           /\ userActive[u] \in Nat /\ activeCount \in Nat
  BY LenProperties DEF TypeOK

LEMMA Lengths ==
    ASSUME TypeOK
    PROVE  \A u \in Users : /\ Len(queue[u]) \in Nat /\ Len(queue[u]) <= Len(queue[u])
                            /\ userActive[u] \in Nat /\ userActive[u] <= userActive[u]
  <1> TAKE u \in Users
  <1>1. Len(queue[u]) \in Nat /\ userActive[u] \in Nat
    BY QueueLengths
  <1> QED BY <1>1

LEMMA ReleaseShrinks ==
    ASSUME TypeOK, NEW t \in Tasks, ReleaseSlot(t)
    PROVE  /\ activeCount' <= activeCount
           /\ \A u \in Users : userActive'[u] <= userActive[u]
           /\ draining' /\ UNCHANGED <<queue, rotation>>
  <1>1. userActive \in [Users -> Nat] /\ activeCount \in Nat
    BY DEF TypeOK
  <1>2. activeCount' <= activeCount
    BY <1>1 DEF ReleaseSlot
  <1>3. ASSUME NEW u \in Users PROVE userActive'[u] <= userActive[u]
    BY <1>1 DEF ReleaseSlot
  <1> QED BY <1>2, <1>3 DEF ReleaseSlot

\* The steps that neither queue nor start a task
Other ==
    \/ DrainStop \/ Restart
    \/ \E t \in Tasks : \/ SpawnCreate(t) \/ SubmitRejected(t) \/ Watchdog(t) \/ FailWriteLands(t)
                        \/ RunStep(t) \/ CancelStep(t) \/ Reap(t)
    \/ \E p \in publishing : PublishLands(p) \/ PublishLost(p)
    \/ UNCHANGED vars

LEMMA StepsOf ==
    ASSUME [Next]_vars
    PROVE  DrainStart \/ (\E t \in Tasks : SubmitAccepted(t)) \/ Other
  BY DEF Next, ExecutorStep, Other

\* What such a step leaves alone, and when it may let drain() rest
LEMMA OtherSteps ==
    ASSUME Inv, Inv', Other
    PROVE  /\ Shrinks
           /\ \/ \A u \in Users : queue'[u] = <<>>
              \/ rotation' = rotation
           /\ \/ DrainStop
              \/ draining'
              \/ \A u \in Users : queue'[u] = <<>>
              \/ UNCHANGED <<activeCount, userActive, draining>>
  <1>0. TypeOK /\ TypeOK'
    BY DEF Inv, TypeInv
  <1>1. ASSUME UNCHANGED <<queue, rotation, activeCount, userActive, draining, recovered>>
        PROVE  Shrinks /\ rotation' = rotation /\ UNCHANGED <<activeCount, userActive, draining>>
    <2>1. activeCount \in Nat /\ activeCount' <= activeCount
      BY <1>0, <1>1 DEF TypeOK
    <2> QED BY <1>0, <1>1, <2>1, Lengths DEF Shrinks
  <1>2. ASSUME NEW t \in Tasks, ReleaseSlot(t), UNCHANGED recovered
        PROVE  Shrinks /\ rotation' = rotation /\ draining'
    <2>1. /\ activeCount' <= activeCount /\ draining' /\ UNCHANGED <<queue, rotation>>
          /\ \A u \in Users : userActive'[u] <= userActive[u]
      BY <1>0, <1>2, ReleaseShrinks
    <2> QED BY <1>0, <1>2, <2>1, Lengths DEF Shrinks
  <1>3. CASE DrainStop
    <2>1. activeCount \in Nat /\ activeCount' <= activeCount
      BY <1>0, <1>3 DEF TypeOK, DrainStop
    <2>2. UNCHANGED <<queue, rotation, userActive, recovered>>
      BY <1>3 DEF DrainStop
    <2> QED BY <1>0, <1>3, <2>1, <2>2, Lengths DEF Shrinks
  <1>4. CASE Restart
    <2>1. /\ activeCount' = 0 /\ \A u \in Users : userActive'[u] = 0 /\ queue'[u] = <<>>
          /\ recovered \subseteq recovered'
      BY <1>4 DEF Restart
    <2>2. activeCount \in Nat /\ Len(<<>>) = 0
      BY <1>0 DEF TypeOK
    <2>3. \A u \in Users : userActive'[u] <= userActive[u] /\ Len(queue'[u]) <= Len(queue[u])
      BY <1>0, <2>1, <2>2, Lengths
    <2> QED BY <2>1, <2>2, <2>3 DEF Shrinks
  <1>5. ASSUME NEW t \in Tasks,
               SpawnCreate(t) \/ SubmitRejected(t) \/ FailWriteLands(t) \/ RunStep(t) \/ Reap(t)
        PROVE  UNCHANGED <<queue, rotation, activeCount, userActive, draining, recovered>>
    BY <1>5 DEF SpawnCreate, SubmitRejected, FailWriteLands, RunStep, Reap, RunRefused, RunStarts,
                RunWrites, RunWriteFails, RunReturns, scheduler
  <1>6. ASSUME NEW t \in Tasks, Watchdog(t)
        PROVE  ReleaseSlot(t) /\ UNCHANGED recovered
    BY <1>6 DEF Watchdog
  <1>7. ASSUME NEW t \in Tasks, CancelStep(t)
        PROVE  Shrinks /\ rotation' = rotation /\ UNCHANGED <<activeCount, userActive, draining>>
    <2>1. CASE CancelLoad(t) \/ CancelFlip(t) \/ CancelFlipFails(t) \/ StopWrites(t)
      BY <1>1, <2>1 DEF CancelLoad, CancelFlip, CancelFlipFails, StopWrites, scheduler
    <2>2. CASE CancelHit(t) /\ phase[t] # "queued"
      BY <1>1, <2>2 DEF CancelHit
    <2>3. CASE CancelHit(t) /\ phase[t] = "queued"
      <3>1. PICK i \in DOMAIN queue[UserOf[t]] : Dequeue(t, i)
        BY <2>3 DEF CancelHit
      <3>2. /\ UserOf[t] \in Users /\ queue \in [Users -> Seq(Tasks)]
            /\ IsInjective(queue[UserOf[t]])
        BY <1>0, TasksAssumption DEF TypeOK, Inv, QueueIntegrity
      <3>3. Len(RemoveAt(queue[UserOf[t]], i)) = Len(queue[UserOf[t]]) - 1
        BY <3>2, SpliceOne
      <3>4. \A u \in Users : Len(queue'[u]) <= Len(queue[u])
        <4> TAKE u \in Users
        <4>1. queue'[u] = IF u = UserOf[t] THEN RemoveAt(queue[u], i) ELSE queue[u]
          BY <3>1, <3>2 DEF Dequeue
        <4>2. Len(queue[u]) \in Nat
          BY <1>0, QueueLengths
        <4> QED BY <3>3, <4>1, <4>2
      <3>5. UNCHANGED <<rotation, activeCount, userActive, draining, recovered>>
        BY <2>3 DEF CancelHit
      <3>6. activeCount \in Nat /\ activeCount' <= activeCount
        BY <1>0, <3>5 DEF TypeOK
      <3> QED BY <1>0, <3>4, <3>5, <3>6, Lengths DEF Shrinks
    <2> QED BY <1>7, <2>1, <2>2, <2>3 DEF CancelStep
  <1>8. ASSUME NEW p \in publishing, PublishLands(p) \/ PublishLost(p)
        PROVE  \/ p.task \in Tasks /\ ReleaseSlot(p.task) /\ UNCHANGED recovered
               \/ UNCHANGED <<queue, rotation, activeCount, userActive, draining, recovered>>
    <2>1. p \in Publications
      BY <1>0 DEF TypeOK
    <2>2. AfterPublish(p) /\ UNCHANGED recovered
      BY <1>8 DEF PublishLands, PublishLost
    <2> QED BY <2>1, <2>2 DEF Publications, AfterPublish, scheduler
  <1>9. CASE UNCHANGED vars
    BY <1>1, <1>9 DEF vars, scheduler
  <1> QED BY <1>1, <1>2, <1>3, <1>4, <1>5, <1>6, <1>7, <1>8, <1>9 DEF Other

---------------------------------------------------------------------------
(* Limits *)

LimitsInv == LimitsRespected /\ IsFiniteSet(Places)

LEMMA LimitsInit == Init => LimitsInv
  <1> SUFFICES ASSUME Init PROVE LimitsInv
    OBVIOUS
  <1>1. /\ \A u \in Users : queue[u] = <<>> /\ userActive[u] = 0
        /\ activeCount = 0 /\ Len(<<>>) = 0 /\ DOMAIN <<>> = {}
    BY DEF Init
  <1>2. Places = {}
    BY <1>1 DEF Places
  <1>3. IsFiniteSet(Places) /\ PendingCount = 0
    BY <1>2, FS_EmptySet DEF PendingCount, Places
  <1> QED BY <1>1, <1>3, LimitsAssumption DEF LimitsInv, LimitsRespected

LEMMA LimitsShrink ==
    ASSUME LimitsInv, TypeOK, TypeOK', Shrinks
    PROVE  LimitsInv'
  <1>1. Places' \subseteq Places
    <2> SUFFICES ASSUME NEW u \in Users, NEW i \in DOMAIN queue'[u] PROVE i \in DOMAIN queue[u]
      BY DEF Places
    <2>1. queue'[u] \in Seq(Tasks)
      BY DEF TypeOK
    <2>2. DOMAIN queue'[u] = 1 .. Len(queue'[u]) /\ Len(queue'[u]) \in Nat
      BY <2>1, LenProperties
    <2> QED BY <2>2, QueueLengths DEF Shrinks
  <1>2. /\ IsFiniteSet(Places') /\ PendingCount' <= PendingCount
        /\ PendingCount \in Nat /\ PendingCount' \in Nat
    BY <1>1, FS_Subset, FS_CardinalityType DEF LimitsInv, PendingCount, Places
  <1>3. activeCount' <= MaxConcurrent /\ PendingCount' <= MaxPending
    <2>1. activeCount \in Nat /\ activeCount' \in Nat
      BY DEF TypeOK
    <2> QED BY <1>2, <2>1, LimitsAssumption DEF LimitsInv, LimitsRespected, Shrinks
  <1>4. ASSUME NEW u \in Users
        PROVE  /\ userActive'[u] <= PolicyConc[u] \/ (Recovered(u)' /\ userActive'[u] <= DefaultConc)
               /\ Len(queue'[u]) <= PolicyPend[u] \/ (Recovered(u)' /\ Len(queue'[u]) <= DefaultPend)
    <2>1. /\ userActive[u] \in Nat /\ userActive'[u] \in Nat /\ Len(queue[u]) \in Nat
          /\ PolicyConc[u] \in Nat /\ PolicyPend[u] \in Nat /\ DefaultConc \in Nat /\ DefaultPend \in Nat
      BY QueueLengths, LimitsAssumption DEF TypeOK
    <2>2. Len(queue'[u]) \in Nat
      <3>1. queue'[u] \in Seq(Tasks)
        BY DEF TypeOK
      <3> QED BY <3>1, LenProperties
    <2>3. userActive'[u] <= userActive[u] /\ Len(queue'[u]) <= Len(queue[u])
      BY DEF Shrinks
    <2>4. Recovered(u) => Recovered(u)'
      BY DEF Recovered, Shrinks
    <2>5. /\ userActive[u] <= PolicyConc[u] \/ (Recovered(u) /\ userActive[u] <= DefaultConc)
          /\ Len(queue[u]) <= PolicyPend[u] \/ (Recovered(u) /\ Len(queue[u]) <= DefaultPend)
      BY DEF LimitsInv, LimitsRespected
    <2> QED BY <2>1, <2>2, <2>3, <2>4, <2>5
  <1> QED BY <1>2, <1>3, <1>4 DEF LimitsInv, LimitsRespected

\* submit() adds one place to the queue of a user whose quota leaves room
LEMMA LimitsSubmit ==
    ASSUME LimitsInv, TypeOK, NEW t \in Tasks, SubmitAccepted(t)
    PROVE  LimitsInv'
  <1> DEFINE u == UserOf[t]
             n == Len(queue[u])
  <1>1. /\ u \in Users /\ queue \in [Users -> Seq(Tasks)] /\ queue[u] \in Seq(Tasks) /\ n \in Nat
        /\ DOMAIN queue[u] = 1 .. n
        /\ queue' = [queue EXCEPT ![u] = Append(@, t)]
        /\ UNCHANGED <<activeCount, userActive, recovered>>
        /\ ~(PendingCount >= MaxPending) /\ ~(n >= QuotaPend(t))
    BY TasksAssumption, LenProperties DEF TypeOK, SubmitAccepted, QueueFull
  <1> HIDE DEF u, n
  <1>2. Len(queue'[u]) = n + 1 /\ DOMAIN queue'[u] = (1 .. n) \union {n + 1}
    <2>1. queue'[u] = Append(queue[u], t)
      BY <1>1
    <2> QED BY <1>1, <2>1, AppendProperties DEF n
  <1>3. \A v \in Users : v # u => queue'[v] = queue[v]
    BY <1>1
  <1>4. Places' = Places \union {<<u, n + 1>>} /\ <<u, n + 1>> \notin Places
    <2>1. ASSUME NEW v \in Users, NEW i \in DOMAIN queue'[v]
          PROVE  i \in DOMAIN queue[v] \/ (v = u /\ i = n + 1)
      BY <1>1, <1>2, <1>3
    <2>2. ASSUME NEW v \in Users, NEW i \in DOMAIN queue[v] PROVE i \in DOMAIN queue'[v]
      BY <1>1, <1>2, <1>3
    <2>3. n + 1 \in DOMAIN queue'[u] /\ n + 1 \notin DOMAIN queue[u]
      BY <1>1, <1>2
    <2> QED BY <1>1, <2>1, <2>2, <2>3 DEF Places
  <1>5. /\ IsFiniteSet(Places') /\ PendingCount' = PendingCount + 1 /\ PendingCount \in Nat
    <2>1. PendingCount = Cardinality(Places) /\ PendingCount' = Cardinality(Places')
      BY DEF PendingCount, Places
    <2>2. ASSUME NEW S, NEW x, IsFiniteSet(S), x \notin S
          PROVE  /\ IsFiniteSet(S \union {x}) /\ Cardinality(S) \in Nat
                 /\ Cardinality(S \union {x}) = Cardinality(S) + 1
      BY <2>2, FS_AddElement, FS_CardinalityType
    <2>3. IsFiniteSet(Places)
      BY DEF LimitsInv
    <2> QED BY <1>4, <2>1, <2>2, <2>3
  <1>6. activeCount' <= MaxConcurrent /\ PendingCount' <= MaxPending
    BY <1>1, <1>5, LimitsAssumption DEF LimitsInv, LimitsRespected
  <1>7. ASSUME NEW v \in Users
        PROVE  /\ userActive'[v] <= PolicyConc[v] \/ (Recovered(v)' /\ userActive'[v] <= DefaultConc)
               /\ Len(queue'[v]) <= PolicyPend[v] \/ (Recovered(v)' /\ Len(queue'[v]) <= DefaultPend)
    <2>1. Recovered(v)' <=> Recovered(v)
      BY <1>1 DEF Recovered
    <2>2. CASE v # u
      BY <1>1, <1>3, <2>1, <2>2 DEF LimitsInv, LimitsRespected
    <2>3. CASE v = u
      <3>1. CASE t \in recovered
        <4>1. Recovered(v) /\ QuotaPend(t) = DefaultPend
          BY <2>3, <3>1 DEF Recovered, u, QuotaPend
        <4> QED BY <1>1, <1>2, <2>1, <2>3, <4>1, LimitsAssumption DEF LimitsInv, LimitsRespected
      <3>2. CASE t \notin recovered
        <4>1. QuotaPend(t) = PolicyPend[u]
          BY <3>2 DEF u, QuotaPend
        <4>2. PolicyPend[u] \in Nat
          BY <1>1, LimitsAssumption
        <4> QED BY <1>1, <1>2, <2>1, <2>3, <4>1, <4>2 DEF LimitsInv, LimitsRespected
      <3> QED BY <3>1, <3>2
    <2> QED BY <2>2, <2>3
  <1> QED BY <1>5, <1>6, <1>7 DEF LimitsInv, LimitsRespected

\* drain() starts the first task of a user with a share left.  The quota it
\* compares with is that of the task it starts, which is this user's.
LEMMA LimitsStart ==
    ASSUME LimitsInv, Inv, Inv', DrainStart
    PROVE  LimitsInv'
  <1>0. TypeOK /\ TypeOK'
    BY DEF Inv, TypeInv
  <1>1. PICK i \in 0 .. Len(rotation) - 1 :
          LET u == RotationUser(i) IN
          /\ Eligible(u)
          /\ queue' = [queue EXCEPT ![u] = Tail(@)]
          /\ activeCount' = activeCount + 1
          /\ userActive' = [userActive EXCEPT ![u] = @ + 1]
    BY DEF DrainStart
  <1> DEFINE u == RotationUser(i)
             t == Head(queue[u])
  <1>2. u \in Users
    BY <1>0, <1>1, RotationUserType
  <1>3. /\ queue' = [queue EXCEPT ![u] = Tail(@)] /\ activeCount' = activeCount + 1
        /\ userActive' = [userActive EXCEPT ![u] = @ + 1]
        /\ queue[u] # <<>> /\ userActive[u] < QuotaConc(t)
        /\ activeCount < MaxConcurrent /\ recovered' = recovered
    BY <1>1 DEF Eligible, DrainStart
  <1> HIDE DEF u
  <1>4. /\ queue \in [Users -> Seq(Tasks)] /\ queue[u] \in Seq(Tasks) /\ userActive \in [Users -> Nat]
        /\ ToSet(queue[u]) = {x \in Tasks : phase[x] = "queued" /\ UserOf[x] = u}
    BY <1>0, <1>2 DEF TypeOK, Inv, QueueIntegrity
  <1>5. t \in Tasks /\ UserOf[t] = u
    <2>1. t = queue[u][1] /\ 1 \in DOMAIN queue[u]
      BY <1>3, <1>4
    <2> QED BY <1>4, <2>1 DEF ToSet
  <1> HIDE DEF t
  <1>6. \A v \in Users : Len(queue'[v]) <= Len(queue[v])
    <2> TAKE v \in Users
    <2>1. CASE v = u
      <3>1. queue'[v] = Tail(queue[u])
        BY <1>3, <1>4, <2>1
      <3>2. Len(Tail(queue[u])) = Len(queue[u]) - 1 /\ Len(queue[u]) \in Nat
        BY <1>3, <1>4, HeadTailProperties, LenProperties
      <3> QED BY <2>1, <3>1, <3>2
    <2>2. CASE v # u
      BY <1>0, <1>3, <1>4, <2>2, Lengths
    <2> QED BY <2>1, <2>2
  <1>7. activeCount' <= MaxConcurrent
    BY <1>0, <1>3, LimitsAssumption DEF TypeOK
  <1>8. /\ IsFiniteSet(Places') /\ PendingCount' <= MaxPending
    <2>1. Places' \subseteq Places
      <3> SUFFICES ASSUME NEW v \in Users, NEW j \in DOMAIN queue'[v] PROVE j \in DOMAIN queue[v]
        BY DEF Places
      <3>1. queue'[v] \in Seq(Tasks)
        BY <1>0 DEF TypeOK
      <3>2. DOMAIN queue'[v] = 1 .. Len(queue'[v]) /\ Len(queue'[v]) \in Nat
        BY <3>1, LenProperties
      <3> QED BY <1>0, <1>6, <3>2, QueueLengths
    <2>2. /\ IsFiniteSet(Places') /\ PendingCount' <= PendingCount
          /\ PendingCount \in Nat /\ PendingCount' \in Nat
      BY <2>1, FS_Subset, FS_CardinalityType DEF LimitsInv, PendingCount, Places
    <2> QED BY <2>2, LimitsAssumption DEF LimitsInv, LimitsRespected
  <1>9. ASSUME NEW v \in Users
        PROVE  /\ userActive'[v] <= PolicyConc[v] \/ (Recovered(v)' /\ userActive'[v] <= DefaultConc)
               /\ Len(queue'[v]) <= PolicyPend[v] \/ (Recovered(v)' /\ Len(queue'[v]) <= DefaultPend)
    <2>1. Recovered(v)' <=> Recovered(v)
      BY <1>3 DEF Recovered
    <2>2. Len(queue'[v]) <= PolicyPend[v] \/ (Recovered(v) /\ Len(queue'[v]) <= DefaultPend)
      <3>1. Len(queue'[v]) \in Nat
        <4>1. queue'[v] \in Seq(Tasks)
          BY <1>0 DEF TypeOK
        <4> QED BY <4>1, LenProperties
      <3>2. Len(queue[v]) \in Nat /\ PolicyPend[v] \in Nat /\ DefaultPend \in Nat
        BY <1>0, QueueLengths, LimitsAssumption
      <3>3. Len(queue[v]) <= PolicyPend[v] \/ (Recovered(v) /\ Len(queue[v]) <= DefaultPend)
        BY DEF LimitsInv, LimitsRespected
      <3>4. Len(queue'[v]) <= Len(queue[v])
        BY <1>6
      <3> QED BY <3>1, <3>2, <3>3, <3>4
    <2>3. userActive'[v] <= PolicyConc[v] \/ (Recovered(v) /\ userActive'[v] <= DefaultConc)
      <3>1. CASE v # u
        <4>1. userActive'[v] = userActive[v]
          BY <1>3, <1>4, <3>1
        <4> QED BY <4>1 DEF LimitsInv, LimitsRespected
      <3>2. CASE v = u
        <4>1. userActive'[u] = userActive[u] + 1 /\ userActive[u] \in Nat
          BY <1>2, <1>3, <1>4
        <4>2. CASE t \in recovered
          <5>1. Recovered(u) /\ QuotaConc(t) = DefaultConc /\ DefaultConc \in Nat
            BY <1>5, <4>2, LimitsAssumption DEF Recovered, QuotaConc
          <5> QED BY <1>3, <3>2, <4>1, <5>1
        <4>3. CASE t \notin recovered
          <5>1. QuotaConc(t) = PolicyConc[u] /\ PolicyConc[u] \in Nat
            BY <1>2, <1>5, <4>3, LimitsAssumption DEF QuotaConc
          <5> QED BY <1>3, <3>2, <4>1, <5>1
        <4> QED BY <4>2, <4>3
      <3> QED BY <3>1, <3>2
    <2> QED BY <2>1, <2>2, <2>3
  <1> QED BY <1>7, <1>8, <1>9 DEF LimitsInv, LimitsRespected

\* The host's ceiling, every user's share and the depth of the queues hold in
\* submit() and drain(), across releases, cancellations and restarts.
THEOREM LimitsHold == Spec => []LimitsRespected
  <1>1. Inv /\ Inv' /\ LimitsInv /\ [Next]_vars => LimitsInv'
    <2> SUFFICES ASSUME Inv, Inv', LimitsInv, [Next]_vars PROVE LimitsInv'
      OBVIOUS
    <2>1. TypeOK /\ TypeOK'
      BY DEF Inv, TypeInv
    <2>2. CASE DrainStart
      BY <2>2, LimitsStart
    <2>3. ASSUME NEW t \in Tasks, SubmitAccepted(t) PROVE LimitsInv'
      BY <2>1, <2>3, LimitsSubmit
    <2>4. CASE Other
      BY <2>1, <2>4, OtherSteps, LimitsShrink
    <2> QED BY <2>2, <2>3, <2>4, StepsOf
  <1>2. LimitsInv => LimitsRespected
    BY DEF LimitsInv
  <1> QED BY <1>1, <1>2, LimitsInit, InvHolds, PTL DEF Spec
---------------------------------------------------------------------------
(* No idle backlog *)

\* drain() looks at every user with a backlog
RotationCovers == \A u \in Users : queue[u] # <<>> => u \in ToSet(rotation)

IdleInv == NoIdleBacklog /\ RotationCovers

LEMMA IdleInit == Init => IdleInv
  BY DEF Init, IdleInv, NoIdleBacklog, RotationCovers

LEMMA BacklogsShrink ==
    ASSUME TypeOK, TypeOK', Shrinks, NEW u \in Users, queue'[u] # <<>>
    PROVE  queue[u] # <<>>
  <1>1. queue'[u] \in Seq(Tasks) /\ queue[u] \in Seq(Tasks)
    BY DEF TypeOK
  <1>2. Len(queue'[u]) \in Nat /\ Len(queue'[u]) # 0 /\ Len(queue[u]) \in Nat
    BY <1>1, LenProperties, EmptySeq
  <1>3. Len(queue[u]) # 0
    BY <1>2 DEF Shrinks
  <1> QED BY <1>1, <1>3, EmptySeq

\* drain() rests when no user it knows is eligible: each backlog is held up by
\* its own user's running tasks, and a quota is at least one.
LEMMA IdleStop ==
    ASSUME IdleInv, Inv, DrainStop
    PROVE  IdleInv'
  <1>1. UNCHANGED <<queue, rotation, userActive, activeCount>>
    BY DEF DrainStop
  <1>2. ASSUME NEW u \in Users, queue[u] # <<>>, activeCount < MaxConcurrent PROVE userActive[u] > 0
    <2>1. TypeOK /\ activeCount \in Nat
      BY DEF Inv, TypeInv, TypeOK
    <2>2. ~Eligible(u)
      BY <1>2, <2>1, LimitsAssumption DEF DrainStop, IdleInv, RotationCovers
    <2>3. Head(queue[u]) \in Tasks
      BY <1>2, <2>1, HeadTailProperties DEF TypeOK
    <2>4. QuotaConc(Head(queue[u])) \in Nat \ {0}
      BY <2>3, TasksAssumption, LimitsAssumption DEF QuotaConc
    <2>5. userActive[u] \in Nat
      BY <2>1, QueueLengths
    <2> QED BY <1>2, <2>2, <2>4, <2>5 DEF Eligible
  <1> QED BY <1>1, <1>2 DEF IdleInv, NoIdleBacklog, RotationCovers

\* Whenever drain() has come to rest with a slot free, every backlog belongs to a
\* user with a task running, whose release will drain again.
THEOREM NoBacklogIdles == Spec => []NoIdleBacklog
  <1>1. Inv /\ Inv' /\ IdleInv /\ [Next]_vars => IdleInv'
    <2> SUFFICES ASSUME Inv, Inv', IdleInv, [Next]_vars PROVE IdleInv'
      OBVIOUS
    <2>1. TypeOK /\ TypeOK'
      BY DEF Inv, TypeInv
    <2>2. CASE DrainStart
      <3>1. draining' /\ rotation' = rotation
        BY <2>2 DEF DrainStart
      <3>2. PICK i \in 0 .. Len(rotation) - 1 :
              Eligible(RotationUser(i)) /\ queue' = [queue EXCEPT ![RotationUser(i)] = Tail(@)]
        BY <2>2 DEF DrainStart
      <3>3. \A v \in Users : queue'[v] # <<>> => queue[v] # <<>>
        BY <2>1, <3>2 DEF Eligible, TypeOK
      <3> QED BY <3>1, <3>3 DEF IdleInv, NoIdleBacklog, RotationCovers
    <2>3. ASSUME NEW t \in Tasks, SubmitAccepted(t) PROVE IdleInv'
      <3>1. /\ rotation' = IF UserOf[t] \in ToSet(rotation) THEN rotation ELSE Append(rotation, UserOf[t])
            /\ queue' = [queue EXCEPT ![UserOf[t]] = Append(@, t)] /\ draining'
        BY <2>3 DEF SubmitAccepted
      <3>2. rotation \in Seq(Users) /\ UserOf[t] \in Users
        BY <2>1, TasksAssumption DEF TypeOK
      <3>3. ToSet(rotation) \union {UserOf[t]} \subseteq ToSet(rotation')
        BY <3>1, <3>2, AppendProperties DEF ToSet
      <3>4. \A v \in Users : queue'[v] # <<>> => v = UserOf[t] \/ queue[v] # <<>>
        BY <2>1, <3>1 DEF TypeOK
      <3> QED BY <3>1, <3>3, <3>4 DEF IdleInv, NoIdleBacklog, RotationCovers
    <2>4. CASE Other
      <3>1. /\ \A u \in Users : queue'[u] # <<>> => queue[u] # <<>>
            /\ (\A u \in Users : queue'[u] = <<>>) \/ rotation' = rotation
            /\ \/ DrainStop
               \/ draining'
               \/ \A u \in Users : queue'[u] = <<>>
               \/ UNCHANGED <<activeCount, userActive, draining>>
        BY <2>1, <2>4, OtherSteps, BacklogsShrink
      <3>2. RotationCovers'
        BY <3>1 DEF IdleInv, RotationCovers
      <3>3. CASE DrainStop
        BY <3>3, IdleStop
      <3>4. CASE ~DrainStop
        BY <3>1, <3>2, <3>4 DEF IdleInv, NoIdleBacklog
      <3> QED BY <3>3, <3>4
    <2> QED BY <2>2, <2>3, <2>4, StepsOf
  <1>2. IdleInv => NoIdleBacklog
    BY DEF IdleInv
  <1> QED BY <1>1, <1>2, IdleInit, InvHolds, PTL DEF Spec

---------------------------------------------------------------------------
(* One report *)

\* Before the latch falls nobody has told the parent, and a row says running only
\* while the run's controller is registered
Waiting == {"new", "created", "queued", "active", "dequeued"}
ToldAt(t) ==
    /\ phase[t] \in Waiting => reports[t] = <<>> /\ PublicationsOf(t) = {}
    /\ \/ reports[t] = <<>> /\ \A p, q \in PublicationsOf(t) : p = q
       \/ Len(reports[t]) = 1 /\ PublicationsOf(t) = {}
    /\ row[t] = "running" => promise[t] = "running"
    /\ phase[t] \in {"new", "created", "queued", "rejected", "dequeued"} => promise[t] = "none"
Told == faults + crashes = 0 => \A t \in Tasks : ToldAt(t)

LEMMA ToldInit == Init => Told
  BY DEF Init, Told, ToldAt, PublicationsOf

\* A step that tells nobody
LEMMA ToldFrame ==
    ASSUME NEW t \in Tasks, ToldAt(t), UNCHANGED <<publishing, reports>>,
           phase'[t] \in Waiting => phase[t] \in Waiting,
           row'[t] = "running" => promise'[t] = "running",
           phase'[t] \in {"new", "created", "queued", "rejected", "dequeued"} => promise'[t] = "none"
    PROVE  ToldAt(t)'
  BY DEF ToldAt, PublicationsOf, outbox

\* One publication for a child that has not been told of
LEMMA ToldNow ==
    ASSUME NEW t \in Tasks, NEW u \in Tasks, NEW status, ToldAt(t), phase[t] \in Waiting,
           publishing' = publishing \union {[task |-> t, status |-> status, by |-> "executor"]},
           reports' = reports, phase'[t] \notin Waiting
    PROVE  /\ PublicationsOf(t)' = {[task |-> t, status |-> status, by |-> "executor"]}
           /\ u # t => PublicationsOf(u)' = PublicationsOf(u)
  BY DEF ToldAt, PublicationsOf

\* The outcome of a run that is refused or has returned
LEMMA ToldOutcome ==
    ASSUME TypeOK, NEW t \in Tasks, NEW u \in Tasks, NEW status, ToldAt(t), ToldAt(u), Settle(t, status),
           promise[t] \in {"starting", "unwinding"}, promise' = [promise EXCEPT ![t] = "ended"],
           UNCHANGED <<row, reports>>
    PROVE  ToldAt(u)'
  <1>1. phase[t] \notin {"new", "created", "queued", "rejected", "dequeued"} /\ row[t] # "running"
    BY DEF ToldAt
  <1>2. promise'[u] = IF u = t THEN "ended" ELSE promise[u]
    BY DEF TypeOK
  <1>3. CASE phase[t] = "active"
    <2>1. phase' = [phase EXCEPT ![t] = "reporting"] /\ phase[t] \in Waiting
      BY <1>3 DEF Settle, Waiting
    <2>2. phase'[u] = IF u = t THEN "reporting" ELSE phase[u]
      BY <2>1 DEF TypeOK
    <2>3. publishing' = publishing \union {[task |-> t, status |-> status, by |-> "executor"]}
      BY <1>3 DEF Settle, Publish
    <2>4. /\ PublicationsOf(t)' = {[task |-> t, status |-> status, by |-> "executor"]}
          /\ u # t => PublicationsOf(u)' = PublicationsOf(u)
      BY <2>1, <2>2, <2>3, ToldNow DEF Waiting, TypeOK
    <2>5. CASE u = t
      BY <1>1, <1>2, <2>1, <2>2, <2>4, <2>5 DEF ToldAt, Waiting
    <2>6. CASE u # t
      BY <1>2, <2>2, <2>4, <2>6 DEF ToldAt
    <2> QED BY <2>5, <2>6
  <1>4. CASE phase[t] # "active"
    <2>1. UNCHANGED <<phase, publishing>>
      BY <1>4 DEF Settle
    <2> QED BY <1>1, <1>2, <2>1, ToldFrame DEF ToldAt, outbox
  <1> QED BY <1>3, <1>4

\* The lpush of a publication
LEMMA ToldLands ==
    ASSUME TypeOK, NEW u \in Tasks, NEW p \in publishing, ToldAt(u), ToldAt(p.task), PublishLands(p)
    PROVE  ToldAt(u)'
  <1> DEFINE t == p.task
  <1>1. t \in Tasks /\ p \in PublicationsOf(t) /\ p.status \in Outcomes
    BY DEF TypeOK, Publications, PublicationsOf
  <1>2. phase[t] \notin Waiting /\ reports[t] = <<>> /\ PublicationsOf(t) = {p}
    BY <1>1 DEF ToldAt
  <1>3. /\ reports'[u] = IF u = t THEN Append(reports[t], p.status) ELSE reports[u]
        /\ publishing' = publishing \ {p}
        /\ UNCHANGED <<row, promise>>
    BY DEF PublishLands, TypeOK, runs
  <1>4. phase'[u] = phase[u] \/ (u = t /\ phase'[u] = "done")
    BY DEF PublishLands, AfterPublish, TypeOK
  <1>5. PublicationsOf(u)' = PublicationsOf(u) \ {p}
    BY <1>3 DEF PublicationsOf
  <1> HIDE DEF t
  <1>6. CASE u = t
    <2>1. Len(reports'[u]) = 1
      BY <1>2, <1>3, <1>6
    <2>2. PublicationsOf(u)' = {}
      BY <1>2, <1>5, <1>6
    <2>3. phase'[u] \notin Waiting
      BY <1>2, <1>4, <1>6 DEF Waiting
    <2> QED BY <1>3, <1>4, <1>6, <2>1, <2>2, <2>3 DEF ToldAt, Waiting
  <1>7. CASE u # t
    <2>1. PublicationsOf(u)' = PublicationsOf(u)
      BY <1>5, <1>7 DEF PublicationsOf, t
    <2> QED BY <1>3, <1>4, <1>7, <2>1 DEF ToldAt
  <1> QED BY <1>6, <1>7

\* A rejection and the watchdog report a task nobody has reported
LEMMA ToldFailed ==
    ASSUME TypeOK, NEW t \in Tasks, NEW u \in Tasks, ToldAt(t), ToldAt(u),
           SubmitRejected(t) \/ Watchdog(t)
    PROVE  ToldAt(u)'
  <1>1. /\ phase[t] \in Waiting
        /\ phase'[u] = IF u = t THEN phase'[t] ELSE phase[u]
        /\ phase'[t] \in {"rejected", "done"} /\ (phase'[t] = "rejected" => phase[t] = "created")
        /\ publishing' = publishing \union {[task |-> t, status |-> "failed", by |-> "executor"]}
        /\ UNCHANGED <<promise, row, reports>>
    BY DEF SubmitRejected, Watchdog, Publish, Waiting, TypeOK
  <1>2. /\ PublicationsOf(t)' = {[task |-> t, status |-> "failed", by |-> "executor"]}
        /\ u # t => PublicationsOf(u)' = PublicationsOf(u)
    BY <1>1, ToldNow DEF Waiting
  <1>3. CASE u = t
    BY <1>1, <1>2, <1>3 DEF ToldAt, Waiting
  <1>4. CASE u # t
    BY <1>1, <1>2, <1>4 DEF ToldAt
  <1> QED BY <1>3, <1>4

LEMMA ToldStep ==
    ASSUME Inv, Inv', Told, [Next]_vars
    PROVE  Told'
  <1>0. TypeOK /\ TypeOK' /\ QueueIntegrity
    BY DEF Inv, TypeInv
  <1>1. faults \in Nat /\ crashes \in Nat /\ faults' \in Nat /\ crashes' \in Nat
    BY <1>0, LimitsAssumption DEF TypeOK
  <1> SUFFICES ASSUME faults' + crashes' = 0, NEW u \in Tasks PROVE ToldAt(u)'
    BY DEF Told
  <1>2. faults' = 0 /\ crashes' = 0 /\ ~Fault /\ ~Restart
    BY <1>1 DEF Fault, Restart
  <1>3. faults + crashes = 0 /\ \A t \in Tasks : ToldAt(t)
    <2>1. \/ UNCHANGED bounds
          \/ Fault \/ Restart
      BY DEF Next, ExecutorStep, RunStep, CancelStep, DrainStart, DrainStop, SpawnCreate, SubmitAccepted,
             SubmitRejected, Watchdog, FailWriteLands, RunRefused, RunStarts, RunWrites, RunWriteFails,
             RunReturns, CancelLoad, CancelHit, CancelFlip, CancelFlipFails, StopWrites, Reap, PublishLands, PublishLost, vars, bounds
    <2> QED BY <1>2, <2>1 DEF Told, bounds
  <1> USE <1>0, <1>3
  <1>4. CASE DrainStart
    <2>1. PICK i \in 0 .. Len(rotation) - 1 :
            /\ Eligible(RotationUser(i))
            /\ phase' = [phase EXCEPT ![Head(queue[RotationUser(i)])] = "active"]
            /\ promise' = [promise EXCEPT ![Head(queue[RotationUser(i)])] = "starting"]
      BY <1>4 DEF DrainStart
    <2> DEFINE t == Head(queue[RotationUser(i)])
    <2>2. t \in Tasks /\ phase[t] = "queued"
      <3>1. RotationUser(i) \in Users /\ queue[RotationUser(i)] # <<>>
        BY <2>1, RotationUserType DEF TypeOK, Eligible
      <3>2. queue[RotationUser(i)] \in Seq(Tasks)
        BY <3>1 DEF TypeOK
      <3>3. t \in ToSet(queue[RotationUser(i)])
        BY <3>1, <3>2, HeadTailProperties DEF ToSet
      <3> QED BY <3>1, <3>3 DEF QueueIntegrity
    <2> HIDE DEF t
    <2>3. /\ phase'[u] = IF u = t THEN "active" ELSE phase[u]
          /\ promise'[u] = IF u = t THEN "starting" ELSE promise[u]
      BY <2>1 DEF t, TypeOK
    <2>4. UNCHANGED <<row, outbox>>
      BY <1>4 DEF DrainStart
    <2> QED BY <2>2, <2>3, <2>4, ToldFrame DEF ToldAt, Waiting, outbox
  <1>5. CASE DrainStop \/ UNCHANGED vars
    BY <1>5, ToldFrame DEF DrainStop, vars, runs, outbox, ToldAt
  <1>6. ASSUME NEW t \in Tasks, SpawnCreate(t) \/ SubmitAccepted(t) \/ FailWriteLands(t) PROVE ToldAt(u)'
    <2>1. /\ UNCHANGED <<outbox, promise>>
          /\ phase'[u] = phase[u] \/ (phase'[u] = "created" /\ phase[u] = "new")
                                  \/ (phase'[u] = "queued" /\ phase[u] = "created")
          /\ row'[u] = row[u] \/ row'[u] # "running"
      BY <1>6 DEF SpawnCreate, SubmitAccepted, FailWriteLands, TypeOK, runs
    <2> QED BY <2>1, ToldFrame DEF ToldAt, Waiting, outbox
  <1>7. ASSUME NEW t \in Tasks, SubmitRejected(t) \/ Watchdog(t) PROVE ToldAt(u)'
    BY <1>7, ToldFailed
  <1>8. ASSUME NEW t \in Tasks, RunRefused(t) \/ RunReturns(t) PROVE ToldAt(u)'
    BY <1>8, ToldOutcome DEF RunRefused, RunReturns
  <1>9. ASSUME NEW t \in Tasks, RunStarts(t) \/ RunWrites(t) \/ RunWriteFails(t) PROVE ToldAt(u)'
    <2>1. /\ UNCHANGED <<phase, outbox>> /\ promise[t] \in {"starting", "running"}
          /\ promise'[u] = IF u = t THEN promise'[t] ELSE promise[u]
          /\ row'[u] = IF u = t THEN row'[t] ELSE row[u]
          /\ row'[t] = "running" => promise'[t] = "running"
      BY <1>2, <1>9 DEF RunStarts, RunWrites, RunWriteFails, TypeOK, Outcomes
    <2>2. phase'[u] \in {"new", "created", "queued", "rejected", "dequeued"} => u # t
      BY <2>1 DEF ToldAt
    <2> QED BY <2>1, <2>2, ToldFrame DEF ToldAt, outbox
  <1>10. ASSUME NEW t \in Tasks, CancelStep(t) PROVE ToldAt(u)'
    <2>1. /\ UNCHANGED <<publishing, reports, promise>>
          /\ phase'[u] = phase[u] \/ (phase'[u] = "dequeued" /\ phase[u] = "queued")
          /\ row'[u] = row[u] \/ row'[u] = "cancelled"
      BY <1>2, <1>10 DEF CancelStep, CancelLoad, CancelHit, CancelFlip, CancelFlipFails, StopWrites, Dequeue,
                           TypeOK, runs, outbox
    <2> QED BY <2>1, ToldFrame DEF ToldAt, Waiting
  <1>11. ASSUME NEW t \in Tasks, Reap(t) PROVE ToldAt(u)'
    <2>1. Registered(t)
      BY <1>11 DEF Reap, Registered, ToldAt
    <2>2. UNCHANGED <<publishing, reports, promise, phase>> /\ (row'[u] = row[u] \/ row'[u] = "failed")
      BY <1>11, <2>1 DEF Reap, outbox, TypeOK
    <2> QED BY <2>2, ToldFrame DEF ToldAt
  <1>12. ASSUME NEW p \in publishing, PublishLands(p) PROVE ToldAt(u)'
    <2>1. p.task \in Tasks
      BY DEF TypeOK, Publications
    <2> QED BY <1>12, <2>1, ToldLands
  <1>13. ASSUME NEW p \in publishing, PublishLost(p) PROVE ToldAt(u)'
    BY <1>2, <1>13 DEF PublishLost
  <1> QED BY <1>2, <1>4, <1>5, <1>6, <1>7, <1>8, <1>9, <1>10, <1>11, <1>12, <1>13
       DEF Next, ExecutorStep, RunStep

\* While no call fails and the process lives, the latch, the row and the controller
\* together let one of the run, the watchdog, the rejection and the reaper report a child.
THEOREM ChildrenReportedOnce == Spec => []ReportedOnce
  <1>1. Told => ReportedOnce
    <2> SUFFICES ASSUME Told, faults + crashes = 0, NEW t \in Tasks
                 PROVE  Len(reports[t]) + Cardinality(PublicationsOf(t)) <= 1
      BY DEF ReportedOnce
    <2>1. ToldAt(t)
      BY DEF Told
    <2>2. Cardinality({}) = 0 /\ Len(<<>>) = 0
      BY FS_EmptySet
    <2>3. CASE PublicationsOf(t) = {}
      <3>1. Cardinality(PublicationsOf(t)) = 0
        BY <2>2, <2>3
      <3>2. Len(reports[t]) \in {0, 1}
        BY <2>1, <2>2 DEF ToldAt
      <3>3. \A n \in {0, 1} : n + 0 <= 1
        OBVIOUS
      <3> QED BY <3>1, <3>2, <3>3, Zenon
    <2>4. CASE PublicationsOf(t) # {}
      <3>1. PICK p : PublicationsOf(t) = {p} /\ reports[t] = <<>>
        BY <2>1, <2>4 DEF ToldAt
      <3>2. Cardinality({p}) = 1
        BY FS_Singleton
      <3> QED BY <2>2, <3>1, <3>2
    <2> QED BY <2>3, <2>4
  <1> QED BY <1>1, ToldInit, ToldStep, InvHolds, PTL DEF Spec
============================================================================
