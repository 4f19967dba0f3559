------------------------ MODULE ResultDeliveryProofs ------------------------
(***************************************************************************)
(* Result delivery for any number of results and overlapping calls: one    *)
(* holder of the delivery lock in the critical section, and nobody else's   *)
(* release takes it away; no attempt is counted that no failed wave stands  *)
(* for; and the two Redis lists implement the abstract mailbox, since they  *)
(* hold a copy of each result that is due beyond those a call is about to   *)
(* take out.                                                                *)
(***************************************************************************)
EXTENDS ResultDelivery, FiniteSetTheorems, SequenceTheorems, WellFoundedInduction, TLAPS

CallPoints == {"idle", "guarded", "drain", "count", "ttl", "capped", "requeue", "unqueue", "invoke", "running",
               "clear", "rollback", "retry", "unlink", "final", "release"}

\* What the lock's proofs need to know of the state
LockType ==
    /\ pc \in [Deliverers -> CallPoints]
    /\ faults \in Nat /\ crashes \in Nat

\* While every call has answered, a call in its critical section holds the lock
LockHeld == faults = 0 => \A d \in Critical : lock = d

LockInv == LockType /\ LockHeld

LEMMA LockInit == Init => LockInv
  BY DEF CallPoints, Init, LockInv, LockType, LockHeld, Critical

\* A step of another component: the calls and the lock are left alone
LEMMA LockFrame ==
    ASSUME LockInv, pc' = pc, lock' = lock,
           faults' = faults \/ faults' = faults + 1, crashes' = crashes
    PROVE  LockInv'
  BY DEF LockInv, LockType, LockHeld, Critical

\* A call goes on, and stays in its critical section if it was there
LEMMA LockGoes ==
    ASSUME LockInv, NEW d \in Deliverers, NEW at \in CallPoints, Goto(d, at), lock' = lock,
           d \in Critical \/ at \in {"idle", "guarded"},
           faults' = faults \/ faults' = faults + 1, crashes' = crashes
    PROVE  LockInv'
  <1>1. Critical' \subseteq Critical
    BY DEF Critical, Goto, LockInv, LockType
  <1>2. LockType'
    BY DEF LockInv, LockType, Goto
  <1>3. LockHeld'
    BY <1>1 DEF LockInv, LockHeld, LockType
  <1> QED BY <1>2, <1>3 DEF LockInv

LEMMA DelivererStep ==
    ASSUME LockInv, NEW d \in Deliverers, Deliver(d) \/ DeliverFails(d)
    PROVE  LockInv'
  <1>0. "free" # d /\ "orphan" # d
    BY DeliveryAssumption
  <1>1. CASE WakeUp(d)
    <2>1. "guarded" \in CallPoints /\ UNCHANGED <<lock, faults, crashes>>
      BY <1>1 DEF WakeUp, CallPoints, bounds
    <2>2. CASE pc' = pc
      BY <2>1, <2>2, LockFrame
    <2>3. CASE Goto(d, "guarded")
      BY <2>1, <2>3, LockGoes
    <2> QED BY <1>1, <2>2, <2>3 DEF WakeUp
  <1>2. CASE Acquire(d)
    <2>1. CASE lock = "free"
      <3>1. /\ lock' = d /\ pc' = [pc EXCEPT ![d] = "drain"] /\ UNCHANGED bounds
        BY <1>2, <2>1 DEF Acquire, Goto
      <3>2. faults = 0 => Critical = {}
        BY <2>1, DeliveryAssumption DEF LockInv, LockHeld, Critical
      <3>3. faults = 0 => Critical' \subseteq {d}
        BY <3>1, <3>2 DEF Critical, LockInv, LockType
      <3>4. LockType'
        BY <3>1 DEF LockInv, LockType, CallPoints, bounds
      <3> QED BY <3>1, <3>3, <3>4 DEF LockInv, LockHeld, bounds
    <2>2. CASE lock # "free"
      <3>1. "idle" \in CallPoints /\ Goto(d, "idle") /\ UNCHANGED <<lock, faults, crashes>>
        BY <1>2, <2>2 DEF Acquire, CallPoints, bounds
      <3> QED BY <3>1, LockGoes
    <2> QED BY <2>1, <2>2
  <1>3. ASSUME pc[d] \in CallPoints \ {"idle", "guarded"}, lock' = lock, crashes' = crashes,
               faults' = faults \/ faults' = faults + 1,
               pc' = pc \/ \E at \in CallPoints : Goto(d, at)
        PROVE  LockInv'
    <2>1. d \in Critical
      BY <1>3 DEF Critical
    <2>2. CASE pc' = pc
      BY <1>3, <2>2, LockFrame
    <2>3. ASSUME NEW at \in CallPoints, Goto(d, at) PROVE LockInv'
      BY <1>3, <2>1, <2>3, LockGoes
    <2> QED BY <1>3, <2>2, <2>3
  <1>4. CASE DrainPop(d) \/ DrainEnds(d) \/ CountWave(d) \/ CountTTL(d) \/ CapRollsBack(d) \/ Requeue(d)
             \/ Unqueue(d) \/ WaveStarts(d) \/ WaveRefused(d) \/ WaveSettles(d) \/ Clear(d) \/ Rollback(d)
             \/ Retry(d) \/ Unlink(d) \/ RetriesEnd(d) \/ FinalCheck(d)
    <2>1. pc[d] \in CallPoints \ {"idle", "guarded"} /\ lock' = lock /\ UNCHANGED bounds
      BY <1>4 DEF DrainPop, DrainEnds, CountWave, CountTTL, CapRollsBack, Requeue, Unqueue, WaveStarts,
                  WaveRefused, WaveSettles, Clear, Rollback, Retry, Unlink, RetriesEnd, FinalCheck, CallPoints
    <2>2. /\ {"final", "release", "count", "ttl", "capped", "invoke", "requeue", "unqueue", "running", "rollback",
             "clear", "drain", "retry", "unlink"} \subseteq CallPoints
          /\ (IF pass[d] = 1 THEN "final" ELSE "release") \in CallPoints
          /\ (IF queue # <<>> THEN "drain" ELSE "release") \in CallPoints
      BY DEF CallPoints
    <2>3. CASE DrainPop(d) \/ DrainEnds(d) \/ CountWave(d) \/ CountTTL(d) \/ CapRollsBack(d) \/ Requeue(d)
               \/ Unqueue(d)
      BY <2>2, <2>3, <1>3, <2>1 DEF DrainPop, DrainEnds, CountWave, CountTTL, CapRollsBack, Requeue, Unqueue,
                                    Leave, bounds
    <2>4. CASE WaveStarts(d) \/ WaveRefused(d) \/ WaveSettles(d) \/ Clear(d) \/ Rollback(d)
               \/ Retry(d) \/ Unlink(d) \/ RetriesEnd(d) \/ FinalCheck(d)
      BY <2>2, <2>4, <1>3, <2>1 DEF WaveStarts, WaveRefused, WaveSettles, Clear, Rollback, Retry, Unlink,
                                    RetriesEnd, FinalCheck, Leave, Fails, bounds
    <2> QED BY <1>4, <2>3, <2>4
  <1>5. CASE ClearFails(d) \/ RetryFails(d) \/ Unhandled(d)
    <2>1. /\ pc[d] \in CallPoints \ {"idle", "guarded"} /\ lock' = lock /\ crashes' = crashes
          /\ faults' = faults + 1
          /\ pc' = pc \/ \E at \in CallPoints : Goto(d, at)
      BY <1>5 DEF ClearFails, RetryFails, Unhandled, Fault, Fails, CallPoints
    <2> QED BY <1>3, <2>1
  <1>6. CASE Release(d)
    <2>1. /\ lock' = (IF lock = d THEN "free" ELSE lock) /\ pc' = [pc EXCEPT ![d] = "idle"]
          /\ d \in Critical /\ UNCHANGED bounds
      BY <1>6 DEF Release, Goto, Critical
    <2>2. Critical' = Critical \ {d}
      BY <2>1 DEF Critical, LockInv, LockType
    <2>3. LockType'
      BY <2>1 DEF LockInv, LockType, CallPoints, bounds
    <2> QED BY <2>1, <2>2, <2>3 DEF LockInv, LockHeld, bounds
  <1>7. CASE CallFails(d)
    <2>1. faults' = faults + 1 /\ crashes' = crashes /\ pc' \in [Deliverers -> CallPoints]
      BY <1>7 DEF CallFails, Fault, Goto, LockInv, LockType, CallPoints
    <2> QED BY <2>1 DEF LockInv, LockType, LockHeld
  <1> QED BY <1>1, <1>2, <1>4, <1>5, <1>6, <1>7 DEF Deliver, DeliverFails

LEMMA LockNext == LockInv /\ [Next]_vars => LockInv'
  <1> SUFFICES ASSUME LockInv, [Next]_vars PROVE LockInv'
    OBVIOUS
  <1>1. ASSUME NEW r \in Results, ChildStep(r) PROVE LockInv'
    BY <1>1, LockFrame DEF ChildStep, ChildSettles, Enqueue, Announce, Fault, calls, bounds
  <1>2. CASE TurnStarts \/ WaitStarts \/ WaitFails \/ TurnEnds
    BY <1>2, LockFrame DEF TurnStarts, WaitStarts, WaitFails, TurnEnds, WaitRemoves, WaitGoesOn, TurnSettles,
                           TurnWakes, Fault, calls, bounds
  <1>3. CASE Sweep \/ SweepFails \/ WindowExpires \/ GhostReaped
    BY <1>3, LockFrame DEF Sweep, SweepStarts, SweepMoves, SweepEnds, SweepFails, WindowExpires, GhostReaped,
                           Fault, calls, bounds
  \* Nobody is left to renew an orphan lock, and any other expires by a failure
  <1>4. CASE LockExpires
    <2>1. CASE lock = "orphan"
      <3>1. faults = 0 => Critical = {}
        BY <2>1, DeliveryAssumption DEF LockInv, LockHeld, Critical
      <3>2. Critical' = Critical /\ UNCHANGED <<pc, faults, crashes>>
        BY <1>4, <2>1 DEF LockExpires, Critical, calls
      <3> QED BY <3>1, <3>2 DEF LockInv, LockType, LockHeld
    <2>2. CASE lock # "orphan"
      <3>1. faults' = faults + 1 /\ UNCHANGED <<pc, crashes>>
        BY <1>4, <2>2 DEF LockExpires, Fault, calls
      <3> QED BY <3>1 DEF LockInv, LockType, LockHeld
    <2> QED BY <2>1, <2>2
  <1>5. CASE Restart
    <2>1. /\ pc' = [d \in Deliverers |-> "idle"] /\ faults' = faults /\ crashes' = crashes + 1
      BY <1>5 DEF Restart
    <2>2. Critical' = {}
      BY <2>1 DEF Critical
    <2>3. LockType'
      BY <2>1 DEF LockInv, LockType, CallPoints
    <2> QED BY <2>2, <2>3 DEF LockInv, LockHeld
  <1>6. CASE UNCHANGED vars
    BY <1>6, LockFrame DEF vars, calls, bounds
  <1> QED BY <1>1, <1>2, <1>3, <1>4, <1>5, <1>6, DelivererStep DEF Next

LEMMA LockInvHolds == Spec => []LockInv
  BY LockInit, LockNext, PTL DEF Spec

\* At most one tryDeliverResults() call of the session is between setNx and its
\* release, over restarts and overlapping wake-ups, until a Redis call fails.
THEOREM OneCallDelivers == Spec => []OneDeliverer
  <1>1. LockInv => OneDeliverer
    <2> SUFFICES ASSUME LockInv, faults = 0 PROVE Cardinality(Critical) <= 1
      BY DEF OneDeliverer
    <2>1. Critical = {} \/ \E d \in Critical : Critical = {d}
      BY DEF LockInv, LockHeld
    <2>2. CASE Critical = {}
      BY <2>2, FS_EmptySet
    <2>3. ASSUME NEW d \in Critical, Critical = {d} PROVE Cardinality(Critical) <= 1
      <3>1. Cardinality({d}) = 1
        BY FS_Singleton
      <3> QED BY <2>3, <3>1
    <2> QED BY <2>1, <2>2, <2>3
  <1> QED BY <1>1, LockInvHolds, PTL

\* A holder loses the lock by its own release, by a failed renewal or with its
\* process: compare-and-delete keeps a call whose lock has expired from releasing it.
THEOREM ReleaseIsFenced == Spec => FencedRelease
  <1> DEFINE Fenced(d) == lock = d /\ lock' # d => pc[d] = "release" \/ faults' > faults \/ crashes' > crashes
  <1>1. LockInv /\ [Next]_vars => [\A d \in Deliverers : Fenced(d)]_vars
    <2> SUFFICES ASSUME LockInv, [Next]_vars, NEW d \in Deliverers, lock = d, lock' # d
                 PROVE  pc[d] = "release" \/ faults' > faults \/ crashes' > crashes
      OBVIOUS
    <2>1. d # "free" /\ d # "orphan" /\ faults \in Nat /\ crashes \in Nat
      BY DeliveryAssumption DEF LockInv, LockType
    <2>2. ASSUME NEW e \in Deliverers, Deliver(e) \/ DeliverFails(e)
          PROVE  pc[d] = "release" \/ faults' > faults
      <3>1. CASE Acquire(e)
        BY <2>1, <3>1 DEF Acquire
      <3>2. CASE Release(e)
        BY <2>1, <3>2 DEF Release
      <3>3. CASE CallFails(e)
        BY <2>1, <3>3 DEF CallFails, Fault
      <3>4. CASE ~(Acquire(e) \/ Release(e) \/ CallFails(e))
        BY <2>2, <3>4 DEF Deliver, DeliverFails, WakeUp, DrainPop, DrainEnds, CountWave, CountTTL, CapRollsBack,
           Requeue, Unqueue, WaveStarts, WaveRefused, WaveSettles, Clear, Rollback, Retry, Unlink, RetriesEnd,
           FinalCheck, ClearFails, RetryFails, Unhandled
      <3> QED BY <3>1, <3>2, <3>3, <3>4
    <2>3. CASE LockExpires
      BY <2>1, <2>3 DEF LockExpires, Fault
    <2>4. CASE Restart
      BY <2>1, <2>4 DEF Restart
    <2>5. ASSUME NEW r \in Results, ChildStep(r) PROVE lock' = lock
      BY <2>5 DEF ChildStep, ChildSettles, Enqueue, Announce
    <2>6. CASE TurnStarts \/ WaitStarts \/ WaitFails \/ TurnEnds \/ Sweep \/ SweepFails \/ WindowExpires
               \/ GhostReaped \/ UNCHANGED vars
      BY <2>6 DEF TurnStarts, WaitStarts, WaitFails, TurnEnds, WaitRemoves, WaitGoesOn, TurnSettles, TurnWakes,
                  Sweep, SweepStarts, SweepMoves, SweepEnds, SweepFails, WindowExpires, GhostReaped, vars
    <2> QED BY <2>2, <2>3, <2>4, <2>5, <2>6 DEF Next
  <1> QED BY <1>1, LockInvHolds, PTL DEF Spec, FencedRelease

---------------------------------------------------------------------------
(* Lists *)

\* Where a list holds copies of a result's payload, and how many it holds
Places(list, r) == {i \in 1 .. Len(list) : list[i].id = r}
Copies(list, r) == Cardinality(Places(list, r))

\* A nonempty set of naturals has a least element
LEMMA Least ==
    ASSUME NEW T \in SUBSET Nat, T # {}
    PROVE  \E m \in T : \A n \in T : m <= n
  <1>1. PICK m \in T : \A n \in T : <<n, m>> \notin OpToRel(<, Nat)
    BY NatLessThanWellFounded, WFMin, Zenon
  <1>2. ASSUME NEW n \in T PROVE m <= n
    <2>1. ~(n < m)
      BY <1>1 DEF OpToRel
    <2> QED BY <2>1
  <1> QED BY <1>2

\* lpush
LEMMA ConsElements ==
    ASSUME NEW S, NEW s \in Seq(S), NEW p \in S
    PROVE  /\ Cons(p, s) \in Seq(S) /\ Len(Cons(p, s)) = Len(s) + 1
           /\ Cons(p, s)[1] = p /\ \A i \in 1 .. Len(s) : Cons(p, s)[i + 1] = s[i]
  BY DEF Cons

\* lmove takes the last element
LEMMA FrontElements ==
    ASSUME NEW S, NEW s \in Seq(S), s # <<>>
    PROVE  /\ Front(s) \in Seq(S) /\ Len(Front(s)) = Len(s) - 1
           /\ \A i \in 1 .. Len(s) - 1 : Front(s)[i] = s[i]
           /\ Len(s) \in Nat \ {0} /\ Last(s) = s[Len(s)] /\ Last(s) \in S
  <1>1. Len(s) \in Nat \ {0} /\ \A i \in 1 .. Len(s) : s[i] \in S
    OBVIOUS
  <1>2. Front(s) = SubSeq(s, 1, Len(s) - 1)
    BY DEF Front
  <1>3. SubSeq(s, 1, Len(s) - 1) \in Seq(S) /\ Len(SubSeq(s, 1, Len(s) - 1)) = Len(s) - 1
    BY <1>1, SubSeqProperties
  <1>4. \A i \in 1 .. Len(s) - 1 : SubSeq(s, 1, Len(s) - 1)[i] = s[i]
    BY <1>1, SubSeqProperties
  <1>5. Last(s) = s[Len(s)]
    BY DEF Last
  <1> QED BY <1>1, <1>2, <1>3, <1>4, <1>5

\* lrem with count 1 takes out the leftmost equal element, or nothing
LEMMA RemoveFirstElements ==
    ASSUME NEW S, NEW s \in Seq(S), NEW p
    PROVE  /\ RemoveFirst(s, p) \in Seq(S)
           /\ \/ RemoveFirst(s, p) = s
              \/ \E k \in 1 .. Len(s) :
                     /\ s[k] = p /\ Len(RemoveFirst(s, p)) = Len(s) - 1
                     /\ \A i \in 1 .. k - 1 : RemoveFirst(s, p)[i] = s[i]
                     /\ \A i \in k .. Len(s) - 1 : RemoveFirst(s, p)[i] = s[i + 1]
  <1>1. CASE ~ \E i \in 1 .. Len(s) : s[i] = p
    BY <1>1 DEF RemoveFirst
  <1>2. CASE \E i \in 1 .. Len(s) : s[i] = p
    <2> DEFINE I == {i \in 1 .. Len(s) : s[i] = p}
    <2>1. I \subseteq Nat /\ I # {}
      BY <1>2
    <2>2. \E k \in I : \A i \in I : k <= i
      BY <2>1, Least
    <2>3. Min(I) \in I
      BY <2>2 DEF Min
    <2>4. SelectInSeq(s, LAMBDA v : v = p) = Min(I)
      BY <2>1 DEF SelectInSeq
    <2>5. RemoveFirst(s, p) = RemoveAt(s, Min(I))
      BY <1>2, <2>4 DEF RemoveFirst
    <2> DEFINE k == Min(I)
    <2>6. k \in 1 .. Len(s) /\ s[k] = p
      BY <2>3
    <2> HIDE DEF k, I
    <2>7. RemoveFirst(s, p) = SubSeq(s, 1, k - 1) \o SubSeq(s, k + 1, Len(s))
      BY <2>5 DEF RemoveAt, k
    <2>8. /\ SubSeq(s, 1, k - 1) \in Seq(S) /\ Len(SubSeq(s, 1, k - 1)) = k - 1
          /\ \A i \in 1 .. k - 1 : SubSeq(s, 1, k - 1)[i] = s[i]
      BY <2>6
    <2>9. /\ SubSeq(s, k + 1, Len(s)) \in Seq(S) /\ Len(SubSeq(s, k + 1, Len(s))) = Len(s) - k
          /\ \A i \in 1 .. Len(s) - k : SubSeq(s, k + 1, Len(s))[i] = s[k + i]
      BY <2>6
    <2> DEFINE low == SubSeq(s, 1, k - 1)
               high == SubSeq(s, k + 1, Len(s))
    <2> HIDE DEF low, high
    <2>10. low \in Seq(S) /\ Len(low) = k - 1 /\ \A i \in 1 .. k - 1 : low[i] = s[i]
      BY <2>8 DEF low
    <2>11. high \in Seq(S) /\ Len(high) = Len(s) - k /\ \A i \in 1 .. Len(s) - k : high[i] = s[k + i]
      BY <2>9 DEF high
    <2> DEFINE joined == low \o high
    <2>12. RemoveFirst(s, p) = joined
      BY <2>7 DEF low, high
    <2>13. k \in Nat /\ Len(s) \in Nat /\ Len(low) + Len(high) = Len(s) - 1
      BY <2>6, <2>10, <2>11
    <2>14. joined \in Seq(S) /\ Len(joined) = Len(low) + Len(high)
      BY <2>10, <2>11, ConcatProperties, Zenon
    <2>15. \A i \in 1 .. Len(low) + Len(high) :
               joined[i] = IF i <= Len(low) THEN low[i] ELSE high[i - Len(low)]
      BY <2>10, <2>11, ConcatProperties, Zenon
    <2> HIDE DEF joined
    <2>16. \A i \in 1 .. k - 1 : joined[i] = s[i]
      BY <2>15, <2>10, <2>6, <2>13
    <2>17. \A i \in k .. Len(s) - 1 : joined[i] = s[i + 1]
      <3> SUFFICES ASSUME NEW i \in k .. Len(s) - 1 PROVE joined[i] = s[i + 1]
        OBVIOUS
      <3> DEFINE j == i - (k - 1)
      <3>1. i \in 1 .. Len(low) + Len(high) /\ ~(i <= Len(low)) /\ i - Len(low) = j
        BY <2>10, <2>6, <2>13
      <3>2. joined[i] = high[j]
        BY <2>15, <3>1, Zenon
      <3>3. j \in 1 .. Len(s) - k /\ k + j = i + 1
        BY <2>6, <2>13
      <3> QED BY <2>11, <3>2, <3>3, Zenon
    <2>18. /\ s[k] = p /\ Len(RemoveFirst(s, p)) = Len(s) - 1
           /\ \A i \in 1 .. k - 1 : RemoveFirst(s, p)[i] = s[i]
           /\ \A i \in k .. Len(s) - 1 : RemoveFirst(s, p)[i] = s[i + 1]
      BY <2>6, <2>12, <2>13, <2>14, <2>16, <2>17
    <2> QED BY <2>6, <2>12, <2>14, <2>18, Zenon
  <1> QED BY <1>1, <1>2
\* A list holds a copy of a result just when the result is among its ids
LEMMA CopiesNat ==
    ASSUME NEW S, NEW s \in Seq(S), NEW r
    PROVE  /\ IsFiniteSet(Places(s, r)) /\ Copies(s, r) \in Nat
           /\ Copies(s, r) >= 1 <=> r \in Ids(s)
  <1>1. IsFiniteSet(1 .. Len(s)) /\ Places(s, r) \in SUBSET (1 .. Len(s))
    BY FS_Interval DEF Places
  <1>2. IsFiniteSet(Places(s, r))
    BY <1>1, FS_Subset
  <1>3. Copies(s, r) \in Nat /\ (Copies(s, r) = 0 <=> Places(s, r) = {})
    BY <1>2, FS_CardinalityType, FS_EmptySet DEF Copies
  <1>4. r \in Ids(s) <=> Places(s, r) # {}
    BY DEF Ids, ToSet, Places
  <1> QED BY <1>2, <1>3, <1>4

\* lpush adds a copy
LEMMA CopiesCons ==
    ASSUME NEW S, NEW s \in Seq(S), NEW p \in S, NEW r
    PROVE  /\ Copies(Cons(p, s), r) >= Copies(s, r)
           /\ p.id = r => Copies(Cons(p, s), r) >= Copies(s, r) + 1
  <1> DEFINE A == Places(s, r)
             B == Places(Cons(p, s), r)
             f == [i \in A |-> i + 1]
  <1>0. Len(s) \in Nat /\ Cons(p, s) \in Seq(S)
    BY ConsElements
  <1>1. f \in Injection(A, B \ {1})
    <2>1. \A i \in A : i + 1 \in B \ {1}
      <3> DEFINE t == Cons(p, s)
      <3>1. Len(t) = Len(s) + 1 /\ \A i \in 1 .. Len(s) : t[i + 1] = s[i]
        BY ConsElements
      <3> HIDE DEF t
      <3>2. \A i \in 1 .. Len(s) : s[i].id = r => i + 1 \in 1 .. Len(t) /\ t[i + 1].id = r /\ i + 1 # 1
        BY <1>0, <3>1
      <3> QED BY <3>2 DEF Places, t
    <2>2. \A i, j \in A : i + 1 = j + 1 => i = j
      BY <1>0 DEF Places
    <2> QED BY <2>1, <2>2 DEF Injection, IsInjective
  <1>2. IsFiniteSet(B) /\ Cardinality(B) \in Nat /\ Cardinality(A) \in Nat
    BY <1>0, CopiesNat DEF Copies
  <1>3. IsFiniteSet(B \ {1}) /\ Cardinality(B \ {1}) = IF 1 \in B THEN Cardinality(B) - 1 ELSE Cardinality(B)
    BY <1>2, FS_RemoveElement
  <1>4. Cardinality(A) <= Cardinality(B \ {1})
    BY <1>1, <1>3, FS_Injection
  <1>5. p.id = r => 1 \in B
    <2> DEFINE t == Cons(p, s)
    <2>1. Len(t) = Len(s) + 1 /\ t[1] = p
      BY ConsElements
    <2> HIDE DEF t
    <2>2. 1 \in 1 .. Len(t)
      BY <1>0, <2>1
    <2> QED BY <2>1, <2>2 DEF Places, t
  <1> HIDE DEF A, B
  <1>6. Cardinality(B) >= Cardinality(A) /\ (p.id = r => Cardinality(B) >= Cardinality(A) + 1)
    BY <1>2, <1>3, <1>4, <1>5
  <1> QED BY <1>6 DEF Copies, A, B

\* lmove takes at most one copy, and only of the last result
LEMMA CopiesFront ==
    ASSUME NEW S, NEW s \in Seq(S), s # <<>>, NEW r
    PROVE  /\ Copies(Front(s), r) + 1 >= Copies(s, r)
           /\ Last(s).id # r => Copies(Front(s), r) >= Copies(s, r)
  <1> DEFINE A == Places(s, r)
             B == Places(Front(s), r)
  <1>0. Len(s) \in Nat \ {0} /\ Front(s) \in Seq(S)
    BY FrontElements
  <1>1. A \subseteq B \union {Len(s)} /\ (Last(s).id # r => A \subseteq B)
    BY <1>0, FrontElements DEF Places
  <1>2. IsFiniteSet(B) /\ Cardinality(B) \in Nat /\ Cardinality(A) \in Nat
    BY <1>0, CopiesNat DEF Copies
  <1> HIDE DEF A, B
  <1>3. /\ IsFiniteSet(B \union {Len(s)})
        /\ Cardinality(B \union {Len(s)}) = IF Len(s) \in B THEN Cardinality(B) ELSE Cardinality(B) + 1
    BY <1>2, FS_AddElement
  <1>4. Cardinality(A) <= Cardinality(B \union {Len(s)})
    BY <1>1, <1>3, FS_Subset
  <1>5. Last(s).id # r => Cardinality(A) <= Cardinality(B)
    BY <1>1, <1>2, FS_Subset
  <1>6. Cardinality(B) + 1 >= Cardinality(A) /\ (Last(s).id # r => Cardinality(B) >= Cardinality(A))
    BY <1>2, <1>3, <1>4, <1>5
  <1> QED BY <1>6 DEF Copies, A, B

\* lrem takes at most one copy, and only of the payload's result
LEMMA CopiesRemoveFirst ==
    ASSUME NEW S, NEW s \in Seq(S), NEW p, NEW r
    PROVE  /\ Copies(RemoveFirst(s, p), r) + 1 >= Copies(s, r)
           /\ p.id # r => Copies(RemoveFirst(s, p), r) >= Copies(s, r)
  <1>1. CASE RemoveFirst(s, p) = s
    <2>1. Copies(s, r) \in Nat
      BY CopiesNat
    <2> QED BY <1>1, <2>1
  <1>2. ASSUME NEW k \in 1 .. Len(s), s[k] = p, Len(RemoveFirst(s, p)) = Len(s) - 1,
               \A i \in 1 .. k - 1 : RemoveFirst(s, p)[i] = s[i],
               \A i \in k .. Len(s) - 1 : RemoveFirst(s, p)[i] = s[i + 1]
        PROVE  /\ Copies(RemoveFirst(s, p), r) + 1 >= Copies(s, r)
               /\ p.id # r => Copies(RemoveFirst(s, p), r) >= Copies(s, r)
    <2> DEFINE t == RemoveFirst(s, p)
               A == Places(s, r)
               B == Places(t, r)
               f == [i \in A \ {k} |-> IF i < k THEN i ELSE i - 1]
    <2>0. Len(s) \in Nat /\ t \in Seq(S)
      BY RemoveFirstElements
    <2>1. /\ \A i \in A : i \in Nat
          /\ \A i \in A \ {k} : (IF i < k THEN i ELSE i - 1) \in B
      <3> SUFFICES ASSUME NEW i \in A PROVE i \in Nat /\ (i # k => (IF i < k THEN i ELSE i - 1) \in B)
        OBVIOUS
      <3>1. i \in 1 .. Len(s) /\ s[i].id = r /\ i \in Nat
        BY DEF Places
      <3> HIDE DEF t
      <3>2. CASE i < k
        <4>1. i \in 1 .. k - 1 /\ i \in 1 .. Len(t)
          BY <1>2, <2>0, <3>1, <3>2 DEF t
        <4> QED BY <1>2, <3>1, <3>2, <4>1 DEF Places, t
      <3>3. CASE i > k
        <4>1. i - 1 \in k .. Len(s) - 1 /\ i - 1 \in 1 .. Len(t) /\ (i - 1) + 1 = i
          BY <1>2, <2>0, <3>1, <3>3 DEF t
        <4>2. t[i - 1] = s[i]
          BY <1>2, <4>1 DEF t
        <4> QED BY <3>1, <3>3, <4>1, <4>2 DEF Places
      <3> QED BY <3>1, <3>2, <3>3
    <2>2. \A i, j \in A \ {k} : (IF i < k THEN i ELSE i - 1) = (IF j < k THEN j ELSE j - 1) => i = j
      BY <2>1
    <2>3. f \in Injection(A \ {k}, B)
      BY <2>1, <2>2 DEF Injection, IsInjective
    <2>4. IsFiniteSet(A) /\ IsFiniteSet(B) /\ Cardinality(B) \in Nat /\ Cardinality(A) \in Nat
      BY <2>0, CopiesNat DEF Copies
    <2>5. Cardinality(A \ {k}) = IF k \in A THEN Cardinality(A) - 1 ELSE Cardinality(A)
      BY <2>4, FS_RemoveElement
    <2>6. Cardinality(A \ {k}) <= Cardinality(B)
      BY <2>3, <2>4, FS_Injection
    <2>7. p.id # r => k \notin A
      BY <1>2 DEF Places
    <2> HIDE DEF A, B
    <2>8. Cardinality(B) + 1 >= Cardinality(A) /\ (p.id # r => Cardinality(B) >= Cardinality(A))
      BY <2>4, <2>5, <2>6, <2>7
    <2> QED BY <2>8 DEF Copies, A, B
  <1> QED BY <1>1, <1>2, RemoveFirstElements

\* What the three do to the ids of a list
LEMMA IdsChange ==
    ASSUME NEW S, NEW s \in Seq(S)
    PROVE  /\ \A p \in S : Ids(Cons(p, s)) = Ids(s) \union {p.id}
           /\ s # <<>> => Ids(s) = Ids(Front(s)) \union {Last(s).id}
           /\ \A p : Ids(RemoveFirst(s, p)) \subseteq Ids(s) /\ Ids(s) \subseteq Ids(RemoveFirst(s, p)) \union {p.id}
  <1>0. \A t \in Seq(S) : \A x : x \in Ids(t) <=> \E i \in 1 .. Len(t) : t[i].id = x
    <2> SUFFICES ASSUME NEW t \in Seq(S), NEW x PROVE x \in Ids(t) <=> \E i \in 1 .. Len(t) : t[i].id = x
      OBVIOUS
    <2>1. DOMAIN t = 1 .. Len(t)
      OBVIOUS
    <2>2. x \in Ids(t) <=> \E i \in DOMAIN t : t[i].id = x
      BY Zenon DEF Ids, ToSet
    <2> QED BY <2>1, <2>2, Zenon
  <1>1. ASSUME NEW p \in S PROVE Ids(Cons(p, s)) = Ids(s) \union {p.id}
    <2> DEFINE t == Cons(p, s)
    <2>1. t \in Seq(S) /\ Len(t) = Len(s) + 1 /\ t[1] = p /\ \A i \in 1 .. Len(s) : t[i + 1] = s[i]
      <3>1. t \in Seq(S)
        BY ConsElements
      <3>2. Len(t) = Len(s) + 1
        BY ConsElements
      <3>3. t[1] = p
        BY ConsElements
      <3>4. \A i \in 1 .. Len(s) : t[i + 1] = s[i]
        BY ConsElements
      <3> QED BY <3>1, <3>2, <3>3, <3>4
    <2>2. Len(s) \in Nat
      OBVIOUS
    <2> HIDE DEF t
    <2>3. \A i \in 1 .. Len(t) : i = 1 \/ (i - 1 \in 1 .. Len(s) /\ t[i] = s[i - 1])
      BY <2>1, <2>2
    <2>4. \A i \in 1 .. Len(s) : i + 1 \in 1 .. Len(t)
      BY <2>1, <2>2
    <2>5. ASSUME NEW x PROVE x \in Ids(t) <=> x \in Ids(s) \/ x = p.id
      <3>1. x \in Ids(t) => x \in Ids(s) \/ x = p.id
        BY <1>0, <2>1, <2>3
      <3>2. x \in Ids(s) => x \in Ids(t)
        BY <1>0, <2>1, <2>4
      <3>3. 1 \in 1 .. Len(t)
        BY <2>1, <2>2
      <3> QED BY <1>0, <2>1, <3>1, <3>2, <3>3
    <2> QED BY <2>5, Zenon DEF t
  <1>2. ASSUME s # <<>> PROVE Ids(s) = Ids(Front(s)) \union {Last(s).id}
    <2> DEFINE t == Front(s)
    <2>1. /\ t \in Seq(S) /\ Len(t) = Len(s) - 1 /\ \A i \in 1 .. Len(s) - 1 : t[i] = s[i]
          /\ Len(s) \in Nat \ {0} /\ Last(s) = s[Len(s)]
      BY <1>2, FrontElements
    <2> HIDE DEF t
    <2>2. \A i \in 1 .. Len(s) : i = Len(s) \/ i \in 1 .. Len(t)
      BY <2>1
    <2>3. \A i \in 1 .. Len(t) : i \in 1 .. Len(s) /\ t[i] = s[i]
      BY <2>1
    <2>4. Len(s) \in 1 .. Len(s)
      BY <2>1
    <2>5. ASSUME NEW x PROVE x \in Ids(s) <=> x \in Ids(t) \/ x = Last(s).id
      <3>1. x \in Ids(s) <=> \E i \in 1 .. Len(s) : s[i].id = x
        BY <1>0
      <3>2. x \in Ids(t) <=> \E i \in 1 .. Len(t) : t[i].id = x
        BY <1>0, <2>1
      <3>3. s[Len(s)] = Last(s)
        BY <2>1
      <3>4. \A i \in 1 .. Len(s) : i # Len(s) => i \in 1 .. Len(t) /\ t[i] = s[i]
        BY <2>2, <2>3
      <3> QED BY <2>3, <2>4, <3>1, <3>2, <3>3, <3>4, Zenon
    <2> QED BY <2>5, Zenon DEF t
  <1>3. ASSUME NEW p
        PROVE  Ids(RemoveFirst(s, p)) \subseteq Ids(s) /\ Ids(s) \subseteq Ids(RemoveFirst(s, p)) \union {p.id}
    <2> DEFINE t == RemoveFirst(s, p)
    <2>1. t \in Seq(S)
      BY RemoveFirstElements
    <2>2. CASE t = s
      BY <2>2
    <2>3. ASSUME NEW k \in 1 .. Len(s), s[k] = p, Len(t) = Len(s) - 1,
                 \A i \in 1 .. k - 1 : t[i] = s[i], \A i \in k .. Len(s) - 1 : t[i] = s[i + 1]
          PROVE  Ids(t) \subseteq Ids(s) /\ Ids(s) \subseteq Ids(t) \union {p.id}
      <3> HIDE DEF t
      <3>1. \A i \in 1 .. Len(t) : \/ t[i] = s[i] /\ i \in 1 .. Len(s)
                                   \/ t[i] = s[i + 1] /\ i + 1 \in 1 .. Len(s)
        BY <2>3
      <3>2. \A i \in 1 .. Len(s) : \/ i = k
                                   \/ i \in 1 .. Len(t) /\ t[i] = s[i]
                                   \/ i - 1 \in 1 .. Len(t) /\ t[i - 1] = s[i]
        BY <2>3
      <3>3. ASSUME NEW x PROVE (x \in Ids(t) => x \in Ids(s)) /\ (x \in Ids(s) => x \in Ids(t) \/ x = p.id)
        <4>1. x \in Ids(s) <=> \E i \in 1 .. Len(s) : s[i].id = x
          BY <1>0
        <4>2. x \in Ids(t) <=> \E i \in 1 .. Len(t) : t[i].id = x
          BY <1>0, <2>1
        <4> QED BY <2>3, <3>1, <3>2, <4>1, <4>2, Zenon
      <3> QED BY <3>3, Zenon
    <2> QED BY <2>2, <2>3, RemoveFirstElements
  <1> QED BY <1>1, <1>2, <1>3

---------------------------------------------------------------------------
(* What the payloads say *)

Payloads == [id : Results, attempts : Nat]
Posted == {r \in Results : child[r] \in {"enqueued", "announced"}}

\* A payload counts no more failed waves than its result has been part of ...
Earned == {p \in Payloads : p.id \in Posted /\ p.attempts <= failures[p.id]}

\* ... and one less than that between a failed wave and its retry
Failed == {p \in Earned : p.attempts < failures[p.id]}
Delivered == {p \in Earned : p.id \in told}

ChildStates == {"running", "settled", "enqueued", "announced", "lost"}

Sorts ==
    /\ child \in [Results -> ChildStates]
    /\ failures \in [Results -> Nat]
    /\ told \subseteq Results /\ dropped \subseteq Results /\ waiting \subseteq told
    /\ \A r \in dropped : failures[r] >= MaxAttempts

Lists == queue \in Seq(Earned) /\ processing \in Seq(Earned) /\ scan \in Seq(Earned)

Wave(d) ==
    /\ pc[d] \in {"rollback", "retry", "unlink"} => batch[d] \in Seq(Failed)
    /\ pc[d] \in {"retry", "unlink"} => todo[d] \in Seq(Failed)
    /\ pc[d] = "clear" => todo[d] \in Seq(Delivered)
    /\ pc[d] \in {"unqueue", "unlink"} => todo[d] # <<>>

Waves ==
    /\ pc \in [Deliverers -> CallPoints]
    /\ batch \in [Deliverers -> Seq(Earned)] /\ todo \in [Deliverers -> Seq(Earned)]
    /\ \A d \in Deliverers : Wave(d)

PayloadInv == Sorts /\ Lists /\ Waves

\* What is true of a payload stays true of it
LEMMA PayloadsKeep ==
    ASSUME Sorts, Sorts', Posted \subseteq Posted', told \subseteq told',
           \A r \in Results : failures'[r] >= failures[r]
    PROVE  Earned \subseteq Earned' /\ Failed \subseteq Failed' /\ Delivered \subseteq Delivered'
  <1>1. ASSUME NEW p \in Earned PROVE p \in Earned' /\ (p \in Failed => p \in Failed')
    <2>1. p.id \in Results /\ p.attempts \in Nat /\ failures[p.id] \in Nat /\ failures'[p.id] \in Nat
      BY DEF Earned, Payloads, Sorts
    <2> QED BY <2>1 DEF Earned, Failed
  <1> QED BY <1>1 DEF Delivered, Failed

LEMMA SeqKeeps ==
    ASSUME NEW S, NEW T, S \subseteq T
    PROVE  Seq(S) \subseteq Seq(T)
  OBVIOUS

\* A step that is no call's leaves the waves as they were
LEMMA WavesFrame ==
    ASSUME Waves, UNCHANGED <<batch, todo, pc>>,
           Earned \subseteq Earned', Failed \subseteq Failed', Delivered \subseteq Delivered'
    PROVE  Waves'
  <1>1. /\ Seq(Earned) \subseteq Seq(Earned') /\ Seq(Failed) \subseteq Seq(Failed')
        /\ Seq(Delivered) \subseteq Seq(Delivered')
    BY SeqKeeps
  <1>2. ASSUME NEW d \in Deliverers PROVE Wave(d)'
    BY <1>1, Zenon DEF Wave, Waves
  <1>3. batch' \in [Deliverers -> Seq(Earned')] /\ todo' \in [Deliverers -> Seq(Earned')]
    BY <1>1 DEF Waves
  <1> QED BY <1>2, <1>3 DEF Waves

\* A step of the call d changes no wave but its own
LEMMA OneWave ==
    ASSUME Waves, NEW d \in Deliverers, Wave(d)',
           Earned \subseteq Earned', Failed \subseteq Failed', Delivered \subseteq Delivered',
           NEW at \in CallPoints, pc' = [pc EXCEPT ![d] = at],
           NEW b \in Seq(Earned'), batch' = [batch EXCEPT ![d] = b],
           NEW t \in Seq(Earned'), todo' = [todo EXCEPT ![d] = t]
    PROVE  Waves'
  <1>1. /\ Seq(Earned) \subseteq Seq(Earned') /\ Seq(Failed) \subseteq Seq(Failed')
        /\ Seq(Delivered) \subseteq Seq(Delivered')
    BY SeqKeeps
  <1>2. ASSUME NEW e \in Deliverers, e # d PROVE Wave(e)'
    <2>1. pc'[e] = pc[e] /\ batch'[e] = batch[e] /\ todo'[e] = todo[e]
      BY <1>2 DEF Waves
    <2> QED BY <1>1, <2>1, Zenon DEF Wave, Waves
  <1>3. batch' \in [Deliverers -> Seq(Earned')] /\ todo' \in [Deliverers -> Seq(Earned')]
    BY <1>1 DEF Waves
  <1> QED BY <1>2, <1>3 DEF Waves

\* A step of a call that tells nobody and fails no wave
LEMMA QuietStep ==
    ASSUME PayloadInv, NEW d \in Deliverers, UNCHANGED <<child, told, failures, waiting, scan>>,
           dropped' \subseteq Results, \A r \in dropped' : failures[r] >= MaxAttempts,
           queue' \in Seq(Earned), processing' \in Seq(Earned),
           NEW at \in CallPoints, pc' = [pc EXCEPT ![d] = at],
           NEW b \in Seq(Earned), batch' = [batch EXCEPT ![d] = b],
           NEW t \in Seq(Earned), todo' = [todo EXCEPT ![d] = t],
           at \in {"rollback", "retry", "unlink"} => b \in Seq(Failed),
           at \in {"retry", "unlink"} => t \in Seq(Failed),
           at = "clear" => t \in Seq(Delivered),
           at \in {"unqueue", "unlink"} => t # <<>>
    PROVE  PayloadInv'
  <1>1. Earned' = Earned /\ Failed' = Failed /\ Delivered' = Delivered
    BY DEF Earned, Failed, Delivered, Posted
  <1>2. Sorts'
    BY DEF PayloadInv, Sorts
  <1>3. Lists'
    BY <1>1 DEF PayloadInv, Lists
  <1>4. pc'[d] = at /\ batch'[d] = b /\ todo'[d] = t
    BY DEF PayloadInv, Waves
  <1>5. Wave(d)'
    BY <1>1, <1>4, Zenon DEF Wave
  <1>6. Waves'
    BY <1>1, <1>5, OneWave, Zenon DEF PayloadInv
  <1> QED BY <1>2, <1>3, <1>6 DEF PayloadInv

LEMMA PayloadInit == Init => PayloadInv
  <1> SUFFICES ASSUME Init PROVE PayloadInv
    OBVIOUS
  <1>1. <<>> \in Seq(Earned)
    OBVIOUS
  <1>2. Sorts /\ Lists
    BY <1>1 DEF Init, Sorts, Lists, ChildStates
  <1>3. Waves
    BY <1>1 DEF Init, Waves, Wave, CallPoints
  <1> QED BY <1>2, <1>3 DEF PayloadInv

LEMMA SeqMembers ==
    ASSUME NEW S, NEW T, NEW s \in Seq(S), \A i \in 1 .. Len(s) : s[i] \in T
    PROVE  s \in Seq(T)
  <1>1. Len(s) \in Nat /\ s = [i \in 1 .. Len(s) |-> s[i]]
    OBVIOUS
  <1> QED BY <1>1

LEMMA HeadTail ==
    ASSUME NEW S, NEW s \in Seq(S), s # <<>>
    PROVE  Head(s) \in S /\ Tail(s) \in Seq(S)
  OBVIOUS

LEMMA PayloadCallStep ==
    ASSUME PayloadInv, NEW d \in Deliverers, Deliver(d) \/ DeliverFails(d)
    PROVE  PayloadInv'
  <1> DEFINE Plain == CallPoints \ {"rollback", "retry", "unlink", "clear", "unqueue"}
             b == batch[d]
             t == todo[d]
  <1>0. /\ pc = [pc EXCEPT ![d] = pc[d]] /\ batch = [batch EXCEPT ![d] = b] /\ todo = [todo EXCEPT ![d] = t]
        /\ pc[d] \in CallPoints /\ b \in Seq(Earned) /\ t \in Seq(Earned) /\ Wave(d)
        /\ queue \in Seq(Earned) /\ processing \in Seq(Earned) /\ <<>> \in Seq(Earned)
        /\ dropped \subseteq Results /\ \A r \in dropped : failures[r] >= MaxAttempts
    BY DEF PayloadInv, Sorts, Lists, Waves
  <1>00. /\ \A s \in Seq(Earned) : s # <<>> => Head(s) \in Earned /\ Tail(s) \in Seq(Earned)
         /\ \A s \in Seq(Failed) : s # <<>> => Head(s) \in Failed /\ Tail(s) \in Seq(Failed)
         /\ \A s \in Seq(Delivered) : s # <<>> => Head(s) \in Delivered /\ Tail(s) \in Seq(Delivered)
    BY HeadTail
  <1>000. ASSUME NEW at \in Plain, pc' = [pc EXCEPT ![d] = at], UNCHANGED <<lists, child, history, wait>>,
                 batch' = batch \/ batch' = [batch EXCEPT ![d] = <<>>],
                 todo' = todo \/ todo' = [todo EXCEPT ![d] = <<>>]
          PROVE  PayloadInv'
    <2>1. /\ UNCHANGED <<child, told, failures, waiting, scan>>
          /\ dropped' \subseteq Results /\ \A r \in dropped' : failures[r] >= MaxAttempts
          /\ queue' \in Seq(Earned) /\ processing' \in Seq(Earned)
          /\ at \in CallPoints /\ at \notin {"rollback", "retry", "unlink", "clear", "unqueue"}
      BY <1>0, <1>000 DEF lists, history, wait
    <2>2. PICK c \in Seq(Earned) : batch' = [batch EXCEPT ![d] = c]
      BY <1>0, <1>000, Zenon
    <2>3. PICK u \in Seq(Earned) : todo' = [todo EXCEPT ![d] = u]
      BY <1>0, <1>000, Zenon
    <2> QED BY <1>000, <2>1, <2>2, <2>3, QuietStep, Zenon
  <1>1. CASE \/ WakeUp(d) \/ Acquire(d) \/ DrainEnds(d) \/ CountWave(d) \/ CountTTL(d) \/ WaveStarts(d)
             \/ FinalCheck(d) \/ Release(d) \/ CallFails(d) \/ RetriesEnd(d) \/ Unhandled(d)
    <2>1. UNCHANGED <<lists, child, history, wait>>
      BY <1>1 DEF WakeUp, Acquire, DrainEnds, CountWave, CountTTL, WaveStarts, FinalCheck, Release, CallFails,
                  RetriesEnd, Unhandled, parent, wait
    <2>2. /\ batch' = batch \/ batch' = [batch EXCEPT ![d] = <<>>]
          /\ todo' = todo \/ todo' = [todo EXCEPT ![d] = <<>>]
      BY <1>1 DEF WakeUp, Acquire, DrainEnds, CountWave, CountTTL, WaveStarts, FinalCheck, Release, CallFails,
                  RetriesEnd, Unhandled
    <2>3. \E at \in Plain : pc' = [pc EXCEPT ![d] = at]
      <3>1. {"idle", "guarded", "drain", "count", "ttl", "capped", "invoke", "running", "final", "release"}
               \subseteq Plain
        BY DEF CallPoints
      <3>2. pc[d] \in {"idle", "release"} => pc[d] \in Plain
        BY <3>1
      <3>3. CASE WakeUp(d) \/ Acquire(d) \/ Release(d) \/ CallFails(d)
        BY <1>0, <3>1, <3>2, <3>3 DEF WakeUp, Acquire, Release, CallFails, Goto
      <3>4. CASE DrainEnds(d) \/ RetriesEnd(d) \/ Unhandled(d)
        BY <3>1, <3>4 DEF DrainEnds, RetriesEnd, Unhandled, Leave, Goto
      <3>5. CASE CountWave(d) \/ CountTTL(d) \/ WaveStarts(d) \/ FinalCheck(d)
        BY <3>1, <3>5 DEF CountWave, CountTTL, WaveStarts, FinalCheck, Goto
      <3> QED BY <1>1, <3>3, <3>4, <3>5
    <2> QED BY <1>000, <2>1, <2>2, <2>3, Zenon
  <1>2. CASE DrainPop(d)
    <2>1. queue # <<>> /\ pc[d] = "drain" /\ pc' = pc /\ todo' = todo
          /\ queue' = Front(queue) /\ processing' = Cons(Last(queue), processing)
          /\ batch' = [batch EXCEPT ![d] = Append(b, Last(queue))]
          /\ UNCHANGED <<child, told, failures, dropped, waiting, scan>>
      BY <1>2 DEF DrainPop, history, parent, wait
    <2>2. Last(queue) \in Earned /\ Front(queue) \in Seq(Earned)
      BY <1>0, <2>1, FrontElements
    <2>3. Cons(Last(queue), processing) \in Seq(Earned) /\ Append(b, Last(queue)) \in Seq(Earned)
      BY <1>0, <2>2, ConsElements
    <2> QED BY <1>0, <2>1, <2>2, <2>3, QuietStep, Zenon
  <1>3. CASE CapRollsBack(d)
    <2>1. /\ pc' = [pc EXCEPT ![d] = "requeue"] /\ todo' = [todo EXCEPT ![d] = b] /\ batch' = batch
          /\ UNCHANGED <<queue, processing, child, told, failures, dropped, waiting, scan>>
          /\ "requeue" \in CallPoints
      BY <1>3 DEF CapRollsBack, Goto, lists, history, parent, wait, CallPoints
    <2> QED BY <1>0, <2>1, QuietStep, Zenon
  <1>4. CASE Requeue(d) /\ t = <<>>
    <2>1. /\ pc' = [pc EXCEPT ![d] = IF pass[d] = 1 THEN "final" ELSE "release"]
          /\ todo' = todo /\ batch' = [batch EXCEPT ![d] = <<>>]
          /\ UNCHANGED <<lists, child, history, wait>>
          /\ (IF pass[d] = 1 THEN "final" ELSE "release") \in Plain
      BY <1>4 DEF Requeue, Leave, Goto, lists, parent, CallPoints
    <2> QED BY <1>000, <2>1, Zenon
  <1>5. CASE Requeue(d) /\ t # <<>>
    <2>1. /\ pc' = [pc EXCEPT ![d] = "unqueue"] /\ todo' = todo /\ batch' = batch
          /\ queue' = Cons(Head(t), queue)
          /\ UNCHANGED <<processing, child, told, failures, dropped, waiting, scan>>
          /\ "unqueue" \in CallPoints
      BY <1>5 DEF Requeue, Goto, history, parent, wait, CallPoints
    <2>2. Cons(Head(t), queue) \in Seq(Earned)
      BY <1>0, <1>00, <1>5, ConsElements
    <2> QED BY <1>0, <1>5, <2>1, <2>2, QuietStep, Zenon
  <1>6. CASE Unqueue(d)
    <2>1. /\ pc' = [pc EXCEPT ![d] = "requeue"] /\ todo' = [todo EXCEPT ![d] = Tail(t)] /\ batch' = batch
          /\ processing' = RemoveFirst(processing, Head(t)) /\ pc[d] = "unqueue"
          /\ UNCHANGED <<queue, child, told, failures, dropped, waiting, scan>>
          /\ "requeue" \in CallPoints
      BY <1>6 DEF Unqueue, Goto, history, parent, wait, CallPoints
    <2>2. RemoveFirst(processing, Head(t)) \in Seq(Earned) /\ Tail(t) \in Seq(Earned)
      BY <1>0, <1>00, <2>1, RemoveFirstElements DEF Wave
    <2> QED BY <1>0, <2>1, <2>2, QuietStep, Zenon
  <1>7. CASE Unlink(d)
    <2>1. /\ pc' = [pc EXCEPT ![d] = "retry"] /\ todo' = [todo EXCEPT ![d] = Tail(t)] /\ batch' = batch
          /\ processing' = RemoveFirst(processing, Head(t)) /\ pc[d] = "unlink"
          /\ UNCHANGED <<queue, child, told, failures, dropped, waiting, scan>>
          /\ "retry" \in CallPoints
      BY <1>7 DEF Unlink, Goto, history, parent, wait, CallPoints
    <2>2. t # <<>> /\ t \in Seq(Failed) /\ b \in Seq(Failed)
      BY <1>0, <2>1 DEF Wave
    <2>3. /\ RemoveFirst(processing, Head(t)) \in Seq(Earned)
          /\ Tail(t) \in Seq(Earned) /\ Tail(t) \in Seq(Failed)
      BY <1>0, <1>00, <2>2, RemoveFirstElements
    <2> QED BY <1>0, <2>1, <2>2, <2>3, QuietStep, Zenon
  <1>8. CASE Rollback(d)
    <2>1. /\ pc' = [pc EXCEPT ![d] = "retry"] /\ todo' = [todo EXCEPT ![d] = b] /\ batch' = batch
          /\ pc[d] = "rollback" /\ "retry" \in CallPoints
          /\ UNCHANGED <<queue, processing, child, told, failures, dropped, waiting, scan>>
      BY <1>8 DEF Rollback, Goto, lists, history, parent, wait, CallPoints
    <2>2. b \in Seq(Failed)
      BY <1>0, <2>1 DEF Wave
    <2> QED BY <1>0, <2>1, <2>2, QuietStep, Zenon
  <1>9. CASE Retry(d)
    <2>1. /\ pc[d] = "retry" /\ t # <<>> /\ t \in Seq(Failed) /\ b \in Seq(Failed)
          /\ batch' = batch /\ UNCHANGED <<queue, child, told, failures, waiting, scan>>
      BY <1>0, <1>9 DEF Retry, Wave, parent, wait
    <2> DEFINE p == Head(t)
    <2>2. p \in Failed /\ Tail(t) \in Seq(Failed) /\ Tail(t) \in Seq(Earned)
      BY <1>0, <1>00, <2>1
    <2>3. CASE Spent(p)
      <3>1. /\ processing' = RemoveFirst(processing, p) /\ dropped' = dropped \union {p.id}
            /\ todo' = [todo EXCEPT ![d] = Tail(t)] /\ pc' = pc
        BY <1>9, <2>3 DEF Retry
      <3>2. RemoveFirst(processing, p) \in Seq(Earned)
        BY <1>0, RemoveFirstElements
      <3>3. p.id \in Results /\ failures[p.id] >= MaxAttempts
        <4>1. /\ p.id \in Results /\ p.attempts \in Nat /\ failures[p.id] \in Nat /\ p.attempts < failures[p.id]
              /\ p.attempts + 1 >= MaxAttempts /\ MaxAttempts \in Nat
          BY <2>2, <2>3, DeliveryAssumption DEF Failed, Earned, Payloads, PayloadInv, Sorts, Spent
        <4> QED BY <4>1
      <3>4. dropped' \subseteq Results /\ \A r \in dropped' : failures[r] >= MaxAttempts
        BY <1>0, <3>1, <3>3
      <3> QED BY <1>0, <2>1, <2>2, <3>1, <3>2, <3>4, QuietStep, Zenon
    <2>4. CASE ~Spent(p)
      <3> DEFINE q == [p EXCEPT !.attempts = @ + 1]
      <3>1. /\ processing' = Cons(q, processing) /\ pc' = [pc EXCEPT ![d] = "unlink"]
            /\ todo' = todo /\ dropped' = dropped /\ "unlink" \in CallPoints
        BY <1>9, <2>4 DEF Retry, Goto, CallPoints
      <3>2. q \in Earned
        <4>1. /\ p \in Payloads /\ p.id \in Posted /\ p.attempts \in Nat /\ failures[p.id] \in Nat
              /\ p.attempts < failures[p.id]
          BY <2>2 DEF Failed, Earned, Payloads, PayloadInv, Sorts
        <4>2. q \in Payloads /\ q.id = p.id /\ q.attempts = p.attempts + 1
          BY <4>1 DEF Payloads
        <4> HIDE DEF q
        <4> QED BY <4>1, <4>2 DEF Earned
      <3>3. Cons(q, processing) \in Seq(Earned)
        BY <1>0, <3>2, ConsElements
      <3> QED BY <1>0, <2>1, <3>1, <3>3, QuietStep, Zenon
    <2> QED BY <2>3, <2>4
  <1>10. CASE RetryFails(d)
    <2>1. /\ pc' = [pc EXCEPT ![d] = "retry"] /\ todo' = [todo EXCEPT ![d] = Tail(t)] /\ batch' = batch
          /\ pc[d] \in {"retry", "unlink"} /\ t # <<>> /\ "retry" \in CallPoints
          /\ UNCHANGED <<queue, processing, child, told, failures, dropped, waiting, scan>>
      BY <1>10 DEF RetryFails, Goto, lists, history, parent, wait, CallPoints
    <2>2. b \in Seq(Failed) /\ Tail(t) \in Seq(Failed) /\ Tail(t) \in Seq(Earned)
      BY <1>0, <1>00, <2>1 DEF Wave
    <2> QED BY <1>0, <2>1, <2>2, QuietStep, Zenon
  <1>11. CASE Clear(d) /\ t = <<>>
    <2>1. /\ pc' = [pc EXCEPT ![d] = "drain"] /\ todo' = todo /\ batch' = [batch EXCEPT ![d] = <<>>]
          /\ UNCHANGED <<lists, child, history, wait>> /\ "drain" \in Plain
      BY <1>11 DEF Clear, Goto, lists, parent, CallPoints
    <2> QED BY <1>000, <2>1, Zenon
  <1>12. CASE Clear(d) /\ t # <<>>
    <2>1. /\ pc' = pc /\ todo' = [todo EXCEPT ![d] = Tail(t)] /\ batch' = batch /\ pc[d] = "clear"
          /\ processing' = RemoveFirst(processing, Head(t))
          /\ UNCHANGED <<queue, child, told, failures, dropped, waiting, scan>>
      BY <1>12 DEF Clear, history, parent, wait
    <2>2. /\ RemoveFirst(processing, Head(t)) \in Seq(Earned)
          /\ Tail(t) \in Seq(Earned) /\ Tail(t) \in Seq(Delivered)
      BY <1>0, <1>00, <1>12, <2>1, RemoveFirstElements DEF Wave
    <2> QED BY <1>0, <2>1, <2>2, QuietStep, Zenon
  \* A wave fails
  <1>13. CASE WaveRefused(d) \/ ClearFails(d) \/ (WaveSettles(d) /\ Fails(d) /\ UNCHANGED <<told, todo>>)
    <2>1. /\ pc' = [pc EXCEPT ![d] = "rollback"] /\ todo' = todo /\ batch' = batch
          /\ failures' = [r \in Results |-> failures[r] + IF r \in Ids(b) THEN 1 ELSE 0]
          /\ UNCHANGED <<queue, processing, child, told, dropped, waiting, scan>>
      BY <1>13 DEF WaveRefused, ClearFails, WaveSettles, Fails, Goto, lists, parent, wait
    <2>2. \A r \in Results : failures[r] \in Nat
      BY DEF PayloadInv, Sorts
    <2>3. Sorts' /\ \A r \in Results : failures'[r] >= failures[r]
      <3>1. failures' \in [Results -> Nat] /\ \A r \in Results : failures'[r] \in Nat /\ failures'[r] >= failures[r]
        BY <2>1, <2>2
      <3>2. MaxAttempts \in Nat
        BY DeliveryAssumption
      <3> QED BY <1>0, <2>1, <2>2, <3>1, <3>2 DEF PayloadInv, Sorts
    <2>4. Posted' = Posted /\ told' = told
      BY <2>1 DEF Posted
    <2>5. Earned \subseteq Earned' /\ Failed \subseteq Failed' /\ Delivered \subseteq Delivered'
      BY <2>3, <2>4, PayloadsKeep DEF PayloadInv
    <2>6. Lists'
      BY <1>0, <2>1, <2>5, SeqKeeps DEF PayloadInv, Lists
    <2>7. b \in Seq(Failed')
      <3>1. \A i \in 1 .. Len(b) : b[i] \in Failed'
        <4> SUFFICES ASSUME NEW i \in 1 .. Len(b) PROVE b[i] \in Failed'
          OBVIOUS
        <4>1. b[i] \in Earned /\ b[i] \in Earned' /\ b[i].id \in Ids(b)
          BY <1>0, <2>5 DEF Ids, ToSet
        <4>2. /\ b[i].id \in Results /\ b[i].attempts \in Nat /\ b[i].attempts <= failures[b[i].id]
              /\ failures[b[i].id] \in Nat
          BY <2>2, <4>1 DEF Earned, Payloads
        <4>3. failures'[b[i].id] = failures[b[i].id] + 1
          BY <2>1, <4>1, <4>2
        <4>4. b[i].attempts < failures'[b[i].id]
          BY <4>2, <4>3
        <4> QED BY <4>1, <4>4 DEF Failed
      <3> QED BY <1>0, <3>1, SeqMembers
    <2>8. b \in Seq(Earned') /\ t \in Seq(Earned')
      BY <1>0, <2>5, SeqKeeps
    <2>9. "rollback" \in CallPoints /\ pc'[d] = "rollback" /\ batch'[d] = b
      BY <2>1 DEF CallPoints, PayloadInv, Waves
    <2>10. Wave(d)'
      BY <2>7, <2>9 DEF Wave
    <2>11. Waves'
      BY <1>0, <2>1, <2>5, <2>8, <2>9, <2>10, OneWave, Zenon DEF PayloadInv
    <2> QED BY <2>3, <2>6, <2>11 DEF PayloadInv
  \* The parent is told
  <1>14. CASE WaveSettles(d) /\ Goto(d, "clear") /\ told' = told \union Ids(b)
              /\ todo' = [todo EXCEPT ![d] = b] /\ UNCHANGED failures
    <2>1. /\ pc' = [pc EXCEPT ![d] = "clear"] /\ batch' = batch
          /\ UNCHANGED <<queue, processing, child, failures, dropped, waiting, scan>>
      BY <1>14 DEF WaveSettles, Goto, lists, parent, wait
    <2>2. Ids(b) \subseteq Results
      BY <1>0 DEF Ids, ToSet, Earned, Payloads
    <2>3. Sorts' /\ \A r \in Results : failures'[r] >= failures[r]
      BY <1>0, <1>14, <2>1, <2>2 DEF PayloadInv, Sorts
    <2>4. Posted' = Posted /\ told \subseteq told'
      BY <1>14, <2>1 DEF Posted
    <2>5. Earned \subseteq Earned' /\ Failed \subseteq Failed' /\ Delivered \subseteq Delivered'
      BY <2>3, <2>4, PayloadsKeep DEF PayloadInv
    <2>6. Lists'
      BY <1>0, <2>1, <2>5, SeqKeeps DEF PayloadInv, Lists
    <2>7. b \in Seq(Delivered')
      <3>1. \A i \in 1 .. Len(b) : b[i] \in Delivered'
        BY <1>0, <1>14, <2>5 DEF Ids, ToSet, Delivered
      <3> QED BY <1>0, <3>1, SeqMembers
    <2>8. b \in Seq(Earned')
      BY <1>0, <2>5, SeqKeeps
    <2>9. "clear" \in CallPoints /\ pc'[d] = "clear" /\ todo'[d] = b
      BY <1>14, <2>1 DEF CallPoints, PayloadInv, Waves
    <2>10. Wave(d)'
      BY <2>7, <2>9 DEF Wave
    <2>11. Waves'
      BY <1>0, <1>14, <2>1, <2>5, <2>8, <2>9, <2>10, OneWave, Zenon DEF PayloadInv
    <2> QED BY <2>3, <2>6, <2>11 DEF PayloadInv
  <1>15. WaveSettles(d) => \/ Goto(d, "clear") /\ told' = told \union Ids(b)
                              /\ todo' = [todo EXCEPT ![d] = b] /\ UNCHANGED failures
                           \/ Fails(d) /\ UNCHANGED <<told, todo>>
    BY DEF WaveSettles
  <1> QED BY <1>1, <1>2, <1>3, <1>4, <1>5, <1>6, <1>7, <1>8, <1>9, <1>10, <1>11, <1>12, <1>13, <1>14, <1>15, Zenon
          DEF Deliver, DeliverFails

\* A step of anything else: results may be posted or told
LEMMA OtherStep ==
    ASSUME PayloadInv, UNCHANGED <<batch, todo, pc, failures, dropped>>, child' \in [Results -> ChildStates],
           Posted \subseteq Posted', told \subseteq told', told' \subseteq Results, waiting' \subseteq told',
           Earned \subseteq Earned' => Lists'
    PROVE  PayloadInv'
  <1>1. Sorts' /\ \A r \in Results : failures'[r] >= failures[r]
    BY DEF PayloadInv, Sorts
  <1>2. Earned \subseteq Earned' /\ Failed \subseteq Failed' /\ Delivered \subseteq Delivered'
    BY <1>1, PayloadsKeep DEF PayloadInv
  <1>3. Waves'
    BY <1>2, WavesFrame DEF PayloadInv
  <1> QED BY <1>1, <1>2, <1>3 DEF PayloadInv

LEMMA PayloadNext == PayloadInv /\ [Next]_vars => PayloadInv'
  <1> SUFFICES ASSUME PayloadInv, [Next]_vars PROVE PayloadInv'
    OBVIOUS
  <1>0. /\ queue \in Seq(Earned) /\ processing \in Seq(Earned) /\ scan \in Seq(Earned)
        /\ failures \in [Results -> Nat] /\ told \subseteq Results /\ dropped \subseteq Results
        /\ waiting \subseteq told /\ child \in [Results -> ChildStates]
        /\ \A r \in dropped : failures[r] >= MaxAttempts
    BY DEF PayloadInv, Sorts, Lists
  <1>00. ASSUME UNCHANGED <<batch, todo, pc, failures, dropped, child, told>>, waiting' \subseteq told,
                queue' \in Seq(Earned), processing' \in Seq(Earned), scan' \in Seq(Earned)
         PROVE  PayloadInv'
    <2>1. Posted' = Posted
      BY <1>00 DEF Posted
    <2>2. Earned \subseteq Earned' => Lists'
      BY <1>00, SeqKeeps DEF Lists
    <2> QED BY <1>0, <1>00, <2>1, <2>2, OtherStep
  <1>1. ASSUME NEW r \in Results, ChildSettles(r) \/ Announce(r) PROVE PayloadInv'
    <2>1. UNCHANGED <<batch, todo, pc, failures, dropped, told, waiting, queue, processing, scan>>
      BY <1>1 DEF ChildSettles, Announce, lists, calls, parent, wait, history
    <2>2. \/ child[r] = "running" /\ child' = [child EXCEPT ![r] = "settled"]
          \/ child' = [child EXCEPT ![r] = "announced"]
      BY <1>1 DEF ChildSettles, Announce
    <2>3. child' \in [Results -> ChildStates] /\ Posted \subseteq Posted'
      BY <1>0, <2>2 DEF ChildStates, Posted
    <2>4. Earned \subseteq Earned' => Lists'
      BY <1>0, <2>1, SeqKeeps DEF Lists
    <2> QED BY <1>0, <2>1, <2>3, <2>4, OtherStep
  <1>2. ASSUME NEW r \in Results, Enqueue(r) PROVE PayloadInv'
    <2>1. /\ child[r] = "settled" /\ child' = [child EXCEPT ![r] = "enqueued"]
          /\ queue' = Cons([id |-> r, attempts |-> 0], queue)
          /\ UNCHANGED <<batch, todo, pc, failures, dropped, told, waiting, processing, scan>>
      BY <1>2 DEF Enqueue, calls, parent, wait, history
    <2>2. child' \in [Results -> ChildStates] /\ Posted \subseteq Posted' /\ r \in Posted'
      BY <1>0, <2>1 DEF ChildStates, Posted
    <2>3. [id |-> r, attempts |-> 0] \in Earned'
      <3>1. failures'[r] \in Nat /\ [id |-> r, attempts |-> 0] \in Payloads
        BY <1>0, <2>1 DEF Payloads
      <3> QED BY <2>2, <3>1 DEF Earned
    <2>4. Earned \subseteq Earned' => Lists'
      <3> SUFFICES ASSUME Earned \subseteq Earned' PROVE Lists'
        OBVIOUS
      <3>1. queue \in Seq(Earned') /\ processing \in Seq(Earned') /\ scan \in Seq(Earned')
        BY <1>0, SeqKeeps
      <3>2. Cons([id |-> r, attempts |-> 0], queue) \in Seq(Earned')
        BY <2>3, <3>1, ConsElements
      <3> QED BY <2>1, <3>1, <3>2 DEF Lists
    <2> QED BY <1>0, <2>1, <2>2, <2>4, OtherStep
  <1>3. CASE TurnStarts \/ TurnSettles \/ TurnWakes \/ WaitGoesOn \/ WaitFails
    <2>1. /\ UNCHANGED <<batch, todo, pc, failures, dropped, child, told, queue, processing>>
          /\ waiting' \in {waiting, {}} /\ scan' \in {scan, processing}
      BY <1>3 DEF TurnStarts, TurnSettles, TurnWakes, WaitGoesOn, WaitFails, lists, calls, wait, history
    <2> QED BY <1>0, <1>00, <2>1
  <1>4. CASE WaitStarts
    <2>1. /\ UNCHANGED <<batch, todo, pc, failures, dropped, child, queue, processing>> /\ scan' = queue
          /\ \E R \in SUBSET Results : waiting' = R /\ told' = told \union R
      BY <1>4 DEF WaitStarts, lists, calls
    <2>2. Posted' = Posted
      BY <2>1 DEF Posted
    <2>3. Earned \subseteq Earned' => Lists'
      BY <1>0, <2>1, SeqKeeps DEF Lists
    <2> QED BY <1>0, <2>1, <2>2, <2>3, OtherStep
  <1>5. CASE WaitRemoves
    <2>1. /\ UNCHANGED <<batch, todo, pc, failures, dropped, child, told, waiting>>
          /\ scan # <<>> /\ scan' = Tail(scan)
          /\ queue' \in {queue, RemoveFirst(queue, Head(scan))}
          /\ processing' \in {processing, RemoveFirst(processing, Head(scan))}
      BY <1>5 DEF WaitRemoves, lists, calls, history
    <2>2. /\ RemoveFirst(queue, Head(scan)) \in Seq(Earned)
          /\ RemoveFirst(processing, Head(scan)) \in Seq(Earned)
          /\ Tail(scan) \in Seq(Earned)
      BY <1>0, <2>1, RemoveFirstElements, HeadTail
    <2> QED BY <1>0, <1>00, <2>1, <2>2
  <1>6. CASE SweepStarts \/ SweepEnds \/ SweepFails \/ LockExpires \/ WindowExpires \/ GhostReaped \/ UNCHANGED vars
    <2>1. UNCHANGED <<batch, todo, pc, failures, dropped, child, told, waiting, queue, processing, scan>>
      BY <1>6 DEF SweepStarts, SweepEnds, SweepFails, LockExpires, WindowExpires, GhostReaped, vars,
                  lists, calls, parent, wait, history
    <2> QED BY <1>0, <1>00, <2>1
  <1>7. CASE SweepMoves
    <2>1. /\ UNCHANGED <<batch, todo, pc, failures, dropped, child, told, waiting, scan>>
          /\ processing # <<>> /\ processing' = Front(processing) /\ queue' = Cons(Last(processing), queue)
      BY <1>7 DEF SweepMoves, calls, parent, wait, history
    <2>2. Last(processing) \in Earned /\ Front(processing) \in Seq(Earned)
      BY <1>0, <2>1, FrontElements
    <2>3. Cons(Last(processing), queue) \in Seq(Earned)
      BY <1>0, <2>2, ConsElements
    <2> QED BY <1>0, <1>00, <2>1, <2>2, <2>3
  <1>8. CASE Restart
    <2>1. /\ UNCHANGED <<queue, processing, told, failures, dropped>> /\ waiting' = {} /\ scan' = <<>>
          /\ pc' = [d \in Deliverers |-> "idle"]
          /\ batch' = [d \in Deliverers |-> <<>>] /\ todo' = [d \in Deliverers |-> <<>>]
      BY <1>8 DEF Restart, lists, history
    <2>2. child' \in [Results -> ChildStates] /\ Posted' = Posted
      BY <1>0, <1>8 DEF Restart, Posted, ChildStates
    <2>3. Earned' = Earned
      BY <2>1, <2>2 DEF Earned
    <2>4. Sorts'
      BY <1>0, <2>1, <2>2 DEF Sorts
    <2>5. <<>> \in Seq(Earned)
      OBVIOUS
    <2>6. Lists'
      BY <1>0, <2>1, <2>3, <2>5 DEF Lists
    <2>7. Waves'
      BY <2>1, <2>3, <2>5 DEF Waves, Wave, CallPoints
    <2> QED BY <2>4, <2>6, <2>7 DEF PayloadInv
  <1> QED BY <1>1, <1>2, <1>3, <1>4, <1>5, <1>6, <1>7, <1>8, PayloadCallStep
          DEF Next, ChildStep, TurnEnds, Sweep

LEMMA PayloadInvHolds == Spec => []PayloadInv
  BY PayloadInit, PayloadNext, PTL DEF Spec

\* A payload never counts a delivery attempt that no failed wave stands for, however
\* sweeps, retries, duplicates and overlapping calls rewrite it, so that a result is
\* given up only after MAX_DELIVERY_ATTEMPTS waves that carried it have failed.
THEOREM RetriesAreEarned == Spec => []AttemptsEarned
  <1>1. PayloadInv => AttemptsEarned
    BY DEF PayloadInv, Sorts, Lists, AttemptsEarned, Earned, ToSet
  <1> QED BY <1>1, PayloadInvHolds, PTL

---------------------------------------------------------------------------
(* The copies of a payload *)

\* Calls about to lrem a payload of which they have just pushed another copy
Claims(r) == {d \in Deliverers : pc[d] \in {"unqueue", "unlink"} /\ Head(todo[d]).id = r}

Held(r) == Copies(queue, r) + Copies(processing, r)
Loose == Posted \ (told \union dropped)

\* Of a posted result, neither told nor given up, the two lists hold a copy more than
\* calls are about to take out
Kept == \A r \in Loose : Held(r) >= Cardinality(Claims(r)) + 1

One(b) == IF b THEN 1 ELSE 0

LEMMA HeldNat ==
    ASSUME PayloadInv, NEW r
    PROVE  /\ Copies(queue, r) \in Nat /\ Copies(processing, r) \in Nat /\ Held(r) \in Nat
           /\ Held(r) >= 1 => r \in Stored
           /\ IsFiniteSet(Claims(r)) /\ Cardinality(Claims(r)) \in Nat
  <1>1. queue \in Seq(Earned) /\ processing \in Seq(Earned)
    BY DEF PayloadInv, Lists
  <1>2. Copies(queue, r) \in Nat /\ (Copies(queue, r) >= 1 <=> r \in Ids(queue))
    BY <1>1, CopiesNat
  <1>3. Copies(processing, r) \in Nat /\ (Copies(processing, r) >= 1 <=> r \in Ids(processing))
    BY <1>1, CopiesNat
  <1>4. IsFiniteSet(Claims(r)) /\ Cardinality(Claims(r)) \in Nat
    BY DeliveryAssumption, FS_Subset, FS_CardinalityType DEF Claims
  <1> QED BY <1>2, <1>3, <1>4 DEF Held, Stored

LEMMA HeldNext ==
    ASSUME PayloadInv', NEW r
    PROVE  /\ Copies(queue', r) \in Nat /\ Copies(processing', r) \in Nat /\ Held(r)' \in Nat
           /\ Held(r)' >= 1 => r \in Stored'
           /\ IsFiniteSet(Claims(r)') /\ Cardinality(Claims(r)') \in Nat
  <1>1. queue' \in Seq(Earned') /\ processing' \in Seq(Earned')
    BY DEF PayloadInv, Lists
  <1>2. Copies(queue', r) \in Nat /\ (Copies(queue', r) >= 1 <=> r \in Ids(queue'))
    BY <1>1, CopiesNat
  <1>3. Copies(processing', r) \in Nat /\ (Copies(processing', r) >= 1 <=> r \in Ids(processing'))
    BY <1>1, CopiesNat
  <1>4. Claims(r)' \subseteq Deliverers
    BY DEF Claims
  <1>5. IsFiniteSet(Claims(r)') /\ Cardinality(Claims(r)') \in Nat
    BY <1>4, DeliveryAssumption, FS_Subset, FS_CardinalityType
  <1> QED BY <1>2, <1>3, <1>5 DEF Held, Stored

\* A call pushes a copy before it makes a claim, and takes one out as it drops one
LEMMA CallKeeps ==
    ASSUME PayloadInv, PayloadInv', Kept, NEW d \in Deliverers, child' = child,
           told \subseteq told', dropped \subseteq dropped',
           \A e \in Deliverers \ {d} : pc'[e] = pc[e] /\ todo'[e] = todo[e],
           \A r \in Loose' : Held(r)' + One(d \in Claims(r)) >= Held(r) + One(d \in Claims(r)')
    PROVE  Kept'
  <1> SUFFICES ASSUME NEW r \in Loose' PROVE Held(r)' >= Cardinality(Claims(r)') + 1
    BY DEF Kept
  <1>1. r \in Loose
    BY DEF Loose, Posted
  <1> DEFINE A == Claims(r)
             B == Claims(r)'
  <1>2. A \ {d} = B \ {d}
    BY DEF Claims
  <1>3. /\ Held(r) \in Nat /\ IsFiniteSet(A) /\ Cardinality(A) \in Nat
        /\ Held(r)' \in Nat /\ IsFiniteSet(B) /\ Cardinality(B) \in Nat
    BY HeldNat, HeldNext
  <1>4. Held(r) >= Cardinality(A) + 1
    BY <1>1 DEF Kept
  <1> DEFINE h == Held(r)
             g == Held(r)'
             a == Cardinality(A)
             b == Cardinality(B)
  <1>5. g + (IF d \in A THEN 1 ELSE 0) >= h + IF d \in B THEN 1 ELSE 0
    BY DEF One
  <1> HIDE DEF A, B
  <1>6. Cardinality(A \ {d}) = IF d \in A THEN Cardinality(A) - 1 ELSE Cardinality(A)
    BY <1>3, FS_RemoveElement
  <1>7. Cardinality(B \ {d}) = IF d \in B THEN Cardinality(B) - 1 ELSE Cardinality(B)
    BY <1>3, FS_RemoveElement
  <1>8. (IF d \in A THEN a - 1 ELSE a) = (IF d \in B THEN b - 1 ELSE b)
    BY <1>2, <1>6, <1>7
  <1>9. a \in Nat /\ b \in Nat /\ h \in Nat /\ g \in Nat /\ h >= a + 1
    BY <1>3, <1>4
  <1> HIDE DEF h, g, a, b
  <1>10. g >= b + 1
    BY <1>5, <1>8, <1>9
  <1> QED BY <1>10 DEF B, g, b

\* A step that is no call's takes out nothing the parent has not been told of
LEMMA OtherKeeps ==
    ASSUME PayloadInv, PayloadInv', Kept, Posted' \subseteq Posted,
           told \subseteq told', dropped \subseteq dropped',
           \A r \in Loose' : Held(r)' >= Held(r) /\ Claims(r)' \subseteq Claims(r)
    PROVE  Kept'
  <1> SUFFICES ASSUME NEW r \in Loose' PROVE Held(r)' >= Cardinality(Claims(r)') + 1
    BY DEF Kept
  <1>1. r \in Loose
    BY DEF Loose
  <1>2. /\ Held(r) \in Nat /\ IsFiniteSet(Claims(r)) /\ Cardinality(Claims(r)) \in Nat
        /\ Held(r)' \in Nat /\ Cardinality(Claims(r)') \in Nat
    BY HeldNat, HeldNext
  <1>3. Cardinality(Claims(r)') <= Cardinality(Claims(r))
    BY <1>2, FS_Subset
  <1> QED BY <1>1, <1>2, <1>3 DEF Kept

LEMMA KeptCallStep ==
    ASSUME PayloadInv, PayloadInv', Kept, NEW d \in Deliverers, Deliver(d) \/ DeliverFails(d)
    PROVE  Kept'
  <1> DEFINE Quiet == \/ WakeUp(d) \/ Acquire(d) \/ DrainEnds(d) \/ CountWave(d) \/ CountTTL(d) \/ CapRollsBack(d)
                      \/ WaveStarts(d) \/ WaveRefused(d) \/ WaveSettles(d) \/ Rollback(d) \/ RetriesEnd(d)
                      \/ FinalCheck(d) \/ Release(d) \/ ClearFails(d) \/ RetryFails(d) \/ Unhandled(d) \/ CallFails(d)
             t == todo[d]
  <1>0. /\ queue \in Seq(Earned) /\ processing \in Seq(Earned) /\ t \in Seq(Earned) /\ Wave(d)
        /\ pc \in [Deliverers -> CallPoints] /\ DOMAIN todo = Deliverers
    BY DEF PayloadInv, Lists, Waves
  <1>1. CASE Quiet
    <2>1. child' = child /\ told \subseteq told' /\ dropped \subseteq dropped' /\ UNCHANGED <<queue, processing>>
      BY <1>1 DEF WakeUp, Acquire, DrainEnds, CountWave, CountTTL, CapRollsBack, WaveStarts, WaveRefused,
         WaveSettles, Rollback, RetriesEnd, FinalCheck, Release, ClearFails, RetryFails, Unhandled, CallFails,
         history, lists
    <2>2. \/ UNCHANGED <<pc, todo>>
          \/ /\ \E at \in CallPoints \ {"unqueue", "unlink"} : pc' = [pc EXCEPT ![d] = at]
             /\ todo' = todo \/ \E u : todo' = [todo EXCEPT ![d] = u]
      <3>1. {"idle", "guarded", "drain", "count", "ttl", "capped", "requeue", "invoke", "running", "clear",
             "rollback", "retry", "final", "release"} \subseteq CallPoints \ {"unqueue", "unlink"}
        BY DEF CallPoints
      <3>2. CASE WakeUp(d) \/ Acquire(d) \/ DrainEnds(d) \/ CountWave(d) \/ CountTTL(d) \/ CapRollsBack(d)
        BY <3>1, <3>2 DEF WakeUp, Acquire, DrainEnds, CountWave, CountTTL, CapRollsBack, Goto, Leave
      <3>3. CASE WaveStarts(d) \/ WaveRefused(d) \/ WaveSettles(d) \/ ClearFails(d) \/ Rollback(d) \/ RetriesEnd(d)
        BY <3>1, <3>3 DEF WaveStarts, WaveRefused, WaveSettles, ClearFails, Rollback, RetriesEnd, Goto, Leave, Fails
      <3>4. CASE FinalCheck(d) \/ Release(d) \/ RetryFails(d) \/ Unhandled(d) \/ CallFails(d)
        BY <3>1, <3>4 DEF FinalCheck, Release, RetryFails, Unhandled, CallFails, Goto
      <3> QED BY <1>1, <3>2, <3>3, <3>4
    <2>3. \A e \in Deliverers \ {d} : pc'[e] = pc[e] /\ todo'[e] = todo[e]
      BY <1>0, <2>2
    <2>4. ASSUME NEW r \in Loose'
          PROVE  Held(r)' + One(d \in Claims(r)) >= Held(r) + One(d \in Claims(r)')
      <3>1. Held(r)' = Held(r) /\ Held(r) \in Nat
        BY <2>1, HeldNat DEF Held
      <3>2. d \in Claims(r)' => d \in Claims(r)
        BY <1>0, <2>2 DEF Claims
      <3> QED BY <3>1, <3>2 DEF One
    <2> QED BY <2>1, <2>3, <2>4, CallKeeps
  <1>2. ASSUME NEW at, pc' = [pc EXCEPT ![d] = at], NEW u, todo' = [todo EXCEPT ![d] = u],
               UNCHANGED <<child, told>>, dropped \subseteq dropped',
               ASSUME NEW r \in Loose', r \notin dropped', r \notin told
               PROVE  Held(r)' + One(d \in Claims(r)) >= Held(r) + One(at \in {"unqueue", "unlink"} /\ Head(u).id = r)
        PROVE  Kept'
    <2>1. pc'[d] = at /\ todo'[d] = u /\ \A e \in Deliverers \ {d} : pc'[e] = pc[e] /\ todo'[e] = todo[e]
      BY <1>0, <1>2
    <2>2. ASSUME NEW r \in Loose'
          PROVE  Held(r)' + One(d \in Claims(r)) >= Held(r) + One(d \in Claims(r)')
      <3>1. r \notin dropped' /\ r \notin told
        BY <1>2 DEF Loose
      <3>2. Held(r)' + One(d \in Claims(r)) >= Held(r) + One(at \in {"unqueue", "unlink"} /\ Head(u).id = r)
        BY <1>2, <3>1
      <3>3. d \in Claims(r)' <=> at \in {"unqueue", "unlink"} /\ Head(u).id = r
        BY <2>1 DEF Claims
      <3> QED BY <3>2, <3>3, Zenon DEF One
    <2> QED BY <1>2, <2>1, <2>2, CallKeeps
  <1>3. pc = [pc EXCEPT ![d] = pc[d]] /\ todo = [todo EXCEPT ![d] = t]
    BY DEF PayloadInv, Waves
  <1>4. CASE DrainPop(d)
    <2>1. /\ queue # <<>> /\ pc[d] = "drain" /\ UNCHANGED <<pc, todo, child, told, dropped>>
          /\ queue' = Front(queue) /\ processing' = Cons(Last(queue), processing)
      BY <1>4 DEF DrainPop, history
    <2>2. ASSUME NEW r
          PROVE  Held(r)' + One(d \in Claims(r)) >= Held(r) + One(pc[d] \in {"unqueue", "unlink"} /\ Head(t).id = r)
      <3>1. Last(queue) \in Earned
        BY <1>0, <2>1, FrontElements
      <3>2. /\ Copies(queue', r) + 1 >= Copies(queue, r)
            /\ Last(queue).id # r => Copies(queue', r) >= Copies(queue, r)
        BY <1>0, <2>1, CopiesFront
      <3>3. /\ Copies(processing', r) >= Copies(processing, r)
            /\ Last(queue).id = r => Copies(processing', r) >= Copies(processing, r) + 1
        BY <1>0, <2>1, <3>1, CopiesCons
      <3>4. Held(r)' >= Held(r)
        BY <3>2, <3>3, HeldNat, HeldNext DEF Held
      <3>5. d \notin Claims(r)
        BY <2>1 DEF Claims
      <3> QED BY <2>1, <3>4, <3>5, HeldNat, HeldNext DEF One
    <2> QED BY <1>2, <1>3, <2>1, <2>2, Zenon
  \* A push of the head of todo, a claim on its result made with it
  <1>5. ASSUME pc[d] \notin {"unqueue", "unlink"}, NEW at, pc' = [pc EXCEPT ![d] = at], UNCHANGED todo,
               UNCHANGED <<child, told, dropped>>, NEW p \in Earned, t # <<>>, p.id = Head(t).id,
               \/ queue' = Cons(p, queue) /\ processing' = processing
               \/ processing' = Cons(p, processing) /\ queue' = queue
        PROVE  Kept'
    <2>1. ASSUME NEW r
          PROVE  Held(r)' + One(d \in Claims(r)) >= Held(r) + One(at \in {"unqueue", "unlink"} /\ Head(t).id = r)
      <3>1. /\ Copies(Cons(p, queue), r) >= Copies(queue, r)
            /\ p.id = r => Copies(Cons(p, queue), r) >= Copies(queue, r) + 1
        BY <1>0, CopiesCons
      <3>2. /\ Copies(Cons(p, processing), r) >= Copies(processing, r)
            /\ p.id = r => Copies(Cons(p, processing), r) >= Copies(processing, r) + 1
        BY <1>0, CopiesCons
      <3>3. Held(r)' >= Held(r) /\ (p.id = r => Held(r)' >= Held(r) + 1)
        BY <1>5, <3>1, <3>2, HeldNat, HeldNext DEF Held
      <3>4. d \notin Claims(r)
        BY <1>5 DEF Claims
      <3> QED BY <1>5, <3>3, <3>4, HeldNat, HeldNext DEF One
    <2>2. dropped \subseteq dropped'
      BY <1>5
    <2> QED BY <1>2, <1>3, <1>5, <2>1, <2>2, Zenon
  <1>6. CASE Requeue(d) /\ t # <<>>
    <2>1. /\ pc[d] = "requeue" /\ pc' = [pc EXCEPT ![d] = "unqueue"] /\ UNCHANGED <<todo, child, told, dropped>>
          /\ queue' = Cons(Head(t), queue) /\ processing' = processing
      BY <1>6 DEF Requeue, Goto, history
    <2>2. Head(t) \in Earned
      BY <1>0, <1>6, HeadTail
    <2> QED BY <1>5, <1>6, <2>1, <2>2
  <1>7. CASE Retry(d) /\ ~Spent(Head(t))
    <2> DEFINE p == [Head(t) EXCEPT !.attempts = @ + 1]
    <2>1. /\ pc[d] = "retry" /\ pc' = [pc EXCEPT ![d] = "unlink"] /\ UNCHANGED <<todo, child, told, dropped>>
          /\ processing' = Cons(p, processing) /\ queue' = queue /\ t # <<>>
      BY <1>7 DEF Retry, Goto
    <2>2. t \in Seq(Failed)
      BY <1>0, <2>1 DEF Wave
    <2>3. Head(t) \in Failed
      BY <2>1, <2>2, HeadTail
    <2>4. p \in Earned /\ p.id = Head(t).id
      BY <2>3 DEF Failed, Earned, Payloads, PayloadInv, Sorts
    <2> HIDE DEF p
    <2> QED BY <1>5, <2>1, <2>4
  \* An lrem, of a result that needs no copy or with the claim made for it
  <1>8. ASSUME NEW p, processing' = RemoveFirst(processing, p), queue' = queue, dropped \subseteq dropped',
               NEW at \in CallPoints \ {"unqueue", "unlink"}, pc' = [pc EXCEPT ![d] = at],
               todo' = [todo EXCEPT ![d] = Tail(t)], UNCHANGED <<child, told>>,
               \/ p.id \in told \union dropped'
               \/ pc[d] \in {"unqueue", "unlink"} /\ p = Head(t)
        PROVE  Kept'
    <2>1. ASSUME NEW r \in Loose', r \notin dropped', r \notin told
          PROVE  Held(r)' + One(d \in Claims(r))
                    >= Held(r) + One(at \in {"unqueue", "unlink"} /\ Head(Tail(t)).id = r)
      <3>1. /\ Copies(processing', r) + 1 >= Copies(processing, r)
            /\ p.id # r => Copies(processing', r) >= Copies(processing, r)
        BY <1>0, <1>8, CopiesRemoveFirst
      <3>2. Held(r)' + 1 >= Held(r) /\ (p.id # r => Held(r)' >= Held(r))
        BY <1>8, <3>1, HeldNat, HeldNext DEF Held
      <3>3. p.id = r => d \in Claims(r)
        BY <1>8, <2>1 DEF Claims
      <3> QED BY <1>8, <3>2, <3>3, HeldNat, HeldNext DEF One
    <2> QED BY <1>2, <1>8, <2>1, Zenon
  <1>9. CASE Unqueue(d)
    <2>1. /\ processing' = RemoveFirst(processing, Head(t)) /\ queue' = queue /\ dropped \subseteq dropped'
          /\ pc' = [pc EXCEPT ![d] = "requeue"] /\ todo' = [todo EXCEPT ![d] = Tail(t)]
          /\ UNCHANGED <<child, told>> /\ pc[d] = "unqueue"
      BY <1>9 DEF Unqueue, Goto, history
    <2> QED BY <1>8, <2>1 DEF CallPoints
  <1>10. CASE Unlink(d)
    <2>1. /\ processing' = RemoveFirst(processing, Head(t)) /\ queue' = queue /\ dropped \subseteq dropped'
          /\ pc' = [pc EXCEPT ![d] = "retry"] /\ todo' = [todo EXCEPT ![d] = Tail(t)]
          /\ UNCHANGED <<child, told>> /\ pc[d] = "unlink"
      BY <1>10 DEF Unlink, Goto, history
    <2> QED BY <1>8, <2>1 DEF CallPoints
  <1>11. CASE Clear(d) /\ t # <<>>
    <2>1. /\ processing' = RemoveFirst(processing, Head(t)) /\ queue' = queue /\ dropped \subseteq dropped'
          /\ pc' = pc /\ todo' = [todo EXCEPT ![d] = Tail(t)]
          /\ UNCHANGED <<child, told>> /\ pc[d] = "clear"
      BY <1>11 DEF Clear, history
    <2>2. t \in Seq(Delivered)
      BY <1>0, <2>1 DEF Wave
    <2>3. Head(t).id \in told
      <3>1. Head(t) \in Delivered
        BY <1>11, <2>2, HeadTail
      <3> QED BY <3>1 DEF Delivered
    <2>4. pc' = [pc EXCEPT ![d] = "clear"] /\ "clear" \in CallPoints \ {"unqueue", "unlink"}
      BY <1>3, <2>1 DEF CallPoints
    <2> QED BY <1>8, <2>1, <2>3, <2>4
  <1>12. CASE Retry(d) /\ Spent(Head(t))
    <2>1. /\ processing' = RemoveFirst(processing, Head(t)) /\ queue' = queue
          /\ dropped' = dropped \union {Head(t).id}
          /\ pc' = pc /\ todo' = [todo EXCEPT ![d] = Tail(t)]
          /\ UNCHANGED <<child, told>> /\ pc[d] = "retry"
      BY <1>12 DEF Retry
    <2>2. pc' = [pc EXCEPT ![d] = "retry"] /\ "retry" \in CallPoints \ {"unqueue", "unlink"}
      BY <1>3, <2>1 DEF CallPoints
    <2>3. Head(t).id \in told \union dropped' /\ dropped \subseteq dropped'
      BY <2>1
    <2> QED BY <1>8, <2>1, <2>2, <2>3
  \* The last item of a loop is done
  <1>13. CASE (Requeue(d) \/ Clear(d)) /\ t = <<>>
    <2>1. /\ UNCHANGED <<queue, processing, todo, child, told, dropped>> /\ pc[d] \notin {"unqueue", "unlink"}
          /\ \E at \in {"final", "release", "drain"} : pc' = [pc EXCEPT ![d] = at]
      BY <1>13 DEF Requeue, Clear, Leave, Goto, history
    <2>2. ASSUME NEW at \in {"final", "release", "drain"}, pc' = [pc EXCEPT ![d] = at] PROVE Kept'
      <3>1. ASSUME NEW r
            PROVE  Held(r)' + One(d \in Claims(r)) >= Held(r) + One(at \in {"unqueue", "unlink"} /\ Head(t).id = r)
        BY <2>1, <2>2, HeldNat DEF Held, One
      <3>2. dropped \subseteq dropped'
        BY <2>1
      <3> QED BY <1>2, <1>3, <2>1, <2>2, <3>1, <3>2, Zenon
    <2> QED BY <2>1, <2>2
  <1> QED BY <1>1, <1>4, <1>6, <1>7, <1>9, <1>10, <1>11, <1>12, <1>13, Zenon DEF Deliver, DeliverFails

LEMMA KeptNext == PayloadInv /\ PayloadInv' /\ Kept /\ [Next]_vars => Kept'
  <1> SUFFICES ASSUME PayloadInv, PayloadInv', Kept, [Next]_vars PROVE Kept'
    OBVIOUS
  <1>0. /\ queue \in Seq(Earned) /\ processing \in Seq(Earned) /\ scan \in Seq(Earned)
        /\ todo \in [Deliverers -> Seq(Earned)] /\ child \in [Results -> ChildStates] /\ waiting \subseteq told
    BY DEF PayloadInv, Sorts, Lists, Waves
  <1>1. ASSUME UNCHANGED <<queue, processing, pc, todo, dropped>>, told \subseteq told', Posted' \subseteq Posted
        PROVE  Kept'
    <2>1. ASSUME NEW r PROVE Held(r)' >= Held(r) /\ Claims(r)' \subseteq Claims(r)
      <3>1. Held(r)' = Held(r)
        BY <1>1 DEF Held
      <3>2. Claims(r)' = Claims(r)
        BY <1>1 DEF Claims
      <3> QED BY <3>1, <3>2, HeldNat
    <2> QED BY <1>1, <2>1, OtherKeeps
  <1>2. ASSUME NEW r \in Results, ChildSettles(r) \/ Announce(r) PROVE Kept'
    <2>1. UNCHANGED <<queue, processing, pc, todo, dropped, told>>
      BY <1>2 DEF ChildSettles, Announce, lists, calls, history
    <2>2. \/ child' = [child EXCEPT ![r] = "settled"]
          \/ child[r] = "enqueued" /\ child' = [child EXCEPT ![r] = "announced"]
      BY <1>2 DEF ChildSettles, Announce
    <2>3. Posted' \subseteq Posted
      BY <1>0, <2>2 DEF Posted
    <2> QED BY <1>1, <2>1, <2>3
  <1>3. ASSUME NEW r \in Results, Enqueue(r) PROVE Kept'
    <2> DEFINE p == [id |-> r, attempts |-> 0]
    <2>1. /\ child[r] = "settled" /\ child' = [child EXCEPT ![r] = "enqueued"] /\ queue' = Cons(p, queue)
          /\ UNCHANGED <<pc, todo, dropped, told, processing>>
      BY <1>3 DEF Enqueue, calls, history
    <2>2. r \notin Posted /\ Posted' \subseteq Posted \union {r}
      BY <1>0, <2>1 DEF Posted
    <2>3. ASSUME NEW q PROVE /\ Claims(q)' = Claims(q)
                             /\ Held(q)' >= Held(q) /\ (q = r => Held(q)' >= Held(q) + 1)
      <3>1. Claims(q)' = Claims(q)
        BY <2>1 DEF Claims
      <3>2. queue \in Seq(Payloads) /\ p \in Payloads
        <4>1. Earned \subseteq Payloads /\ p \in Payloads
          BY DEF Earned, Payloads
        <4> QED BY <1>0, <4>1, SeqKeeps
      <3>3. /\ Copies(queue', q) >= Copies(queue, q)
            /\ p.id = q => Copies(queue', q) >= Copies(queue, q) + 1
        BY <2>1, <3>2, CopiesCons
      <3>4. p.id = r
        OBVIOUS
      <3>5. Copies(processing', q) = Copies(processing, q)
        BY <2>1
      <3> QED BY <3>1, <3>3, <3>4, <3>5, HeldNat, HeldNext DEF Held
    <2>4. Claims(r) = {}
      <3> SUFFICES ASSUME NEW d \in Claims(r) PROVE FALSE
        OBVIOUS
      <3>1. /\ d \in Deliverers /\ Head(todo[d]).id = r /\ todo[d] # <<>> /\ todo[d] \in Seq(Earned)
        BY <1>0 DEF Claims, PayloadInv, Waves, Wave
      <3>2. Head(todo[d]) \in Earned
        BY <3>1, HeadTail
      <3> QED BY <2>2, <3>1, <3>2 DEF Earned
    <2>5. ASSUME NEW q \in Loose' PROVE Held(q)' >= Cardinality(Claims(q)') + 1
      <3>1. CASE q = r
        <4>1. Cardinality(Claims(q)') = 0
          BY <2>3, <2>4, <3>1, FS_EmptySet
        <4> QED BY <2>3, <3>1, <4>1, HeldNat, HeldNext
      <3>2. CASE q # r
        <4>1. q \in Loose
          BY <2>1, <2>2, <3>2 DEF Loose
        <4>2. Held(q) >= Cardinality(Claims(q)) + 1
          BY <4>1 DEF Kept
        <4> QED BY <2>3, <4>2, HeldNat, HeldNext
      <3> QED BY <3>1, <3>2
    <2> QED BY <2>5 DEF Kept
  <1>4. CASE TurnStarts \/ TurnSettles \/ TurnWakes \/ WaitGoesOn \/ WaitFails \/ WaitStarts \/ SweepStarts
             \/ SweepEnds \/ SweepFails \/ LockExpires \/ WindowExpires \/ GhostReaped \/ UNCHANGED vars
    <2>1. UNCHANGED <<queue, processing, pc, todo, dropped, child>> /\ told \subseteq told'
      BY <1>4 DEF TurnStarts, TurnSettles, TurnWakes, WaitGoesOn, WaitFails, WaitStarts, SweepStarts, SweepEnds,
                  SweepFails, LockExpires, WindowExpires, GhostReaped, vars, lists, calls, history
    <2> QED BY <1>1, <2>1 DEF Posted
  <1>5. CASE WaitRemoves
    <2> DEFINE p == Head(scan)
    <2>1. /\ UNCHANGED <<pc, todo, dropped, child, told>>
          /\ \/ UNCHANGED <<queue, processing>>
             \/ p.id \in waiting /\ queue' = RemoveFirst(queue, p) /\ processing' = processing
             \/ p.id \in waiting /\ processing' = RemoveFirst(processing, p) /\ queue' = queue
      BY <1>5 DEF WaitRemoves, lists, calls, history
    <2>2. ASSUME NEW r \in Loose' PROVE Held(r)' >= Held(r) /\ Claims(r)' \subseteq Claims(r)
      <3>1. Claims(r)' = Claims(r)
        BY <2>1 DEF Claims
      <3>2. p.id \in waiting => p.id # r
        BY <1>0, <2>1 DEF Loose
      <3>3. p.id # r => /\ Copies(RemoveFirst(queue, p), r) >= Copies(queue, r)
                        /\ Copies(RemoveFirst(processing, p), r) >= Copies(processing, r)
        BY <1>0, CopiesRemoveFirst
      <3> QED BY <2>1, <3>1, <3>2, <3>3, HeldNat, HeldNext DEF Held
    <2> QED BY <2>1, <2>2, OtherKeeps DEF Posted
  <1>6. CASE SweepMoves
    <2> DEFINE p == Last(processing)
    <2>1. /\ UNCHANGED <<pc, todo, dropped, child, told>>
          /\ processing # <<>> /\ processing' = Front(processing) /\ queue' = Cons(p, queue)
      BY <1>6 DEF SweepMoves, calls, history
    <2>2. ASSUME NEW r \in Loose' PROVE Held(r)' >= Held(r) /\ Claims(r)' \subseteq Claims(r)
      <3>1. Claims(r)' = Claims(r)
        BY <2>1 DEF Claims
      <3>2. /\ Copies(processing', r) + 1 >= Copies(processing, r)
            /\ p.id # r => Copies(processing', r) >= Copies(processing, r)
        BY <1>0, <2>1, CopiesFront
      <3>3. p \in Earned
        BY <1>0, <2>1, FrontElements
      <3>4. /\ Copies(queue', r) >= Copies(queue, r)
            /\ p.id = r => Copies(queue', r) >= Copies(queue, r) + 1
        BY <1>0, <2>1, <3>3, CopiesCons
      <3> QED BY <3>1, <3>2, <3>4, HeldNat, HeldNext DEF Held
    <2> QED BY <2>1, <2>2, OtherKeeps DEF Posted
  <1>7. CASE Restart
    <2>1. UNCHANGED <<queue, processing, dropped, told>> /\ pc' = [d \in Deliverers |-> "idle"]
      BY <1>7 DEF Restart, lists, history
    <2>2. Posted' \subseteq Posted
      BY <1>0, <1>7 DEF Restart, Posted
    <2>3. ASSUME NEW r PROVE Held(r)' >= Held(r) /\ Claims(r)' \subseteq Claims(r)
      <3>1. Held(r)' = Held(r)
        BY <2>1 DEF Held
      <3>2. Claims(r)' = {}
        BY <2>1 DEF Claims
      <3> QED BY <3>1, <3>2, HeldNat
    <2> QED BY <2>1, <2>2, <2>3, OtherKeeps
  <1> QED BY <1>2, <1>3, <1>4, <1>5, <1>6, <1>7, KeptCallStep DEF Next, ChildStep, TurnEnds, Sweep

LEMMA KeptHolds == Spec => [](PayloadInv /\ Kept)
  <1>1. Init => Kept
    BY DEF Init, Kept, Loose, Posted
  <1> QED BY <1>1, PayloadInit, PayloadNext, KeptNext, PTL DEF Spec

---------------------------------------------------------------------------
(* The mailbox that delivery implements *)

\* Every step of delivery is a step of the abstract mailbox
MailStep == [Mailbox!Next]_Mailbox!vars

LEMMA StoredPosted == PayloadInv => Stored \subseteq Posted
  <1> SUFFICES ASSUME PayloadInv, NEW r \in Stored PROVE r \in Posted
    OBVIOUS
  <1>1. queue \in Seq(Earned) /\ processing \in Seq(Earned)
    BY DEF PayloadInv, Lists
  <1>2. PICK p \in ToSet(queue) \union ToSet(processing) : p.id = r
    BY DEF Stored, Ids
  <1>3. p \in Earned
    BY <1>1, <1>2 DEF ToSet
  <1> QED BY <1>2, <1>3 DEF Earned

\* A result that leaves both lists has been told or given up: the copy that Kept promises
LEMMA MailShrinks ==
    ASSUME PayloadInv, PayloadInv', Kept', Posted' = Posted, UNCHANGED <<told, dropped>>, Stored' \subseteq Stored
    PROVE  MailStep
  <1> DEFINE R == Stored \ Stored'
  <1>1. R \in SUBSET Results
    BY StoredPosted DEF Posted
  <1>2. ASSUME NEW r \in R PROVE r \in told \union dropped
    <2> SUFFICES ASSUME r \notin told \union dropped PROVE FALSE
      OBVIOUS
    <2>1. r \in Loose'
      BY StoredPosted DEF Loose
    <2>2. Held(r)' >= Cardinality(Claims(r)') + 1
      BY <2>1 DEF Kept
    <2>3. r \in Stored'
      BY <2>2, HeldNext
    <2> QED BY <2>3
  <1>3. Stored' = Stored \ R
    OBVIOUS
  <1>4. R \subseteq told \union dropped
    BY <1>2
  <1> HIDE DEF R
  <1>5. Mailbox!Forget(R)
    BY <1>3, <1>4 DEF Mailbox!Forget, Posted
  <1> QED BY <1>1, <1>5 DEF MailStep, Mailbox!Next

\* A copy of a result that is still due changes nothing
LEMMA MailGrows ==
    ASSUME PayloadInv, Kept, Posted' = Posted, UNCHANGED <<told, dropped>>,
           NEW r \in Posted, Stored' = Stored \union {r}
    PROVE  MailStep
  <1>1. CASE r \in told \union dropped
    <2>1. r \in Results /\ Mailbox!Repeat(r)
      BY <1>1 DEF Mailbox!Repeat, Posted
    <2> QED BY <2>1 DEF MailStep, Mailbox!Next
  <1>2. CASE r \notin told \union dropped
    <2>1. Held(r) >= Cardinality(Claims(r)) + 1
      BY <1>2 DEF Kept, Loose
    <2>2. r \in Stored
      BY <2>1, HeldNat
    <2> QED BY <2>2 DEF MailStep, Mailbox!vars, Posted
  <1> QED BY <1>1, <1>2

\* Telling the parent
LEMMA MailTells ==
    ASSUME Posted' = Posted, UNCHANGED <<queue, processing, dropped>>,
           NEW R \in SUBSET Results, told' = told \union R
    PROVE  MailStep
  <1>1. Stored' = Stored \ {} /\ {} \in SUBSET R
    BY DEF Stored
  <1>2. Mailbox!Tell(R)
    BY <1>1 DEF Mailbox!Tell, Posted
  <1> QED BY <1>2 DEF MailStep, Mailbox!Next

LEMMA MailStutters ==
    ASSUME Posted' = Posted, UNCHANGED <<queue, processing, told, dropped>>
    PROVE  MailStep
  BY DEF MailStep, Mailbox!vars, Posted, Stored

LEMMA MailCallStep ==
    ASSUME PayloadInv, PayloadInv', Kept, Kept', NEW d \in Deliverers, Deliver(d) \/ DeliverFails(d)
    PROVE  MailStep
  <1> DEFINE t == todo[d]
  <1>0. /\ queue \in Seq(Earned) /\ processing \in Seq(Earned) /\ t \in Seq(Earned)
        /\ batch[d] \in Seq(Earned) /\ Wave(d) /\ Earned \subseteq Payloads
    BY DEF PayloadInv, Lists, Waves, Earned
  <1>1. child' = child
    BY DEF Deliver, DeliverFails, WakeUp, Acquire, DrainPop, DrainEnds, CountWave, CountTTL, CapRollsBack,
           Requeue, Unqueue, WaveStarts, WaveRefused, WaveSettles, Clear, Rollback, Retry, Unlink, RetriesEnd,
           FinalCheck, Release, ClearFails, RetryFails, Unhandled, CallFails
  <1>2. Posted' = Posted
    BY <1>1 DEF Posted
  <1>3. CASE \/ WakeUp(d) \/ Acquire(d) \/ DrainEnds(d) \/ CountWave(d) \/ CountTTL(d) \/ CapRollsBack(d)
             \/ WaveStarts(d) \/ WaveRefused(d) \/ Rollback(d) \/ RetriesEnd(d) \/ FinalCheck(d) \/ Release(d)
             \/ ClearFails(d) \/ RetryFails(d) \/ Unhandled(d) \/ CallFails(d)
             \/ ((Requeue(d) \/ Clear(d)) /\ t = <<>>)
             \/ (WaveSettles(d) /\ UNCHANGED told)
    <2>1. UNCHANGED <<queue, processing, told, dropped>>
      BY <1>3 DEF WakeUp, Acquire, DrainEnds, CountWave, CountTTL, CapRollsBack, Requeue, WaveStarts, WaveRefused,
         WaveSettles, Clear, Rollback, RetriesEnd, FinalCheck, Release, ClearFails, RetryFails, Unhandled,
         CallFails, Fails, history, lists
    <2> QED BY <1>2, <2>1, MailStutters
  <1>4. CASE WaveSettles(d) /\ told' = told \union Ids(batch[d])
    <2>1. UNCHANGED <<queue, processing, dropped>>
      BY <1>4 DEF WaveSettles, lists
    <2>2. Ids(batch[d]) \in SUBSET Results
      BY <1>0 DEF Ids, ToSet, Payloads
    <2> QED BY <1>2, <1>4, <2>1, <2>2, MailTells
  <1>5. CASE DrainPop(d)
    <2>1. /\ queue # <<>> /\ UNCHANGED <<told, dropped>>
          /\ queue' = Front(queue) /\ processing' = Cons(Last(queue), processing)
      BY <1>5 DEF DrainPop, history
    <2>2. Last(queue) \in Earned
      BY <1>0, <2>1, FrontElements
    <2>3. Ids(queue) = Ids(queue') \union {Last(queue).id}
      BY <1>0, <2>1, IdsChange
    <2>4. Ids(processing') = Ids(processing) \union {Last(queue).id}
      BY <1>0, <2>1, <2>2, IdsChange
    <2>5. Stored' \subseteq Stored
      BY <2>3, <2>4 DEF Stored
    <2> QED BY <1>2, <2>1, <2>5, MailShrinks
  <1>6. CASE Requeue(d) /\ t # <<>>
    <2>1. queue' = Cons(Head(t), queue) /\ UNCHANGED <<processing, told, dropped>>
      BY <1>6 DEF Requeue, history
    <2>2. Head(t) \in Earned /\ Head(t).id \in Posted
      <3>1. Head(t) \in Earned
        BY <1>0, <1>6, HeadTail
      <3> QED BY <3>1 DEF Earned
    <2>3. Ids(queue') = Ids(queue) \union {Head(t).id}
      BY <1>0, <2>1, <2>2, IdsChange
    <2>4. Stored' = Stored \union {Head(t).id}
      BY <2>1, <2>3 DEF Stored
    <2> QED BY <1>2, <2>1, <2>2, <2>4, MailGrows
  <1>7. CASE Retry(d)
    <2>1. t # <<>> /\ t \in Seq(Failed) /\ UNCHANGED <<queue, told>>
      BY <1>0, <1>7 DEF Retry, Wave
    <2>2. /\ Head(t) \in Payloads /\ Head(t).id \in Posted
          /\ Head(t).attempts < failures[Head(t).id] /\ failures[Head(t).id] \in Nat
      <3>1. Head(t) \in Failed
        BY <2>1, HeadTail
      <3> QED BY <3>1 DEF Failed, Earned, Payloads, PayloadInv, Sorts
    <2>3. CASE Spent(Head(t))
      <3>1. processing' = RemoveFirst(processing, Head(t)) /\ dropped' = dropped \union {Head(t).id}
        BY <1>7, <2>3 DEF Retry
      <3>2. /\ Ids(processing') \subseteq Ids(processing)
            /\ Ids(processing) \subseteq Ids(processing') \union {Head(t).id}
        BY <1>0, <3>1, IdsChange
      <3>3. Stored' \in {Stored, Stored \ {Head(t).id}}
        BY <2>1, <3>2 DEF Stored
      <3>4. Head(t).id \in Results /\ Mailbox!GiveUp(Head(t).id)
        BY <1>2, <2>1, <2>2, <3>1, <3>3 DEF Mailbox!GiveUp, Posted
      <3> QED BY <3>4 DEF MailStep, Mailbox!Next
    <2>4. CASE ~Spent(Head(t))
      <3> DEFINE p == [Head(t) EXCEPT !.attempts = @ + 1]
      <3>1. processing' = Cons(p, processing) /\ dropped' = dropped
        BY <1>7, <2>4 DEF Retry
      <3>2. p \in Payloads /\ p.id = Head(t).id
        BY <2>2 DEF Payloads
      <3> HIDE DEF p
      <3>3. processing \in Seq(Payloads)
        BY <1>0, SeqKeeps
      <3>4. Ids(processing') = Ids(processing) \union {p.id}
        BY <3>1, <3>2, <3>3, IdsChange
      <3>5. Stored' = Stored \union {Head(t).id}
        BY <2>1, <3>2, <3>4 DEF Stored
      <3> QED BY <1>2, <2>1, <2>2, <3>1, <3>5, MailGrows
    <2> QED BY <2>3, <2>4
  <1>8. CASE Unqueue(d) \/ Unlink(d) \/ (Clear(d) /\ t # <<>>)
    <2>1. processing' = RemoveFirst(processing, Head(t)) /\ UNCHANGED <<queue, told, dropped>>
      BY <1>8 DEF Unqueue, Unlink, Clear, history
    <2>2. Ids(processing') \subseteq Ids(processing)
      BY <1>0, <2>1, IdsChange
    <2>3. Stored' \subseteq Stored
      BY <2>1, <2>2 DEF Stored
    <2> QED BY <1>2, <2>1, <2>3, MailShrinks
  <1>9. WaveSettles(d) => told' = told \union Ids(batch[d]) \/ UNCHANGED told
    BY DEF WaveSettles
  <1> QED BY <1>3, <1>4, <1>5, <1>6, <1>7, <1>8, <1>9, Zenon DEF Deliver, DeliverFails

LEMMA MailNext == PayloadInv /\ PayloadInv' /\ Kept /\ Kept' /\ [Next]_vars => MailStep
  <1> SUFFICES ASSUME PayloadInv, PayloadInv', Kept, Kept', [Next]_vars PROVE MailStep
    OBVIOUS
  <1>0. /\ queue \in Seq(Earned) /\ processing \in Seq(Earned) /\ child \in [Results -> ChildStates]
        /\ Earned \subseteq Payloads
    BY DEF PayloadInv, Sorts, Lists, Earned
  <1>1. ASSUME NEW r \in Results, ChildSettles(r) \/ Announce(r) PROVE MailStep
    <2>1. UNCHANGED <<queue, processing, told, dropped>>
      BY <1>1 DEF ChildSettles, Announce, lists, history
    <2>2. \/ child[r] = "running" /\ child' = [child EXCEPT ![r] = "settled"]
          \/ child[r] = "enqueued" /\ child' = [child EXCEPT ![r] = "announced"]
      BY <1>1 DEF ChildSettles, Announce
    <2>3. Posted' = Posted
      BY <1>0, <2>2 DEF Posted
    <2> QED BY <2>1, <2>3, MailStutters
  <1>2. ASSUME NEW r \in Results, Enqueue(r) PROVE MailStep
    <2> DEFINE p == [id |-> r, attempts |-> 0]
    <2>1. /\ child[r] = "settled" /\ child' = [child EXCEPT ![r] = "enqueued"] /\ queue' = Cons(p, queue)
          /\ UNCHANGED <<dropped, told, processing>>
      BY <1>2 DEF Enqueue, history
    <2>2. r \notin Posted /\ Posted' = Posted \union {r}
      BY <1>0, <2>1 DEF Posted
    <2>3. queue \in Seq(Payloads) /\ p \in Payloads /\ p.id = r
      BY <1>0, SeqKeeps DEF Payloads
    <2>4. Ids(queue') = Ids(queue) \union {r}
      BY <2>1, <2>3, IdsChange
    <2>5. Stored' = Stored \union {r}
      BY <2>1, <2>4 DEF Stored
    <2>6. Mailbox!Post(r)
      BY <2>1, <2>2, <2>5 DEF Mailbox!Post, Posted
    <2> QED BY <2>6 DEF MailStep, Mailbox!Next
  <1>3. CASE TurnStarts \/ TurnSettles \/ TurnWakes \/ WaitGoesOn \/ WaitFails \/ SweepStarts
             \/ SweepEnds \/ SweepFails \/ LockExpires \/ WindowExpires \/ GhostReaped \/ UNCHANGED vars
    <2>1. UNCHANGED <<queue, processing, told, dropped, child>>
      BY <1>3 DEF TurnStarts, TurnSettles, TurnWakes, WaitGoesOn, WaitFails, SweepStarts, SweepEnds,
                  SweepFails, LockExpires, WindowExpires, GhostReaped, vars, lists, history
    <2> QED BY <2>1, MailStutters DEF Posted
  <1>4. CASE WaitStarts
    <2>1. /\ UNCHANGED <<queue, processing, dropped, child>>
          /\ \E R \in SUBSET Results : told' = told \union R
      BY <1>4 DEF WaitStarts, lists
    <2>2. Posted' = Posted
      BY <2>1 DEF Posted
    <2> QED BY <2>1, <2>2, MailTells
  <1>5. CASE WaitRemoves
    <2>1. /\ UNCHANGED <<dropped, child, told>>
          /\ queue' \in {queue, RemoveFirst(queue, Head(scan))}
          /\ processing' \in {processing, RemoveFirst(processing, Head(scan))}
      BY <1>5 DEF WaitRemoves, lists, history
    <2>2. Ids(queue') \subseteq Ids(queue) /\ Ids(processing') \subseteq Ids(processing)
      BY <1>0, <2>1, IdsChange
    <2>3. Stored' \subseteq Stored /\ Posted' = Posted
      BY <2>1, <2>2 DEF Stored, Posted
    <2> QED BY <2>1, <2>3, MailShrinks
  <1>6. CASE SweepMoves
    <2>1. /\ UNCHANGED <<dropped, child, told>>
          /\ processing # <<>> /\ processing' = Front(processing) /\ queue' = Cons(Last(processing), queue)
      BY <1>6 DEF SweepMoves, history
    <2>2. Last(processing) \in Earned
      BY <1>0, <2>1, FrontElements
    <2>3. Ids(processing) = Ids(processing') \union {Last(processing).id}
      BY <1>0, <2>1, IdsChange
    <2>4. Ids(queue') = Ids(queue) \union {Last(processing).id}
      BY <1>0, <2>1, <2>2, IdsChange
    <2>5. Stored' \subseteq Stored /\ Posted' = Posted
      BY <2>1, <2>3, <2>4 DEF Stored, Posted
    <2> QED BY <2>1, <2>5, MailShrinks
  <1>7. CASE Restart
    <2>1. UNCHANGED <<queue, processing, dropped, told>>
      BY <1>7 DEF Restart, lists, history
    <2>2. Posted' = Posted
      BY <1>0, <1>7 DEF Restart, Posted
    <2> QED BY <2>1, <2>2, MailStutters
  <1> QED BY <1>1, <1>2, <1>3, <1>4, <1>5, <1>6, <1>7, MailCallStep DEF Next, ChildStep, TurnEnds, Sweep

\* Delivery implements the mailbox: at every step between two Redis calls, under
\* overlapping calls, sweeps, failing calls and restarts, a posted result stays in one of
\* the two lists until it is told or given up.
THEOREM DeliveryKeepsMailbox == Spec => KeepsMailbox
  <1>1. Init => Mailbox!Init
    BY DEF Init, Mailbox!Init, Stored, Ids, ToSet
  <1>2. PayloadInv /\ PayloadInv' /\ Kept /\ Kept' /\ [Next]_vars => [Mailbox!Next]_Mailbox!vars
    BY MailNext DEF MailStep
  <1> QED BY <1>1, <1>2, KeptHolds, PTL DEF Spec, KeepsMailbox, Mailbox!Spec

\* The abstract mailbox loses nothing
LEMMA MailboxHolds == KeepsMailbox => []Mailbox!NothingLost
  <1>1. Mailbox!Init => Mailbox!NothingLost
    BY DEF Mailbox!Init, Mailbox!NothingLost
  <1>2. Mailbox!NothingLost /\ [Mailbox!Next]_Mailbox!vars => Mailbox!NothingLost'
    <2> SUFFICES ASSUME Mailbox!NothingLost, [Mailbox!Next]_Mailbox!vars PROVE Mailbox!NothingLost'
      OBVIOUS
    <2>1. ASSUME NEW r \in Results, Mailbox!Post(r) \/ Mailbox!Repeat(r) \/ Mailbox!GiveUp(r)
          PROVE  Mailbox!NothingLost'
      BY <2>1 DEF Mailbox!NothingLost, Mailbox!Post, Mailbox!Repeat, Mailbox!GiveUp
    <2>2. ASSUME NEW R \in SUBSET Results, Mailbox!Tell(R) PROVE Mailbox!NothingLost'
      BY <2>2 DEF Mailbox!NothingLost, Mailbox!Tell
    <2>3. ASSUME NEW R \in SUBSET Results, Mailbox!Forget(R) PROVE Mailbox!NothingLost'
      BY <2>3 DEF Mailbox!NothingLost, Mailbox!Forget
    <2>4. CASE UNCHANGED Mailbox!vars
      BY <2>4 DEF Mailbox!vars, Mailbox!NothingLost
    <2> QED BY <2>1, <2>2, <2>3, <2>4 DEF Mailbox!Next
  <1> QED BY <1>1, <1>2, PTL DEF KeepsMailbox, Mailbox!Spec

\* No posted result is lost: one that has left both Redis lists was told to the parent or
\* given up, which is what the order of lpush, lmove and lrem is there for.
THEOREM MailboxLosesNothing == Spec => []Mailbox!NothingLost
  BY DeliveryKeepsMailbox, MailboxHolds, PTL
============================================================================
