-------------------------- MODULE MCTaskExecutor --------------------------
(* Small instances of TaskExecutor: two users, the first one with a lower quota. *)
EXTENDS TaskExecutor, TLC

CONSTANTS t1, t2, t3, t4, u1, u2

\* Four tasks: u1 submits three of them, one after the other or at once
MCTasks4 == {t1, t2, t3, t4}
MCUserOf4 == (t1 :> u1) @@ (t2 :> u1) @@ (t4 :> u1) @@ (t3 :> u2)
MCSymmetry == Permutations({t1, t2, t4})

\* Both tasks of the user with the lower quota
MCTasks1 == {t1, t2}
MCUserOf1 == (t1 :> u1) @@ (t2 :> u1)

MCConc == (u1 :> 1) @@ (u2 :> 2)
MCPend == (u1 :> 1) @@ (u2 :> 2)
============================================================================
