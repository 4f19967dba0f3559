-------------------------- MODULE MCCronScheduler --------------------------
(* Instances of CronScheduler for TLC *)
EXTENDS CronScheduler, TLC

CONSTANTS t1, u1, k1, k2, e1, e2, d1

MCOwnerOf == [t \in Tasks |-> u1]
MCChanges ==
    {[enabled |-> "on", schedule |-> "every"], [enabled |-> "off", schedule |-> "keep"],
     [enabled |-> "keep", schedule |-> "at"]}
MCSymmetry == Permutations(Execs) \union Permutations(Ticks)
============================================================================
