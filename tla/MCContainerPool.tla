-------------------------- MODULE MCContainerPool --------------------------
(* Instances of ContainerPool for TLC *)
EXTENDS ContainerPool, TLC

CONSTANTS p1, p2, p3, p4, q1, s1, s2

\* Runs of one session compete for its lock, sessions for the slots
MCSessionOf == (p1 :> s1) @@ (p2 :> s1) @@ (p3 :> s2)
MCSessionOfLive == (p1 :> s1) @@ (p2 :> s1) @@ (p4 :> s1)
============================================================================
