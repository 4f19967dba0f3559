---------------------------- MODULE AtLeastOnce ----------------------------
(***************************************************************************)
(* What result delivery promises, whatever crashes or fails: a posted      *)
(* result stays in the mailbox until the parent has been told of it or it  *)
(* was given up for good.  Being told again is allowed, and so is being    *)
(* told by task_wait before the outcome is posted.                         *)
(***************************************************************************)
CONSTANT Results

VARIABLES
    posted,   \* results whose outcome the system has accepted
    mailbox,  \* results it still holds
    told,     \* results the parent has been given
    dropped   \* results given up

vars == <<posted, mailbox, told, dropped>>

Init == posted = {} /\ mailbox = {} /\ told = {} /\ dropped = {}

Post(r) ==
    /\ r \notin posted
    /\ posted' = posted \union {r}
    /\ mailbox' = mailbox \union {r}
    /\ UNCHANGED <<told, dropped>>

\* Telling may forget at once what is told (a tool call consuming its results)
Tell(R) ==
    /\ told' = told \union R
    /\ \E S \in SUBSET R : mailbox' = mailbox \ S
    /\ UNCHANGED <<posted, dropped>>

\* A copy of a result already told, or given up, leaves the mailbox ...
Forget(R) ==
    /\ R \subseteq told \union dropped
    /\ mailbox' = mailbox \ R
    /\ UNCHANGED <<posted, told, dropped>>

\* ... or comes back to it
Repeat(r) ==
    /\ r \in posted \intersect (told \union dropped)
    /\ mailbox' = mailbox \union {r}
    /\ UNCHANGED <<posted, told, dropped>>

GiveUp(r) ==
    /\ r \in posted
    /\ dropped' = dropped \union {r}
    /\ mailbox' \in {mailbox, mailbox \ {r}}
    /\ UNCHANGED <<posted, told>>

Next ==
    \/ \E r \in Results : Post(r) \/ Repeat(r) \/ GiveUp(r)
    \/ \E R \in SUBSET Results : Tell(R) \/ Forget(R)

Spec == Init /\ [][Next]_vars

\* Nothing posted is lost
NothingLost == posted \subseteq mailbox \union told \union dropped
============================================================================
