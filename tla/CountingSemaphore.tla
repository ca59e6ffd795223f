------------------------- MODULE CountingSemaphore -------------------------
(***************************************************************************)
(* What bfconcurrency.c promises to its callers: a counting semaphore.     *)
(* bf_sem_postmany(s, k) adds k tokens, bf_sem_waitmany(s, k) returns once *)
(* it has removed k of them, in one step as far as the callers can tell.   *)
(* Pipeline and SynchFilter are built on this promise; BfSem is the code   *)
(* that keeps it.                                                          *)
(***************************************************************************)
EXTENDS Integers

VARIABLES
    users,          \* the threads that call bf_sem_waitmany,
    post, wait,     \* the counts that are posted and waited for: they never change
    avail,          \* tokens nobody has been given
    waiting         \* the threads inside bf_sem_waitmany

vars == <<users, post, wait, avail, waiting>>

Init ==
    /\ post \in Nat \ {0} /\ wait \in Nat \ {0}
    /\ avail = 0 /\ waiting = {}

Post ==
    /\ avail' = avail + post
    /\ UNCHANGED waiting

Call(w) ==
    /\ w \notin waiting
    /\ waiting' = waiting \cup {w}
    /\ UNCHANGED avail

Return(w) ==
    /\ w \in waiting
    /\ avail >= wait
    /\ avail' = avail - wait
    /\ waiting' = waiting \ {w}

Next ==
    /\ Post \/ \E w \in users : Call(w) \/ Return(w)
    /\ UNCHANGED <<users, post, wait>>

\* While there are tokens enough for one of the waiting threads, one returns.
Fairness == WF_vars((\E w \in users : Return(w)) /\ UNCHANGED <<users, post, wait>>)

Spec == Init /\ [][Next]_vars /\ Fairness
=============================================================================
