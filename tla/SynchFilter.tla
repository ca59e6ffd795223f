----------------------------- MODULE SynchFilter -----------------------------
(***************************************************************************)
(* synch_filter_processes() of bfrun.c: the filter processes wait for each *)
(* other three (or four) times per block.  Each process owns one counting  *)
(* semaphore (filter2filter_pipes[n]); to synchronise it posts the         *)
(* semaphore of every other process, one after the other, and then takes   *)
(* n_processes - 1 tokens from its own.  Tokens are anonymous: a process   *)
(* cannot tell whose post it consumed nor to which round it belonged, and  *)
(* a fast process may post for the next round before a slow one has taken  *)
(* its tokens of the current round.                                        *)
(***************************************************************************)
EXTENDS Integers, FiniteSets

CONSTANTS
    n_processes,    \* bfconf->n_processes
    MaxRound        \* bound on the synchronisations, for model checking

ASSUME NProcessesAssumption == n_processes \in Nat \ {0}
ASSUME MaxRoundAssumption   == MaxRound \in Nat

Proc == 0 .. n_processes - 1

VARIABLES
    pc,             \* "work", "post" (the for loop) or "wait" (bf_sem_waitmany)
    n,              \* n[p]: loop variable of the posting loop
    i,              \* i[p]: tokens taken so far by bf_sem_waitmany
    count,          \* count[p]: the counter of filter2filter_pipes[p]
    arrived,        \* history: synchronisations p has entered
    passed,         \* history: synchronisations p has left
    sent            \* history: sent[p], every <<sender, round>> ever posted to p

vars == <<pc, n, i, count, arrived, passed, sent>>

TypeOK ==
    /\ pc \in [Proc -> {"work", "post", "wait"}]
    /\ n \in [Proc -> 0 .. n_processes]
    /\ i \in [Proc -> 0 .. n_processes - 1]
    /\ count \in [Proc -> Nat]
    /\ arrived \in [Proc -> Nat]
    /\ passed \in [Proc -> Nat]
    /\ sent \in [Proc -> SUBSET (Proc \X Nat)]

Init ==
    /\ pc = [p \in Proc |-> "work"]
    /\ n = [p \in Proc |-> 0]
    /\ i = [p \in Proc |-> 0]
    /\ count = [p \in Proc |-> 0]
    /\ arrived = [p \in Proc |-> 0]
    /\ passed = [p \in Proc |-> 0]
    /\ sent = [p \in Proc |-> {}]

\* Mutants of Wanted: one token too few, and the process waits for itself too.
Wanted_OneShort == n_processes - 2
Wanted_OneMore  == n_processes

\* The tokens a process has to collect before it may go on.
Wanted == n_processes - 1

Arrive(p) ==
    /\ pc[p] = "work"
    /\ arrived[p] < MaxRound
    /\ pc' = [pc EXCEPT ![p] = "post"]
    /\ n' = [n EXCEPT ![p] = 0]
    /\ arrived' = [arrived EXCEPT ![p] = @ + 1]
    /\ UNCHANGED <<i, count, passed, sent>>

\* Mutant of Notifies: the "n != process_index" test is gone.
Notifies_Self(p, q) == TRUE

\* Is the process at loop index q one that p has to notify?
Notifies(p, q) == q # p

\* One iteration of the posting loop.
Post(p) ==
    /\ pc[p] = "post"
    /\ n[p] < n_processes
    /\ IF Notifies(p, n[p])
         THEN /\ count' = [count EXCEPT ![n[p]] = @ + 1]
              /\ sent' = [sent EXCEPT ![n[p]] = @ \cup {<<p, arrived[p]>>}]
         ELSE UNCHANGED <<count, sent>>
    /\ n' = [n EXCEPT ![p] = @ + 1]
    /\ UNCHANGED <<pc, i, arrived, passed>>

EndPost(p) ==
    /\ pc[p] = "post"
    /\ n[p] = n_processes
    /\ pc' = [pc EXCEPT ![p] = "wait"]
    /\ i' = [i EXCEPT ![p] = 0]
    /\ UNCHANGED <<n, count, arrived, passed, sent>>

\* Mutant of Take: the counter is not looked at.
Take_NoWait(p) ==
    /\ pc[p] = "wait"
    /\ i[p] < Wanted
    /\ count' = [count EXCEPT ![p] = @ - 1]
    /\ i' = [i EXCEPT ![p] = @ + 1]
    /\ UNCHANGED <<pc, n, arrived, passed, sent>>

\* One token of bf_sem_waitmany.
Take(p) ==
    /\ pc[p] = "wait"
    /\ i[p] < Wanted
    /\ count[p] > 0
    /\ count' = [count EXCEPT ![p] = @ - 1]
    /\ i' = [i EXCEPT ![p] = @ + 1]
    /\ UNCHANGED <<pc, n, arrived, passed, sent>>

Leave(p) ==
    /\ pc[p] = "wait"
    /\ i[p] = Wanted
    /\ pc' = [pc EXCEPT ![p] = "work"]
    /\ i' = [i EXCEPT ![p] = 0]
    /\ passed' = [passed EXCEPT ![p] = @ + 1]
    /\ UNCHANGED <<n, count, arrived, sent>>

Step(p) == Arrive(p) \/ Post(p) \/ EndPost(p) \/ Take(p) \/ Leave(p)

Next == \E p \in Proc : Step(p)

\* A filter process inside synch_filter_processes() is a runnable thread; its
\* work before the next call is finite as well, so no thread stops for ever
\* while it can take a step.
Fairness == \A p \in Proc : WF_vars(Step(p))

Spec == Init /\ [][Next]_vars /\ Fairness

-----------------------------------------------------------------------------
(* Properties *)

\* A process that has left its k-th synchronisation knows that every other
\* process has at least entered its own k-th: what the code relies on when it
\* reads frequency-domain buffers that other processes have written.
BarrierSafe == \A p, q \in Proc : passed[p] <= arrived[q]

\* Tokens of a later round may be taken in place of late ones of this round,
\* but they never pile up: at any moment the semaphore of p holds, for every
\* other process, at most the post of the current round and of the next one.
TokensBounded == \A p \in Proc : count[p] <= 2 * Wanted

\* When every process has left the same synchronisation nothing is left over in
\* the semaphores: no token can leak into a later one.
NoLeftover ==
    (\A p \in Proc : pc[p] = "work") /\ (\A p, q \in Proc : passed[p] = passed[q])
        => \A p \in Proc : count[p] = 0

\* Nobody is stuck in a synchronisation: whoever arrives leaves.
EveryoneLeaves == \A p \in Proc : pc[p] = "post" ~> pc[p] = "work"

\* The code implements the abstract barrier.
Abstract == INSTANCE RoundBarrier
AbstractSpec == Abstract!Spec
=============================================================================
