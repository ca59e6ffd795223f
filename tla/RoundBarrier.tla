---------------------------- MODULE RoundBarrier ----------------------------
(***************************************************************************)
(* What synch_filter_processes() promises to the filter processes: rounds. *)
(* A process arrives at a round and leaves it only when every process has  *)
(* arrived at that round.  Nothing is said of semaphores here; SynchFilter *)
(* is the code that keeps this promise.                                    *)
(***************************************************************************)
EXTENDS Integers

CONSTANTS
    n_processes,    \* bfconf->n_processes
    MaxRound        \* bound on the rounds, for model checking

Proc == 0 .. n_processes - 1

VARIABLES
    arrived,        \* arrived[p]: rounds process p has entered
    passed          \* passed[p]: rounds process p has left

vars == <<arrived, passed>>

Init ==
    /\ arrived = [p \in Proc |-> 0]
    /\ passed  = [p \in Proc |-> 0]

Arrive(p) ==
    /\ arrived[p] = passed[p]
    /\ arrived[p] < MaxRound
    /\ arrived' = [arrived EXCEPT ![p] = @ + 1]
    /\ UNCHANGED passed

Leave(p) ==
    /\ arrived[p] = passed[p] + 1
    /\ \A q \in Proc : arrived[q] >= arrived[p]
    /\ passed' = [passed EXCEPT ![p] = @ + 1]
    /\ UNCHANGED arrived

Next == \E p \in Proc : Arrive(p) \/ Leave(p)

Spec == Init /\ [][Next]_vars
=============================================================================
