----------------------------- MODULE BlockStream -----------------------------
(***************************************************************************)
(* What the pipeline promises to its user, whatever threads it is built    *)
(* of: blocks come out in the order they went in, none is lost, repeated   *)
(* or made up, and never more than depth of them are inside, so that the   *)
(* I/O delay is bounded.                                                   *)
(***************************************************************************)
EXTENDS Integers

VARIABLES
    depth,          \* the largest number of blocks inside, fixed at the start
    taken,          \* blocks the inputs have delivered
    played          \* blocks the outputs have got

vars == <<depth, taken, played>>

Init == depth \in Nat /\ taken = 0 /\ played = 0

Accept ==
    /\ taken < played + depth
    /\ taken' = taken + 1
    /\ UNCHANGED <<depth, played>>

Play ==
    /\ played < taken
    /\ played' = played + 1
    /\ UNCHANGED <<depth, taken>>

Next == Accept \/ Play

Spec == Init /\ [][Next]_vars
=============================================================================
