---------------------------- MODULE MCSynchFilter ----------------------------
(* SynchFilter with three processes: the smallest number with which a token *)
(* of a fast process can stand in for the one of a slow process.            *)
EXTENDS SynchFilter
=============================================================================
