---------------------------- MODULE MCDelayLine -----------------------------
(* Channels with and without a fixed delay; FragSize is 3, so a delay of up to 3 is    *)
(* short, and delays of up to 8 take a ring of three fragments and a rest.             *)
EXTENDS DelayLine

Conf(d, m, e) == [delay |-> d, maxdelay |-> m, extra |-> e]

\* fixed delays: a short one, one that fills the fragment, a long one with and without rest
Fixed == {Conf(d, -1, 0) : d \in {0, 2, 3, 6, 7}}

Variable == {Conf(d, 7, e) : d \in {0, 3, 7}, e \in {0, 1}} \cup {Conf(1, 2, 0), Conf(0, 0, 1), Conf(2, 3, 1)}

Accepted == Fixed \cup Variable

\* a fixed delay on a channel without sub-sample delay, next to channels that have one
FixedNextToSubdelay == {Conf(0, -1, 2), Conf(4, -1, 2)}
=============================================================================
