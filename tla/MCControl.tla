------------------------------ MODULE MCControl ------------------------------
(* Scripts and clients control one or two filter processes and one or two   *)
(* equalisers.                                                             *)
EXTENDS Control

(* Statements.                                                             *)
Scale(io, f, ch, mul, v) == [op |-> "scale", io |-> io, f |-> f, ch |-> ch, multiplier |-> mul, val |-> v]
FScale(f, g, mul, v) == [op |-> "fscale", f |-> f, g |-> g, multiplier |-> mul, val |-> v]
Coeff(f, c) == [op |-> "coeff", f |-> f, coeff |-> c]
Blocks(f, n) == [op |-> "blocks", f |-> f, n |-> n]
Delay(io, ch, d, s) == [op |-> "delay", io |-> io, ch |-> ch, delay |-> d, sub |-> s]
Mute(io, ch) == [op |-> "mute", io |-> io, ch |-> ch]
Lmc(c, what, list) == [op |-> "lmc", coeff |-> c, cmd |-> [what |-> what, list |-> list]]
SleepB(n) == [op |-> "sleep", blocks |-> TRUE, n |-> n]
SleepT(n) == [op |-> "sleep", blocks |-> FALSE, n |-> n]
Quit == [op |-> "quit"]
Garbage == [op |-> "garbage"]
Mag(c, f, v) == Lmc(c, "mag", <<<<f, v>>>>)

(* Two inputs on one physical channel, two outputs; filter 1 also reads     *)
(* filter 0; of the outputs only the first has a sub-sample delay.          *)
Network(owner) ==
    [channels |-> [in |-> {0, 1}, out |-> {0, 1}],
     of |-> 0 :> [in |-> {0}, out |-> {0}, from |-> {}]
         @@ 1 :> [in |-> {1}, out |-> {1}, from |-> {0}],
     phys |-> [in |-> 0 :> 0 @@ 1 :> 0, out |-> 0 :> 0 @@ 1 :> 1],
     maxdelay |-> [in |-> 0 :> 2 @@ 1 :> 2, out |-> 0 :> 2 @@ 1 :> -1],
     subdelays |-> [in |-> {}, out |-> {0}],
     coeffs |-> 4, maxblocks |-> 2, slots |-> 3, owner |-> owner]

FilterControl(c, from) ==
    [coeff |-> c, delayblocks |-> 0, fscale |-> [g \in from |-> 1],
     scale |-> [io \in IOs |-> [ch \in {0, 1} |-> 1]]]
ControlWith(c0, c1) ==
    [fctrl |-> 0 :> FilterControl(c0, {}) @@ 1 :> FilterControl(c1, {0}),
     delay |-> [io \in IOs |-> 0 :> 0 @@ 1 :> 0], subdelay |-> [io \in IOs |-> 0 :> 0 @@ 1 :> -3],
     ismuted |-> [io \in IOs |-> {}],
     dai_delay |-> [in |-> 0 :> 0, out |-> 0 :> 0 @@ 1 :> 0], dai_muted |-> [io \in IOs |-> {}]]

Entry(coeff) == [coeff |-> coeff, preset |-> FALSE, bands |-> <<2, 5>>, mag |-> <<<<5, 1>>>>, phase |-> <<>>]
Eqs(entries) == [entries |-> entries, nyquist |-> 8, length |-> 4, blocks |-> [c \in 0..3 |-> 2]]
OneEq == Eqs(<<Entry(<<0, 1>>)>>)
TwoEqs == Eqs(<<Entry(<<0, 1>>), [Entry(<<3>>) EXCEPT !.preset = TRUE, !.bands = <<2, 5, 9>>]>>)

OneProc == <<<<0, 1>>>>
TwoProcs == <<<<0>>, <<1>>>>

Base == [port |-> "none", script |-> <<>>, sessions |-> <<>>, hangup |-> TRUE, net |-> Network(OneProc),
         control |-> ControlWith(0, 2), eq |-> OneEq]

(* A script for two processes: sets that span filters, channels and signs.  *)
Scripted ==
    [Base EXCEPT !.net = Network(TwoProcs), !.eq = Eqs(<<>>),
     !.script = <<<<EmptyStatement, Coeff(0, 2), Mute("out", 1), Coeff(1, -1), EmptyStatement,
                    Scale("out", 1, 1, TRUE, -2), Scale("out", 1, 1, FALSE, 3), Mute("in", 0), SleepT(2), SleepB(1)>>,
                  <<>>,
                  <<Delay("out", 0, 1, 2), Delay("out", 1, 1, 1), Delay("in", 1, 2, 4), Blocks(0, 1), Blocks(1, 2),
                    FScale(1, 0, FALSE, 2), Mute("out", 1), Mute("in", 1), Mute("in", 1), SleepT(1), Quit>>>>]
(* A script that runs round.                                               *)
Looping ==
    [Base EXCEPT !.net = Network(TwoProcs),
     !.script = <<<<Scale("in", 0, 0, FALSE, 2), Mute("out", 1), SleepT(1), EmptyStatement, Scale("in", 0, 0, TRUE, -1),
                    EmptyStatement, Mute("in", 0)>>>>]
(* A script that changes the equaliser and quits.                           *)
Equalised ==
    [Base EXCEPT !.script = <<<<Mag(0, 2, 3), Mag(0, 5, 4), Coeff(1, 0), EmptyStatement, Mag(0, 2, 5), SleepB(0)>>,
                              <<Lmc(1, "phase", <<<<2, 1>>, <<5, 2>>>>), Mag(2, 2, 1), Mag(0, 3, 1), Quit, Mag(0, 8, 1)>>>>]
(* Two equalisers from a pipe, with answers, in bursts.                     *)
Piped ==
    [Base EXCEPT !.port = "pipe", !.eq = TwoEqs, !.control = ControlWith(1, 3),
     !.sessions = <<<<<<<<Mag(0, 2, 3), Mag(3, 2, 4), Mag(0, 5, 2)>>>>,
                      <<<<Mag(3, 5, 6), Lmc(0, "info", <<>>), Coeff(0, 0)>>, <<Quit>>>>,
                      <<<<Lmc(3, "info", <<>>)>>>>>>>>]
(* Two clients of a socket control two processes.                           *)
Served ==
    [Base EXCEPT !.port = "tcp", !.net = Network(TwoProcs), !.eq = Eqs(<<>>),
     !.sessions = <<<<<<<<Coeff(0, 2), Scale("in", 0, 0, FALSE, 2), Mute("out", 0), Coeff(1, 0), EmptyStatement,
                          Scale("in", 1, 0, TRUE, 5), Coeff(7, 1), Coeff(1, 9), Delay("out", 0, 2, 1)>>,
                        <<Garbage, Coeff(0, 1)>>>>>>,
                    <<<<<<Mute("out", 0), Blocks(1, 1), FScale(1, 0, TRUE, -3), SleepB(1), Quit, Mute("in", 0)>>, <<Coeff(0, 0)>>>>>>>>]
(* An equaliser that two processes answer for, or that loses its filter.    *)
Shared ==
    [Base EXCEPT !.port = "local", !.net = Network(TwoProcs), !.control = ControlWith(0, 0), !.hangup = FALSE,
     !.sessions = <<<<<<<<Mag(0, 2, 3)>>>>, <<<<Mag(0, 2, 4)>>>>>>>>]
Lost ==
    [Base EXCEPT !.port = "serial",
     !.sessions = <<<<<<<<Mag(0, 2, 3), Coeff(0, 2)>>>>, <<<<Mag(0, 2, 1)>>, <<Lmc(0, "info", <<>>), Coeff(0, 0)>>>>>>>>]

(* Refused: a script and a port, neither, no statement; a set in common, an *)
(* unsorted list, sets of different lengths.                                *)
Refused ==
    {[Scripted EXCEPT !.port = "tcp"], Base, [Base EXCEPT !.script = <<<<>>>>],
     [Piped EXCEPT !.eq = Eqs(<<Entry(<<0, 1>>), Entry(<<1, 3>>)>>)],
     [Piped EXCEPT !.eq = Eqs(<<[Entry(<<0, 1>>) EXCEPT !.mag = <<<<5, 1>>, <<2, 1>>>>]>>)],
     [Piped EXCEPT !.eq = [OneEq EXCEPT !.blocks[1] = 1]]}

MCConfs == {Scripted, Looping, Equalised, Piped, Served, Shared, Lost} \union Refused
=============================================================================
