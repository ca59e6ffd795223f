----------------------------- MODULE CommandLine -----------------------------
(* The command line interface of bflogic_cli.c as operators: how a script   *)
(* is cut into sets of statements, what a statement enters into newstate,   *)
(* and how newstate is committed to the controls.  A statement is a record  *)
(* with the field op; an attenuation in dB is given as the factor it stands *)
(* for.  net is what the configuration says of filters and channels:        *)
(* channels[io] the channels, of[f] what filter f reads and writes, phys    *)
(* the physical channels, maxdelay, subdelays (the channels with a defined  *)
(* sub-sample delay), coeffs, maxblocks and slots.                          *)
EXTENDS Integers, Sequences, FiniteSets, SequencesExt

IOs == {"in", "out"}
Unchanged == -1           \* memset(newstate.delay, -1, ...)
Undefined(net) == -net.slots
EmptyStatement == [op |-> "empty"]

(* A physical channel that one virtual channel uses is handled by dai.c.    *)
OnlyOne(net, io, ch) ==
    \A other \in net.channels[io] : net.phys[io][other] = net.phys[io][ch] => other = ch

(* The controls: icomm->fctrl, delay, subdelay, ismuted by filter and by    *)
(* channel; the delays and mutes of dai.c by physical channel. A channel    *)
(* alone on its physical channel has its delay in both.                     *)
IsFcn(f, domain) == f = [x \in domain |-> f[x]]
ControlsOk(net, c) ==
    /\ IsFcn(c, {"fctrl", "delay", "subdelay", "ismuted", "dai_delay", "dai_muted"})
    /\ IsFcn(c.fctrl, DOMAIN net.of)
    /\ \A part \in DOMAIN c \ {"fctrl"} : IsFcn(c[part], IOs)
    /\ \A io \in IOs :
          /\ IsFcn(c.delay[io], net.channels[io]) /\ IsFcn(c.subdelay[io], net.channels[io])
          /\ IsFcn(c.dai_delay[io], DOMAIN c.dai_delay[io])
          /\ \A ch \in net.channels[io] : OnlyOne(net, io, ch) =>
                /\ net.phys[io][ch] \in DOMAIN c.dai_delay[io]
                /\ c.dai_delay[io][net.phys[io][ch]] = c.delay[io][ch]

(***************************************************************************)
(* Lines.                                                                  *)
(***************************************************************************)

(* parse_string(): an escape sequence or a character that is not supported *)
(* discards the whole line.                                                *)
Typed(line) == IF \E n \in DOMAIN line : line[n].op = "garbage" THEN <<>> ELSE line

(* block_start() ends the text it parses at an empty statement, and goes on *)
(* after it at the next block; what is left blank of a line is skipped.     *)
Cut(line) ==
    LET sets == FoldLeft(LAMBDA acc, st : IF st = EmptyStatement THEN Append(acc, <<>>)
                                          ELSE [acc EXCEPT ![Len(acc)] = Append(@, st)],
                         << <<>> >>, line)
    IN  IF sets[Len(sets)] = <<>> THEN Front(sets) ELSE sets
Sets(script) == FlattenSeq([n \in DOMAIN script |-> Cut(script[n])])

(***************************************************************************)
(* Statements.                                                             *)
(***************************************************************************)

(* get_id(): the identifiers that are refused; a negative set is no filter. *)
FilterId(net, f) == f \in DOMAIN net.of
ChannelId(net, io, ch) == ch \in net.channels[io]
CoeffId(net, coeff) == coeff < net.coeffs
IdsExist(net, st) ==
    CASE st.op = "scale" -> FilterId(net, st.f) /\ ChannelId(net, st.io, st.ch)
                                /\ st.ch \in net.of[st.f][st.io]
      [] st.op = "fscale" -> FilterId(net, st.f) /\ st.g \in net.of[st.f].from
      [] st.op = "coeff" -> FilterId(net, st.f) /\ CoeffId(net, st.coeff)
      [] st.op = "blocks" -> FilterId(net, st.f)
      [] st.op \in {"delay", "mute"} -> ChannelId(net, st.io, st.ch)
      [] OTHER -> TRUE
BlocksFit(net, n) == n \in 0..(net.maxblocks - 1)
SubdelayFits(net, n) == -net.slots < n /\ n < net.slots

(* A multiplier replaces a factor; an attenuation keeps its sign.           *)
Factor(old, st) == IF st.multiplier \/ old >= 0 THEN st.val ELSE -st.val

(* clear_changes(): nothing entered; the controls as they are now.          *)
ClearChanges(net, c) ==
    [fctrl |-> c.fctrl, fchanged |-> {}, toggle |-> [io \in IOs |-> {}],
     delay |-> [io \in IOs |-> [ch \in net.channels[io] |-> Unchanged]],
     subdelay |-> [io \in IOs |-> [ch \in net.channels[io] |-> Undefined(net)]]]

Toggled(set, x) == IF x \in set THEN set \ {x} ELSE set \union {x}

EnterDelay(net, st, ns) ==
    [ns EXCEPT !.delay[st.io][st.ch] = IF st.delay < 0 THEN @ ELSE st.delay,
               !.subdelay[st.io][st.ch] = IF SubdelayFits(net, st.sub) THEN st.sub ELSE @]

(* parse_command(): what a statement about the controls enters.             *)
Entered(net, st, ns) ==
    IF ~IdsExist(net, st) THEN ns ELSE
    CASE st.op = "scale" ->
            [ns EXCEPT !.fctrl[st.f].scale[st.io][st.ch] = Factor(@, st),
                       !.fchanged = @ \union {st.f}]
      [] st.op = "fscale" ->
            [ns EXCEPT !.fctrl[st.f].fscale[st.g] = Factor(@, st), !.fchanged = @ \union {st.f}]
      [] st.op = "coeff" ->
            [ns EXCEPT !.fctrl[st.f].coeff = st.coeff, !.fchanged = @ \union {st.f}]
      [] st.op = "blocks" /\ BlocksFit(net, st.n) ->
            [ns EXCEPT !.fctrl[st.f].delayblocks = st.n, !.fchanged = @ \union {st.f}]
      [] st.op = "delay" -> EnterDelay(net, st, ns)
      [] st.op = "mute" -> [ns EXCEPT !.toggle[st.io] = Toggled(@, st.ch)]
      [] OTHER -> ns

AreChanges(net, ns) ==
    \/ ns.fchanged # {}
    \/ \E io \in IOs : \/ ns.toggle[io] # {}
                       \/ \E ch \in net.channels[io] : \/ ns.delay[io][ch] # Unchanged
                                                       \/ ns.subdelay[io][ch] # Undefined(net)

(***************************************************************************)
(* Committing: the functions of bfrun.c behind struct bfaccess.            *)
(***************************************************************************)

(* set_delay(): more than the maximum of the channel is refused.            *)
DelaySet(net, io, ch, n, old) == IF n \in 0..net.maxdelay[io][ch] THEN n ELSE old
SubdelaySet(net, io, ch, n, old) ==
    IF ch \in net.subdelays[io] /\ SubdelayFits(net, n) THEN n ELSE old
Alone(net, io, set) == {net.phys[io][ch] : ch \in {x \in set : OnlyOne(net, io, x)}}

(* The first half of commit_changes(): delays and mutes, those of a channel *)
(* alone on its physical channel passed on to dai.c.                        *)
ChannelsCommitted(net, c, ns) ==
    LET asked(io) == {ch \in net.channels[io] : ns.delay[io][ch] # Unchanged}
        delay(io) == [ch \in net.channels[io] |->
                         IF ch \in asked(io) THEN DelaySet(net, io, ch, ns.delay[io][ch], c.delay[io][ch])
                         ELSE c.delay[io][ch]]
        mine(io, p) == CHOOSE ch \in net.channels[io] : net.phys[io][ch] = p
    IN  [c EXCEPT
            !.delay = [io \in IOs |-> delay(io)],
            !.subdelay = [io \in IOs |-> [ch \in net.channels[io] |->
                SubdelaySet(net, io, ch, ns.subdelay[io][ch], c.subdelay[io][ch])]],
            !.ismuted = [io \in IOs |-> SymDiff(@[io], ns.toggle[io])],
            !.dai_delay = [io \in IOs |-> [p \in DOMAIN @[io] |->
                IF p \in Alone(net, io, asked(io)) THEN delay(io)[mine(io, p)] ELSE @[io][p]]],
            !.dai_muted = [io \in IOs |-> SymDiff(@[io], Alone(net, io, ns.toggle[io]))]]

(* The second half: the whole control of every filter that was changed.     *)
FiltersCommitted(c, ns) ==
    [c EXCEPT !.fctrl = [f \in DOMAIN @ |-> IF f \in ns.fchanged THEN ns.fctrl[f] ELSE @[f]]]

(***************************************************************************)
(* What the statements promise, one at a time and at once: the reference.  *)
(***************************************************************************)
Changed(net, st, c) ==
    IF ~IdsExist(net, st) THEN c ELSE
    CASE st.op = "scale" -> [c EXCEPT !.fctrl[st.f].scale[st.io][st.ch] = Factor(@, st)]
      [] st.op = "fscale" -> [c EXCEPT !.fctrl[st.f].fscale[st.g] = Factor(@, st)]
      [] st.op = "coeff" -> [c EXCEPT !.fctrl[st.f].coeff = st.coeff]
      [] st.op = "blocks" /\ BlocksFit(net, st.n) -> [c EXCEPT !.fctrl[st.f].delayblocks = st.n]
      [] st.op = "delay" ->
            LET d == DelaySet(net, st.io, st.ch, st.delay, c.delay[st.io][st.ch])
            IN  [c EXCEPT !.delay[st.io][st.ch] = d,
                          !.subdelay[st.io][st.ch] = SubdelaySet(net, st.io, st.ch, st.sub, @),
                          !.dai_delay[st.io][net.phys[st.io][st.ch]] =
                              IF OnlyOne(net, st.io, st.ch) THEN d ELSE @]
      [] st.op = "mute" ->
            [c EXCEPT !.ismuted[st.io] = Toggled(@, st.ch),
                      !.dai_muted[st.io] = IF OnlyOne(net, st.io, st.ch)
                                           THEN Toggled(@, net.phys[st.io][st.ch]) ELSE @]
      [] OTHER -> c
=============================================================================
