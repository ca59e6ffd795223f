----------------------------- MODULE MCBlockingIO -----------------------------
(* Devices of every kind are configured, initialised and run under          *)
(* dai_input() and dai_output().                                           *)
EXTENDS BlockingIO, DeviceInit

MCWidth == [s8 |-> 1, s16 |-> 2, float64 |-> 1]

(* A card with periods of at least min and at most max frames.             *)
Periods(min, max, buffer) ==
    [asked \in 0..8 |->
        LET size == IF asked < min THEN min ELSE IF asked > max THEN max ELSE asked
        IN  [size |-> size, periods |-> buffer \div size]]
AnyPeriod == Periods(1, 4, 8)

Hardware == [exists |-> TRUE, len |-> 100, modes |-> {"MMAP_INTERLEAVED", "RW_INTERLEAVED"},
             formats |-> {"s8", "s16"}, channels |-> 1..3, maxperiods |-> 8, near |-> AnyPeriod,
             duplex |-> FALSE, fragment |-> 1]

(* Samples of one byte, two channels, both used; the stream of an input is  *)
(* long enough for the run.                                                *)
Device(kind) ==
    [kind |-> kind, name |-> "hw0", format |-> "s8", open |-> 2, sel |-> <<0, 1>>, text |-> FALSE,
     skip |-> 0, append |-> FALSE, loop |-> FALSE, force |-> "none", link |-> "unset",
     hw |-> Hardware, from |-> <<<<1, 1>>, <<1, 2>>>>]
File == Device("file")
Alsa == Device("alsa")
Oss == Device("oss")

Mono(d) == [d EXCEPT !.open = 1, !.sel = <<0>>]
Text(d) == [d EXCEPT !.text = TRUE, !.format = "auto"]
Size(d, n) == [d EXCEPT !.hw.len = n]

Conf(ins, outs) ==
    LET devs == [ins |-> ins, outs |-> outs, period |-> 2]
        in(u) == Opened(u, "in", 2)
        ou(u) == Opened(u, "out", 2)
    IN  [starts |-> Starts(devs), poll |-> TRUE, period |-> 2, align |-> 4,
         ins |-> IF Starts(devs) THEN [n \in DOMAIN ins |-> in(ins[n])] ELSE <<in(File)>>,
         outs |-> IF Starts(devs) THEN [n \in DOMAIN outs |-> ou(outs[n])] ELSE <<ou(File)>>,
         mutable |-> {}, toggles |-> 0, agains |-> 1, clients |-> {}, questions |-> <<>>, asks |-> 0]

PolledCard == [Alsa EXCEPT !.format = "s16", !.sel = <<1, 0>>, !.hw.near = Periods(3, 3, 8),
                           !.hw.len = 16]

RunConfs == {
    \* poll mode, channels in another order than on the device, one of three unused
    [Conf(<<PolledCard>>,
          <<[Alsa EXCEPT !.format = "s16", !.open = 3, !.sel = <<2, 0>>,
                         !.hw.near = Periods(1, 4, 2)]>>)
     EXCEPT !.mutable = {<<"in", 1, 1>>, <<"out", 1, 1>>, <<"out", 1, 2>>}, !.toggles = 1],
    \* non-interleaved access, next to a file that ends
    [Conf(<<[Alsa EXCEPT !.open = 3, !.sel = <<2, 0>>, !.hw.modes = {"MMAP_NONINTERLEAVED"}],
            Size(Mono(File), 5)>>,
          <<[Alsa EXCEPT !.hw.modes = {"RW_NONINTERLEAVED"}, !.from = <<<<2, 1>>, <<1, 1>>>>]>>)
     EXCEPT !.mutable = {<<"in", 1, 2>>, <<"out", 1, 1>>}, !.toggles = 1],
    \* a file that ends within a frame, one that is repeated, files written
    Conf(<<[Size(File, 12) EXCEPT !.skip = 1],
           [Size(Mono(File), 4) EXCEPT !.skip = 1, !.loop = TRUE]>>,
         <<[File EXCEPT !.from = <<<<2, 1>>, <<1, 2>>>>], Text(Mono(File))>>),
    \* two files that end in the same period, after different numbers of frames
    Conf(<<Text(Mono(Size(File, 4))), Size(File, 10)>>,
         <<[File EXCEPT !.from = <<<<2, 2>>, <<1, 1>>>>]>>),
    \* a pipe that takes any number of bytes, muted and unmuted meanwhile
    [Conf(<<Text(Size(File, 10))>>, <<File>>) EXCEPT !.mutable = {<<"out", 1, 2>>}, !.toggles = 2],
    \* devices that take any number of bytes, but only a block at a time
    [Conf(<<Mono(Oss), Text(Mono(Size(File, 4)))>>,
          <<[Mono(Oss) EXCEPT !.name = "hw1"]>>)
     EXCEPT !.mutable = {<<"out", 1, 1>>}, !.toggles = 1],
    \* two callers of the devices, of one direction or both, or of one there is not
    [Conf(<<Text(Mono(Size(File, 5)))>>, <<Text(Mono(File)), Text(Mono(File))>>)
     EXCEPT !.clients = {1, 2}, !.asks = 1,
            !.questions = <<{<<"in", 1>>, <<"out", 1>>}, {<<"out", 2>>, <<"out", 0>>}>>]
}

(* Devices that are refused, or fail at the first transfer.                *)
FailingConfs == {
    [Conf(<<PolledCard>>, <<File>>) EXCEPT !.poll = FALSE],
    Conf(<<[Alsa EXCEPT !.hw.modes = {"RW_NONINTERLEAVED"}]>>, <<File>>),
    Conf(<<File>>, <<[Alsa EXCEPT !.hw.modes = {"RW_NONINTERLEAVED"}, !.force = "RW_NONINTERLEAVED"]>>),
    Conf(<<[Alsa EXCEPT !.link = "no"]>>, <<[Alsa EXCEPT !.link = "yes"]>>),
    Conf(<<Oss>>, <<Oss>>),
    Conf(<<Size([File EXCEPT !.loop = TRUE], 0)>>, <<File>>),
    Conf(<<[File EXCEPT !.append = TRUE]>>, <<File>>)
}
MCConfs == RunConfs \cup FailingConfs

(* A second card beside one that has to be polled: in place of MCConfs, TLC *)
(* finds StreamIntact violated.                                            *)
PolledPairConfs == {
    Conf(<<Mono(PolledCard), [Mono(PolledCard) EXCEPT !.name = "hw1"]>>,
         <<[File EXCEPT !.format = "s16", !.from = <<<<1, 1>>, <<2, 1>>>>]>>)
}

-----------------------------------------------------------------------------
FillPeriods(d) == IF d.clock THEN 2 ELSE 0

(* The byte of an input's stream at a byte of its period p.                *)
Source(m, p, r) ==
    LET d == conf.ins[m]
        at == p * BufSize(d) + r
    IN  <<m, d.skip + (IF d.loop THEN at % (d.len - d.skip) ELSE at)>>

(* What output n may send at its byte q: the channel it is fed from two    *)
(* periods before if it is clocked, silence where muted.                   *)
Allowed(n, q, byte) ==
    LET d == conf.outs[n]
        p == q \div BufSize(d) - FillPeriods(d)
        r == q % BufSize(d)
        chs == {i \in DOMAIN d.sel : Selected(d, i) = (r % FrameSize(d)) \div d.bytes}
    IN  IF p < 0 \/ chs = {} THEN {Zero}
        ELSE LET i == CHOOSE x \in chs : TRUE
                 m == d.from[i][1]
                 s == conf.ins[m]
                 token == Source(m, p, (r \div FrameSize(d)) * FrameSize(s)
                                       + Selected(s, d.from[i][2]) * s.bytes + (r % d.bytes))
             IN  IF <<"in", m, d.from[i][2]>> \in inMutes[p + 1] \/ i \in byte.mute THEN {Zero}
                 ELSE IF i \in byte.before THEN {Zero, token} ELSE {token}

Endings == {n \in DOMAIN conf.ins : conf.ins[n].kind \in {"raw", "text"} /\ ~conf.ins[n].loop}
Frames(n) == (conf.ins[n].len - conf.ins[n].skip) \div FrameSize(conf.ins[n])


(* Not refused by dai_init() and no error of a device.                     *)
Runs == ~Refused /\ \A n \in DOMAIN conf.ins : conf.ins[n].fits
                 /\ \A k \in DOMAIN conf.outs : conf.outs[k].fits

(* A file that ends is played to its end, though a device is not ready for *)
(* a while and commands are served in between, unless calls of             *)
(* dai_subdev_command() that overlap bring the program down.               *)
PlaysToTheEnd ==
    <>(Endings = {} \/ ~Runs \/ out.pc = "ended" \/ (out.pc = "exit" /\ ~msg.alone))
=============================================================================
