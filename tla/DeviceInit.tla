----------------------------- MODULE DeviceInit -----------------------------
(***************************************************************************)
(* bfio_preinit() and bfio_init() of the file, ALSA and OSS modules: which *)
(* devices of a configuration are accepted, and what dai.c then knows of   *)
(* them (init_input(), init_output()).                                     *)
(*                                                                         *)
(* A device u of the configuration: kind, name (path or device, "" if not  *)
(* given), format, open channels, sel (the used ones); files: text, skip,  *)
(* append and loop; ALSA: force (an access mode or "none") and link ("yes", *)
(* "no" or "unset").  hw                                                   *)
(* is what the system offers it: exists and len of a file; the access      *)
(* modes, formats and channel counts of a card, maxperiods, and near: for  *)
(* a period in frames the nearest one with the number of periods it gives; *)
(* duplex and the frames of a fragment for OSS.                            *)
(***************************************************************************)
EXTENDS Integers, Sequences, FiniteSets

CONSTANT Width        \* bytes of a sample, for each format

PowersOfTwo == {1, 2, 4, 8, 16, 32, 64}
FrameBytes(u) == u.open * Width[u.format]

-----------------------------------------------------------------------------
(* Files: text is converted from and to doubles.                           *)
FilePreinit(u, io) ==
    /\ u.name # ""
    /\ u.append => io = "out"
    /\ u.loop => io = "in"
    /\ IF u.text THEN u.format \in {"auto", "float64"} ELSE u.format # "auto"
FileFormat(u) == IF u.text /\ u.format = "auto" THEN "float64" ELSE u.format

FileInit(u, io) ==
    io = "in" => /\ u.hw.exists
                 /\ u.loop => u.hw.len > 0

-----------------------------------------------------------------------------
(* ALSA: the access mode that was forced, or the first of four the card    *)
(* has.  The table says mmap of the last one, though it is not.            *)
AccessModes == <<"MMAP_INTERLEAVED", "MMAP_NONINTERLEAVED", "RW_INTERLEAVED", "RW_NONINTERLEAVED">>
Interleaved == {"MMAP_INTERLEAVED", "RW_INTERLEAVED"}
Mmap == {"MMAP_INTERLEAVED", "MMAP_NONINTERLEAVED"}

Usable(u) == {i \in 1..4 : AccessModes[i] \in u.hw.modes}
AccessFound(u) == IF u.force = "none" THEN Usable(u) # {} ELSE u.force \in u.hw.modes
Access(u) ==
    IF u.force # "none" THEN u.force
    ELSE AccessModes[CHOOSE i \in Usable(u) : \A j \in Usable(u) : i <= j]
IsMmap(u) == Access(u) \in Mmap \/ (u.force = "none" /\ Access(u) = "RW_NONINTERLEAVED")

(* The period nearest to that of the program; while it leaves room for only*)
(* one period in the buffer of the card, half as many frames are asked for.*)
PeriodTries(u, period) ==
    LET first == u.hw.near[period].size
    IN  <<period>> \o [k \in 1..6 |-> first \div 2^k]
CardPeriod(u, period) ==
    LET tries == PeriodTries(u, period)
        good == {k \in DOMAIN tries : tries[k] = 0 \/ u.hw.near[tries[k]].periods # 1}
    IN  u.hw.near[tries[CHOOSE n \in good : \A j \in good : n <= j]].size

AlsaPreinit(u) == u.name # "" /\ u.format # "auto"
AlsaInit(u, period) ==
    /\ period \in PowersOfTwo
    /\ AccessFound(u) /\ u.format \in u.hw.formats /\ u.open \in u.hw.channels
    /\ u.hw.maxperiods >= 2
    /\ CardPeriod(u, period) # 0

(* Whether the read and write calls of the module are those of the access  *)
(* mode: without interleaving the two write calls are exchanged.           *)
CallsFit(u, io) ==
    IF Access(u) \in Interleaved THEN IsMmap(u) <=> Access(u) \in Mmap
    ELSE IF io = "in" THEN IsMmap(u) <=> Access(u) \in Mmap
    ELSE IsMmap(u) <=> Access(u) \notin Mmap

-----------------------------------------------------------------------------
(* OSS: a device used in both directions is opened once, by the input, and *)
(* the output must have the same format and channels.                      *)
OssPreinit(u, io, devs) ==
    /\ u.name # "" /\ u.format # "auto"
    /\ Cardinality({d \in DOMAIN devs : devs[d].kind = "oss" /\ devs[d].name = u.name}) = 1
OssInit(u, period, others) ==
    LET same == {d \in DOMAIN others : others[d].kind = "oss" /\ others[d].name = u.name}
    IN  /\ same # {} => u.hw.duplex
        /\ \A d \in same : others[d].format = u.format /\ others[d].open = u.open
        /\ period * FrameBytes(u) \in PowersOfTwo
        /\ u.format \in u.hw.formats /\ u.open \in u.hw.channels

-----------------------------------------------------------------------------
(* "link" is one setting for all cards, yes unless the first says no.      *)
LinkConsistent(devs) ==
    LET links == [n \in DOMAIN devs |-> devs[n].link]
        said(n) == {k \in 1..n - 1 : links[k] # "unset"}
        before(n) == IF said(n) = {} THEN "yes"
                     ELSE links[CHOOSE k \in said(n) : \A j \in said(n) : j <= k]
    IN  \A n \in DOMAIN devs : n > 1 => links[n] \in {"unset", before(n)}

(* All devices are set up, or the program does not start.                  *)
DeviceStarts(u, io, period, devs, others) ==
    CASE u.kind = "file" -> FilePreinit(u, io) /\ FileInit(u, io)
      [] u.kind = "alsa" -> AlsaPreinit(u) /\ AlsaInit(u, period)
      [] u.kind = "oss" -> OssPreinit(u, io, devs) /\ OssInit(u, period, others)
Starts(c) ==
    /\ LinkConsistent(SelectSeq(c.ins \o c.outs, LAMBDA u : u.kind = "alsa"))
    /\ \A d \in DOMAIN c.ins : DeviceStarts(c.ins[d], "in", c.period, c.ins, c.outs)
    /\ \A d \in DOMAIN c.outs : DeviceStarts(c.outs[d], "out", c.period, c.outs, c.ins)

(* What dai.c works with: only sound cards have a sample clock and blocks. *)
Opened(u, io, period) ==
    LET file == u.kind = "file"
    IN  [kind |-> IF file THEN (IF u.text THEN "text" ELSE "raw") ELSE u.kind,
         bytes |-> Width[IF file THEN FileFormat(u) ELSE u.format],
         open |-> u.open, sel |-> u.sel,
         inter |-> u.kind = "alsa" => Access(u) \in Interleaved,
         clock |-> ~file,
         block |-> CASE file -> 0
                     [] u.kind = "alsa" -> CardPeriod(u, period)
                     [] u.kind = "oss" -> u.hw.fragment,
         fits |-> u.kind = "alsa" => CallsFit(u, io),
         len |-> u.hw.len, skip |-> u.skip, loop |-> u.loop, from |-> u.from]
=============================================================================
