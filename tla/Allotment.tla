------------------------------ MODULE Allotment ------------------------------
(***************************************************************************)
(* What bfconf_init() (bfconf.c) makes of a configuration before the audio *)
(* starts: the sanity checks on the filter network, the distribution of    *)
(* filters over processes (load_balance_filters), the order of the filters *)
(* within a process, and the share of the input and output channels each   *)
(* filter process converts (bfrun.c).                                      *)
(*                                                                         *)
(* A configuration u is a record:                                          *)
(*   filters   sequence of [in, out, src, dst, process, coeff, delay]: the *)
(*             channels a filter reads and writes, the filters it is       *)
(*             connected from and to, its process (-1: not given)          *)
(*   inDevs, outDevs   sequences of devices [open, sel, virt, map, delay,  *)
(*             maxdelay, indmax]: channels opened and selected, how many   *)
(*             virtual channels and which selected one each is mapped to   *)
(*             (<<>>: not given), and their delays and maximum delays      *)
(*   coeffs    per coefficient set [taps, blocks] (0 blocks: not given)    *)
(*   flength, nblocks, ncpus                                               *)
(***************************************************************************)
EXTENDS Integers, Sequences, FiniteSets, SequencesExt

(* What parse_iodev() takes the channel lists of a device for.             *)
Selection(d) ==
    /\ d.open >= 1 /\ Len(d.sel) <= d.open /\ Len(d.sel) <= d.virt
    /\ IsInjective(d.sel) /\ Range(d.sel) \subseteq 0..d.open - 1
Mapping(d) == IF d.map = <<>> THEN [n \in 1..d.virt |-> n - 1] ELSE d.map
MappingValid(d) ==
    /\ d.map # <<>> => Len(d.map) = d.virt /\ d.virt > Len(d.sel)
    /\ Range(Mapping(d)) \subseteq 0..Len(d.sel) - 1

(* The maximum delay of virtual channel n: its own, the one of the device, *)
(* or none; a negative one means that the delay is fixed.                  *)
MaxDelay(d, n) ==
    LET given == IF n <= Len(d.indmax) THEN d.indmax[n] ELSE d.maxdelay
    IN  IF given < 0 THEN -1 ELSE given
DelaysValid(d) ==
    \A n \in DOMAIN d.delay : d.delay[n] >= 0 /\ (MaxDelay(d, n) >= 0 => d.delay[n] <= MaxDelay(d, n))
DeviceAccepted(d) == Selection(d) /\ MappingValid(d) /\ DelaysValid(d)

(* phys2virt: virtual channels are numbered through all devices.           *)
Phys2Virt(devs) ==
    LET base(i) == FoldLeft(LAMBDA sum, d : sum + d.virt, 0, SubSeq(devs, 1, i - 1))
        virt(i, phys) == SelectSeq([n \in 1..devs[i].virt |-> base(i) + n],
                                   LAMBDA ch : Mapping(devs[i])[ch - base(i)] = phys - 1)
    IN  FlattenSeq([i \in DOMAIN devs |-> [phys \in 1..Len(devs[i].sel) |-> virt(i, phys)]])
PhysIn(u) == Phys2Virt(u.inDevs)
PhysOut(u) == Phys2Virt(u.outDevs)

(* A coefficient set has as many blocks as the ring unless it says; block k *)
(* (load_coeff) holds the next flength taps, the rest of them, or none.    *)
CoeffBlocks(u, c) == IF u.coeffs[c].blocks <= 0 THEN u.nblocks ELSE u.coeffs[c].blocks
CoeffTaps(u, c, k) ==
    LET len == IF u.coeffs[c].taps > CoeffBlocks(u, c) * u.flength
               THEN CoeffBlocks(u, c) * u.flength ELSE u.coeffs[c].taps
    IN  IF k * u.flength > len THEN {}
        ELSE IF (k + 1) * u.flength > len THEN k * u.flength + 1..len
        ELSE k * u.flength + 1..(k + 1) * u.flength

FilterIds(u) == DOMAIN u.filters
Automatic(u) == \A n \in FilterIds(u) : u.filters[n].process = -1

(* The recursion of filter_loop(): the filters reached from S by outputs.   *)
Downstream(u, S) ==
    LET reach[i \in 0..Len(u.filters)] ==
            IF i = 0 THEN UNION {u.filters[n].dst : n \in S}
            ELSE reach[i - 1] \cup UNION {u.filters[n].dst : n \in reach[i - 1]}
    IN  reach[Len(u.filters)]
FilterLoop(u, n) == n \in Downstream(u, {n})

(* Coefficient and delay of every filter, and manual process numbers that  *)
(* are not mixed with automatic ones and leave no gap.                     *)
FiltersInRange(u) ==
    \A n \in FilterIds(u) :
        u.filters[n].coeff < Cardinality(DOMAIN u.coeffs) /\ u.filters[n].delay <= u.nblocks - 1
ProcessesGiven(u) ==
    LET used == {u.filters[n].process : n \in FilterIds(u)}
    IN  used = {-1} \/ \A p \in used : p >= 0 /\ 0..p \subseteq used

(* Every filter output is an input of the filter it goes to, and back.     *)
Connected(u) ==
    \A n, k \in FilterIds(u) : k \in u.filters[n].dst <=> n \in u.filters[k].src

-----------------------------------------------------------------------------
(* Step 1 of load_balance_filters(): what must be in the process of S,     *)
(* because it is connected to a filter of S or feeds the same output.      *)
JoinedByFilters(u, S) ==   \* mutant
    S \cup UNION {u.filters[n].src \cup u.filters[n].dst : n \in S}
Joined(u, S) ==
    S \cup UNION {u.filters[n].src \cup u.filters[n].dst : n \in S}
      \cup {k \in FilterIds(u) : \E n \in S : u.filters[n].out \cap u.filters[k].out # {}}
Group(u, n) ==
    LET g[i \in 0..Len(u.filters)] == IF i = 0 THEN {n} ELSE Joined(u, g[i - 1])
    IN  g[Len(u.filters)]

(* Filters in turn open a process each, unless an earlier one took them.   *)
Grouped(u) ==
    LET a[n \in 0..Len(u.filters)] ==
            IF n = 0 THEN [proc |-> [k \in FilterIds(u) |-> -1], count |-> 0]
            ELSE IF a[n - 1].proc[n] # -1 THEN a[n - 1]
            ELSE [proc |-> [k \in FilterIds(u) |-> IF k \in Group(u, n) THEN a[n - 1].count
                                                    ELSE a[n - 1].proc[k]],
                  count |-> a[n - 1].count + 1]
    IN  a[Len(u.filters)]

(* Step 2: the processes are dealt to the processors in turn.              *)
LoadBalance(u) ==
    [k \in FilterIds(u) |-> Grouped(u).proc[k] % u.ncpus]

Process(u) ==
    IF Automatic(u) THEN LoadBalance(u) ELSE [n \in FilterIds(u) |-> u.filters[n].process]
NProcesses(u) == 1 + (CHOOSE p \in {Process(u)[n] : n \in FilterIds(u)} :
                        \A n \in FilterIds(u) : Process(u)[n] <= p)
Members(u, p) == {n \in FilterIds(u) : Process(u)[n] = p}

(* Connected filters, and filters mixed to one output, share a process.    *)
WithinProcesses(u) ==
    \A n, k \in FilterIds(u) : Process(u)[n] # Process(u)[k] =>
        k \notin u.filters[n].dst /\ u.filters[n].out \cap u.filters[k].out = {}

Accepted(u) ==
    /\ \A d \in Range(u.inDevs) \cup Range(u.outDevs) : DeviceAccepted(d)
    /\ \A c \in DOMAIN u.coeffs : CoeffBlocks(u, c) <= u.nblocks
    /\ FiltersInRange(u) /\ ProcessesGiven(u) /\ Connected(u)
    /\ \A n \in FilterIds(u) : ~FilterLoop(u, n)
    /\ WithinProcesses(u)

(* Filters of a process in passes over them, a filter being taken once all *)
(* the filters it reads have been.                                         *)
FilterOrder(u, p) ==
    LET own == SetToSortSeq(Members(u, p), <)
        take(done, n) == IF n \notin Range(done) /\ u.filters[n].src \subseteq Range(done)
                         THEN Append(done, n) ELSE done
        pass[i \in 0..Len(own)] == IF i = 0 THEN <<>> ELSE FoldLeft(take, pass[i - 1], own)
    IN  pass[Len(own)]

(* Physical channels are dealt out in order: each process goes on until it *)
(* has its share of the virtual channels, the last one takes the rest.     *)
Channels(phys, from, to) == FlattenSeq(SubSeq(phys, from + 1, to))
Position(phys, nprocs) ==
    LET share == Len(Channels(phys, 0, Len(phys))) \div nprocs
        pos[p \in 0..nprocs] ==
            IF p = 0 THEN 0
            ELSE IF p = nprocs THEN Len(phys)
            ELSE CHOOSE c \in pos[p - 1]..Len(phys) :
                    /\ c = Len(phys) \/ Len(Channels(phys, pos[p - 1], c)) >= share
                    /\ \A d \in pos[p - 1]..c - 1 : Len(Channels(phys, pos[p - 1], d)) < share
    IN  pos
ProcChannels(phys, nprocs) ==
    [p \in 1..nprocs |->
        Channels(phys, Position(phys, nprocs)[p - 1], Position(phys, nprocs)[p])]

Allot(u) ==
    [order   |-> [p \in 1..NProcesses(u) |-> FilterOrder(u, p - 1)],
     procin  |-> ProcChannels(PhysIn(u), NProcesses(u)),
     procout |-> ProcChannels(PhysOut(u), NProcesses(u))]
=============================================================================
