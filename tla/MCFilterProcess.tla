--------------------------- MODULE MCFilterProcess ---------------------------
(* Allotment composed with FilterProcess: each configuration is allotted to  *)
(* processes and then run.                                                  *)
EXTENDS FilterProcess, Allotment

F(in, src, dst, out, process) ==
    [in |-> in, src |-> src, dst |-> dst, out |-> out, process |-> process,
     coeff |-> 0, delay |-> 0, crossfade |-> FALSE]

(* A device with a physical channel for each element of phys, the number of *)
(* virtual channels mapped to it.                                           *)
Plain == [open |-> 1, sel |-> <<0>>, virt |-> 1, map |-> <<>>, delay |-> <<>>,
          maxdelay |-> -2, indmax |-> <<>>]
Device(map, phys) ==
    [Plain EXCEPT !.open = phys, !.sel = [n \in 1..phys |-> n - 1], !.virt = Len(map),
                  !.map = IF Len(map) > phys THEN map ELSE <<>>]

User(filters, inDevs, outDevs, nblocks, coeffs, ncpus) ==
    [filters |-> filters, inDevs |-> inDevs, outDevs |-> outDevs, flength |-> 2,
     nblocks |-> nblocks, coeffs |-> coeffs, ncpus |-> ncpus]
Coeffs(blocks) == [c \in 0..Len(blocks) - 1 |-> [taps |-> 2 * blocks[c + 1], blocks |-> blocks[c + 1]]]

PhysOf(phys) ==
    [ch \in Range(FlattenSeq(phys)) |-> CHOOSE n \in DOMAIN phys : ch \in Range(phys[n])]

(* The run-time configuration of an accepted user configuration.            *)
Configured(u, settings) ==
    [user |-> u, filters |-> u.filters, nblocks |-> u.nblocks,
     coeffs |-> [c \in DOMAIN u.coeffs |-> CoeffBlocks(u, c)],
     initcoeff |-> [f \in FilterIds(u) |-> u.filters[f].coeff]]
    @@ settings
    @@ (IF Accepted(u)
        THEN [physIn |-> PhysOf(PhysIn(u)), physOut |-> PhysOf(PhysOut(u))] @@ Allot(u)
        ELSE [physIn |-> <<>>, physOut |-> <<>>, order |-> <<>>, procin |-> <<>>, procout |-> <<>>])

Setting == [powersave |-> FALSE, realsize |-> 4, mutable |-> {}, delayed |-> {},
            hooks |-> FALSE, async |-> FALSE, last |-> 0, maxChange |-> 1]
Conf(u, s) == Configured(u, s @@ Setting)

(* Small networks that are only allotted: all connections of three filters,  *)
(* their outputs, and processes given or left to the balancing.              *)
Networks ==
    {User([n \in 1..3 |-> F({1}, {k \in 1..3 : n \in to[k]}, to[n], out[n], proc[n])],
          <<Plain, Device(<<0, 1>>, 2)>>,
          IF cpus = 3 THEN <<Device(<<0, 0, 1>>, 2)>> ELSE <<Plain, Plain, Plain>>,
          1, Coeffs(<<1>>), cpus)
       : to \in {t \in [1..3 -> SUBSET (1..3)] : \A n \in 1..3 : n \in t[n] => n = 1},
         out \in {<<{1}, {}, {1}>>, <<{1}, {2}, {}>>, <<{}, {1}, {1}>>, <<{2}, {1}, {2}>>},
         proc \in {<<-1, -1, -1>>, <<0, 0, 1>>, <<1, 0, 1>>, <<0, 2, 2>>, <<-1, 0, 0>>},
         cpus \in 2..3}

(* Declarations of devices and coefficient sets, right and wrong.            *)
Declarations ==
    {User(<<F({1}, {}, {}, {1}, -1)>>, <<Plain, d, Plain>>, <<Plain>>, 2, Coeffs(<<1>>), 1)
       : d \in [open : 1..3, sel : {<<0>>, <<1, 0>>, <<2, 2>>}, virt : 1..3,
                map : {<<>>, <<0, 0>>, <<1, 0, 1>>, <<0, 2, 0>>}, delay : {<<>>, <<2>>},
                maxdelay : {-2, 1}, indmax : {<<>>, <<3>>}]}
    \cup {User(<<F({1}, {}, {}, {1}, -1)>>, <<Plain>>, <<Plain>>, 2, 0 :> c, 1)
            : c \in [taps : 0..5, blocks : 0..3]}

(* Two filters in a chain in one process.                                    *)
Chain(nb, coeffs, fade) ==
    User(<<[F({1}, {}, {2}, {1}, -1) EXCEPT !.crossfade = fade],
           F({2}, {1}, {}, {1}, -1)>>,
         <<Plain, Plain>>, <<Plain>>, nb, Coeffs(coeffs), 1)
(* Two filters of one input in two processes, one delayed.                   *)
Pair(nb, fade) ==
    User(<<[F({1}, {}, {}, {1}, -1) EXCEPT !.crossfade = fade],
           [F({1}, {}, {}, {2}, -1) EXCEPT !.delay = nb - 1]>>,
         <<Plain>>, <<Plain, Plain>>, nb, Coeffs(<<nb, nb>>), 2)
(* Virtual channels that share a physical input and a physical output.      *)
SharedIO(nb) ==
    User(<<F({1}, {}, {}, {1}, -1), F({2}, {}, {}, {2}, -1)>>,
         <<Device(<<0, 0>>, 1)>>, <<Device(<<0, 0, 1>>, 2)>>, nb, Coeffs(<<nb>>), 1)

MCConfs ==
    {Conf(u, [last |-> 0]) : u \in Networks \cup Declarations}
    \cup {Conf(Chain(nb, <<nb, nb>>, FALSE), [powersave |-> TRUE, async |-> TRUE, last |-> nb + 2])
            : nb \in 1..2}
    \cup {Conf(Chain(2, <<2>>, FALSE), [powersave |-> TRUE, last |-> 5])}
    \cup {Conf(Chain(nb, <<nb, 1>>, TRUE), [powersave |-> nb = 1, async |-> TRUE, last |-> 3])
            : nb \in 1..2}
    \cup {Conf(Pair(2, fade), [powersave |-> ~fade, hooks |-> TRUE, last |-> 4, maxChange |-> 2])
            : fade \in BOOLEAN}
    \cup {Conf(SharedIO(1), [mutable |-> {1, 2}, delayed |-> {2}, async |-> TRUE, last |-> 3,
                             maxChange |-> 2])}

(* Settings in which filter_process leaves a trace in the output: one of      *)
(* these in place of MCConfs, and TLC finds OutputIsIdeal violated.          *)
(* A set of three partitions comes back after the filter went silent; the    *)
(* counter, too, has to turn at a multiple of three.                         *)
TailConfs == {Conf(Chain(3, <<3, 1>>, FALSE),
                   [powersave |-> TRUE, hooks |-> TRUE, last |-> 5, maxChange |-> 2])}
(* Two of three inputs share a physical channel, and none feeds filter 1.    *)
SharedInputs ==
    User(<<F({1}, {}, {}, {1}, -1), F({2, 3}, {}, {}, {1}, -1)>>,
         <<Plain, Device(<<0, 0>>, 1)>>, <<Plain>>, 2, Coeffs(<<2>>), 1)
SharedInputConfs == {Conf(SharedInputs, [powersave |-> TRUE, last |-> 3])}
(* Two of three outputs share a physical channel, one of them delayed.       *)
DelayedOutput ==
    User(<<F({1}, {}, {}, {1}, -1), F({1}, {}, {}, {2}, -1), F({2}, {}, {}, {3}, -1)>>,
         <<Plain, Plain>>, <<Device(<<0, 0, 1>>, 2)>>, 1, Coeffs(<<1>>), 1)
DelayedOutputConfs == {Conf(DelayedOutput, [powersave |-> TRUE, delayed |-> {2}, last |-> 4])}
(* A cross-fade over several partitions, and one in double precision.        *)
FadeConfs == {Conf(Chain(2, <<2, 1>>, TRUE), [powersave |-> TRUE, hooks |-> TRUE, last |-> 4])}
DoubleConfs == {Conf(Chain(1, <<1, 1>>, TRUE), [realsize |-> 8, hooks |-> TRUE, last |-> 3])}

(* Allotment is sound: a network is accepted exactly when it is well formed; *)
(* balancing never builds one that the checks then refuse; each filter and   *)
(* channel ends up in one process, readers after what they read, virtual     *)
(* channels of one physical channel side by side; every virtual channel is   *)
(* mapped to one physical channel, and every tap of a coefficient set that   *)
(* fits is in one of its blocks (bfconf.c, bfrun.c:2270).                    *)
AllotmentSound ==
    LET u == conf.user
        ids == FilterIds(u)
        at(f) == CHOOSE pi \in Procs \X (1..Len(u.filters)) :
                    pi[2] \in DOMAIN conf.order[pi[1]] /\ conf.order[pi[1]][pi[2]] = f
        wellFormed == /\ FiltersInRange(u) /\ Connected(u) /\ ProcessesGiven(u)
                      /\ \A n \in ids : ~FilterLoop(u, n)
        virtual(devs) == FoldLeft(LAMBDA sum, d : sum + d.virt, 0, devs)
        dealt(lists, phys) ==
            /\ FlattenSeq(lists) = FlattenSeq(phys)
            /\ \A n \in DOMAIN phys : \E p \in Procs : Range(phys[n]) \subseteq Range(lists[p])
        declared == /\ \A d \in Range(u.inDevs) \cup Range(u.outDevs) : DeviceAccepted(d)
                    /\ \A c \in DOMAIN u.coeffs : CoeffBlocks(u, c) <= u.nblocks
        taps(c) == [k \in 0..u.nblocks - 1 |-> IF k < CoeffBlocks(u, c) THEN CoeffTaps(u, c, k) ELSE {}]
    IN  /\ Automatic(u) /\ wellFormed /\ declared => Accepted(u)
        /\ Accepted(u) =>
             /\ Automatic(u) => Cardinality(Procs) <= u.ncpus
             /\ \A p \in Procs : conf.order[p] # <<>>
             /\ IsInjective(FlattenSeq(conf.order)) /\ Range(FlattenSeq(conf.order)) = ids
             /\ \A f \in ids, g \in ids :
                  /\ g \in u.filters[f].src => at(g)[1] = at(f)[1] /\ at(g)[2] < at(f)[2]
                  /\ u.filters[f].out \cap u.filters[g].out # {} => at(g)[1] = at(f)[1]
             /\ dealt(conf.procin, PhysIn(u)) /\ dealt(conf.procout, PhysOut(u))
             /\ Range(FlattenSeq(PhysIn(u))) = 1..virtual(u.inDevs)
             /\ IsInjective(FlattenSeq(PhysIn(u)))
             /\ \A c \in DOMAIN u.coeffs :
                  LET t == u.coeffs[c].taps
                      n == CoeffBlocks(u, c) * u.flength
                  IN  /\ UNION {taps(c)[k] : k \in DOMAIN taps(c)} = 1..(IF t < n THEN t ELSE n)
                      /\ \A k \in DOMAIN taps(c) : Cardinality(taps(c)[k]) <= u.flength

TypeOK ==
    /\ \A p \in Procs :
          /\ pc[p] \in {"start", "hooked", "copy", "read", "synch", "filter", "mixed", "write", "done"}
          /\ blk[p] \in 1..conf.last + 1 /\ idx[p] \in Nat
          /\ fzero[p] \subseteq InCh /\ outzero[p] \subseteq OutCh
          /\ mix[p].j \in 0..Cardinality(OutCh)
    /\ \A f \in Filters : procblocks[f] \in 0..conf.nblocks /\ czero[f] \subseteq 0..conf.nblocks - 1
    /\ ozero \subseteq Filters /\ ezero \subseteq Filters /\ szero \subseteq Procs
=============================================================================
