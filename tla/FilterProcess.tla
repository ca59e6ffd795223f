---------------------------- MODULE FilterProcess ----------------------------
(***************************************************************************)
(* The data path of filter_process() (bfrun.c): what one block of input    *)
(* goes through between the two semaphores of the pipeline.  Each process  *)
(* copies the run-time control, converts and transforms its share of the   *)
(* inputs, runs its filters (partitioned convolution over a ring of the    *)
(* last n_blocks input windows, with cross-fade and, under powersave, the  *)
(* flags that say which buffers are zero), mixes the outputs and converts  *)
(* its share of them.                                                      *)
(*                                                                         *)
(* Samples are abstracted to their provenance.  A time-domain block is the *)
(* set of terms it is the sum of; a term <<ch, b, hops>> is what channel   *)
(* ch delivered in block b after it went through the listed hops, a hop    *)
(* <<f, c, k, h>> being partition k of coefficient set c in filter f       *)
(* applied to the current (h = 0) or the previous (h = 1) half of the      *)
(* window.  A silent block is the empty set.  A window (overlap-save) is   *)
(* the pair <<previous half, current half>>.                               *)
(*                                                                         *)
(* The barriers are the abstract rounds that SynchFilter implements; the   *)
(* ownership of the raw buffers is the subject of Pipeline.                *)
(***************************************************************************)
EXTENDS Integers, Sequences, FiniteSets, FiniteSetsExt

CONSTANTS
    Confs,       \* configurations, with what Allotment makes of them; conf.last
                 \* bounds the blocks the inputs deliver, conf.maxChange the
                 \* changes of the run-time control
    CounterMod   \* the unsigned blockcounter wraps at this value

(* What Allotment establishes for every configuration that is accepted (one  *)
(* that is not has no process): filters and channels are dealt to the      *)
(* processes, each to one of them, filters behind their sources and the    *)
(* virtual channels of a physical output side by side; filters that feed   *)
(* one output are in one process; what filters and settings refer to exists. *)
Listed(seq) == {seq[i] : i \in DOMAIN seq}
Apart(sets) == \A p, q \in DOMAIN sets : p # q => sets[p] \cap sets[q] = {}
Once(seq) == \A m, n \in DOMAIN seq : seq[m] = seq[n] => m = n
Shared(io, ch) == \E c2 \in DOMAIN io : c2 # ch /\ io[c2] = io[ch]
MappedTo(io, ph) == {ch \in DOMAIN io : io[ch] = ph}
Phys(io) == {io[ch] : ch \in DOMAIN io}
SideBySide(seq, i, set) ==
    LET span == i..i + Cardinality(set) - 1
    IN  span \subseteq DOMAIN seq /\ set = {seq[k] : k \in span}

Dealt(c) ==
    LET procs == DOMAIN c.order
        outputs(p) == UNION {c.filters[f].out : f \in Listed(c.order[p])}
    IN  /\ procs = 1..Len(c.order) /\ DOMAIN c.procin = procs /\ DOMAIN c.procout = procs
        /\ Apart([p \in procs |-> Listed(c.procin[p])])
        /\ Apart([p \in procs |-> Listed(c.procout[p])])
        /\ Apart([p \in procs |-> Listed(c.order[p])])
        /\ Apart([p \in procs |-> outputs(p)])
        /\ \A p \in procs :
              /\ c.order[p] \in Seq(DOMAIN c.filters) \ {<<>>}
              /\ c.procin[p] \in Seq(DOMAIN c.physIn)
              /\ c.procout[p] \in Seq(DOMAIN c.physOut)
              /\ Once(c.order[p]) /\ Once(c.procin[p]) /\ Once(c.procout[p])
              /\ outputs(p) \subseteq DOMAIN c.physOut
              /\ \A n \in DOMAIN c.order[p] :
                    /\ c.filters[c.order[p][n]].src \subseteq {c.order[p][m] : m \in 1..n - 1}
                    /\ c.filters[c.order[p][n]].in \subseteq DOMAIN c.physIn
        /\ procs # {} => DOMAIN c.filters = UNION {Listed(c.order[p]) : p \in procs}
        /\ DOMAIN c.physIn = UNION {Listed(c.procin[p]) : p \in procs}
        /\ \A ph \in Phys(c.physOut) : \E p \in procs : \E i \in DOMAIN c.procout[p] :
              SideBySide(c.procout[p], i, MappedTo(c.physOut, ph))
Settings(c) ==
    /\ c.nblocks \in Nat \ {0} /\ c.last \in Nat
    /\ c.coeffs \in [DOMAIN c.coeffs -> Nat \ {0}]
    /\ c.initcoeff \in [DOMAIN c.filters -> DOMAIN c.coeffs \cup {-1}]
    /\ \A f \in DOMAIN c.filters : c.filters[f].delay \in Int
    /\ \A o \in c.delayed : Shared(c.physOut, o)

ASSUME FilterProcessAssumption ==
    /\ CounterMod \in Nat \ {0}
    /\ \A c \in Confs : Dealt(c) /\ Settings(c)

VARIABLES
    conf,      \* the configuration of this behaviour
    pc,        \* pc[p]: the stage process p is in
    idx,       \* idx[p]: position in the loop of that stage
    blk,       \* blk[p]: the block p works on; p has run blk[p] - 1 blocks
    inputs,    \* inputs[b]: the physical inputs that are not silent in block b
    ctl,       \* icomm: coefficients and mutes now
    changes,
    copies,    \* copies[p][b]: the control p copied for block b
    tbuf,      \* tbuf[ch][curbuf]: input_timecbuf
    fbuf,      \* fbuf[ch]: input_freqcbuf
    fzero,     \* fzero[p]: channels whose input_freqcbuf_zero is set in p
    cbuf,      \* cbuf[f][slot]: ring of mixed windows
    czero,     \* czero[f]: slots with cbuf_zero set
    ocbuf,     \* ocbuf[f]: filter output
    ozero,     \* filters with ocbuf_zero set
    ebuf,      \* ebuf[f]: previous half kept in evalbuf
    ezero,     \* filters with evalbuf_zero set
    scratch,   \* scratch[p]: static_evalbuf, crossfadebuf[0] and mixbuf are one
    szero,     \* processes with temp_buffer_zero set
    procblocks, prevcoeff,
    outf,      \* outf[o]: output_freqcbuf
    outzero,   \* outzero[p]: channels whose output_freqcbuf_zero is set in p
    odelay,    \* odelay[o]: the block held back in output_db
    mix,       \* mix[p]: [filled, j], the progress of a shared output
    raw        \* raw[ph]: blocks written to the physical output

bufs == <<tbuf, fbuf, fzero, cbuf, czero, ocbuf, ozero, ebuf, ezero, scratch,
          szero, procblocks, prevcoeff, outf, outzero, odelay, mix, raw>>
vars == <<conf, pc, idx, blk, inputs, ctl, changes, copies, bufs>>

Procs   == DOMAIN conf.order
Filters == DOMAIN conf.filters
InCh    == DOMAIN conf.physIn
OutCh   == DOMAIN conf.physOut
Blocks(c) == conf.coeffs[c]
FiltersOf(p) == {conf.order[p][i] : i \in DOMAIN conf.order[p]}
ProcOf(f) == CHOOSE p \in Procs : f \in FiltersOf(p)
First(p)  == conf.order[p][1]          \* its ocbuf is also a scratch buffer
Virt(ph)  == MappedTo(conf.physOut, ph)
ProcOutputs(p) == UNION {conf.filters[f].out : f \in FiltersOf(p)}

Silence == <<{}, {}>>
Uninitialised == {<<-1, 0, <<>> >>}   \* memory nobody wrote
FadeIn == -2
FadeOut == -3
Hop(S, f, c, k, h) == {<<t[1], t[2], Append(t[3], <<f, c, k, h>>)>> : t \in S}

(* convolver_mixnscale(): sum of buffers.                                  *)
MixWindows(W) == <<UNION {w[1] : w \in W}, UNION {w[2] : w \in W}>>

(* The valid half of the window, filtered by partition k of set c, or by     *)
(* the identity when there is no coefficient set (c < 0).                  *)
DiracConvolve(w, f) == Hop(w[2], f, -1, 0, 0)
Filtered(w, f, c, k) == Hop(w[2], f, c, k, 0) \cup Hop(w[1], f, c, k, 1)
Convolve(w, f, c) == IF c < 0 THEN DiracConvolve(w, f) ELSE Filtered(w, f, c, 0)
(* To the sum are added the windows W[k], each filtered by partition k.    *)
ConvolveAdd(sum, W, f, c) == sum \cup UNION {Filtered(W[k], f, c, k) : k \in DOMAIN W}

(* convolver_raw2cbuf(): a block is the second half of the current window   *)
(* and the first half of the next one.                                     *)
Raw2Cbuf(window, block) == <<window[1], block>>
Raw2Next(window, block) == <<block, window[2]>>

(* convolver_convolve_eval(): what a filter put out becomes a window again. *)
ConvolveEval(kept, block) == <<kept, block>>

(* convolver_crossfade_inplace(): in single precision the old output fades *)
(* out while the new one fades in; in double precision the second operand  *)
(* is read one buffer too far and the first is the new output.             *)
Crossfade(f, new, old) ==
    IF conf.realsize = 4
    THEN Hop(new, f, FadeIn, 0, 0) \cup Hop(old, f, FadeOut, 0, 0)
    ELSE Hop(new, f, FadeOut, 0, 0) \cup Uninitialised

(* test_silent() looks at both halves of the window.                       *)
TransformNewHalf(window) == ~conf.powersave \/ window[2] # {}   \* mutant
Transform(window) == ~conf.powersave \/ window # Silence

(* With a single block the ring is the output buffer: cbuf[f][0] is ocbuf[f]. *)
Aliased(ring, out) == IF conf.nblocks = 1 THEN [ring EXCEPT ![0] = <<{}, out>>] ELSE ring

-----------------------------------------------------------------------------
Init ==
    /\ conf \in Confs
    /\ pc = [p \in Procs |-> "start"] /\ idx = [p \in Procs |-> 1]
    /\ blk = [p \in Procs |-> 1]
    /\ inputs = <<>> /\ changes = 0
    /\ ctl = [coeff |-> conf.initcoeff, mute |-> {}]
    /\ copies = [p \in Procs |-> <<>>]
    /\ tbuf = [ch \in InCh |-> [i \in 0..1 |-> Silence]]
    /\ fbuf = [ch \in InCh |-> Silence] /\ fzero = [p \in Procs |-> {}]
    /\ cbuf = [f \in Filters |-> [s \in 0..conf.nblocks - 1 |-> Silence]]
    /\ czero = [f \in Filters |-> {}]
    /\ ocbuf = [f \in Filters |-> {}] /\ ozero = {}
    /\ ebuf = [f \in Filters |-> {}] /\ ezero = {}
    /\ scratch = [p \in Procs |-> Silence] /\ szero = {}
    /\ procblocks = [f \in Filters |-> 0] /\ prevcoeff = conf.initcoeff
    /\ \E U \in SUBSET (OutCh \ UNION {ProcOutputs(p) : p \in Procs}) :
          outf = [o \in OutCh |-> IF o \in U THEN Uninitialised ELSE {}]
    /\ outzero = [p \in Procs |-> {}]
    /\ odelay = [o \in OutCh |-> {}]
    /\ mix = [p \in Procs |-> [filled |-> FALSE, j |-> 0]]
    /\ raw = [ph \in Phys(conf.physOut) |-> <<>>]

(* The input devices deliver the next block, while other processes may     *)
(* still be in the former one; any input may be silent.  A block that comes *)
(* before somebody waits for it is seen by nobody.                         *)
NewInput ==
    /\ Len(inputs) < conf.last
    /\ \E p \in Procs : blk[p] > Len(inputs)
    /\ \E S \in SUBSET Phys(conf.physIn) : inputs' = Append(inputs, S)
    /\ UNCHANGED <<conf, pc, idx, blk, ctl, changes, copies, bufs>>

(* A logic module assigns a coefficient set or toggles a mute.             *)
Assign(f, c) == ctl' = [ctl EXCEPT !.coeff[f] = c]
ToggleMute(ch) ==
    ctl' = [ctl EXCEPT !.mute = IF ch \in @ THEN @ \ {ch} ELSE @ \cup {ch}]

(* From a thread of its own, at any time.                                  *)
ChangeControl ==
    /\ conf.async /\ changes < conf.maxChange
    /\ \/ \E f \in Filters, c \in DOMAIN conf.coeffs \cup {-1} :
              c # ctl.coeff[f] /\ Assign(f, c)
       \/ \E ch \in conf.mutable : ToggleMute(ch)
    /\ changes' = changes + 1
    /\ UNCHANGED <<conf, pc, idx, blk, inputs, copies, bufs>>

Goto(p, stage) == pc' = [pc EXCEPT ![p] = stage] /\ idx' = [idx EXCEPT ![p] = 1]

(* synch_filter_processes(): everybody is in the stage, or already past it. *)
ArrivedAlone(p, stage, past) == \A q \in Procs : blk[q] >= blk[p]   \* mutant
Arrived(p, stage, past) ==
    \A q \in Procs : blk[q] > blk[p] \/ (blk[q] = blk[p] /\ pc[q] \in {stage} \cup past)

(* With the block's input there, process 0 calls the block_start hooks of   *)
(* the modules; all processes meet before they copy the control.           *)
BlockStart(p) ==
    /\ pc[p] = "start" /\ blk[p] <= Len(inputs)
    /\ Goto(p, IF conf.hooks THEN "hooked" ELSE "copy")
    /\ \/ UNCHANGED <<ctl, changes>>
       \/ /\ conf.hooks /\ p = 1 /\ changes < conf.maxChange
          /\ \E c \in DOMAIN conf.coeffs :
                ctl' = [ctl EXCEPT !.coeff = [f \in Filters |-> c]]
          /\ changes' = changes + 1
    /\ UNCHANGED <<conf, blk, inputs, copies, bufs>>

HooksDone(p) ==
    /\ pc[p] = "hooked"
    /\ Arrived(p, "hooked", {"copy", "read", "synch", "filter", "mixed", "write"})
    /\ Goto(p, "copy")
    /\ UNCHANGED <<conf, blk, inputs, ctl, changes, copies, bufs>>

(* The copy of icomm under icomm_mutex.                                    *)
CopyControl(p) ==
    /\ pc[p] = "copy"
    /\ copies' = [copies EXCEPT ![p] = Append(@, ctl)]
    /\ Goto(p, "read")
    /\ UNCHANGED <<conf, blk, inputs, ctl, changes, bufs>>

Copy(p) == copies[p][blk[p]]

-----------------------------------------------------------------------------
(* One input channel: convolver_raw2cbuf() into the second half of the     *)
(* current window and the first half of the next, then the transform or,   *)
(* under powersave, the zeroed buffer.  A channel that shares its physical *)
(* input goes through inbuf_copy, which is the memory of ocbuf[0].         *)
ReadInput(p) ==
    LET ch == conf.procin[p][idx[p]]
        b == blk[p]
        cur == b % 2
        shared == Shared(conf.physIn, ch)
        block == IF conf.physIn[ch] \in inputs[b] /\ ~(shared /\ ch \in Copy(p).mute)
                 THEN {<<ch, b, <<>> >>} ELSE {}
        window == Raw2Cbuf(tbuf[ch][cur], block)
        transform == Transform(window)
    IN  /\ pc[p] = "read" /\ idx[p] <= Len(conf.procin[p])
        /\ tbuf' = [tbuf EXCEPT ![ch][cur] = window, ![ch][1 - cur] = Raw2Next(@, block)]
        /\ fbuf' = [fbuf EXCEPT ![ch] = IF transform THEN window
                                        ELSE IF ch \in fzero[p] THEN @ ELSE Silence]
        /\ fzero' = [fzero EXCEPT ![p] = IF transform THEN @ \ {ch} ELSE @ \cup {ch}]
        /\ IF shared
           THEN /\ ocbuf' = [ocbuf EXCEPT ![First(p)] = block]
                /\ cbuf' = [cbuf EXCEPT ![First(p)] = Aliased(@, block)]
           ELSE UNCHANGED <<ocbuf, cbuf>>
        /\ idx' = [idx EXCEPT ![p] = @ + 1]
        /\ UNCHANGED <<conf, pc, blk, inputs, ctl, changes, copies, czero,
                       ozero, ebuf, ezero, scratch, szero, procblocks, prevcoeff,
                       outf, outzero, odelay, mix, raw>>

InputsRead(p) ==
    /\ pc[p] = "read" /\ idx[p] > Len(conf.procin[p])
    /\ Goto(p, "synch")
    /\ UNCHANGED <<conf, blk, inputs, ctl, changes, copies, bufs>>

InputsSynched(p) ==
    /\ pc[p] = "synch" /\ Arrived(p, "synch", {"filter", "mixed", "write"})
    /\ Goto(p, "filter")
    /\ UNCHANGED <<conf, blk, inputs, ctl, changes, copies, bufs>>

-----------------------------------------------------------------------------
(* Filter inputs: the sources' outputs are mixed into static_evalbuf and   *)
(* evaluated (convolver_convolve_eval) into a window with the previous one.*)
RunIfLoud(f, iszero) == ~iszero   \* mutant
RunEvaluation(f, iszero) == ~iszero \/ f \notin ezero

Evaluate(p, f) ==
    LET src == conf.filters[f].src
        iszero == conf.powersave /\ src \subseteq ozero
        mixed == IF ~iszero THEN <<{}, UNION {ocbuf[g] : g \in src}>>
                 ELSE IF p \in szero THEN scratch[p] ELSE Silence
        run == RunEvaluation(f, iszero)
    IN  IF src = {}
        THEN [win |-> scratch[p], zero |-> p \in szero, kept |-> ebuf[f], ez |-> f \in ezero]
        ELSE IF run
             THEN [win |-> ConvolveEval(ebuf[f], mixed[2]), zero |-> FALSE,
                   kept |-> mixed[2], ez |-> iszero]
             ELSE [win |-> mixed, zero |-> TRUE, kept |-> ebuf[f], ez |-> TRUE]

(* The delay of the filter, clamped to the ring.                           *)
DelayBlocks(f) ==
    LET d == conf.filters[f].delay
    IN  IF d < 0 THEN 0 ELSE IF d > conf.nblocks - 1 THEN conf.nblocks - 1 ELSE d

(* procblocks: blocks filtered since the filter was last silent.           *)
ProcessedOver(f) == procblocks[f] + 1   \* mutant
ProcessedStuck(f) == procblocks[f]   \* mutant
Processed(f) == IF procblocks[f] < conf.nblocks THEN procblocks[f] + 1 ELSE procblocks[f]

(* cblocks: how many partitions of set c fit behind the delay.             *)
Partitions(f, c) ==
    LET room == conf.nblocks - DelayBlocks(f)
    IN  IF c < 0 \/ Blocks(c) > room THEN room ELSE Blocks(c)

(* ... and how many of them are added up: without a set there is but one.  *)
Reach(f, c) == IF c < 0 THEN 1 ELSE Partitions(f, c)

(* The ring position of the block n blocks ahead of (or, n < 0, behind) the  *)
(* one being filtered; blockcounter is unsigned.                           *)
Slot(p, n) == ((blk[p] - 1 + n + CounterMod) % CounterMod) % conf.nblocks

(* The mixed window enters the ring at the slot of the delayed block.      *)
Enqueue(p, f, ev) ==
    LET flt == conf.filters[f]
        slot == Slot(p, DelayBlocks(f))
        iszero == /\ flt.src = {} \/ ev.zero
                  /\ flt.in \subseteq fzero[p]
        mixed == MixWindows({fbuf[ch] : ch \in flt.in}
                             \cup (IF flt.src = {} THEN {} ELSE {ev.win}))
    IN  IF ~iszero \/ ~conf.powersave
        THEN [ring |-> [cbuf[f] EXCEPT ![slot] = mixed], zeros |-> czero[f] \ {slot}]
        ELSE [ring |-> [cbuf[f] EXCEPT ![slot] = IF slot \in czero[f] THEN @ ELSE Silence],
              zeros |-> czero[f] \cup {slot}]

(* Slots i blocks back that a sum over n partitions adds, after the first. *)
Behind(n, pb) == {i \in 1..n - 1 : i < pb}
AddSlots(p, q, n, pb) ==
    {i \in Behind(n, pb) : ~conf.powersave \/ Slot(p, -i) \notin q.zeros}
SumAdds(p, f, q, c, n, pb, first) ==
    ConvolveAdd(first, [i \in AddSlots(p, q, n, pb) |-> q.ring[Slot(p, -i)]], f, c)

(* One filter: mix, convolve with the copied coefficient set, cross-fade   *)
(* from the previous one.                                                  *)
Filter(p) ==
    LET f == conf.order[p][idx[p]]
        coeff == Copy(p).coeff[f]
        prev == prevcoeff[f]
        pb == Processed(f)
        ev == Evaluate(p, f)
        q == Enqueue(p, f, ev)
        slot == Slot(p, 0)
        active == ~conf.powersave \/ slot \notin q.zeros
        fading == conf.filters[f].crossfade /\ prev # coeff
        n == Reach(f, coeff)
        m == Reach(f, prev)
        out0 == IF active THEN Convolve(q.ring[slot], f, coeff)
                ELSE IF f \in ozero THEN ocbuf[f] ELSE {}
        old0 == IF active THEN Convolve(q.ring[slot], f, prev)
                ELSE ev.win[1] \cup ev.win[2]
        out == SumAdds(p, f, q, coeff, n, pb, out0)
        old == SumAdds(p, f, q, prev, m, pb, old0)
        iszero == /\ ~active /\ AddSlots(p, q, n, pb) = {}
                  /\ ~(fading /\ Behind(m, pb) # {})
        faded == fading /\ ~iszero
        result == IF faded THEN Crossfade(f, out, old) ELSE out
    IN  /\ pc[p] = "filter" /\ idx[p] <= Len(conf.order[p])
        /\ cbuf' = [cbuf EXCEPT ![f] = Aliased(q.ring, result)]
        /\ czero' = [czero EXCEPT ![f] = q.zeros]
        /\ ebuf' = [ebuf EXCEPT ![f] = ev.kept]
        /\ ezero' = IF ev.ez THEN ezero \cup {f} ELSE ezero \ {f}
        /\ ocbuf' = [ocbuf EXCEPT ![f] = result]
        /\ ozero' = IF iszero THEN ozero \cup {f} ELSE ozero \ {f}
        /\ scratch' = [scratch EXCEPT ![p] = IF faded THEN <<{}, old>> ELSE ev.win]
        /\ szero' = IF ev.zero /\ ~faded THEN szero \cup {p} ELSE szero \ {p}
        /\ procblocks' = [procblocks EXCEPT ![f] = IF iszero THEN 0 ELSE pb]
        /\ prevcoeff' = [prevcoeff EXCEPT ![f] = coeff]
        /\ idx' = [idx EXCEPT ![p] = @ + 1]
        /\ UNCHANGED <<conf, pc, blk, inputs, ctl, changes, copies, tbuf, fbuf, fzero,
                       outf, outzero, odelay, mix, raw>>

(* All filters done: every output channel the process feeds is mixed from  *)
(* the outputs of its filters, then the processes meet.                    *)
MixOutputs(p) ==
    LET feeds(o) == {f \in FiltersOf(p) : o \in conf.filters[f].out}
        run(o) == ~conf.powersave \/ ~(feeds(o) \subseteq ozero)
        outs == ProcOutputs(p)
    IN  /\ pc[p] = "filter" /\ idx[p] > Len(conf.order[p])
        /\ outf' = [o \in OutCh |->
                      IF o \notin outs THEN outf[o]
                      ELSE IF run(o) THEN UNION {ocbuf[f] : f \in feeds(o)}
                      ELSE IF o \in outzero[p] THEN outf[o] ELSE {}]
        /\ outzero' = [outzero EXCEPT ![p] = {o \in outs : ~run(o)}]
        /\ Goto(p, "mixed")
        /\ UNCHANGED <<conf, blk, inputs, ctl, changes, copies, tbuf, fbuf, fzero, cbuf,
                       czero, ocbuf, ozero, ebuf, ezero, scratch, szero, procblocks,
                       prevcoeff, odelay, mix, raw>>

OutputsSynched(p) ==
    /\ pc[p] = "mixed" /\ Arrived(p, "mixed", {"write"})
    /\ Goto(p, "write")
    /\ UNCHANGED <<conf, blk, inputs, ctl, changes, copies, bufs>>

-----------------------------------------------------------------------------
(* One output channel of the process: back to the time domain in ocbuf[0], *)
(* then straight to its physical channel or, when virtual channels share   *)
(* one, delayed, muted and added to mixbuf; the last of them writes it.    *)
WriteOutput(p) ==
    LET o == conf.procout[p][idx[p]]
        f0 == First(p)
        ph == conf.physOut[o]
        run == ~conf.powersave \/ o \notin outzero[p]
        time == IF run THEN outf[o] ELSE IF f0 \in ozero THEN ocbuf[f0] ELSE {}
        held == conf.delayed \cap {o} # {}
        delayed == IF held THEN odelay[o] ELSE time
        heard == o \notin Copy(p).mute
        filled == mix[p].filled \/ heard
        sum == IF heard THEN (IF mix[p].filled THEN scratch[p][2] \cup delayed ELSE delayed)
               ELSE scratch[p][2]
        last == mix[p].j + 1 = Cardinality(Virt(ph))
        shared == Shared(conf.physOut, o)
        block == IF shared THEN delayed ELSE time
    IN  /\ pc[p] = "write" /\ idx[p] <= Len(conf.procout[p])
        /\ ocbuf' = [ocbuf EXCEPT ![f0] = block]
        /\ cbuf' = [cbuf EXCEPT ![f0] = Aliased(@, block)]
        /\ ozero' = IF run THEN ozero \ {f0} ELSE ozero \cup {f0}
        /\ czero' = IF conf.nblocks > 1 THEN czero
                    ELSE [czero EXCEPT ![f0] = IF run THEN {} ELSE {0}]
        /\ IF ~shared
           THEN /\ raw' = [raw EXCEPT ![ph] = Append(@, time)]
                /\ UNCHANGED <<odelay, mix, scratch, szero>>
           ELSE /\ odelay' = [odelay EXCEPT ![o] = IF held THEN time ELSE @]
                /\ scratch' = [scratch EXCEPT ![p] =
                       IF heard THEN <<{}, sum>>
                       ELSE IF last /\ ~filled THEN <<@[1], {}>> ELSE @]
                /\ szero' = IF heard THEN szero \ {p} ELSE szero
                /\ mix' = [mix EXCEPT ![p] = IF last THEN [filled |-> FALSE, j |-> 0]
                                             ELSE [filled |-> filled, j |-> @.j + 1]]
                /\ raw' = IF last THEN [raw EXCEPT ![ph] =
                                          Append(@, IF filled THEN sum ELSE {})]
                          ELSE raw
        /\ idx' = [idx EXCEPT ![p] = @ + 1]
        /\ UNCHANGED <<conf, pc, blk, inputs, ctl, changes, copies, tbuf, fbuf, fzero,
                       ebuf, ezero, procblocks, prevcoeff, outf, outzero>>

(* The output is signalled, the buffers swapped, the block counter moves.  *)
EndBlock(p) ==
    /\ pc[p] = "write" /\ idx[p] > Len(conf.procout[p])
    /\ blk' = [blk EXCEPT ![p] = @ + 1]
    /\ Goto(p, IF blk[p] = conf.last THEN "done" ELSE "start")
    /\ UNCHANGED <<conf, inputs, ctl, changes, copies, bufs>>

Next ==
    \/ NewInput \/ ChangeControl
    \/ \E p \in Procs :
          \/ BlockStart(p) \/ HooksDone(p) \/ CopyControl(p)
          \/ ReadInput(p) \/ InputsRead(p) \/ InputsSynched(p)
          \/ Filter(p) \/ MixOutputs(p) \/ OutputsSynched(p)
          \/ WriteOutput(p) \/ EndBlock(p)

Spec == Init /\ [][Next]_vars

-----------------------------------------------------------------------------
(* What the outputs should carry, computed from the history alone: no ring, *)
(* no flags, no shared buffers.                                            *)
UsedCoeff(f, b) == IF b = 0 THEN conf.initcoeff[f] ELSE copies[ProcOf(f)][b].coeff[f]
Signal(ch, b) ==
    LET p == CHOOSE q \in Procs : \E i \in DOMAIN conf.procin[q] : conf.procin[q][i] = ch
        muted == Shared(conf.physIn, ch) /\ ch \in copies[p][b].mute
    IN  IF conf.physIn[ch] \in inputs[b] /\ ~muted THEN {<<ch, b, <<>> >>} ELSE {}

(* What filter f should put out in block b when out says what the others do. *)
Source(out, f, n) ==
    IF n < 1 THEN {}
    ELSE UNION ({Signal(ch, n) : ch \in conf.filters[f].in}
                 \cup {out[<<g, n>>] : g \in conf.filters[f].src})
Window(out, f, n) == <<Source(out, f, n - 1), Source(out, f, n)>>
Sum(out, f, c, b) ==
    LET window(k) == Window(out, f, b - k - DelayBlocks(f))
    IN  IF c < 0 THEN DiracConvolve(window(0), f)
        ELSE UNION {Filtered(window(k), f, c, k) : k \in 0..Partitions(f, c) - 1}
Output(out, f, b) ==
    LET now == UsedCoeff(f, b)
        before == UsedCoeff(f, b - 1)
    IN  IF conf.filters[f].crossfade /\ now # before
        THEN Hop(Sum(out, f, now, b), f, FadeIn, 0, 0) \cup Hop(Sum(out, f, before, b), f, FadeOut, 0, 0)
        ELSE Sum(out, f, now, b)

Ideal ==
    LET out[fb \in Filters \X (1..conf.last)] == Output(out, fb[1], fb[2])
    IN  out

Fed(o) == \E f \in Filters : o \in conf.filters[f].out
IdealChannel(o, b) ==
    IF b < 1 THEN {} ELSE UNION {Ideal[<<f, b>>] : f \in {g \in Filters : o \in conf.filters[g].out}}
Due(o, b) == IdealChannel(o, IF o \in conf.delayed THEN b - 1 ELSE b)
IdealOutput(ph, b) ==
    LET writer(o) == CHOOSE p \in Procs : \E i \in DOMAIN conf.procout[p] : conf.procout[p][i] = o
        heard(o) == Shared(conf.physOut, o) => o \notin copies[writer(o)][b].mute
    IN  UNION {Due(o, b) : o \in {v \in Virt(ph) : heard(v)}}

(* Every block that leaves on a physical output is the partitioned          *)
(* convolution of the input history: powersave, the cross-fade, the ring    *)
(* with its delay and the scratch buffers shared between the stages         *)
(* (filter_process(), bfrun.c) leave no trace in it.                        *)
OutputIsIdeal ==
    (\E p \in Procs : pc[p] = "write") => \A ph \in DOMAIN raw :
        LET b == Len(raw[ph])
        IN  b > 0 /\ (\A o \in Virt(ph) : Fed(o)) => raw[ph][b] = IdealOutput(ph, b)

(* Under powersave a buffer whose zero flag is set is silent: a computation *)
(* skipped because of the flag would have added nothing (bfrun.c:1475).     *)
ZeroFlagsTrue ==
    /\ \A p \in Procs :
          /\ \A ch \in fzero[p] : fbuf[ch] = Silence
          /\ \A o \in outzero[p] : outf[o] = {}
          /\ p \in szero => scratch[p] = Silence
    /\ \A f \in Filters :
          /\ \A s \in czero[f] : cbuf[f][s] = Silence
          /\ f \in ozero => ocbuf[f] = {}
          /\ f \in ezero => ebuf[f] = {}

(* Partial processing: the slots a filter leaves out because it has not run *)
(* that many blocks since it was last silent hold nothing its coefficient   *)
(* set reaches (procblocks, bfrun.c:1498).                                  *)
PartialSumsComplete ==
    \A p \in Procs : pc[p] = "filter" =>
        \A n \in idx[p]..Len(conf.order[p]) :
            LET f == conf.order[p][n]
            IN  \A i \in 1..Reach(f, Copy(p).coeff[f]) - 1 :
                    i > procblocks[f] => cbuf[f][Slot(p, -i)] = Silence

(* Commands run from the block-start hook take effect as one: every filter  *)
(* of every process filters the block with the coefficient the hook left    *)
(* (bfrun.c:1389; "performed before the corresponding block is processed"). *)
HooksAtomic ==
    conf.hooks =>
        \A p, q \in Procs : \A b \in DOMAIN copies[p] \cap DOMAIN copies[q] :
            copies[p][b].coeff = copies[q][b].coeff
=============================================================================
