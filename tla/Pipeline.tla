------------------------------ MODULE Pipeline ------------------------------
(***************************************************************************)
(* The block pipeline of BruteFIR: the input process, the filter processes *)
(* and the output process of bfrun.c, the thread of the sound server that  *)
(* calls process_callback() of dai.c, the semaphores that connect them and *)
(* the two pairs of sample buffers they share.                             *)
(*                                                                         *)
(* Data is abstracted to its provenance: a buffer holds the set of input   *)
(* blocks its samples come from, so "the right audio" is "exactly block k".*)
(* One blocking and one callback device per direction stand for all; each  *)
(* direction has at least one of them (the four constants below).          *)
(***************************************************************************)
EXTENDS Integers, Sequences, FiniteSets

CONSTANTS
    n_processes,    \* bfconf->n_processes, the filter processes
    Configs,        \* the configurations to look at
    MaxCalls        \* bound on the callbacks when no input ever ends

\* What the configuration and the audio decide before the program starts.
Config ==
    [BlockingIn    : BOOLEAN,       \* glob.n_blocking_devs[IN] > 0
     BlockingOut   : BOOLEAN,       \* glob.n_blocking_devs[OUT] > 0
     CallbackIn    : BOOLEAN,       \* glob.n_callback_devs[IN] > 0
     CallbackOut   : BOOLEAN,       \* glob.n_callback_devs[OUT] > 0
     synched_write : BOOLEAN,       \* bfconf->synched_write: a clocked output
     BlockStart    : BOOLEAN,       \* events.n_block_start > 0
     Host          : {"jack", "pipewire"},  \* the callback module
     Ratio         : Nat \ {0},     \* callbacks per block
     BlockFrames   : Nat \ {0},     \* block_size_frames of the callback devices
     EofBlock      : Nat,           \* the blocking input ends in this block ...
     EofFrames     : Nat]           \* ... with so many frames of it

ASSUME PipelineAssumption ==
    /\ n_processes \in Nat \ {0} /\ MaxCalls \in Nat
    /\ Configs \subseteq Config
    /\ \A c \in Configs :
          /\ c.BlockingIn \/ c.CallbackIn
          /\ c.BlockingOut \/ c.CallbackOut
          /\ c.synched_write => c.BlockingOut
          /\ c.EofFrames < c.Ratio * c.BlockFrames

Proc == 0 .. n_processes - 1

VARIABLES
    conf,       \* the configuration: chosen at the start, never changed
    sem,        \* the counting semaphores of bfrun() and of its glob
    f2f,        \* f2f[p]: filter2filter_pipes[p], the barrier of the filters
    inp,        \* the main thread, which becomes the input process
    out,        \* the output process
    flt,        \* flt[p]: filter process p
    cb,         \* the callback thread and the callback state of the dai module
    eof,        \* ca->frames_left and ca->lastbuf_index
    mem,        \* the sample buffers
    log,        \* history: what the output devices were given
    exited      \* bf_exit(BF_EXIT_OK) has been reached

vars == <<conf, sem, f2f, inp, out, flt, cb, eof, mem, log, exited>>

Sems == {"bl_output_2_bl_input", "bl_output_2_cb_input", "cb_output_2_bl_input",
         "bl_input_2_filter", "filter_2_bl_output", "cb_input_2_filter",
         "filter_2_cb_output", "synch_sp"}

-----------------------------------------------------------------------------
(* Configuration *)

BlockingIn    == conf.BlockingIn
BlockingOut   == conf.BlockingOut
CallbackIn    == conf.CallbackIn
CallbackOut   == conf.CallbackOut
synched_write == conf.synched_write
BlockStart    == conf.BlockStart
Host          == conf.Host
Ratio         == conf.Ratio
BlockFrames   == conf.BlockFrames
Period        == Ratio * BlockFrames

-----------------------------------------------------------------------------
(* Wiring: which semaphores bfrun() hands to whom *)

\* Mutant of input_writefd: wired as if there always were a blocking input.
input_writefd_Blocking == "bl_output_2_bl_input"
input_writefd == IF BlockingIn THEN "bl_output_2_bl_input" ELSE "bl_output_2_cb_input"
extra_input_writefd == IF BlockingIn /\ CallbackIn THEN {"bl_output_2_cb_input"} ELSE {}
output_readfd == IF BlockingOut THEN "bl_output_2_bl_input" ELSE "cb_output_2_bl_input"

\* Mutant of HasExtraOutput: the input process does not wait for the callbacks.
HasExtraOutput_Never == FALSE
HasExtraOutput == BlockingOut /\ CallbackOut

\* Mutant of Take: the wait returns without a token.
Take_NoWait(s, k) == sem' = [sem EXCEPT ![s] = @ - k]

\* Semaphore operations: each post or wait is atomic (see the module BfSem).
Post(s, k) == sem' = [sem EXCEPT ![s] = @ + k]
PostAll(S, k) == sem' = [s \in Sems |-> IF s \in S THEN sem[s] + k ELSE sem[s]]
Take(s, k) == sem[s] >= k /\ sem' = [sem EXCEPT ![s] = @ - k]

InputSide == {input_writefd} \cup extra_input_writefd

-----------------------------------------------------------------------------
(* Initial state: every thread has been forked *)

NoData == -1
Min2(a, b) == IF a < b THEN a ELSE b
Max2(a, b) == IF a < b THEN b ELSE a

\* Mutant of iodelay_fill: the two callbacks the pipeline itself takes are not
\* deducted.
iodelay_fill_Full == (2 * Period) \div BlockFrames

\* The callbacks of silence that keep a small callback buffer a fixed distance
\* behind the input ("some magic callback I/O init values").
iodelay_fill == (2 * Period) \div BlockFrames - 2

Init ==
    /\ conf \in Configs
    /\ sem = [s \in Sems |-> 0]
    /\ f2f = [p \in Proc |-> 0]
    /\ inp = [pc |-> IF BlockingIn \/ ~BlockingOut THEN "post_init" ELSE "none",
              index |-> 0]
    /\ out = [pc |-> IF BlockingOut THEN "start" ELSE "none",
              cur |-> 0, index |-> 0, islast |-> FALSE, frames |-> Period,
              finished |-> FALSE]
    /\ flt = [p \in Proc |-> [pc |-> "wait_init", next |-> "ready", block |-> 0]]
    /\ cb = [pc |-> IF CallbackIn \/ CallbackOut THEN "idle" ELSE "none",
             started |-> FALSE, isinit |-> FALSE, calls |-> 0,
             in_left |-> Ratio, in_cur |-> 0, in_index |-> 0,
             out_left |-> 0, out_cur |-> 0, out_index |-> 0,
             fill |-> iodelay_fill, locked |-> FALSE,
             frames |-> -1, ret |-> 0, finished |-> FALSE]
    /\ eof = [frames_left |-> -1, lastbuf_index |-> 0]
    /\ mem = [in |-> [b \in 0 .. 1 |-> [bl |-> NoData, cb |-> NoData]],
              freq_in |-> [p \in Proc |-> {}],
              freq_out |-> [p \in Proc |-> {}],
              out |-> [b \in 0 .. 1 |-> [p \in Proc |-> {}]]]
    /\ log = [bl |-> <<>>, cb |-> <<>>]
    /\ exited = FALSE

-----------------------------------------------------------------------------
(* Main thread and input process *)

\* bfrun(): let the filter processes initialise.  Without blocking I/O, and
\* without blocking output, the main thread waits for them itself.
MainPostInit ==
    /\ inp.pc = "post_init"
    /\ Post("bl_input_2_filter", n_processes)
    /\ inp' = [inp EXCEPT !.pc = IF BlockingOut THEN "synch_post" ELSE "wait_init"]
    /\ UNCHANGED <<f2f, out, flt, cb, eof, mem, log, exited>>

MainWaitInit ==
    /\ inp.pc = "wait_init"
    /\ Take("filter_2_bl_output", n_processes)
    /\ inp' = [inp EXCEPT !.pc = IF BlockingIn THEN "read" ELSE "pause"]
    /\ cb' = [cb EXCEPT !.started = @ \/ ~BlockingIn]
    /\ UNCHANGED <<f2f, out, flt, eof, mem, log, exited>>

InputSynchPost ==
    /\ inp.pc = "synch_post"
    /\ Post("synch_sp", 1)
    /\ inp' = [inp EXCEPT !.pc = "synch_wait"]
    /\ UNCHANGED <<f2f, out, flt, cb, eof, mem, log, exited>>

InputSynchWait ==
    /\ inp.pc = "synch_wait"
    /\ Take(output_readfd, 1)
    /\ inp' = [inp EXCEPT !.pc = "read"]
    /\ UNCHANGED <<f2f, out, flt, cb, eof, mem, log, exited>>

NoMoreInput == eof.frames_left # -1 /\ inp.index = eof.lastbuf_index + 1

\* dai_input(), on entry: sleep for ever behind the last block, else fill
\* iobuffers[IN][st.curbuf].  The first call starts the callback devices.
InputBegin ==
    /\ inp.pc = "read"
    /\ IF NoMoreInput
         THEN /\ inp' = [inp EXCEPT !.pc = "pause"]
              /\ UNCHANGED cb
         ELSE /\ inp' = [inp EXCEPT !.pc = "reading"]
              /\ cb' = [cb EXCEPT !.started = TRUE]
    /\ UNCHANGED <<sem, f2f, out, flt, eof, mem, log, exited>>

StoreBl(b, k) == mem' = [mem EXCEPT !.in[b].bl = k]
StoreCb(b, k) == mem' = [mem EXCEPT !.in[b].cb = k]

\* The devices have delivered the whole block.
InputEnd ==
    /\ inp.pc = "reading"
    /\ inp.index < conf.EofBlock
    /\ StoreBl(inp.index % 2, inp.index)
    /\ inp' = [inp EXCEPT !.pc = "wait_output", !.index = @ + 1]
    /\ UNCHANGED <<sem, f2f, out, flt, cb, eof, log, exited>>

\* A device reports its end with some frames of this block read.  The code stores
\* frames_left and lastbuf_index one after the other, under no lock, while the
\* output process and the callback thread test both.
InputEofFrames ==
    /\ inp.pc = "reading"
    /\ inp.index = conf.EofBlock
    /\ eof' = [eof EXCEPT !.frames_left = conf.EofFrames]
    /\ inp' = [inp EXCEPT !.pc = "eof"]
    /\ UNCHANGED <<sem, f2f, out, flt, cb, mem, log, exited>>

InputEofIndex ==
    /\ inp.pc = "eof"
    /\ eof' = [eof EXCEPT !.lastbuf_index = inp.index]
    /\ StoreBl(inp.index % 2, inp.index)
    /\ inp' = [inp EXCEPT !.pc = "wait_output", !.index = @ + 1]
    /\ UNCHANGED <<sem, f2f, out, flt, cb, log, exited>>

InputTakeOutput ==
    /\ inp.pc = "wait_output"
    /\ Take(output_readfd, 1)
    /\ inp' = [inp EXCEPT !.pc = IF HasExtraOutput THEN "wait_extra" ELSE "post_filter"]
    /\ UNCHANGED <<f2f, out, flt, cb, eof, mem, log, exited>>

InputTakeExtra ==
    /\ inp.pc = "wait_extra"
    /\ Take("cb_output_2_bl_input", 1)
    /\ inp' = [inp EXCEPT !.pc = "post_filter"]
    /\ UNCHANGED <<f2f, out, flt, cb, eof, mem, log, exited>>

InputPostFilter ==
    /\ inp.pc = "post_filter"
    /\ Post("bl_input_2_filter", n_processes)
    /\ inp' = [inp EXCEPT !.pc = "read"]
    /\ UNCHANGED <<f2f, out, flt, cb, eof, mem, log, exited>>

Input ==
    \/ MainPostInit \/ MainWaitInit
    \/ InputSynchPost \/ InputSynchWait
    \/ InputBegin \/ InputEnd
    \/ InputEofFrames \/ InputEofIndex
    \/ InputTakeOutput \/ InputTakeExtra \/ InputPostFilter

-----------------------------------------------------------------------------
(* Output process *)

\* output_process_fork_child(): without a blocking input it is the main thread
\* and wakes the filter processes itself (two calls of bf_sem_postmany).
OutputStart ==
    /\ out.pc = "start"
    /\ Post("bl_input_2_filter", IF BlockingIn THEN 0 ELSE 2 * n_processes)
    /\ out' = [out EXCEPT !.pc = "wait_init"]
    /\ UNCHANGED <<f2f, inp, flt, cb, eof, mem, log, exited>>

OutputWaitInit ==
    /\ out.pc = "wait_init"
    /\ Take("filter_2_bl_output", n_processes)
    /\ out' = [out EXCEPT !.pc = IF BlockingIn THEN "synch_wait" ELSE "prime"]
    /\ UNCHANGED <<f2f, inp, flt, cb, eof, mem, log, exited>>

OutputSynchWait ==
    /\ out.pc = "synch_wait"
    /\ Take("synch_sp", 1)
    /\ out' = [out EXCEPT !.pc = "prime"]
    /\ UNCHANGED <<f2f, inp, flt, cb, eof, mem, log, exited>>

\* Mutant of PrimeTokens: the input side is let one block further ahead.
PrimeTokens_Extra == 2
PrimeTokens == 1

\* The head start of the input side: two tokens in all.  With a clocked output
\* the first of them is posted from inside dai_output() (OutputSynchPost).
OutputPrime ==
    /\ out.pc = "prime"
    /\ cb' = [cb EXCEPT !.started = @ \/ ~BlockingIn]
    /\ IF synched_write
         THEN /\ PostAll(extra_input_writefd, PrimeTokens)
              /\ out' = [out EXCEPT !.pc = "fill1"]
         ELSE /\ PostAll(InputSide, PrimeTokens)
              /\ out' = [out EXCEPT !.pc = "prime2"]
    /\ UNCHANGED <<f2f, inp, flt, eof, mem, log, exited>>

OutputPrime2 ==
    /\ out.pc = "prime2"
    /\ PostAll(InputSide, 1)
    /\ out' = [out EXCEPT !.pc = IF synched_write THEN "fill2" ELSE "loop"]
    /\ UNCHANGED <<f2f, inp, flt, cb, eof, mem, log, exited>>

\* Mutant of IsLast: the output ends one block too early.
IsLast_Early == eof.frames_left # -1 /\ out.index + 1 >= eof.lastbuf_index
IsLast == eof.frames_left # -1 /\ out.index = eof.lastbuf_index

Busy(pc) == CASE pc = "fill1" -> "fill1_busy"
              [] pc = "fill2" -> "fill2_busy"
              [] OTHER -> "write_busy"

\* dai_output(), on entry: is this the last block, and how long is it?
OutputBegin ==
    /\ out.pc \in {"fill1", "fill2", "write"}
    /\ out' = [out EXCEPT !.pc = Busy(@),
                          !.islast = @ \/ IsLast,
                          !.frames = IF IsLast THEN eof.frames_left ELSE @]
    /\ UNCHANGED <<sem, f2f, inp, flt, cb, eof, mem, log, exited>>

\* bf_sem_post(synch_fd), after the first round of writes of the first fill.
OutputSynchPost ==
    /\ out.pc = "fill1_busy"
    /\ Post(input_writefd, 1)
    /\ out' = [out EXCEPT !.pc = "fill1_rest"]
    /\ UNCHANGED <<f2f, inp, flt, cb, eof, mem, log, exited>>

\* The blocks whose samples are in an output buffer.
Contents(b) == UNION {mem.out[b][p] : p \in Proc}

Write == log' = [log EXCEPT !.bl = Append(@, [data |-> Contents(out.cur),
                                             frames |-> out.frames])]

\* dai_output(true, ...): st.curbuf has been swapped, st.buf_index has not moved.
OutputFillEnd ==
    /\ out.pc \in {"fill1_rest", "fill2_busy"}
    /\ Write
    /\ out' = [out EXCEPT !.pc = IF @ = "fill1_rest" THEN "prime2" ELSE "loop",
                          !.cur = 1 - @]
    /\ UNCHANGED <<sem, f2f, inp, flt, cb, eof, mem, exited>>

\* Mutant of OutputWaitFilter: it waits for one filter process only.
OutputWaitFilter_One ==
    /\ out.pc = "loop"
    /\ Take("filter_2_bl_output", 1)
    /\ out' = [out EXCEPT !.pc = "post_input"]
    /\ UNCHANGED <<f2f, inp, flt, cb, eof, mem, log, exited>>

OutputWaitFilter ==
    /\ out.pc = "loop"
    /\ Take("filter_2_bl_output", n_processes)
    /\ out' = [out EXCEPT !.pc = "post_input"]
    /\ UNCHANGED <<f2f, inp, flt, cb, eof, mem, log, exited>>

OutputPostInput ==
    /\ out.pc = "post_input"
    /\ PostAll(InputSide, 1)
    /\ out' = [out EXCEPT !.pc = "write"]
    /\ UNCHANGED <<f2f, inp, flt, cb, eof, mem, log, exited>>

\* The devices have taken the whole buffer.
OutputEnd ==
    /\ out.pc = "write_busy"
    /\ Write
    /\ out' = IF out.islast
                THEN [out EXCEPT !.pc = "finish", !.finished = TRUE]
                ELSE [out EXCEPT !.pc = "loop", !.cur = 1 - @, !.index = @ + 1]
    /\ UNCHANGED <<sem, f2f, inp, flt, cb, eof, mem, exited>>

\* output_finish(): bf_exit(BF_EXIT_OK) once every output device has finished,
\* else this thread sleeps for ever.
OutputFinish ==
    /\ out.pc = "finish"
    /\ ~cb.locked
    /\ IF CallbackOut /\ ~cb.finished
         THEN /\ out' = [out EXCEPT !.pc = "pause"]
              /\ UNCHANGED exited
         ELSE /\ exited' = TRUE
              /\ UNCHANGED out
    /\ UNCHANGED <<sem, f2f, inp, flt, cb, eof, mem, log>>

Output ==
    \/ OutputStart \/ OutputWaitInit \/ OutputSynchWait
    \/ OutputPrime \/ OutputPrime2
    \/ OutputBegin \/ OutputSynchPost \/ OutputFillEnd
    \/ OutputWaitFilter \/ OutputPostInput \/ OutputEnd \/ OutputFinish

-----------------------------------------------------------------------------
(* Filter processes *)

\* Mutant of SynchPc: the call of synch_filter_processes() is missing.
SynchPc_None(next) == next
SynchPc(next) == "synch_post"

\* synch_filter_processes(), then go on at next.  SynchFilter has the loop that
\* posts the others one by one; here all posts are one step.
Goto(p, pc)      == flt' = [flt EXCEPT ![p].pc = pc]
Synch(p, next)   == flt' = [flt EXCEPT ![p].pc = SynchPc(next), ![p].next = next]

FilterSynchPost(p) ==
    /\ flt[p].pc = "synch_post"
    /\ f2f' = [q \in Proc |-> IF q = p THEN f2f[q] ELSE f2f[q] + 1]
    /\ Goto(p, "synch_wait")
    /\ UNCHANGED <<sem, inp, out, cb, eof, mem, log, exited>>

FilterSynchWait(p) ==
    /\ flt[p].pc = "synch_wait"
    /\ f2f[p] >= n_processes - 1
    /\ f2f' = [f2f EXCEPT ![p] = @ - (n_processes - 1)]
    /\ Goto(p, flt[p].next)
    /\ UNCHANGED <<sem, inp, out, cb, eof, mem, log, exited>>

FilterWaitInit(p) ==
    /\ flt[p].pc = "wait_init"
    /\ Take("bl_input_2_filter", 1)
    /\ Synch(p, "ready")
    /\ UNCHANGED <<f2f, inp, out, cb, eof, mem, log, exited>>

FirstWait == IF BlockingIn THEN "wait_bl" ELSE "wait_cb"

FilterReady(p) ==
    /\ flt[p].pc = "ready"
    /\ Post("filter_2_bl_output", 1)
    /\ Goto(p, FirstWait)
    /\ UNCHANGED <<f2f, inp, out, cb, eof, mem, log, exited>>

\* All the input of the block has arrived: tell the block_start listeners, in
\* step with the other filter processes, if there are any.
StartBlock(p) == IF BlockStart THEN Synch(p, "inputs") ELSE Goto(p, "inputs")

FilterWaitBl(p) ==
    /\ flt[p].pc = "wait_bl"
    /\ Take("bl_input_2_filter", 1)
    /\ IF CallbackIn THEN Goto(p, "wait_cb") ELSE StartBlock(p)
    /\ UNCHANGED <<f2f, inp, out, cb, eof, mem, log, exited>>

FilterWaitCb(p) ==
    /\ flt[p].pc = "wait_cb"
    /\ Take("cb_input_2_filter", 1)
    /\ StartBlock(p)
    /\ UNCHANGED <<f2f, inp, out, cb, eof, mem, log, exited>>

\* Mutant of FilterBuf: curbuf is never swapped.
FilterBuf_Stuck(k) == 0
FilterBuf(k) == k % 2

\* Convert and transform the inputs of p from inbuf[curbuf].
FilterInputs(p) ==
    LET raw == mem.in[FilterBuf(flt[p].block)] IN
    /\ flt[p].pc = "inputs"
    /\ mem' = [mem EXCEPT !.freq_in[p] =
                 (IF BlockingIn THEN {raw.bl} ELSE {}) \cup
                 (IF CallbackIn THEN {raw.cb} ELSE {})]
    /\ Synch(p, "convolve")
    /\ UNCHANGED <<sem, f2f, inp, out, cb, eof, log, exited>>

\* Mix, filter and mix again: from all input_freqcbuf to the output_freqcbuf of p.
FilterConvolve(p) ==
    /\ flt[p].pc = "convolve"
    /\ mem' = [mem EXCEPT !.freq_out[p] = UNION {mem.freq_in[q] : q \in Proc}]
    /\ Synch(p, "outputs")
    /\ UNCHANGED <<sem, f2f, inp, out, cb, eof, log, exited>>

\* Transform back and convert, from all output_freqcbuf to the channels of p in
\* outbuf[curbuf].
FilterOutputs(p) ==
    /\ flt[p].pc = "outputs"
    /\ mem' = [mem EXCEPT !.out[FilterBuf(flt[p].block)][p] =
                 UNION {mem.freq_out[q] : q \in Proc}]
    /\ Goto(p, "post_output")
    /\ UNCHANGED <<sem, f2f, inp, out, cb, eof, log, exited>>

OutputSems == (IF BlockingOut THEN {"filter_2_bl_output"} ELSE {}) \cup
              (IF CallbackOut THEN {"filter_2_cb_output"} ELSE {})

\* Signal the output side, swap the buffers, advance to the next block.
FilterPostOutput(p) ==
    /\ flt[p].pc = "post_output"
    /\ PostAll(OutputSems, 1)
    /\ flt' = [flt EXCEPT ![p].pc = FirstWait, ![p].block = @ + 1]
    /\ UNCHANGED <<f2f, inp, out, cb, eof, mem, log, exited>>

Filter(p) ==
    \/ FilterSynchPost(p) \/ FilterSynchWait(p)
    \/ FilterWaitInit(p) \/ FilterReady(p)
    \/ FilterWaitBl(p) \/ FilterWaitCb(p)
    \/ FilterInputs(p) \/ FilterConvolve(p) \/ FilterOutputs(p)
    \/ FilterPostOutput(p)

-----------------------------------------------------------------------------
(* Callback thread: process_callback() and bf_callback_ready() *)

AfterInput == IF CallbackOut THEN "out_lock" ELSE "idle"

\* The sound server calls.  If the last call told it that the stream ends it
\* reports BF_CALLBACK_EVENT_FINISHED, else it hands over a buffer per direction.
CallbackCall ==
    /\ cb.pc = "idle"
    /\ cb.started
    /\ BlockingIn \/ cb.calls < MaxCalls
    /\ cb' = [cb EXCEPT
                !.pc = IF cb.ret # 0 THEN "finished_event"
                       ELSE IF CallbackIn THEN "in_copy" ELSE "out_lock",
                !.calls = IF BlockingIn THEN @ ELSE @ + 1]
    /\ UNCHANGED <<sem, f2f, inp, out, flt, eof, mem, log, exited>>

\* process_callback_input(): one more piece of iobuffers[IN][sd->cb.curbuf].
CallbackInCopy ==
    /\ cb.pc = "in_copy"
    /\ IF cb.in_left = 1
         THEN /\ StoreCb(cb.in_cur, cb.in_index)
              /\ cb' = [cb EXCEPT !.pc = "in_init", !.in_left = Ratio, !.in_cur = 1 - @]
         ELSE /\ cb' = [cb EXCEPT !.pc = AfterInput, !.in_left = @ - 1]
              /\ UNCHANGED mem
    /\ UNCHANGED <<sem, f2f, inp, out, flt, eof, log, exited>>

\* bf_callback_ready(), first lines: the very first call lets the blocking input
\* go ahead by one block.
CallbackInit ==
    /\ cb.pc \in {"in_init", "out_init"}
    /\ Post("cb_output_2_bl_input", IF BlockingIn /\ ~cb.isinit THEN 1 ELSE 0)
    /\ cb' = [cb EXCEPT !.pc = IF @ = "in_init" THEN "in_wait" ELSE "out_wait",
                        !.isinit = TRUE]
    /\ UNCHANGED <<f2f, inp, out, flt, eof, mem, log, exited>>

CallbackInWait ==
    /\ cb.pc = "in_wait"
    /\ Take("bl_output_2_cb_input", IF BlockingOut THEN 1 ELSE 0)
    /\ cb' = [cb EXCEPT !.pc = "in_post"]
    /\ UNCHANGED <<f2f, inp, out, flt, eof, mem, log, exited>>

CallbackInPost ==
    /\ cb.pc = "in_post"
    /\ Post("cb_input_2_filter", n_processes)
    /\ cb' = [cb EXCEPT !.pc = AfterInput, !.in_index = @ + 1]
    /\ UNCHANGED <<f2f, inp, out, flt, eof, mem, log, exited>>

NeedsBlock == cb.out_left = 0 /\ cb.fill = 0

\* Lock the output side; a new block is needed when the last one is used up and
\* the I/O delay has been filled.
CallbackOutLock ==
    /\ cb.pc = "out_lock"
    /\ cb' = IF NeedsBlock
               THEN [cb EXCEPT !.pc = "out_init", !.locked = TRUE, !.out_left = Ratio]
               ELSE [cb EXCEPT !.pc = "out_copy", !.locked = TRUE]
    /\ UNCHANGED <<sem, f2f, inp, out, flt, eof, mem, log, exited>>

CallbackOutWait ==
    /\ cb.pc = "out_wait"
    /\ Take("filter_2_cb_output", n_processes)
    /\ cb' = [cb EXCEPT !.pc = "out_post"]
    /\ UNCHANGED <<f2f, inp, out, flt, eof, mem, log, exited>>

\* trigger_callback_ready() unlocks the output side again.
CallbackOutPost ==
    /\ cb.pc = "out_post"
    /\ Post("cb_output_2_bl_input", IF BlockingIn THEN 1 ELSE 0)
    /\ cb' = [cb EXCEPT !.pc = "out_copy", !.locked = FALSE, !.out_index = @ + 1]
    /\ UNCHANGED <<f2f, inp, out, flt, eof, mem, log, exited>>

\* Mutant of LastFrames: the index has not been advanced past the last block.
LastFrames_Early ==
    IF /\ cb.frames = -1
       /\ eof.frames_left # -1
       /\ Max2(cb.in_index, cb.out_index) = eof.lastbuf_index
    THEN eof.frames_left
    ELSE cb.frames

\* sd->cb.frames_left after the last-buffer test.
LastFrames ==
    IF /\ cb.frames = -1
       /\ eof.frames_left # -1
       /\ Max2(cb.in_index, cb.out_index) = eof.lastbuf_index + 1
    THEN eof.frames_left
    ELSE cb.frames

\* Mutant of Returned: no frame left is no reason to end.
Returned_ZeroGoesOn(frames) == IF frames = -1 \/ frames > BlockFrames THEN 0 ELSE frames

\* What process_callback() returns: 0 to go on, the frames of the last buffer, or
\* -1 when there is no frame left for it.
Returned(frames) ==
    CASE frames = -1          -> 0
      [] frames = 0           -> -1
      [] frames > BlockFrames -> 0
      [] OTHER                -> frames

\* JACK leaves the graph at once when it is returned -1.
PcOnReturn(ret) == IF Host = "jack" /\ ret = -1 THEN "stopped" ELSE "idle"

\* process_callback_output() and the test for the last buffer.
CallbackOutCopy ==
    LET filling == cb.fill # 0
        frames  == LastFrames
        ret     == Returned(frames)
        used_up == ~filling /\ cb.out_left = 1
    IN
    /\ cb.pc = "out_copy"
    /\ log' = [log EXCEPT !.cb = Append(@, IF filling THEN {} ELSE Contents(cb.out_cur))]
    /\ cb' = [cb EXCEPT
                !.pc = PcOnReturn(ret),
                !.locked = FALSE,
                !.fill = IF filling THEN @ - 1 ELSE @,
                !.out_left = IF filling THEN @ ELSE @ - 1,
                !.out_cur = IF used_up THEN 1 - @ ELSE @,
                !.frames = IF frames > BlockFrames THEN frames - BlockFrames ELSE frames,
                !.ret = ret]
    /\ UNCHANGED <<sem, f2f, inp, out, flt, eof, mem, exited>>

\* BF_CALLBACK_EVENT_FINISHED.
CallbackFinished ==
    /\ cb.pc = "finished_event"
    /\ cb' = [cb EXCEPT !.pc = "stopped", !.finished = TRUE]
    /\ exited' = (~BlockingOut \/ out.finished)
    /\ UNCHANGED <<sem, f2f, inp, out, flt, eof, mem, log>>

Callback ==
    \/ CallbackCall
    \/ CallbackInCopy \/ CallbackInit \/ CallbackInWait \/ CallbackInPost
    \/ CallbackOutLock \/ CallbackOutWait \/ CallbackOutPost \/ CallbackOutCopy
    \/ CallbackFinished

-----------------------------------------------------------------------------

\* The program has exited, or the bound on the callbacks has been reached.
Done ==
    /\ exited \/ (~BlockingIn /\ cb.pc = "idle" /\ cb.calls = MaxCalls)
    /\ UNCHANGED vars

\* The configuration does not change, and nothing runs after the exit.
Running(A) == ~exited /\ A /\ UNCHANGED conf

Next ==
    \/ Running(Input) \/ Running(Output) \/ Running(Callback)
    \/ \E p \in Proc : Running(Filter(p))
    \/ Done

\* Every thread that can run eventually does: none of them is ever disabled by a
\* step of another once its semaphore holds the tokens it waits for.  The input
\* and output devices become ready again and the sound server goes on calling.
Fairness ==
    /\ WF_vars(Running(Input))
    /\ WF_vars(Running(Output))
    /\ WF_vars(Running(Callback))
    /\ \A p \in Proc : WF_vars(Running(Filter(p)))

Spec == Init /\ [][Next]_vars /\ Fairness

-----------------------------------------------------------------------------
(* Properties *)

InputPcs == {"post_init", "wait_init", "synch_post", "synch_wait", "read", "reading",
             "eof", "wait_output", "wait_extra", "post_filter", "pause", "none"}
OutputPcs == {"start", "wait_init", "synch_wait", "prime", "prime2", "fill1",
              "fill1_busy", "fill1_rest", "fill2", "fill2_busy", "loop",
              "post_input", "write", "write_busy", "finish", "pause", "none"}
WorkPcs == {"ready", "inputs", "convolve", "outputs"}
FilterPcs == WorkPcs \cup {"wait_init", "synch_post", "synch_wait", "wait_bl",
                           "wait_cb", "post_output"}
CallbackPcs == {"idle", "in_copy", "in_init", "in_wait", "in_post", "out_lock",
                "out_init", "out_wait", "out_post", "out_copy", "finished_event",
                "stopped", "none"}

\* Block numbers, NoData included.
Data == Nat \cup {NoData}

SemType == sem \in [Sems -> Nat]
BarrierType == f2f \in [Proc -> Nat]
InputType == inp \in [pc : InputPcs, index : Nat]
OutputType ==
    out \in [pc : OutputPcs, cur : 0 .. 1, index : Nat, islast : BOOLEAN,
             frames : Nat, finished : BOOLEAN]
FilterType == flt \in [Proc -> [pc : FilterPcs, next : WorkPcs, block : Nat]]
CallbackType ==
    cb \in [pc : CallbackPcs, started : BOOLEAN, isinit : BOOLEAN, calls : Nat,
            in_left : Nat \ {0}, in_cur : 0 .. 1, in_index : Nat,
            out_left : Int, out_cur : 0 .. 1, out_index : Nat,
            fill : Nat, locked : BOOLEAN,
            frames : Int, ret : Int, finished : BOOLEAN]
EofType == eof \in [frames_left : Nat \cup {-1}, lastbuf_index : Nat]
MemType ==
    mem \in [in : [0 .. 1 -> [bl : Data, cb : Data]],
             freq_in : [Proc -> SUBSET Data],
             freq_out : [Proc -> SUBSET Data],
             out : [0 .. 1 -> [Proc -> SUBSET Data]]]
LogType == log \in [bl : Seq([data : SUBSET Data, frames : Nat]), cb : Seq(SUBSET Data)]

TypeOK ==
    /\ conf \in Configs
    /\ SemType /\ BarrierType
    /\ InputType /\ OutputType /\ FilterType /\ CallbackType
    /\ EofType /\ MemType /\ LogType
    /\ exited \in BOOLEAN

\* A callback input next to a blocking output copies a block before it waits for its
\* turn.  Only the blocking input process, which waits for the callback output, and
\* the callback output itself keep it in step with the filters.
CallbackPaced == CallbackIn /\ BlockingOut => BlockingIn /\ CallbackOut

\* No input buffer is written, by the input process or by the callback thread,
\* while a filter process converts samples from it.  A callback input is kept off only
\* by a callback output, which the same thread waits for.
InputBufferOwned ==
    \A p \in Proc : flt[p].pc = "inputs" =>
        LET b == FilterBuf(flt[p].block) IN
        /\ ~(inp.pc \in {"reading", "eof"} /\ inp.index % 2 = b)
        /\ CallbackOut => ~(cb.pc = "in_copy" /\ cb.in_cur = b)

\* No output buffer is read by an output device while a filter process converts
\* samples to it.  A blocking output is kept ahead of the filters only by a blocking
\* input.
OutputBufferOwned ==
    \A p \in Proc : flt[p].pc = "outputs" =>
        LET b == FilterBuf(flt[p].block) IN
        /\ BlockingIn => ~(/\ out.pc \in {"fill1_busy", "fill1_rest", "fill2_busy", "write_busy"}
                           /\ out.cur = b)
        /\ ~(cb.pc = "out_copy" /\ cb.fill = 0 /\ cb.out_cur = b)

\* The frequency-domain buffers, which every filter process reads, are not
\* written by their owner at the same time.
FreqBufferOwned ==
    \A p, q \in Proc :
        /\ ~(flt[p].pc = "inputs" /\ flt[q].pc = "convolve")
        /\ ~(flt[p].pc = "convolve" /\ flt[q].pc = "outputs")

\* Periods of silence the clocked output is given first.
FillBlocks == IF synched_write THEN 2 ELSE 0

\* The blocking output gets two periods of silence if it is clocked, the fixed
\* I/O delay of 2 * filter_length samples, and then exactly the input blocks 0,
\* 1, 2, ...: none is lost, repeated, mixed with another or read too early.
FixedDelay ==
    \A k \in 1 .. Len(log.bl) :
        log.bl[k].data = IF k <= FillBlocks THEN {} ELSE {k - 1 - FillBlocks}

\* It does so whatever the threads' speeds, unless a callback input is unpaced.
BlockingOrder == CallbackPaced => FixedDelay

\* The documented I/O delay of a callback device, in callbacks: two periods less
\* two callbacks.
CallbackDelay == 2 * Ratio - 2

\* The k-th callback gets the input of the callback CallbackDelay before it, and
\* silence until there is one.
CallbackOrder ==
    \A k \in 1 .. Len(log.cb) :
        log.cb[k] = IF k <= CallbackDelay THEN {} ELSE {(k - 1 - CallbackDelay) \div Ratio}

\* The blocking output ends where the blocking input ended: all blocks before
\* the last are whole and the last one has the frames that were read of it.
OutputComplete ==
    out.finished =>
        /\ Len(log.bl) = FillBlocks + conf.EofBlock + 1
        /\ \A k \in 1 .. Len(log.bl) :
               log.bl[k].frames = IF k = Len(log.bl) THEN conf.EofFrames ELSE Period

\* So does the callback output, to the buffer.
CallbackComplete ==
    cb.finished =>
        Len(log.cb) = CallbackDelay + conf.EofBlock * Ratio +
                      Max2(1, (conf.EofFrames + BlockFrames - 1) \div BlockFrames)

\* When the input comes to an end the program does too.
Terminates == BlockingIn => <>exited

\* Without a blocking input, all calls of the sound server return, and every whole
\* block they delivered is played by a blocking output.
AllPlayed ==
    ~BlockingIn => <>[](/\ cb.pc = "idle" /\ cb.calls = MaxCalls
                        /\ BlockingOut => Len(log.bl) = FillBlocks + MaxCalls \div Ratio)

\* Blocks of input between the devices of the two sides, the one a blocking output
\* is busy with included.
Inside == IF BlockingOut THEN 3 ELSE 2

\* The pipeline implements a block stream that never holds more than that, in
\* which nothing is played that has not been delivered.
Taken ==
    CASE ~CallbackIn -> inp.index
      [] ~BlockingIn -> cb.in_index
      [] OTHER       -> Min2(inp.index, cb.in_index)
Played ==
    LET bl == Max2(0, Len(log.bl) - FillBlocks) IN
    CASE ~CallbackOut -> bl
      [] ~BlockingOut -> cb.out_index
      [] OTHER        -> Min2(bl, cb.out_index)

Stream == INSTANCE BlockStream WITH depth <- Inside, taken <- Taken, played <- Played
StreamSpec == Stream!Spec
=============================================================================
