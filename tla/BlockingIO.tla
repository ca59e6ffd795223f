----------------------------- MODULE BlockingIO -----------------------------
(***************************************************************************)
(* The loops of dai_input() and dai_output() (dai.c) with the file, ALSA   *)
(* and OSS modules under them: select(), reads and writes of any part of a *)
(* period, muting of the part that is about to be written, the end of the  *)
(* input, and the commands to a device that the loops serve in between.    *)
(*                                                                         *)
(* A byte is a token <<device, position in its stream>>, or Zero.  Memory  *)
(* is laid out by calc_buffer_format(), so a wrong offset puts a token in  *)
(* the wrong place.  filter_process() is external here: it copies channels *)
(* (Pipeline and FilterProcess model it); the order of the two processes   *)
(* is the one Pipeline establishes, and the delays (DelayLine) are left out.*)
(*                                                                         *)
(* A device d is a record: kind ("raw" or "text" file, "alsa", "oss"),     *)
(* bytes per sample, channels open, sel (the selected ones), inter (leaved),*)
(* clock, block (its period in frames, 0: none), fits (the module calls    *)
(* what the access mode needs); an input also: len, the                    *)
(* bytes it has in all, skip and loop; an output: from, the input device   *)
(* and channel each of its channels is fed from.                           *)
(***************************************************************************)
EXTENDS Integers, Sequences, FiniteSets, SequencesExt

CONSTANTS Confs     \* [starts, poll (allow_poll_mode), period, align, ins, outs,
                    \* mutable, toggles, agains, clients, questions (of each), asks]
Null == <<0, 0>>    \* no block of memory: a block is named <<client, call>>

(* A device has a channel in use, samples of at least a byte, and a stream  *)
(* of a number of bytes.                                                   *)
DeviceOK(d) ==
    /\ d.bytes \in Nat \ {0} /\ d.open \in Nat \ {0} /\ Len(d.sel) \in Nat \ {0}
    /\ d.block \in Nat
    /\ d.len \in Nat /\ d.skip \in Nat
ASSUME ConfsAssumption ==
    \A c \in Confs :
        /\ c.period \in Nat \ {0} /\ c.asks \in Nat
        /\ \A devs \in {c.ins, c.outs} :
              /\ Len(devs) \in Nat /\ DOMAIN devs = 1..Len(devs)
              /\ \A n \in DOMAIN devs : DeviceOK(devs[n])

VARIABLES
    conf,
    inp,       \* the state of dai_input(): pc, idx (buf_index), cur, rfds,
               \* ready (readfds), devsleft, left (buf_left), pos (in the streams)
    out,       \* the state of dai_output(), fill: iodelay periods to go
    ca,        \* frames_left and lastbuf_index
    mem,       \* mem[io][cur]: iobuffers
    agains,    \* how often a device was not ready after all
    muted,     \* ca->is_muted: channels <<io, device, channel>>
    toggles,
    inMutes,   \* history: the channels dai_input muted, per period
    sent,      \* history: per output device what it got
    wasMuted,  \* history: channels muted at some write of the device in this period
    pipe,      \* per io: synchpipe, paramspipe_s and paramspipe_r
    client,    \* callers of dai_subdev_command(): pc, io and dev (asked for),
               \* asks (calls made), ans (the int returned), handed (*message)
    msg        \* ptr: its static msgstr, heap: the text in each block; history:
               \* last (to call), alone (no call has overlapped that one)

vars == <<conf, inp, out, ca, mem, agains, muted, toggles, inMutes, sent, wasMuted,
          pipe, client, msg>>
devices == <<conf, mem, agains, muted, toggles, inMutes, sent, wasMuted>>

IO == {"in", "out"}
Zero == <<0, 0>>
Params == 0           \* the descriptor of paramspipe_s, below those of the devices
Devs(io) == IF io = "in" THEN conf.ins ELSE conf.outs

-----------------------------------------------------------------------------
(* noninterleave_modify(): only the channels in use are transferred.       *)
Open(d) == IF d.inter THEN d.open ELSE Len(d.sel)
Selected(d, i) == IF d.inter THEN d.sel[i] ELSE i - 1
FrameSize(d) == Open(d) * d.bytes
BufSize(d) == FrameSize(d) * conf.period

BadAlignment(d) == d.clock /\ conf.period % d.block # 0
InputPollAny == \E n \in DOMAIN conf.ins : conf.ins[n].clock   \* mutant
InputPollMode ==
    LET clocked == {n \in DOMAIN conf.ins : conf.ins[n].clock}
    IN  clocked # {} /\ \A n \in clocked : BadAlignment(conf.ins[n])
ClockedOut == {n \in DOMAIN conf.outs : conf.outs[n].clock}
SynchedWrite == ClockedOut # {}

(* calc_buffer_format(): where the buffer of device n starts, the first     *)
(* being 1, and where the samples of a channel are.                        *)
Aligned(n) == IF n % conf.align = 0 THEN n ELSE n + conf.align - (n % conf.align)
Offset(devs, n) ==
    LET off[k \in 1..n] == IF k = 1 THEN 0 ELSE Aligned(off[k - 1] + BufSize(devs[k - 1]))
    IN  off[n]
NBytes(devs) == Aligned(Offset(devs, Len(devs)) + BufSize(devs[Len(devs)]))
SampleAt(devs, n, i, f, b) ==
    LET d == devs[n]
    IN  Offset(devs, n) + b +
        (IF d.inter THEN Selected(d, i) * d.bytes + f * Open(d) * d.bytes
         ELSE (i - 1) * d.bytes * conf.period + f * d.bytes)

(* Byte q of a transfer as the module of the device places it.             *)
Place(devs, n, q) ==
    LET d == devs[n]
        ch == (q % FrameSize(d)) \div d.bytes
    IN  Offset(devs, n) + (IF d.inter THEN q
                           ELSE (ch * conf.period + q \div FrameSize(d)) * d.bytes + (q % d.bytes))

-----------------------------------------------------------------------------
(* do_mute() on wsize bytes from byte offset on of the buffer of a device. *)
MutedColumns(d, off) == {Selected(d, i) : i \in {j \in DOMAIN d.sel : off[j]}}
Columns(d, C) == UNION {c * d.bytes..c * d.bytes + d.bytes - 1 : c \in C}

(* In a frame that was begun before, only the first muted channel that has *)
(* not passed is silenced (k does not advance); if all have passed, bsch[k]*)
(* is uninitialised and any bytes may be.                                  *)
HeadColumns(d, off, head) ==
    LET order == SelectSeq([i \in DOMAIN d.sel |-> i], LAMBDA i : off[i])
        later == {k \in DOMAIN order : (Selected(d, order[k]) + 1) * d.bytes > head}
        first == CHOOSE k \in later : \A j \in later : k <= j
    IN  IF later = {} THEN {v..v + d.bytes - 1 : v \in -d.bytes..FrameSize(d)}
        ELSE {Columns(d, {Selected(d, order[first])})}

(* Whole frames up to the one the part ends in, which is cleared to its end.*)
Silenced(devs, n, off, wsize, from, headcols) ==
    LET d == devs[n]
        framesize == FrameSize(d)
        head == from % framesize
        mid == IF head = 0 THEN from ELSE from + framesize - head
        inhead == {q \in from..from + wsize - 1 : q < mid /\ q % framesize \in headcols}
        frames == {q \in mid..BufSize(d) - 1 : (q \div framesize) * framesize < from + wsize}
        body == {q \in frames : q % framesize \in Columns(d, MutedColumns(d, off))}
    IN  {Place(devs, n, q) : q \in
            IF ~d.inter THEN {q \in from..from + wsize - 1 :
                                q % framesize \in Columns(d, MutedColumns(d, off))}
            ELSE IF \A i \in DOMAIN off : ~off[i] THEN {} ELSE inhead \cup body}
Mute(m, places) == [a \in DOMAIN m |-> IF a \in places THEN Zero ELSE m[a]]

Off(io, n) == [i \in DOMAIN Devs(io)[n].sel |-> <<io, n, i>> \in muted]

-----------------------------------------------------------------------------
(* How many bytes a module may transfer at once; files are always ready.   *)
Portions(d, count) ==
    IF d.kind = "text" THEN {count}
    ELSE IF d.kind = "alsa" THEN {n \in 1..count : n % FrameSize(d) = 0}
    ELSE 1..count

(* bfio_read() of a file that is looped goes back to skip at its end.      *)
Rewound(d, pos) == IF d.loop /\ pos = d.len THEN d.skip ELSE pos
Available(d, pos, count) == IF d.len - pos < count THEN d.len - pos ELSE count

(* What a block of a message holds: Free, Blank (not yet written), or what  *)
(* is said to the question <<io, device>>.                                 *)
Free == <<"free", 0>>
Blank == <<"blank", 0>>

(* dai_init(): input that must be polled is refused if not allowed.        *)
Refused == ~conf.starts \/ (InputPollMode /\ ~conf.poll)
Init ==
    /\ conf \in Confs
    /\ inp = [pc |-> IF Refused THEN "exit" ELSE "begin", idx |-> 0, cur |-> 0, rfds |-> {}, ready |-> {}, devsleft |-> 0,
              left |-> [n \in DOMAIN conf.ins |-> BufSize(conf.ins[n])],
              pos |-> [n \in DOMAIN conf.ins |-> conf.ins[n].skip]]
    /\ out = [pc |-> IF Refused THEN "exit" ELSE "begin", idx |-> 0, cur |-> 0, wfds |-> {}, ready |-> {}, devsleft |-> 0,
              fill |-> IF SynchedWrite THEN 2 ELSE 0, islast |-> FALSE,
              left |-> [n \in DOMAIN conf.outs |-> BufSize(conf.outs[n])],
              size |-> [n \in DOMAIN conf.outs |-> BufSize(conf.outs[n])]]
    /\ ca = [frames_left |-> -1, lastbuf_index |-> 0]
    /\ mem = [io \in IO |-> [cur \in 0..1 |-> [a \in 0..NBytes(Devs(io)) - 1 |-> Zero]]]
    /\ agains = 0 /\ muted = {} /\ toggles = 0 /\ inMutes = <<>>
    /\ sent = [n \in DOMAIN conf.outs |-> <<>>]
    /\ wasMuted = [n \in DOMAIN conf.outs |-> {}]
    /\ pipe = [io \in IO |-> [synch |-> 1, s |-> <<>>, r |-> <<>>]]
    /\ client = [c \in conf.clients |-> [pc |-> "idle", io |-> "in", dev |-> 0, asks |-> 0,
                                         ans |-> <<>>, handed |-> Null]]
    /\ msg = [ptr |-> Null, heap |-> [b \in conf.clients \X (1..conf.asks) |-> Free],
              last |-> 0, alone |-> TRUE]

(* dai_toggle_mute(), from any process at any time.                        *)
ToggleMute ==
    /\ toggles < conf.toggles /\ toggles' = toggles + 1
    /\ \E ch \in conf.mutable : muted' = (muted \ {ch}) \cup ({ch} \ muted)
    /\ UNCHANGED <<conf, inp, out, ca, mem, agains, inMutes, sent, wasMuted, pipe, client, msg>>

-----------------------------------------------------------------------------
(* dai_subdev_command(): one question at a time in each direction, but one *)
(* msgstr for all callers, which is freed, cleared, set and handed out     *)
(* outside the lock or across it.  Next to another caller the compiler may *)
(* take msgstr from a register (Own) or from memory.                       *)
MayAskUnlocked(io) == TRUE   \* mutant
MayAsk(io) == pipe[io].synch > 0
Own(c) == <<c, client[c].asks>>
Asked(c) == <<client[c].io, client[c].dev>>
Refuses(c) == client[c].dev \notin DOMAIN Devs(client[c].io)
Running == inp.pc # "exit"
Abort == inp' = [inp EXCEPT !.pc = "exit"] /\ out' = [out EXCEPT !.pc = "exit"]

(* A block that was freed is freed or written again: the program may crash.*)
GoesOn(damage) == UNCHANGED <<inp, out>> \/ (damage /\ Abort)

(* efree(msgstr), on whatever the last caller left there.                  *)
Enter(c) ==
    /\ Running /\ client[c].pc = "idle" /\ client[c].asks < conf.asks
    /\ \E io \in IO : \E dev \in 0..Len(Devs(io)) :
          /\ <<io, dev>> \in conf.questions[c]
          /\ client' = [client EXCEPT ![c] = [pc |-> "freed", io |-> io, dev |-> dev,
                                              asks |-> @.asks + 1, ans |-> <<>>, handed |-> Null]]
    /\ msg' = [ptr |-> msg.ptr,
               heap |-> [b \in DOMAIN msg.heap |-> IF b = msg.ptr THEN Free ELSE msg.heap[b]],
               last |-> c,
               alone |-> \A d \in conf.clients \ {c} : client[d].pc = "idle"]
    /\ GoesOn(msg.ptr # Null /\ msg.heap[msg.ptr] = Free)
    /\ UNCHANGED <<devices, ca, pipe>>

(* msgstr = NULL.                                                          *)
Clear(c) ==
    /\ Running /\ client[c].pc = "freed"
    /\ client' = [client EXCEPT ![c].pc = "cleared"] /\ msg' = [msg EXCEPT !.ptr = Null]
    /\ UNCHANGED <<devices, inp, out, ca, pipe>>

(* There is no such device: -1, and a message, without the lock.           *)
Refuse(c) ==
    /\ Running /\ client[c].pc = "cleared" /\ Refuses(c)
    /\ client' = [client EXCEPT ![c].pc = "read", ![c].ans = Asked(c)]
    /\ msg' = [msg EXCEPT !.ptr = Own(c), !.heap[Own(c)] = Asked(c)]
    /\ UNCHANGED <<devices, inp, out, ca, pipe>>

Ask(c) ==
    LET io == client[c].io
    IN  /\ Running /\ client[c].pc = "cleared" /\ ~Refuses(c) /\ MayAsk(io)
        /\ pipe' = [pipe EXCEPT ![io].synch = @ - 1, ![io].s = Append(@, Asked(c))]
        /\ client' = [client EXCEPT ![c].pc = "asked"]
        /\ UNCHANGED <<devices, inp, out, ca, msg>>

(* The number and the size of the message are read, and room is made.      *)
Answered(c) ==
    LET io == client[c].io
    IN  /\ Running /\ client[c].pc = "asked" /\ pipe[io].r # <<>>
        /\ client' = [client EXCEPT ![c].pc = "answered", ![c].ans = Head(pipe[io].r)]
        /\ msg' = [msg EXCEPT !.ptr = Own(c), !.heap[Own(c)] = Blank]
        /\ UNCHANGED <<devices, inp, out, ca, pipe>>

(* The message is read: to NULL that fails, and ends the program.          *)
ReadMessage(c) ==
    LET io == client[c].io
    IN  /\ Running /\ client[c].pc = "answered" /\ pipe[io].r # <<>>
        /\ \E target \in {Own(c), msg.ptr} :
              IF target = Null THEN Abort /\ UNCHANGED <<pipe, client, msg>>
              ELSE /\ GoesOn(msg.heap[target] = Free)
                   /\ msg' = [msg EXCEPT !.heap[target] = IF @ = Free THEN Free ELSE Head(pipe[io].r)]
                   /\ pipe' = [pipe EXCEPT ![io].r = Tail(@)]
                   /\ client' = [client EXCEPT ![c].pc = "read"]
        /\ UNCHANGED <<devices, ca>>

(* The message is handed out, the lock released.                           *)
Return(c) ==
    LET io == client[c].io
    IN  /\ Running /\ client[c].pc = "read"
        /\ \E handed \in {Own(c), msg.ptr} :
              client' = [client EXCEPT ![c].pc = "idle", ![c].handed = handed]
        /\ pipe' = IF Refuses(c) THEN pipe ELSE [pipe EXCEPT ![io].synch = @ + 1]
        /\ UNCHANGED <<devices, inp, out, ca, msg>>

Call(c) == Enter(c) \/ Clear(c) \/ Refuse(c) \/ Ask(c) \/ Answered(c) \/ ReadMessage(c) \/ Return(c)

(* handle_params(): the command of the device is called by the loop.       *)
HandleParams(io) ==
    pipe' = [pipe EXCEPT ![io].s = Tail(@), ![io].r = Append(@, Head(pipe[io].s))]
Pending(io) == IF pipe[io].s # <<>> THEN {Params} ELSE {}

-----------------------------------------------------------------------------
(* dai_input() is entered for the next period, once the output is at most  *)
(* two behind, or sleeps after the last one.                               *)
InputBegin ==
    /\ inp.pc = "begin" /\ inp.idx <= out.idx + 1
    /\ IF ca.frames_left # -1 /\ inp.idx = ca.lastbuf_index + 1
       THEN inp' = [inp EXCEPT !.pc = "stopped"]
       ELSE inp' = [inp EXCEPT !.pc = "select", !.rfds = DOMAIN conf.ins,
                               !.devsleft = Len(conf.ins)]
    /\ UNCHANGED <<devices, out, ca, pipe, client, msg>>

(* select(): something is ready, or in poll mode nothing; what must be     *)
(* polled is read in any case.                                             *)
InputSelect ==
    LET forced == {n \in DOMAIN conf.ins : conf.ins[n].clock /\
                                           (InputPollMode \/ BadAlignment(conf.ins[n]))}
    IN  /\ inp.pc = "select" /\ inp.devsleft # 0
        /\ \E S \in SUBSET inp.rfds :
              /\ S \cup Pending("in") # {} \/ InputPollMode
              /\ inp' = [inp EXCEPT !.pc = "serve", !.ready = S \cup Pending("in") \cup forced]
        /\ UNCHANGED <<devices, out, ca, pipe, client, msg>>

NextFd(ready) == CHOOSE n \in ready : \A k \in ready : n <= k
Served(p) == IF Cardinality(p.ready) = 1 THEN "select" ELSE "serve"

InputParams ==
    /\ inp.pc = "serve" /\ inp.ready # {} /\ NextFd(inp.ready) = Params
    /\ HandleParams("in")
    /\ inp' = [inp EXCEPT !.ready = @ \ {Params}, !.pc = Served(inp)]
    /\ UNCHANGED <<devices, out, ca, client, msg>>

InputReady(n) == inp.pc = "serve" /\ inp.ready # {} /\ NextFd(inp.ready) = n

(* EINTR, or EAGAIN of a device with nothing to read.                      *)
InputAgain(n) ==
    /\ InputReady(n) /\ conf.ins[n].kind # "text" /\ conf.ins[n].fits
    /\ agains < conf.agains /\ agains' = agains + 1
    /\ inp' = [inp EXCEPT !.ready = @ \ {n}, !.pc = Served(inp)]
    /\ UNCHANGED <<conf, mem, muted, toggles, inMutes, sent, wasMuted, out, ca, pipe, client, msg>>

(* Any other error ends the program.                                       *)
InputError(n) ==
    /\ InputReady(n) /\ ~conf.ins[n].fits
    /\ Abort
    /\ UNCHANGED <<devices, ca, pipe, client, msg>>

ReadAt(n) == BufSize(conf.ins[n]) - inp.left[n]
InputRead(n) ==
    LET d == conf.ins[n]
        pos == inp.pos[n]
    IN  /\ InputReady(n) /\ d.fits /\ Available(d, pos, inp.left[n]) > 0
        /\ \E count \in Portions(d, Available(d, pos, inp.left[n])) :
              LET at == ReadAt(n)
                  part == at..at + count - 1
                  placed == [a \in {Place(conf.ins, n, q) : q \in part} |->
                                CHOOSE q \in part : Place(conf.ins, n, q) = a]
                  full == (count = inp.left[n])
              IN  /\ mem' = [mem EXCEPT !["in"][inp.cur] =
                                [a \in DOMAIN @ |-> IF a \in DOMAIN placed
                                                    THEN <<n, pos + (placed[a] - at)>> ELSE @[a]]]
                  /\ inp' = [inp EXCEPT !.ready = @ \ {n}, !.pc = Served(inp),
                                        !.pos[n] = Rewound(d, pos + count),
                                        !.left[n] = IF full THEN BufSize(d) ELSE @ - count,
                                        !.devsleft = IF full THEN @ - 1 ELSE @,
                                        !.rfds = IF full THEN @ \ {n} ELSE @]
        /\ UNCHANGED <<conf, agains, muted, toggles, inMutes, sent, wasMuted, out, ca, pipe, client, msg>>

(* The end of a file: the rest of the period is silence, and the shortest  *)
(* input decides how many frames of it are played.                         *)
FramesLeft(frames) ==
    IF ca.frames_left = -1 \/ frames < ca.frames_left THEN frames ELSE ca.frames_left
InputEof(n) ==
    LET d == conf.ins[n]
        rest == {Place(conf.ins, n, q) : q \in BufSize(d) - inp.left[n]..BufSize(d) - 1}
    IN  /\ InputReady(n) /\ Available(d, inp.pos[n], inp.left[n]) = 0
        /\ d.kind \in {"raw", "text"}
        /\ mem' = [mem EXCEPT !["in"][inp.cur] = Mute(@, rest)]
        /\ ca' = [ca EXCEPT !.frames_left = FramesLeft((BufSize(d) - inp.left[n]) \div FrameSize(d))]
        /\ inp' = [inp EXCEPT !.ready = @ \ {n}, !.pc = "eof", !.rfds = @ \ {n}, !.devsleft = @ - 1]
        /\ UNCHANGED <<conf, agains, muted, toggles, inMutes, sent, wasMuted, out, pipe, client, msg>>

(* In which period that was is stored next.                                *)
InputEofIndex ==
    /\ inp.pc = "eof"
    /\ ca' = [ca EXCEPT !.lastbuf_index = inp.idx]
    /\ inp' = [inp EXCEPT !.pc = IF inp.ready = {} THEN "select" ELSE "serve"]
    /\ UNCHANGED <<devices, out, pipe, client, msg>>

(* All devices have their period: muting, and on to the filters.           *)
InputEnd ==
    /\ inp.pc = "select" /\ inp.devsleft = 0
    /\ LET mutes(n) == Silenced(conf.ins, n, Off("in", n), BufSize(conf.ins[n]), 0, {})
       IN  mem' = [mem EXCEPT !["in"][inp.cur] = Mute(@, UNION {mutes(n) : n \in DOMAIN conf.ins})]
    /\ inMutes' = Append(inMutes, muted)
    /\ inp' = [inp EXCEPT !.pc = "begin", !.idx = @ + 1, !.cur = 1 - @]
    /\ UNCHANGED <<conf, agains, muted, toggles, sent, wasMuted, out, ca, pipe, client, msg>>

-----------------------------------------------------------------------------
(* filter_process(), external: channels are copied to the output buffer.   *)
Filtered(cur) ==
    LET fed == {x \in (DOMAIN conf.outs) \X (1..4) \X (0..conf.period - 1) \X (0..3) :
                  x[2] \in DOMAIN conf.outs[x[1]].sel /\ x[4] < conf.outs[x[1]].bytes}
        at(x) == SampleAt(conf.outs, x[1], x[2], x[3], x[4])
        source(x) == LET s == conf.outs[x[1]].from[x[2]]
                     IN  SampleAt(conf.ins, s[1], s[2], x[3], x[4])
        map == [a \in {at(x) : x \in fed} |-> source(CHOOSE x \in fed : at(x) = a)]
    IN  [a \in DOMAIN mem["out"][cur] |->
            IF a \in DOMAIN map THEN mem["in"][cur][map[a]] ELSE mem["out"][cur][a]]

(* dai_output(): first two periods of silence for the clocked devices, then*)
(* a period for each one of input.  The last of them is cut, as it would be*)
(* in the fill.                                                            *)
IsLastAfter == ca.frames_left # -1 /\ out.idx = ca.lastbuf_index + 1   \* mutant
IsLast == ca.frames_left # -1 /\ out.idx = ca.lastbuf_index
Opening(devs) ==
    LET cut(n) == ca.frames_left * FrameSize(conf.outs[n])
    IN  [out EXCEPT !.pc = "select", !.cur = 1 - @, !.wfds = devs, !.devsleft = Cardinality(devs),
                    !.islast = @ \/ IsLast,
                    !.size = [n \in DOMAIN @ |-> IF IsLast THEN cut(n) ELSE @[n]],
                    !.left = [n \in DOMAIN @ |-> IF IsLast THEN cut(n) ELSE @[n]]]
OutputFill ==
    /\ out.pc = "begin" /\ out.fill > 0
    /\ out' = Opening(ClockedOut)
    /\ UNCHANGED <<devices, inp, ca, pipe, client, msg>>

OutputBegin ==
    /\ out.pc = "begin" /\ out.fill = 0 /\ inp.idx > out.idx
    /\ mem' = [mem EXCEPT !["out"][out.cur] = Filtered(out.cur)]
    /\ out' = Opening(DOMAIN conf.outs)
    /\ wasMuted' = [n \in DOMAIN wasMuted |-> {}]
    /\ UNCHANGED <<conf, agains, muted, toggles, inMutes, sent, inp, ca, pipe, client, msg>>

OutputSelect ==
    /\ out.pc = "select" /\ out.devsleft # 0
    /\ \E S \in SUBSET out.wfds :
          /\ S \cup Pending("out") # {}
          /\ out' = [out EXCEPT !.pc = "serve", !.ready = S \cup Pending("out")]
    /\ UNCHANGED <<devices, inp, ca, pipe, client, msg>>

OutputParams ==
    /\ out.pc = "serve" /\ out.ready # {} /\ NextFd(out.ready) = Params
    /\ HandleParams("out")
    /\ out' = [out EXCEPT !.ready = @ \ {Params}, !.pc = Served(out)]
    /\ UNCHANGED <<devices, inp, ca, client, msg>>

(* No more than a block of the device and the odd part at a time.          *)
WriteSize(n) ==
    LET block == conf.outs[n].block * FrameSize(conf.outs[n])
    IN  IF block > 0 /\ out.left[n] > block THEN block + (out.left[n] % block) ELSE out.left[n]

(* Mute the part and write it: a device takes any portion of it or, unless *)
(* it is a regular file, nothing (EAGAIN).  What is written has already    *)
(* been muted, what is not will be muted again.                            *)
Nothing(d, wsize) ==
    IF wsize = 0 \/ (d.kind # "text" /\ agains < conf.agains) THEN {0} ELSE {}
WriteFrom(n) == out.size[n] - out.left[n]
OutputReady(n) == out.pc = "serve" /\ out.ready # {} /\ NextFd(out.ready) = n
OutputError(n) ==
    /\ OutputReady(n) /\ ~conf.outs[n].fits
    /\ Abort
    /\ UNCHANGED <<devices, ca, pipe, client, msg>>
OutputWrite(n) ==
    LET d == conf.outs[n]
        cur == 1 - out.cur
        off == Off("out", n)
        from == WriteFrom(n)
        wsize == WriteSize(n)
    IN  /\ OutputReady(n) /\ d.fits
        /\ \E count \in Portions(d, wsize) \cup Nothing(d, wsize),
              headcols \in HeadColumns(d, off, from % FrameSize(d)) :
              LET m == Mute(mem["out"][cur], Silenced(conf.outs, n, off, wsize, from, headcols))
                  done == (count = out.left[n])
                  byte(q) == [tok |-> m[Place(conf.outs, n, q)],
                              mute |-> {i \in DOMAIN off : off[i]}, before |-> wasMuted[n]]
              IN  /\ mem' = [mem EXCEPT !["out"][cur] = m]
                  /\ agains' = IF count = 0 /\ wsize > 0 THEN agains + 1 ELSE agains
                  /\ sent' = [sent EXCEPT ![n] = @ \o [q \in 1..count |-> byte(from + q - 1)]]
                  /\ wasMuted' = [wasMuted EXCEPT ![n] = @ \cup {i \in DOMAIN off : off[i]}]
                  /\ out' = [out EXCEPT !.ready = @ \ {n}, !.pc = Served(out),
                                        !.left[n] = IF done THEN out.size[n] ELSE @ - count,
                                        !.devsleft = IF done THEN @ - 1 ELSE @,
                                        !.wfds = IF done THEN @ \ {n} ELSE @]
        /\ UNCHANGED <<conf, muted, toggles, inMutes, inp, ca, pipe, client, msg>>

OutputEnd ==
    /\ out.pc = "select" /\ out.devsleft = 0
    /\ out' = [out EXCEPT !.pc = IF out.fill = 0 /\ out.islast THEN "ended" ELSE "begin",
                          !.fill = IF @ > 0 THEN @ - 1 ELSE 0,
                          !.idx = IF out.fill > 0 THEN @ ELSE @ + 1]
    /\ UNCHANGED <<devices, inp, ca, pipe, client, msg>>

Input == InputBegin \/ InputSelect \/ InputParams \/ InputEofIndex \/ InputEnd
         \/ \E n \in DOMAIN conf.ins : InputAgain(n) \/ InputError(n) \/ InputRead(n) \/ InputEof(n)
Output == OutputFill \/ OutputBegin \/ OutputSelect \/ OutputParams \/ OutputEnd
          \/ \E n \in DOMAIN conf.outs : OutputError(n) \/ OutputWrite(n)
Next == (\E c \in conf.clients : Call(c)) \/ ToggleMute \/ Input \/ Output

(* The processes go on as long as they can; a device that is not ready     *)
(* after all is so no more than conf.agains times.                         *)
Spec == Init /\ [][Next]_vars /\ WF_vars(Next)

-----------------------------------------------------------------------------
DaiState(d, devs, extra) ==
    /\ d.pc \in {"begin", "select", "serve", "exit"} \cup extra
    /\ d.cur \in 0..1 /\ d.idx \in Nat
    /\ d.devsleft \in 0..Len(devs) /\ d.ready \subseteq 0..Len(devs)
    /\ DOMAIN d.left = DOMAIN devs
    /\ \A n \in DOMAIN devs : d.left[n] \in 0..BufSize(devs[n])

(* The only input, if it has to be read without being ready.               *)
PolledAlone ==
    \A n \in DOMAIN conf.ins :
        conf.ins[n].clock /\ BadAlignment(conf.ins[n]) => Len(conf.ins) = 1

(* The types, and select() waits for as many devices as are still counted. *)
TypeOK ==
    /\ conf \in Confs
    /\ DaiState(inp, conf.ins, {"eof", "stopped"}) /\ DaiState(out, conf.outs, {"ended"})
    /\ inp.rfds \subseteq DOMAIN conf.ins /\ out.wfds \subseteq DOMAIN conf.outs
    /\ inp.pc = "select" => inp.devsleft = Cardinality(inp.rfds)
    /\ out.pc = "select" => out.devsleft = Cardinality(out.wfds)
    /\ ca.frames_left \in -1..conf.period /\ ca.lastbuf_index \in 0..inp.idx
    /\ \A io \in IO : pipe[io].synch \in 0..1
    /\ \A c \in conf.clients :
          client[c].pc \in {"idle", "freed", "cleared", "asked", "answered", "read"}

(* Two callers of dai_subdev_command(): whatever calls overlap, each gets  *)
(* the number that the device it asked has answered.  The message, which   *)
(* is in memory that all callers share, is that of the device only as long *)
(* as no call overlaps, and until the next one.                            *)
AnswersMatch ==
    \A c \in conf.clients :
        client[c].pc = "idle" /\ client[c].asks > 0 =>
            /\ client[c].ans = Asked(c)
            /\ msg.alone /\ msg.last = c =>
                  client[c].handed = Own(c) /\ msg.heap[Own(c)] = Asked(c)
=============================================================================
