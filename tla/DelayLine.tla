----------------------------- MODULE DelayLine ------------------------------
(***************************************************************************)
(* The delay buffer of one channel (delay.c), and those who use it: the    *)
(* dai module on a channel with a physical channel of its own, the filter  *)
(* process on channels that share one.  A delay longer than a fragment is  *)
(* a ring of fragments and a rest buffer, a shorter one a pair of buffers  *)
(* that take turns.  The delay may be changed between any two blocks.      *)
(*                                                                         *)
(* Samples are numbered from 1 as they arrive; 0 is silence.  Sample width *)
(* and interleaving (sample_size, sample_spacing) do not show: the copies  *)
(* of delay.c move the same samples for every width.                       *)
(***************************************************************************)
EXTENDS Integers

CONSTANTS
  FragSize,        \* fragment_size: samples of a block, the filter's partition length
  Configs,         \* settings of the channel: [delay, maxdelay, extra]
  MaxBlocks,       \* bound: blocks of a run
  MaxChanges       \* bound: times the delay is set, and times the mute is toggled

\* extra is what a channel without sub-sample delay gets where others have one (sdf_length);
\* bfconf.c:1466 and bfconf.c:2847 reject other settings.
ASSUME DelayLineAssumption ==
  /\ FragSize \in Nat \ {0}
  /\ MaxBlocks \in Nat
  /\ MaxChanges \in Nat
  /\ \A c \in Configs :
       /\ c.delay \in Nat
       /\ c.maxdelay \in Nat \cup {-1}
       /\ c.maxdelay >= 0 => c.delay <= c.maxdelay
       /\ c.extra \in Nat
       /\ c.extra > 0 => 2 * c.extra + 1 <= FragSize

\* dai.c:251 adds extra to maxdelay even where -1 says that the delay is fixed; these are the
\* settings without that case.
Supported == \A c \in Configs : c.maxdelay >= 0 \/ c.extra = 0

VARIABLES
  conf,            \* the setting of this channel
  where,           \* who runs the delay: "dai_in", "shared_in", or "out" (dai or filter process)
  delay,           \* icomm->delay and ca->delay: the delay asked for
  muted,           \* icomm->ismuted and ca->is_muted
  db,              \* the delaybuffer_t
  blocks,          \* blocks that came from the device
  in,              \* the last block given to delay_update
  out,             \* ... and what delay_update made of it
  stale,           \* history: samples, from the first of out, that an earlier shorter delay or
                   \* a pause may have disordered
  changes          \* history: settings and toggles so far

vars == <<conf, where, delay, muted, db, blocks, in, out, stale, changes>>

Sample == 0..MaxBlocks * FragSize

Silent(n) == [k \in 0..n - 1 |-> 0]

\* a buffer of at least n samples
Holds(buf, n) == 0..n - 1 \subseteq DOMAIN buf

\* memset(buf, 0, n)
Clear(buf, n) == [k \in DOMAIN buf |-> IF k < n THEN 0 ELSE buf[k]]

\* memcpy(buf, [from + 0, ..., from + n - 1], n)
CopyTo(buf, from, offset, n) == [k \in DOMAIN buf |-> IF k < n THEN from[offset + k] ELSE buf[k]]

-----------------------------------------------------------------------------

\* mutant: rounded up, without the fragment being written
RingSize_RoundedUp(memory) == (memory + FragSize - 1) \div FragSize

\* n_fbufs_cap
RingSize(memory) == memory \div FragSize + 1

NoBuffer(init, max) ==
  [maxdelay |-> max, curdelay |-> init, curbuf |-> 0, n_fbufs |-> 0, n_fbufs_cap |-> 0,
   fbufs |-> Silent(0), n_rest |-> 0, rbuf |-> Silent(0), shortbuf |-> [b \in 0..1 |-> Silent(0)]]

ShortBuffer(init, max, memory) ==
  [maxdelay |-> max, curdelay |-> init, curbuf |-> 0, n_fbufs |-> 0, n_fbufs_cap |-> 0,
   fbufs |-> Silent(0), n_rest |-> init, rbuf |-> Silent(0), shortbuf |-> [b \in 0..1 |-> Silent(memory)]]

RingBuffer(init, max, memory) ==
  [maxdelay |-> max, curdelay |-> init, curbuf |-> 0,
   n_fbufs |-> IF init < FragSize THEN 0 ELSE init \div FragSize + 1,
   n_fbufs_cap |-> RingSize(memory),
   fbufs |-> [b \in 0..RingSize(memory) - 1 |-> Silent(FragSize)],
   n_rest |-> init % FragSize,
   rbuf |-> Silent(IF max > 0 THEN FragSize ELSE init % FragSize),
   shortbuf |-> [b \in 0..1 |-> Silent(IF max > 0 THEN FragSize ELSE 0)]]

delay_allocate_buffer(initdelay, maxdelay) ==
  LET wanted == IF maxdelay <= 0 THEN initdelay ELSE maxdelay
      clamped == maxdelay >= 0 /\ wanted > maxdelay
      memory == IF clamped THEN maxdelay ELSE wanted
      init == IF clamped THEN maxdelay ELSE initdelay
  IN  IF memory = 0 THEN NoBuffer(init, maxdelay)
      ELSE IF memory <= FragSize THEN ShortBuffer(init, maxdelay, memory)
      ELSE RingBuffer(init, maxdelay, memory)

\* mutant: the short buffers are cleared only when they come into use
ShortDelay_Kept(d, new) ==
  [d EXCEPT !.n_rest = new, !.n_fbufs = 0, !.curbuf = 0, !.curdelay = new,
            !.shortbuf = IF d.curdelay > FragSize THEN [b \in 0..1 |-> Clear(@[b], new)] ELSE @]

ShortDelay(d, new) ==
  [d EXCEPT !.n_rest = new, !.n_fbufs = 0, !.curbuf = 0, !.curdelay = new,
            !.shortbuf = IF d.curdelay > FragSize \/ d.curdelay < new
                         THEN [b \in 0..1 |-> Clear(@[b], new)] ELSE @]

LongDelay(d, new) ==
  LET rest == new % FragSize
      n == new \div FragSize + 1
  IN  [d EXCEPT !.n_rest = rest, !.n_fbufs = n, !.curbuf = 0, !.curdelay = new,
                !.fbufs = IF d.curdelay < new
                          THEN [b \in DOMAIN @ |-> IF b < n THEN Clear(@[b], FragSize) ELSE @[b]] ELSE @,
                !.rbuf = IF d.curdelay < new THEN Clear(@, rest) ELSE @]

\* mutant: the largest delay is refused
change_delay_Below(d, new) ==
  IF new = d.curdelay \/ new >= d.maxdelay THEN d
  ELSE IF new <= FragSize THEN ShortDelay(d, new) ELSE LongDelay(d, new)

change_delay(d, new) ==
  IF new = d.curdelay \/ new > d.maxdelay THEN d
  ELSE IF new <= FragSize THEN ShortDelay(d, new) ELSE LongDelay(d, new)

-----------------------------------------------------------------------------
(* delay_update works in place.  These give the buffer after the call (..Db) and what *)
(* the block has become (..Out).                                                     *)

\* mutant: the fragment before, not the one after
LastBuf_Before(d) == d.fbufs[IF d.curbuf = 0 THEN d.n_fbufs - 1 ELSE d.curbuf - 1]

LastBuf(d) == d.fbufs[IF d.curbuf = d.n_fbufs - 1 THEN 0 ELSE d.curbuf + 1]

\* lastbuf is read after the block has been stored
Stored(d, block) == [d EXCEPT !.fbufs[d.curbuf] = block]

\* mutant: the index wraps one block late
NextBuf_Late(d) == IF d.curbuf = d.n_fbufs THEN 0 ELSE d.curbuf + 1

NextBuf(d) == IF d.curbuf + 1 = d.n_fbufs THEN 0 ELSE d.curbuf + 1

LongDb(d, block) ==
  LET s == Stored(d, block)
  IN  [s EXCEPT !.rbuf = CopyTo(@, LastBuf(s), FragSize - d.n_rest, d.n_rest),
                !.curbuf = NextBuf(d)]

LongOut(d, block) ==
  [i \in 0..FragSize - 1 |-> IF i < d.n_rest THEN d.rbuf[i] ELSE LastBuf(Stored(d, block))[i - d.n_rest]]

ShortDb(d, block) ==
  [d EXCEPT !.shortbuf[d.curbuf] = CopyTo(@, block, FragSize - d.n_rest, d.n_rest),
            !.curbuf = 1 - d.curbuf]

ShortOut(d, block) ==
  [i \in 0..FragSize - 1 |-> IF i < d.n_rest THEN d.shortbuf[1 - d.curbuf][i] ELSE block[i - d.n_rest]]

UpdatedDb(d, block) ==
  IF d.n_fbufs > 0 THEN LongDb(d, block) ELSE IF d.n_rest > 0 THEN ShortDb(d, block) ELSE d

UpdatedOut(d, block) ==
  IF d.n_fbufs > 0 THEN LongOut(d, block) ELSE IF d.n_rest > 0 THEN ShortOut(d, block) ELSE block

-----------------------------------------------------------------------------

Init ==
  /\ conf \in Configs
  /\ where \in {"dai_in", "shared_in", "out"}
  /\ delay = conf.delay
  /\ muted = FALSE
  /\ db = delay_allocate_buffer(conf.delay + conf.extra, conf.maxdelay + conf.extra)
  /\ blocks = 0
  /\ in = Silent(FragSize)
  /\ out = Silent(FragSize)
  /\ stale = 0
  /\ changes = 0

\* A logic module sets the delay.
set_delay(new) ==
  /\ new # delay
  /\ new <= conf.maxdelay
  /\ changes < MaxChanges
  /\ changes' = changes + 1
  /\ delay' = new
  /\ UNCHANGED <<conf, where, muted, db, blocks, in, out, stale>>

toggle_mute ==
  /\ changes < MaxChanges
  /\ changes' = changes + 1
  /\ muted' = ~muted
  /\ UNCHANGED <<conf, where, delay, db, blocks, in, out, stale>>

\* The block the device delivers next; dai silences a muted input before it delays it.
Incoming ==
  IF muted /\ where = "dai_in" THEN Silent(FragSize)
  ELSE [i \in 0..FragSize - 1 |-> blocks * FragSize + i + 1]

Less(n) == IF n > FragSize THEN n - FragSize ELSE 0

\* update_delay in dai.c, and the calls of delay_update in filter_process
Update ==
  /\ blocks < MaxBlocks
  /\ ~(muted /\ where = "shared_in")
  /\ blocks' = blocks + 1
  /\ in' = Incoming
  /\ LET d == change_delay(db, delay + conf.extra)
     IN  /\ db' = UpdatedDb(d, in')
         /\ out' = UpdatedOut(d, in')
         /\ stale' = CASE d.curdelay = db.curdelay -> Less(stale)
                       [] d.curdelay > db.curdelay -> 0
                       [] d.curdelay < db.curdelay -> d.curdelay
  /\ UNCHANGED <<conf, where, delay, muted, changes>>

\* filter_process does not run the delay of a muted input channel that shares its physical
\* channel: what is in the buffer waits there.
Pause ==
  /\ blocks < MaxBlocks
  /\ muted /\ where = "shared_in"
  /\ blocks' = blocks + 1
  /\ stale' = FragSize + db.curdelay
  /\ UNCHANGED <<conf, where, delay, muted, db, in, out, changes>>

Done == blocks = MaxBlocks /\ UNCHANGED vars

Next ==
  \/ \E new \in 0..conf.maxdelay : set_delay(new)
  \/ toggle_mute
  \/ Update
  \/ Pause
  \/ Done

Spec == Init /\ [][Next]_vars

-----------------------------------------------------------------------------

Buffer == UNION {[0..n - 1 -> Sample] : n \in 0..FragSize}

\* Type invariant: samples stay samples, the index stays within the buffers in use.
TypeOK ==
  /\ conf \in Configs
  /\ delay \in Nat
  /\ muted \in BOOLEAN
  /\ blocks \in 0..MaxBlocks
  /\ in \in [0..FragSize - 1 -> Sample]
  /\ out \in [0..FragSize - 1 -> Sample]
  /\ stale \in Nat
  /\ db.curdelay \in Nat
  /\ db.n_rest \in 0..FragSize
  /\ db.n_fbufs \in Nat
  /\ db.curbuf \in 0..(IF db.n_fbufs > 0 THEN db.n_fbufs - 1 ELSE 1)
  /\ db.rbuf \in Buffer
  /\ \A b \in 0..1 : db.shortbuf[b] \in Buffer
  /\ \A b \in DOMAIN db.fbufs : db.fbufs[b] \in [0..FragSize - 1 -> Sample]

\* What is allocated at the start (delay.c:337) is enough for every delay set later: the ring,
\* the rest buffer and the short buffers hold what the delay in use puts there, "the current
\* delay" (delay.c:348) where the delay is fixed.
BuffersFit ==
  /\ db.n_fbufs <= db.n_fbufs_cap
  /\ 0..db.n_fbufs_cap - 1 = DOMAIN db.fbufs
  /\ db.n_fbufs > 0 => db.n_rest < FragSize /\ Holds(db.rbuf, db.n_rest)
  /\ db.n_fbufs = 0 => db.n_rest <= FragSize /\ \A b \in 0..1 : Holds(db.shortbuf[b], db.n_rest)

\* The samples the buffer in use holds, the next one to leave first.
Contents(d) ==
  [k \in 0..d.curdelay - 1 |->
     IF d.n_fbufs = 0 THEN d.shortbuf[1 - d.curbuf][k]
     ELSE IF k < d.n_rest THEN d.rbuf[k]
     ELSE d.fbufs[(d.curbuf + 1 + (k - d.n_rest) \div FragSize) % d.n_fbufs][(k - d.n_rest) % FragSize]]

\* The buffers implement the queue of DelayQueue (delay.c:225, :260, :279): whatever the sequence
\* of delays, a block passes through exactly as many samples as the delay, a longer delay
\* starts silent, a shorter one is right after as many samples as it is long.
Queue == INSTANCE DelayQueue WITH delay <- db.curdelay, queue <- Contents(db), Silence <- 0
QueueSpec == Queue!Spec

\* A block is delayed by what was asked for: no request is lost, none is applied to
\* buffers of another layout (delay.c:285).
AsRequested ==
  [][Update => db'.curdelay = delay + conf.extra]_vars

\* A sample leaves at its own time, or is silenced (dai.c:213, bfrun.c:1451): `curdelay' samples
\* after it came, except for as many samples as the delay after it was shortened or after a
\* shared input was muted.
OnTime ==
  \A i \in 0..FragSize - 1 :
    i >= stale => out[i] \in {0, (blocks - 1) * FragSize + i + 1 - db.curdelay}
=============================================================================
