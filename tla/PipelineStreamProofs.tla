------------------------ MODULE PipelineStreamProofs ------------------------
(***************************************************************************)
(* The outputs of Pipeline are given the blocks of the input in order,     *)
(* none lost, repeated or mixed with another, behind a fixed delay, so that *)
(* Pipeline implements BlockStream; and its outputs end where the blocking *)
(* input ended: for every number of filter processes.                      *)
(*                                                                         *)
(* Each pair of buffers holds the last two blocks that its writer has      *)
(* finished (InputData, FreqData, OutputData).  What the counts of         *)
(* PipelineProofs say of how far two threads can be apart makes the        *)
(* block a reader is at one of these two.  That the end is seen at the     *)
(* right block follows from them too: whoever plays the last block has     *)
(* been given it by the input process, which has stored the end before     *)
(* (EofPlaces), and before that block the index that the end is compared   *)
(* with is still 0, which an output is past by then (EndClear).            *)
(***************************************************************************)
EXTENDS PipelineProofs, SequenceTheorems

-----------------------------------------------------------------------------
(* The invariant *)

\* A callback input is kept in step by a callback output, on the same thread.
Paced == CallbackIn => CallbackOut

\* Blocks filter process f has transformed, convolved and converted.
Past(f, pcs) ==
    \/ f.pc \in pcs
    \/ f.pc \in {"synch_post", "synch_wait"} /\ f.next \in pcs
InDone(f) == f.block + One(Past(f, {"convolve", "outputs", "post_output"}))
ConvDone(f) == f.block + One(Past(f, {"outputs", "post_output"}))
OutDone(f) == f.block + One(f.pc = "post_output")

\* Block j is one of the last two of n blocks.
LastTwo(j, n) == j < n /\ n <= j + 2

InputData ==
    \A j \in Nat :
       /\ LastTwo(j, inp.index) => mem.in[j % 2].bl = j
       /\ LastTwo(j, Stored) => mem.in[j % 2].cb = j
FreqData ==
    \A p \in Proc :
       /\ InDone(flt[p]) > 0 => mem.freq_in[p] = {InDone(flt[p]) - 1}
       /\ ConvDone(flt[p]) > 0 => mem.freq_out[p] = {ConvDone(flt[p]) - 1}
OutputData ==
    \A p \in Proc, j \in Nat :
       /\ LastTwo(j, OutDone(flt[p])) => mem.out[j % 2][p] = {j}
       /\ OutDone(flt[p]) <= j /\ j < 2 => mem.out[j][p] = {}
DataInv == Paced => InputData /\ FreqData /\ OutputData

\* What the blocking output has been given, silence included.
BlocksWritten ==
    CASE out.pc \in Unprimed \cup {"fill1", "fill1_busy", "fill1_rest"} -> 0
      [] out.pc \in {"prime2", "fill2", "fill2_busy"} -> One(synched_write)
      [] OTHER -> FillBlocks + out.index + One(out.pc \in {"finish", "pause"})
BlockingLog == Len(log.bl) = BlocksWritten /\ (CallbackPaced => FixedDelay)

\* What the callback output has been given.
CallbackLog ==
    /\ ~CallbackOut => log.cb = <<>>
    /\ CallbackOut => Len(log.cb) = CallbackDelay - cb.fill + Ratio * Begun - cb.out_left
    /\ CallbackOrder

OrderInv == DataInv /\ BlockingLog /\ CallbackLog

-----------------------------------------------------------------------------
(* How far apart two threads can be *)

LEMMA StateTypes ==
    ASSUME TypeOK
    PROVE  /\ inp.index \in Nat /\ out.index \in Nat /\ out.cur \in 0 .. 1
           /\ cb.in_index \in Nat /\ cb.out_index \in Nat /\ cb.in_left \in Nat
           /\ cb.out_left \in Int /\ cb.fill \in Nat /\ cb.in_cur \in 0 .. 1 /\ cb.out_cur \in 0 .. 1
           /\ \A s \in Sems : sem[s] \in Nat
           /\ Ratio \in Nat \ {0} /\ n_processes \in Nat \ {0}
           /\ BlockingIn \/ CallbackIn
           /\ BlockingOut \/ CallbackOut
           /\ synched_write => BlockingOut
           /\ \A p \in Proc : flt[p].block \in Nat
  BY ConstantTypes, PipelineAssumption
     DEF TypeOK, InputType, OutputType, CallbackType, SemType, FilterType,
         BlockingIn, BlockingOut, CallbackIn, CallbackOut, synched_write

\* The tokens of filter process p.
LEMMA OfProcess ==
    ASSUME TypeOK, CountInv, NEW p \in Proc
    PROVE  /\ BlockingIn => TakenBlBy(flt[p]) <= InputPosts
           /\ CallbackIn => TakenCbBy(flt[p]) <= cb.in_index
           /\ BlockingOut => OutputRounds <= PostedBlBy(flt[p])
           /\ CallbackOut => CallbackRounds <= flt[p].block
  BY DEF CountInv, FilterTokens, BlockingInTokens, CallbackInTokens, BlockingOutTokens,
         CallbackOutTokens, Tokens, TakenBl, TakenCb, PostedBl, PostedCb

\* What the filter processes have been given is bounded by what the outputs have
\* returned.
LEMMA InputAhead ==
    ASSUME TypeOK, CountInv
    PROVE  /\ BlockingIn /\ BlockingOut /\ InputPosts >= 2 => InputPosts <= GrantsBl
           /\ BlockingIn /\ CallbackOut /\ InputPosts >= 2 => InputPosts <= 2 + cb.out_index
           /\ CallbackIn /\ CallbackOut => cb.in_index <= Stored /\ Stored <= Begun + 1
<1>1. /\ InputPosts \in Nat /\ GrantsBl \in Int /\ InputTakes \in Int /\ ExtraTakes \in Int
      /\ Returns \in Int
  BY CountedTypes, PostTypes DEF CountInv
<1>2. ASSUME BlockingIn, BlockingOut, InputPosts >= 2 PROVE InputPosts <= GrantsBl
  <2>1. sem["bl_output_2_bl_input"] = GrantsBl - InputTakes /\ sem["bl_output_2_bl_input"] \in Nat
    BY <1>2, StateTypes DEF CountInv, ThreadTokens, Sems
  <2> QED
    BY <1>1, <1>2, <2>1, PostsTaken
<1>3. ASSUME BlockingIn, CallbackOut, InputPosts >= 2 PROVE InputPosts <= 2 + cb.out_index
  <2>1. /\ sem["cb_output_2_bl_input"] = Returns - (IF BlockingOut THEN ExtraTakes ELSE InputTakes)
        /\ sem["cb_output_2_bl_input"] \in Nat
    BY <1>3, StateTypes DEF CountInv, ThreadTokens, Sems
  <2>2. Returns <= 1 + cb.out_index
    BY StateTypes DEF Returns, One
  <2>3. InputPosts <= 1 + (IF BlockingOut THEN ExtraTakes ELSE InputTakes)
    BY <1>3, PostsTaken
  <2> QED
    BY <1>1, <2>1, <2>2, <2>3, StateTypes
<1>4. ASSUME CallbackIn, CallbackOut PROVE cb.in_index <= Stored /\ Stored <= Begun + 1
  <2>1. Stored \in Nat /\ Begun \in Nat
    BY CountedTypes
  <2>2. cb.in_index <= Stored
    BY StateTypes DEF Stored, One
  <2> QED
    BY <1>4, <2>1, <2>2, StateTypes DEF CountInv, Lag
<1> QED
  BY <1>2, <1>3, <1>4

\* A filter process that converts inputs is at one of the last two blocks stored.
LEMMA InputWindow ==
    ASSUME TypeOK, CountInv, NEW p \in Proc, flt[p].pc = "inputs"
    PROVE  /\ BlockingIn => LastTwo(flt[p].block, inp.index)
           /\ CallbackIn /\ CallbackOut => LastTwo(flt[p].block, Stored)
<1> DEFINE k == flt[p].block
<1>1. /\ k \in Nat
      /\ BlockingIn => k + 2 <= InputPosts
      /\ CallbackIn => k + 1 <= cb.in_index
      /\ BlockingOut => OutputRounds <= k + 1
      /\ CallbackOut => CallbackRounds <= k
  BY AtWork
<1> HIDE DEF k
<1>2. ASSUME BlockingIn PROVE LastTwo(k, inp.index)
  <2>1. InputPosts <= 1 + inp.index /\ InputPosts \in Nat
    BY StateTypes, PostTypes DEF InputPosts, One, CountInv
  <2>2. inp.index <= k + 2
    <3>1. inp.pc \notin {"post_init", "wait_init", "synch_post", "synch_wait"}
      BY <1>1, <1>2, StateTypes DEF InputPosts, One, CountInv, InputPlaces
    <3>2. InputTakes >= One(BlockingOut) + inp.index - 1
      BY <3>1, StateTypes DEF InputTakes, One
    <3>3. CASE BlockingOut
      <4>1. /\ sem["bl_output_2_bl_input"] = GrantsBl - InputTakes /\ sem["bl_output_2_bl_input"] \in Nat
        BY <1>2, <3>3, StateTypes DEF CountInv, ThreadTokens, Sems
      <4>2. GrantsBl <= k + 2
        BY <1>1, <1>2, <2>1, <3>3, StateTypes, InputAhead
           DEF GrantsBl, OutputRounds, Unprimed, Written, One, CountInv, OutputPlaces
      <4>3. InputTakes >= inp.index
        BY <3>2, <3>3, StateTypes, CountedTypes DEF One
      <4> QED
        BY <1>1, <4>1, <4>2, <4>3, StateTypes, CountedTypes
    <3>4. CASE ~BlockingOut
      <4>1. /\ sem["cb_output_2_bl_input"] = Returns - InputTakes /\ sem["cb_output_2_bl_input"] \in Nat
        BY <1>2, <3>4, StateTypes DEF CountInv, ThreadTokens, Sems
      <4>2. Returns <= 1 + cb.out_index
        BY StateTypes DEF Returns, One
      <4>3. cb.out_index <= k
        BY <1>1, <3>4, StateTypes DEF CallbackRounds, One
      <4>4. InputTakes >= inp.index - 1
        BY <3>2, <3>4, StateTypes, CountedTypes DEF One
      <4> QED
        BY <1>1, <4>1, <4>2, <4>3, <4>4, StateTypes, CountedTypes
    <3> QED
      BY <3>3, <3>4
  <2> QED
    BY <1>1, <1>2, <2>1, <2>2, StateTypes DEF LastTwo
<1>3. ASSUME CallbackIn, CallbackOut PROVE LastTwo(k, Stored)
  <2>1. Stored \in Nat /\ Begun \in Nat /\ cb.in_index <= Stored /\ Stored <= Begun + 1
    BY <1>3, CountedTypes, InputAhead
  <2>2. Begun <= CallbackRounds + 1
    BY StateTypes DEF Begun, CallbackRounds, One
  <2>3. CallbackRounds \in Nat
    BY PostTypes DEF CountInv
  <2> QED
    BY <1>1, <1>3, <2>1, <2>2, <2>3, StateTypes DEF LastTwo
<1> QED
  BY <1>2, <1>3 DEF k

\* What filter process p has converted, and has taken for it.
LEMMA DoneTaken ==
    ASSUME TypeOK, FilterPlaces, NEW p \in Proc
    PROVE  /\ OutDone(flt[p]) \in Nat
           /\ OutDone(flt[p]) > 0 => OutDone(flt[p]) + 1 <= TakenBlBy(flt[p])
           /\ OutDone(flt[p]) <= TakenCbBy(flt[p])
           /\ flt[p].block <= OutDone(flt[p])
           /\ PostedBlBy(flt[p]) <= OutDone(flt[p]) + 1
<1>1. flt[p].block \in Nat /\ (Starting(flt[p]) => flt[p].block = 0)
  BY DEF TypeOK, FilterType, FilterPlaces
<1> DEFINE k == flt[p].block
<1>2. CASE flt[p].pc = "post_output"
  <2>1. HasBl(flt[p]) /\ HasInput(flt[p]) /\ ~Starting(flt[p])
    BY <1>2 DEF HasBl, HasInput, Starting
  <2>2. /\ OutDone(flt[p]) = k + 1 /\ TakenBlBy(flt[p]) = 1 + k + 1
        /\ TakenCbBy(flt[p]) = k + 1 /\ PostedBlBy(flt[p]) = k + 1
    BY <1>2, <2>1 DEF OutDone, TakenBlBy, TakenCbBy, PostedBlBy, One
  <2> QED
    BY <1>1, <2>2
<1>3. CASE flt[p].pc = "wait_init"
  <2>1. Starting(flt[p]) /\ k = 0
    BY <1>1, <1>3 DEF Starting
  <2>2. OutDone(flt[p]) = 0 /\ TakenCbBy(flt[p]) \in {0, 1} /\ PostedBlBy(flt[p]) = 0
    BY <1>3, <2>1 DEF OutDone, TakenCbBy, PostedBlBy, One
  <2> QED
    BY <2>1, <2>2
<1>4. CASE flt[p].pc \notin {"post_output", "wait_init"}
  <2>1. /\ OutDone(flt[p]) = k /\ TakenBlBy(flt[p]) \in {1 + k, 1 + k + 1}
        /\ TakenCbBy(flt[p]) \in {k, k + 1} /\ PostedBlBy(flt[p]) \in {k, k + 1}
    BY <1>1, <1>4 DEF OutDone, TakenBlBy, TakenCbBy, PostedBlBy, One
  <2> QED
    BY <1>1, <2>1
<1> QED
  BY <1>2, <1>3, <1>4

\* What the output process writes is one of the last two blocks converted by p, or
\* nothing has been converted yet.
LEMMA PlayedWindow ==
    ASSUME TypeOK, CountInv, BlockingIn, NEW p \in Proc
    PROVE  /\ out.pc = "write_busy" => LastTwo(out.index, OutDone(flt[p]))
           /\ out.pc = "fill1_rest" => OutDone(flt[p]) = 0
           /\ out.pc = "fill2_busy" => OutDone(flt[p]) <= 1
<1> DEFINE n == OutDone(flt[p])
<1>1. /\ n \in Nat
      /\ n > 0 => n + 1 <= InputPosts
      /\ BlockingOut => OutputRounds <= n + 1
  BY DoneTaken, OfProcess, StateTypes, PostTypes DEF CountInv, TakenBlBy, PostedBlBy, One
<1> HIDE DEF n
<1>2. InputPosts \in Nat /\ OutputRounds \in Nat /\ GrantsBl \in Int /\ out.index \in Nat
  BY CountedTypes, PostTypes, StateTypes DEF CountInv
<1>3. BlockingOut /\ InputPosts >= 2 => InputPosts <= GrantsBl
  BY InputAhead
<1>4. ASSUME out.pc = "write_busy" PROVE LastTwo(out.index, n)
  <2>1. BlockingOut /\ GrantsBl = 3 + out.index /\ OutputRounds = 2 + out.index
    BY <1>2, <1>4 DEF GrantsBl, OutputRounds, Unprimed, Written, One, CountInv, OutputPlaces
  <2> QED
    BY <1>1, <1>2, <1>3, <2>1 DEF LastTwo
<1>5. ASSUME out.pc = "fill1_rest" PROVE n = 0
  <2>1. BlockingOut /\ GrantsBl = 1
    BY <1>5 DEF GrantsBl, Unprimed, CountInv, OutputPlaces
  <2> QED
    BY <1>1, <1>2, <1>3, <2>1
<1>6. ASSUME out.pc = "fill2_busy" PROVE n <= 1
  <2>1. BlockingOut /\ GrantsBl = 2
    BY <1>6 DEF GrantsBl, Unprimed, Written, One, CountInv, OutputPlaces
  <2> QED
    BY <1>1, <1>2, <1>3, <2>1
<1> QED
  BY <1>4, <1>5, <1>6 DEF n

\* What the callback thread plays is one of the last two blocks converted by p.
LEMMA CallbackWindow ==
    ASSUME TypeOK, CountInv, NEW p \in Proc, cb.pc = "out_copy", cb.fill = 0
    PROVE  /\ cb.out_index > 0 /\ Begun = cb.out_index
           /\ cb.out_left \in 1 .. Ratio
           /\ cb.out_cur = (cb.out_index - 1) % 2
           /\ LastTwo(cb.out_index - 1, OutDone(flt[p]))
<1> DEFINE n == OutDone(flt[p])
<1>1. /\ CallbackOut /\ cb.out_left \in 1 .. Ratio /\ Begun = cb.out_index /\ cb.out_index > 0
      /\ cb.out_cur = (cb.out_index - 1) % 2
      /\ CallbackRounds = cb.out_index /\ Stored = cb.in_index
  BY StateTypes DEF CountInv, CallbackPlaces, OutSteps, Begun, Stored, CallbackRounds, One
<1>2. /\ n \in Nat
      /\ BlockingIn /\ n > 0 => n + 1 <= InputPosts
      /\ CallbackIn => n <= cb.in_index
      /\ cb.out_index <= n
  BY <1>1, DoneTaken, OfProcess, StateTypes, PostTypes DEF CountInv, TakenBlBy, TakenCbBy, One
<1> HIDE DEF n
<1>3. /\ BlockingIn /\ InputPosts >= 2 => InputPosts <= 2 + cb.out_index
      /\ CallbackIn => cb.in_index <= cb.out_index + 1
  BY <1>1, StateTypes, InputAhead
<1>4. n <= cb.out_index + 1
  BY <1>1, <1>2, <1>3, StateTypes, PostTypes DEF CountInv
<1> QED
  BY <1>1, <1>2, <1>4, StateTypes DEF LastTwo, n

\* Two processes between the same two synchronisations, m into a block and somewhere
\* from low to high: they are at the same block, or one is at the end of its block.
LEMMA SamePhase ==
    ASSUME NEW b \in Nat, NEW c \in Nat, NEW low \in Nat, NEW high \in Nat, NEW m \in Nat,
           NEW rb \in Nat, NEW rc \in Nat, NEW R \in {2, 3},
           \/ R = 2 /\ rb = 2 * b /\ rc = 2 * c
           \/ R = 3 /\ rb = 3 * b /\ rc = 3 * c,
           m \in {R, R + 1}, low <= high, high <= R + 1,
           rb + m <= rc + high, rc + low <= rb + m
    PROVE  /\ low >= m - 1 => c = b
           /\ high <= m - 1 => c = b + 1
<1>1. CASE R = 2
  <2>1. rb = 2 * b /\ rc = 2 * c /\ m <= 3 /\ m >= 2 /\ high <= 3
    BY <1>1
  <2>2. 2 * b + m <= 2 * c + high /\ 2 * c + low <= 2 * b + m
    BY <2>1
  <2>3. b <= c /\ c <= b + 1
    BY <2>1, <2>2
  <2> QED
    BY <2>1, <2>2, <2>3
<1>2. CASE R = 3
  <2>1. rb = 3 * b /\ rc = 3 * c /\ m <= 4 /\ m >= 3 /\ high <= 4
    BY <1>2
  <2>2. 3 * b + m <= 3 * c + high /\ 3 * c + low <= 3 * b + m
    BY <2>1
  <2>3. b <= c /\ c <= b + 1
    BY <2>1, <2>2
  <2> QED
    BY <2>1, <2>2, <2>3
<1> QED
  BY <1>1, <1>2

\* While a process convolves all have transformed its block, and none the next; while
\* one converts outputs all have convolved it.
LEMMA InPhase ==
    ASSUME TypeOK, StartInv, EnteredInv, NEW p \in Proc, NEW q \in Proc
    PROVE  /\ flt[p].pc = "convolve" => InDone(flt[q]) = flt[p].block + 1
           /\ flt[p].pc = "outputs" => ConvDone(flt[q]) = flt[p].block + 1
<1>1. Left(p) <= Entered(q) /\ Left(q) <= Entered(p)
  BY DEF EnteredInv
<1>2. Rounds = 2 \/ Rounds = 3
  BY RoundsType
<1> DEFINE b == flt[p].block
           c == flt[q].block
           rb == Rounds * b
           rc == Rounds * c
           w == One(flt[q].pc = "synch_wait")
           ip == Past(flt[q], {"convolve", "outputs", "post_output"})
           op == Past(flt[q], {"outputs", "post_output"})
<1>3. b \in Nat /\ c \in Nat
  BY DEF TypeOK, FilterType
<1>a. \/ Rounds = 2 /\ rb = 2 * b /\ rc = 2 * c
      \/ Rounds = 3 /\ rb = 3 * b /\ rc = 3 * c
  BY <1>2, <1>3
<1>4. /\ Left(q) = rc + Place(flt[q]) /\ Place(flt[q]) \in Nat
      /\ Entered(q) = rc + Place(flt[q]) + w /\ w \in Nat
      /\ Place(flt[q]) + w <= Rounds + 1
  BY <1>3, <1>a, Whereabouts DEF One
<1>5. /\ flt[p].pc = "convolve" => Left(p) = rb + Rounds /\ Entered(p) = Left(p)
      /\ flt[p].pc = "outputs" => Left(p) = rb + Rounds + 1 /\ Entered(p) = Left(p)
  <2>1. Left(p) = rb + Place(flt[p]) /\ Left(p) \in Nat /\ Entered(p) = Left(p) + One(flt[p].pc = "synch_wait")
    BY Whereabouts
  <2>2. /\ flt[p].pc = "convolve" => Place(flt[p]) = Rounds
        /\ flt[p].pc = "outputs" => Place(flt[p]) = Rounds + 1
    BY <1>2 DEF Place, Before
  <2>3. flt[p].pc # "synch_wait" => One(flt[p].pc = "synch_wait") = 0
    BY DEF One
  <2> HIDE DEF rb
  <2> QED
    BY <1>2, <1>a, <1>3, <2>1, <2>2, <2>3
<1>6. flt[q].pc \in FilterPcs /\ flt[q].next \in WorkPcs
  BY DEF TypeOK, FilterType
<1>7. flt[q].pc \in {"synch_post", "synch_wait"} /\ flt[q].next = "inputs" => Rounds = 3
  BY DEF StartInv, Rounds
<1>8. /\ ip => Place(flt[q]) >= Rounds - 1
      /\ ~ip => Place(flt[q]) + w <= Rounds - 1
      /\ op => Place(flt[q]) >= Rounds
      /\ ~op => Place(flt[q]) + w <= Rounds
  BY <1>2, <1>6, <1>7 DEF Past, Place, Before, One, FilterPcs, WorkPcs
<1> HIDE DEF rb, rc, w, ip, op
<1>b. /\ rb \in Nat /\ rc \in Nat /\ w \in Nat /\ Place(flt[q]) \in Nat
      /\ Left(p) \in Nat /\ Left(q) \in Nat
  BY <1>3, <1>4, <1>a, Whereabouts
<1> DEFINE low == Place(flt[q])
           high == low + w
<1>c. low \in Nat /\ high \in Nat /\ low <= high /\ high <= Rounds + 1 /\ Rounds \in {2, 3}
  BY <1>2, <1>4, <1>b
<1>9. ASSUME flt[p].pc = "convolve" PROVE IF ip THEN c = b ELSE c = b + 1
  <2>1. rb + Rounds <= rc + high /\ rc + low <= rb + Rounds
    BY <1>1, <1>4, <1>5, <1>9, <1>b
  <2>2. /\ ip => low >= Rounds - 1
        /\ ~ip => high <= Rounds - 1
    BY <1>8
  <2>3. /\ low >= Rounds - 1 => c = b
        /\ high <= Rounds - 1 => c = b + 1
    <3> HIDE DEF low, high, b, c
    <3> QED
      BY <1>3, <1>a, <1>b, <1>c, <2>1, SamePhase
  <2> QED
    BY <2>2, <2>3
<1>10. ASSUME flt[p].pc = "outputs" PROVE IF op THEN c = b ELSE c = b + 1
  <2> DEFINE m == Rounds + 1
  <2>1. rb + m <= rc + high /\ rc + low <= rb + m
    BY <1>1, <1>4, <1>5, <1>10, <1>b, <1>c
  <2>2. /\ op => low >= m - 1
        /\ ~op => high <= m - 1
    BY <1>8, <1>c
  <2>3. m \in {Rounds, Rounds + 1} /\ m \in Nat
    BY <1>c
  <2>4. /\ low >= m - 1 => c = b
        /\ high <= m - 1 => c = b + 1
    <3> HIDE DEF low, high, b, c, m
    <3> QED
      BY <1>3, <1>a, <1>b, <1>c, <2>1, <2>3, SamePhase
  <2> QED
    BY <2>2, <2>4
<1> QED
  BY <1>3, <1>9, <1>10 DEF InDone, ConvDone, One, ip, op


-----------------------------------------------------------------------------
(* Steps that leave parts of the invariant alone *)

LEMMA ConfKept ==
    ASSUME UNCHANGED conf
    PROVE  UNCHANGED <<BlockingIn, BlockingOut, CallbackIn, CallbackOut, synched_write,
                       Ratio, FillBlocks, CallbackDelay, Paced, CallbackPaced>>
  BY DEF BlockingIn, BlockingOut, CallbackIn, CallbackOut, synched_write, Ratio, FillBlocks,
         CallbackDelay, Paced, CallbackPaced

LEMMA BlockingLogKept ==
    ASSUME BlockingLog, UNCHANGED <<conf, out>>, log'.bl = log.bl
    PROVE  BlockingLog'
<1>1. BlocksWritten' = BlocksWritten /\ UNCHANGED <<FillBlocks, CallbackPaced>>
  BY ConfKept DEF BlocksWritten, Unprimed, One
<1> QED
  BY <1>1 DEF BlockingLog, FixedDelay

LEMMA CallbackLogKept ==
    ASSUME CallbackLog, UNCHANGED conf, log'.cb = log.cb,
           cb'.fill = cb.fill, Begun' = Begun, cb'.out_left = cb.out_left
    PROVE  CallbackLog'
<1>1. UNCHANGED <<CallbackOut, CallbackDelay, Ratio>>
  BY ConfKept
<1> QED
  BY <1>1 DEF CallbackLog, CallbackOrder

LEMMA InputDataKept ==
    ASSUME InputData, UNCHANGED <<inp.index, Stored, mem.in>>
    PROVE  InputData'
  BY DEF InputData, LastTwo

LEMMA FilterDataKept ==
    ASSUME FreqData, OutputData, UNCHANGED <<flt, mem.freq_in, mem.freq_out, mem.out>>
    PROVE  FreqData' /\ OutputData'
  BY DEF FreqData, OutputData, InDone, ConvDone, OutDone, Past, One, LastTwo

-----------------------------------------------------------------------------
(* Filter processes *)

LEMMA DoneSteps ==
    ASSUME FilterType, StartInv, NEW p \in Proc, Filter(p)
    PROVE  /\ \A q \in Proc : q # p => flt'[q] = flt[q]
           /\ InDone(flt'[p]) = InDone(flt[p]) + One(flt[p].pc = "inputs")
           /\ ConvDone(flt'[p]) = ConvDone(flt[p]) + One(flt[p].pc = "convolve")
           /\ OutDone(flt'[p]) = OutDone(flt[p]) + One(flt[p].pc = "outputs")
<1>1. /\ flt \in [Proc -> [pc : FilterPcs, next : WorkPcs, block : Nat]]
      /\ flt[p] \in [pc : FilterPcs, next : WorkPcs, block : Nat]
  BY DEF FilterType
<1> USE <1>1 DEF InDone, ConvDone, OutDone, Past, One
<1>2. ASSUME NEW a \in {"inputs", "wait_bl", "wait_cb"}, Goto(p, a),
             flt[p].pc \in {"ready", "wait_bl", "wait_cb"}
      PROVE  /\ \A q \in Proc : q # p => flt'[q] = flt[q]
             /\ flt'[p] = [flt[p] EXCEPT !.pc = a]
  BY <1>2 DEF Goto
<1>3. ASSUME NEW a \in WorkPcs, Synch(p, a)
      PROVE  /\ \A q \in Proc : q # p => flt'[q] = flt[q]
             /\ flt'[p] = [flt[p] EXCEPT !.pc = "synch_post", !.next = a]
  BY <1>3 DEF Synch, SynchPc
<1>4. CASE FilterSynchPost(p)
  BY <1>4 DEF FilterSynchPost, Goto
<1>5. CASE FilterSynchWait(p)
  BY <1>5 DEF FilterSynchWait, Goto, WorkPcs
<1>6. CASE FilterWaitInit(p)
  <2>1. Synch(p, "ready") /\ "ready" \in WorkPcs
    BY <1>6 DEF FilterWaitInit, WorkPcs
  <2>2. /\ \A q \in Proc : q # p => flt'[q] = flt[q]
        /\ flt'[p] = [flt[p] EXCEPT !.pc = "synch_post", !.next = "ready"]
    BY <2>1, <1>3
  <2> QED
    BY <1>6, <2>2 DEF FilterWaitInit
<1>7. CASE FilterReady(p)
  BY <1>2, <1>7 DEF FilterReady, FirstWait
<1>a. ASSUME StartBlock(p), flt[p].pc \in {"wait_bl", "wait_cb"}
      PROVE  /\ \A q \in Proc : q # p => flt'[q] = flt[q]
             /\ \/ flt'[p] = [flt[p] EXCEPT !.pc = "synch_post", !.next = "inputs"]
                \/ flt'[p] = [flt[p] EXCEPT !.pc = "inputs"]
             /\ InDone(flt'[p]) = InDone(flt[p])
             /\ ConvDone(flt'[p]) = ConvDone(flt[p])
             /\ OutDone(flt'[p]) = OutDone(flt[p])
  <2>1. CASE Synch(p, "inputs")
    <3>1. "inputs" \in WorkPcs
      BY DEF WorkPcs
    <3>2. flt'[p] = [flt[p] EXCEPT !.pc = "synch_post", !.next = "inputs"]
          /\ \A q \in Proc : q # p => flt'[q] = flt[q]
      BY <2>1, <3>1, <1>3
    <3> QED
      BY <1>a, <3>2
  <2>2. CASE Goto(p, "inputs")
    BY <1>2, <1>a, <2>2
  <2> QED
    BY <1>a, <2>1, <2>2 DEF StartBlock
<1>8. CASE FilterWaitBl(p)
  <2>1. CASE StartBlock(p)
    <3>1. flt[p].pc = "wait_bl"
      BY <1>8 DEF FilterWaitBl
    <3>2. /\ \A q \in Proc : q # p => flt'[q] = flt[q]
          /\ InDone(flt'[p]) = InDone(flt[p]) /\ ConvDone(flt'[p]) = ConvDone(flt[p])
          /\ OutDone(flt'[p]) = OutDone(flt[p])
      BY <1>a, <2>1, <3>1
    <3> QED
      BY <3>1, <3>2
  <2>2. CASE Goto(p, "wait_cb")
    BY <1>2, <1>8, <2>2 DEF FilterWaitBl
  <2> QED
    BY <1>8, <2>1, <2>2 DEF FilterWaitBl
<1>9. CASE FilterWaitCb(p)
  <2>1. StartBlock(p) /\ flt[p].pc = "wait_cb"
    BY <1>9 DEF FilterWaitCb
  <2>2. /\ \A q \in Proc : q # p => flt'[q] = flt[q]
        /\ InDone(flt'[p]) = InDone(flt[p]) /\ ConvDone(flt'[p]) = ConvDone(flt[p])
        /\ OutDone(flt'[p]) = OutDone(flt[p])
    BY <1>a, <2>1
  <2> QED
    BY <2>1, <2>2
<1>10. CASE FilterInputs(p)
  <2>1. Synch(p, "convolve") /\ "convolve" \in WorkPcs
    BY <1>10 DEF FilterInputs, WorkPcs
  <2>2. /\ \A q \in Proc : q # p => flt'[q] = flt[q]
        /\ flt'[p] = [flt[p] EXCEPT !.pc = "synch_post", !.next = "convolve"]
    BY <2>1, <1>3
  <2> QED
    BY <1>10, <2>2 DEF FilterInputs
<1>11. CASE FilterConvolve(p)
  <2>1. Synch(p, "outputs") /\ "outputs" \in WorkPcs
    BY <1>11 DEF FilterConvolve, WorkPcs
  <2>2. /\ \A q \in Proc : q # p => flt'[q] = flt[q]
        /\ flt'[p] = [flt[p] EXCEPT !.pc = "synch_post", !.next = "outputs"]
    BY <2>1, <1>3
  <2> QED
    BY <1>11, <2>2 DEF FilterConvolve
<1>12. CASE FilterOutputs(p)
  BY <1>12 DEF FilterOutputs, Goto
<1>13. CASE FilterPostOutput(p)
  BY <1>13 DEF FilterPostOutput, FirstWait
<1> QED
  BY <1>4, <1>5, <1>6, <1>7, <1>8, <1>9, <1>10, <1>11, <1>12, <1>13 DEF Filter

LEMMA FilterOrder ==
    ASSUME SyncInv, CountInv, OrderInv, UNCHANGED conf, NEW p \in Proc, Filter(p)
    PROVE  OrderInv'
<1>1. TypeOK /\ StartInv /\ EnteredInv /\ FilterType /\ FilterPlaces /\ MemType /\ conf \in Configs
  BY DEF SyncInv, TypeOK, CountInv
<1>2. UNCHANGED <<inp, out, cb, log>>
  BY <1>1, FilterMoves
<1>3. UNCHANGED <<conf, CallbackCounts>>
  BY <1>2 DEF CallbackCounts
<1>4. Stored' = Stored /\ Begun' = Begun /\ UNCHANGED <<conf, out>>
  BY <1>2, <1>3, CallbackKept
<1>5. BlockingLog' /\ CallbackLog'
  BY <1>2, <1>4, BlockingLogKept, CallbackLogKept DEF OrderInv
<1>6. ASSUME Paced' PROVE InputData' /\ FreqData' /\ OutputData'
  <2>1. Paced /\ InputData /\ FreqData /\ OutputData
    BY <1>6, ConfKept DEF OrderInv, DataInv
  <2> DEFINE k == flt[p].block
  <2>2. /\ \A q \in Proc : q # p => flt'[q] = flt[q]
        /\ InDone(flt'[p]) = InDone(flt[p]) + One(flt[p].pc = "inputs")
        /\ ConvDone(flt'[p]) = ConvDone(flt[p]) + One(flt[p].pc = "convolve")
        /\ OutDone(flt'[p]) = OutDone(flt[p]) + One(flt[p].pc = "outputs")
    BY <1>1, DoneSteps
  <2>3. /\ k \in Nat
        /\ \A q \in Proc : InDone(flt[q]) \in Nat /\ ConvDone(flt[q]) \in Nat /\ OutDone(flt[q]) \in Nat
    BY <1>1 DEF FilterType, InDone, ConvDone, OutDone, One
  <2>4. CASE flt[p].pc = "inputs"
    <3>1. FilterInputs(p)
      BY <2>4 DEF Filter, FilterSynchPost, FilterSynchWait, FilterWaitInit, FilterReady, FilterWaitBl,
                  FilterWaitCb, FilterConvolve, FilterOutputs, FilterPostOutput
    <3>2. (IF BlockingIn THEN {mem.in[k % 2].bl} ELSE {}) \cup
          (IF CallbackIn THEN {mem.in[k % 2].cb} ELSE {}) = {k}
      BY <1>1, <2>1, <2>3, <2>4, InputWindow, StateTypes DEF InputData, Paced
    <3>3. mem' = [mem EXCEPT !.freq_in[p] = {k}]
      BY <3>1, <3>2 DEF FilterInputs, FilterBuf
    <3>4. InDone(flt[p]) = k /\ InDone(flt'[p]) = k + 1
      BY <2>2, <2>3, <2>4 DEF InDone, Past, One
    <3>5. /\ \A q \in Proc : ConvDone(flt'[q]) = ConvDone(flt[q]) /\ OutDone(flt'[q]) = OutDone(flt[q])
      BY <2>2, <2>3, <2>4 DEF One
    <3>6. UNCHANGED <<mem.in, mem.freq_out, mem.out>> /\ mem'.freq_in = [mem.freq_in EXCEPT ![p] = {k}]
      BY <1>1, <3>3 DEF MemType
    <3>7. InputData'
      BY <1>2, <1>4, <2>1, <3>6, InputDataKept
    <3>8. OutputData'
      BY <2>1, <3>5, <3>6 DEF OutputData
    <3>9. FreqData'
      <4>1. \A q \in Proc : q # p => mem'.freq_in[q] = mem.freq_in[q] /\ InDone(flt'[q]) = InDone(flt[q])
        BY <1>1, <2>2, <3>6 DEF MemType
      <4>2. mem'.freq_in[p] = {k}
        BY <1>1, <3>6 DEF MemType
      <4>3. mem'.freq_out = mem.freq_out
        BY <3>6
      <4>4. (k + 1) - 1 = k
        BY <2>3
      <4> HIDE DEF k
      <4> QED
        BY <2>1, <3>4, <3>5, <4>1, <4>2, <4>3, <4>4 DEF FreqData
    <3> QED
      BY <3>7, <3>8, <3>9
  <2>5. CASE flt[p].pc = "convolve"
    <3>1. FilterConvolve(p)
      BY <2>5 DEF Filter, FilterSynchPost, FilterSynchWait, FilterWaitInit, FilterReady, FilterWaitBl,
                  FilterWaitCb, FilterInputs, FilterOutputs, FilterPostOutput
    <3>2. \A q \in Proc : InDone(flt[q]) = k + 1
      BY <1>1, <2>5, InPhase
    <3>3. \A q \in Proc : mem.freq_in[q] = {k}
      BY <2>1, <2>3, <3>2 DEF FreqData
    <3>4. UNION {mem.freq_in[q] : q \in Proc} = {k}
      BY <3>3
    <3>5. mem' = [mem EXCEPT !.freq_out[p] = {k}]
      BY <3>1, <3>4 DEF FilterConvolve
    <3>6. ConvDone(flt'[p]) = k + 1
      BY <2>2, <2>3, <2>5 DEF ConvDone, Past, One
    <3>7. \A q \in Proc : InDone(flt'[q]) = InDone(flt[q]) /\ OutDone(flt'[q]) = OutDone(flt[q])
      BY <2>2, <2>3, <2>5 DEF One
    <3>8. UNCHANGED <<mem.in, mem.freq_in, mem.out>> /\ mem'.freq_out = [mem.freq_out EXCEPT ![p] = {k}]
      BY <1>1, <3>5 DEF MemType
    <3>9. InputData'
      BY <1>2, <1>4, <2>1, <3>8, InputDataKept
    <3>10. OutputData'
      BY <2>1, <3>7, <3>8 DEF OutputData
    <3>11. FreqData'
      <4>1. \A q \in Proc : q # p => mem'.freq_out[q] = mem.freq_out[q] /\ ConvDone(flt'[q]) = ConvDone(flt[q])
        BY <1>1, <2>2, <3>8 DEF MemType
      <4>2. mem'.freq_out[p] = {k}
        BY <1>1, <3>8 DEF MemType
      <4>3. mem'.freq_in = mem.freq_in
        BY <3>8
      <4>4. (k + 1) - 1 = k
        BY <2>3
      <4> HIDE DEF k
      <4> QED
        BY <2>1, <3>6, <3>7, <4>1, <4>2, <4>3, <4>4 DEF FreqData
    <3> QED
      BY <3>9, <3>10, <3>11
  <2>6. CASE flt[p].pc = "outputs"
    <3>1. FilterOutputs(p)
      BY <2>6 DEF Filter, FilterSynchPost, FilterSynchWait, FilterWaitInit, FilterReady, FilterWaitBl,
                  FilterWaitCb, FilterInputs, FilterConvolve, FilterPostOutput
    <3>2. \A q \in Proc : ConvDone(flt[q]) = k + 1
      BY <1>1, <2>6, InPhase
    <3>3. \A q \in Proc : mem.freq_out[q] = {k}
      BY <2>1, <2>3, <3>2 DEF FreqData
    <3>4. UNION {mem.freq_out[q] : q \in Proc} = {k}
      BY <3>3
    <3>5. mem' = [mem EXCEPT !.out[k % 2][p] = {k}]
      BY <3>1, <3>4 DEF FilterOutputs, FilterBuf
    <3>6. OutDone(flt[p]) = k /\ OutDone(flt'[p]) = k + 1
      BY <2>2, <2>3, <2>6 DEF OutDone, One
    <3>7. \A q \in Proc : InDone(flt'[q]) = InDone(flt[q]) /\ ConvDone(flt'[q]) = ConvDone(flt[q])
      BY <2>2, <2>3, <2>6 DEF One
    <3>8. UNCHANGED <<mem.in, mem.freq_in, mem.freq_out>>
      BY <1>1, <3>5 DEF MemType
    <3>9. InputData'
      BY <1>2, <1>4, <2>1, <3>8, InputDataKept
    <3>10. FreqData'
      BY <2>1, <3>7, <3>8 DEF FreqData
    <3>11. /\ \A b \in 0 .. 1, q \in Proc : <<b, q>> # <<k % 2, p>> => mem'.out[b][q] = mem.out[b][q]
           /\ mem'.out[k % 2][p] = {k}
           /\ k % 2 \in 0 .. 1
      BY <1>1, <2>3, <3>5 DEF MemType
    <3>12. OutputData'
      <4> HIDE DEF k
      <4> SUFFICES ASSUME NEW q \in Proc, NEW j \in Nat
                   PROVE  /\ LastTwo(j, OutDone(flt'[q])) => mem'.out[j % 2][q] = {j}
                          /\ OutDone(flt'[q]) <= j /\ j < 2 => mem'.out[j][q] = {}
        BY DEF OutputData
      <4>1. CASE q # p
        <5>1. OutDone(flt'[q]) = OutDone(flt[q])
          BY <2>2, <4>1
        <5>2. j % 2 \in 0 .. 1 /\ (j < 2 => j \in 0 .. 1)
          OBVIOUS
        <5> QED
          BY <2>1, <3>11, <4>1, <5>1, <5>2 DEF OutputData
      <4>2. CASE q = p
        <5>1. ASSUME LastTwo(j, k + 1) PROVE mem'.out[j % 2][p] = {j}
          <6>1. CASE j = k
            BY <3>11, <6>1
          <6>2. CASE j # k
            <7>1. LastTwo(j, k) /\ j % 2 # k % 2 /\ j % 2 \in 0 .. 1
              BY <2>3, <5>1, <6>2 DEF LastTwo
            <7> QED
              BY <2>1, <3>6, <3>11, <7>1 DEF OutputData
          <6> QED
            BY <6>1, <6>2
        <5>2. ASSUME k + 1 <= j, j < 2 PROVE mem'.out[j][p] = {}
          <6>1. k % 2 # j /\ k <= j /\ j \in 0 .. 1
            BY <2>3, <5>2
          <6> QED
            BY <2>1, <3>6, <3>11, <5>2, <6>1 DEF OutputData
        <5> QED
          BY <3>6, <4>2, <5>1, <5>2
      <4> QED
        BY <4>1, <4>2
    <3> QED
      BY <3>9, <3>10, <3>12
  <2>7. CASE flt[p].pc \notin {"inputs", "convolve", "outputs"}
    <3>1. mem' = mem
      BY <2>7 DEF Filter, FilterSynchPost, FilterSynchWait, FilterWaitInit, FilterReady, FilterWaitBl,
                  FilterWaitCb, FilterInputs, FilterConvolve, FilterOutputs, FilterPostOutput
    <3>2. \A q \in Proc : /\ InDone(flt'[q]) = InDone(flt[q])
                          /\ ConvDone(flt'[q]) = ConvDone(flt[q])
                          /\ OutDone(flt'[q]) = OutDone(flt[q])
      BY <2>2, <2>3, <2>7 DEF One
    <3> QED
      BY <1>2, <1>4, <2>1, <3>1, <3>2, InputDataKept DEF FreqData, OutputData
  <2> QED
    BY <2>4, <2>5, <2>6, <2>7
<1> QED
  BY <1>5, <1>6 DEF OrderInv, DataInv

-----------------------------------------------------------------------------
(* Input process *)

LEMMA InputLeaves ==
    ASSUME TypeOK, Input
    PROVE  /\ UNCHANGED <<out, flt, log, CallbackCounts>>
           /\ \/ UNCHANGED <<mem, inp.index>>
              \/ /\ inp' = [inp EXCEPT !.pc = "wait_output", !.index = @ + 1]
                 /\ StoreBl(inp.index % 2, inp.index)
<1>0. InputType /\ CallbackType
  BY DEF TypeOK
<1>a. ASSUME NEW a, inp' = [inp EXCEPT !.pc = a] PROVE inp'.index = inp.index
  BY <1>0, <1>a DEF InputType
<1>b. cb' = cb => UNCHANGED CallbackCounts
  BY DEF CallbackCounts
<1>1. CASE MainPostInit \/ InputSynchPost \/ InputSynchWait \/ InputTakeOutput \/ InputTakeExtra
           \/ InputPostFilter \/ InputEofFrames
  BY <1>1, <1>a, <1>b
     DEF MainPostInit, InputSynchPost, InputSynchWait, InputTakeOutput, InputTakeExtra,
         InputPostFilter, InputEofFrames
<1>2. CASE MainWaitInit \/ InputBegin
  <2>1. UNCHANGED <<out, flt, log, mem>>
    BY <1>2 DEF MainWaitInit, InputBegin
  <2>2. inp'.index = inp.index
    BY <1>2, <1>a DEF MainWaitInit, InputBegin
  <2>3. \/ cb' = cb \/ \E s \in BOOLEAN : cb' = [cb EXCEPT !.started = s]
    BY <1>0, <1>2 DEF MainWaitInit, InputBegin, CallbackType
  <2>4. UNCHANGED CallbackCounts
    BY <1>0, <2>3 DEF CallbackType, CallbackCounts
  <2> QED
    BY <2>1, <2>2, <2>4
<1>3. CASE InputEnd \/ InputEofIndex
  BY <1>3, <1>b DEF InputEnd, InputEofIndex
<1> QED
  BY <1>1, <1>2, <1>3 DEF Input

LEMMA InputOrder ==
    ASSUME SyncInv, CountInv, OrderInv, UNCHANGED conf, Input
    PROVE  OrderInv'
<1>1. TypeOK /\ CallbackType /\ InputType /\ MemType
  BY DEF SyncInv, TypeOK
<1>2. /\ UNCHANGED <<out, flt, log, CallbackCounts>>
      /\ \/ UNCHANGED <<mem, inp.index>>
         \/ /\ inp' = [inp EXCEPT !.pc = "wait_output", !.index = @ + 1]
            /\ StoreBl(inp.index % 2, inp.index)
  BY <1>1, InputLeaves
<1>3. UNCHANGED <<conf, CallbackCounts>> /\ UNCHANGED <<conf, out>>
  BY <1>2
<1>4. Stored' = Stored /\ Begun' = Begun /\ cb'.fill = cb.fill /\ cb'.out_left = cb.out_left
  BY <1>3, CallbackKept DEF CallbackCounts
<1>5. BlockingLog' /\ CallbackLog'
  BY <1>2, <1>3, <1>4, BlockingLogKept, CallbackLogKept DEF OrderInv
<1>6. ASSUME Paced' PROVE InputData' /\ FreqData' /\ OutputData'
  <2>1. Paced /\ InputData /\ FreqData /\ OutputData
    BY <1>6, ConfKept DEF OrderInv, DataInv
  <2>2. CASE UNCHANGED <<mem, inp.index>>
    BY <1>2, <1>4, <2>1, <2>2, InputDataKept, FilterDataKept
  <2>3. CASE inp' = [inp EXCEPT !.pc = "wait_output", !.index = @ + 1] /\ StoreBl(inp.index % 2, inp.index)
    <3> DEFINE k == inp.index
    <3>1. k \in Nat /\ k % 2 \in 0 .. 1 /\ inp'.index = k + 1
      BY <1>1, <2>3 DEF InputType
    <3>2. /\ UNCHANGED <<mem.freq_in, mem.freq_out, mem.out>>
          /\ mem'.in = [mem.in EXCEPT ![k % 2].bl = k]
      BY <1>1, <2>3 DEF StoreBl, MemType
    <3>3. /\ mem'.in[k % 2].bl = k
          /\ \A b \in 0 .. 1 : /\ mem'.in[b].cb = mem.in[b].cb
                               /\ b # k % 2 => mem'.in[b].bl = mem.in[b].bl
      BY <1>1, <3>1, <3>2 DEF MemType
    <3>4. InputData'
      <4> SUFFICES ASSUME NEW j \in Nat
                   PROVE  /\ LastTwo(j, k + 1) => mem'.in[j % 2].bl = j
                          /\ LastTwo(j, Stored) => mem'.in[j % 2].cb = j
        BY <1>4, <3>1 DEF InputData
      <4> HIDE DEF k
      <4>1. j % 2 \in 0 .. 1
        OBVIOUS
      <4>2. ASSUME LastTwo(j, k + 1) PROVE mem'.in[j % 2].bl = j
        <5>1. CASE j = k
          BY <3>3, <5>1
        <5>2. CASE j # k
          <6>1. LastTwo(j, k) /\ j % 2 # k % 2
            BY <3>1, <4>2, <5>2 DEF LastTwo
          <6> QED
            BY <2>1, <3>3, <4>1, <6>1 DEF InputData, k
        <5> QED
          BY <5>1, <5>2
      <4>3. ASSUME LastTwo(j, Stored) PROVE mem'.in[j % 2].cb = j
        BY <2>1, <3>3, <4>1, <4>3 DEF InputData
      <4> QED
        BY <4>2, <4>3
    <3> QED
      BY <1>2, <2>1, <3>2, <3>4, FilterDataKept
  <2> QED
    BY <1>2, <2>2, <2>3
<1> QED
  BY <1>5, <1>6 DEF OrderInv, DataInv

-----------------------------------------------------------------------------
(* Output process *)

\* What the output process appends to the log.
LEMMA WriteAppends ==
    ASSUME LogType, MemType, OutputType, Write
    PROVE  /\ log'.cb = log.cb /\ Len(log.bl) \in Nat
           /\ Len(log'.bl) = Len(log.bl) + 1
           /\ \A j \in 1 .. Len(log.bl) : log'.bl[j] = log.bl[j]
           /\ log'.bl[Len(log.bl) + 1].data = Contents(out.cur)
           /\ log'.bl[Len(log.bl) + 1].frames = out.frames
<1> DEFINE r == [data |-> Contents(out.cur), frames |-> out.frames]
           S == [data : SUBSET Data, frames : Nat]
<1>1. r \in S /\ r.data = Contents(out.cur) /\ r.frames = out.frames
  BY ContentsType DEF OutputType
<1>2. log.bl \in Seq(S)
  BY DEF LogType
<1>3. log'.bl = Append(log.bl, r) /\ log'.cb = log.cb
  BY DEF Write, LogType
<1> HIDE DEF r, S
<1> QED
  BY <1>1, <1>2, <1>3, AppendProperties

LEMMA OutputLeaves ==
    ASSUME TypeOK, Output
    PROVE  /\ UNCHANGED <<inp, flt, mem, CallbackCounts>> /\ log'.cb = log.cb
           /\ \/ OutputFillEnd \/ OutputEnd
              \/ log' = log
<1>0. OutputType /\ CallbackType /\ LogType
  BY DEF TypeOK
<1>a. cb' = cb => UNCHANGED CallbackCounts
  BY DEF CallbackCounts
<1>1. CASE OutputStart \/ OutputWaitInit \/ OutputSynchWait \/ OutputPrime2 \/ OutputBegin
           \/ OutputSynchPost \/ OutputWaitFilter \/ OutputPostInput \/ OutputFinish
  <2>1. UNCHANGED <<inp, flt, mem, cb, log>>
    BY <1>1 DEF OutputStart, OutputWaitInit, OutputSynchWait, OutputPrime2, OutputBegin,
                OutputSynchPost, OutputWaitFilter, OutputPostInput, OutputFinish
  <2> QED
    BY <1>a, <2>1
<1>2. CASE OutputPrime
  <2>1. UNCHANGED <<inp, flt, mem, log>> /\ \E s \in BOOLEAN : cb' = [cb EXCEPT !.started = s]
    BY <1>0, <1>2 DEF OutputPrime, CallbackType
  <2>2. UNCHANGED CallbackCounts
    BY <1>0, <2>1 DEF CallbackType, CallbackCounts
  <2> QED
    BY <2>1, <2>2
<1>3. CASE OutputFillEnd \/ OutputEnd
  BY <1>0, <1>3, <1>a DEF OutputFillEnd, OutputEnd, Write, LogType
<1> QED
  BY <1>1, <1>2, <1>3 DEF Output

LEMMA WrittenKept ==
    ASSUME TypeOK, OutputPlaces, UNCHANGED conf, Output, ~OutputFillEnd, ~OutputEnd
    PROVE  BlocksWritten' = BlocksWritten
<1>0. OutputType /\ UNCHANGED <<BlockingIn, synched_write, FillBlocks>>
  BY ConfKept DEF TypeOK
<1> USE <1>0 DEF OutputType, BlocksWritten, Unprimed, One
<1>1. CASE OutputStart
  BY <1>1 DEF OutputStart
<1>2. CASE OutputWaitInit
  BY <1>2 DEF OutputWaitInit
<1>3. CASE OutputSynchWait
  BY <1>3 DEF OutputSynchWait
<1>4. CASE OutputPrime
  BY <1>4 DEF OutputPrime
<1>5. CASE OutputPrime2
  <2>1. out.index = 0 /\ (~synched_write => FillBlocks = 0)
    BY <1>5 DEF OutputPrime2, OutputPlaces, FillBlocks
  <2> QED
    BY <1>5, <2>1 DEF OutputPrime2
<1>6. CASE OutputBegin
  BY <1>6 DEF OutputBegin, Busy
<1>7. CASE OutputSynchPost
  BY <1>7 DEF OutputSynchPost
<1>8. CASE OutputWaitFilter \/ OutputPostInput
  BY <1>8 DEF OutputWaitFilter, OutputPostInput
<1>9. CASE OutputFinish
  BY <1>9 DEF OutputFinish
<1> QED
  BY <1>1, <1>2, <1>3, <1>4, <1>5, <1>6, <1>7, <1>8, <1>9 DEF Output

\* What the blocking output is about to write.
LEMMA WriteContents ==
    ASSUME TypeOK, CountInv, OutputData, BlockingIn
    PROVE  /\ out.pc \in {"fill1_rest", "fill2_busy"} => Contents(out.cur) = {}
           /\ out.pc = "write_busy" => Contents(out.cur) = {out.index}
<1>1. out.index \in Nat /\ OutputPlaces /\ Proc # {} /\ \A p \in Proc : OutDone(flt[p]) \in Nat
  BY StateTypes, DoneTaken DEF CountInv, Proc
<1>2. CASE out.pc = "fill1_rest"
  <2>1. out.cur = 0
    BY <1>1, <1>2 DEF OutputPlaces
  <2>2. \A p \in Proc : mem.out[0][p] = {}
    BY <1>1, <1>2, PlayedWindow DEF OutputData
  <2> QED
    BY <1>2, <2>1, <2>2 DEF Contents
<1>3. CASE out.pc = "fill2_busy"
  <2>1. out.cur = 1
    BY <1>1, <1>3 DEF OutputPlaces
  <2>2. \A p \in Proc : mem.out[1][p] = {}
    BY <1>1, <1>3, PlayedWindow DEF OutputData
  <2> QED
    BY <1>3, <2>1, <2>2 DEF Contents
<1>4. CASE out.pc = "write_busy"
  <2>1. out.cur = out.index % 2
    BY <1>1, <1>4 DEF OutputPlaces
  <2>2. \A p \in Proc : mem.out[out.index % 2][p] = {out.index}
    BY <1>1, <1>4, PlayedWindow DEF OutputData
  <2> QED
    BY <1>1, <1>4, <2>1, <2>2 DEF Contents
<1> QED
  BY <1>2, <1>3, <1>4

LEMMA OutputOrder ==
    ASSUME SyncInv, CountInv, OrderInv, UNCHANGED conf, Output
    PROVE  OrderInv'
<1>1. TypeOK /\ OutputType /\ LogType /\ MemType /\ OutputPlaces
  BY DEF SyncInv, TypeOK, CountInv
<1>2. /\ UNCHANGED <<inp, flt, mem, CallbackCounts>> /\ log'.cb = log.cb
      /\ OutputFillEnd \/ OutputEnd \/ log' = log
  BY <1>1, OutputLeaves
<1>3. UNCHANGED <<conf, CallbackCounts>>
  BY <1>2
<1>4. Stored' = Stored /\ Begun' = Begun /\ cb'.fill = cb.fill /\ cb'.out_left = cb.out_left
  BY <1>3, CallbackKept DEF CallbackCounts
<1>5. CallbackLog'
  BY <1>2, <1>4, CallbackLogKept DEF OrderInv
<1>6. UNCHANGED <<Paced, CallbackPaced, BlockingIn, BlockingOut, CallbackIn, CallbackOut, synched_write, FillBlocks>>
  BY ConfKept
<1>7. DataInv'
  BY <1>2, <1>4, <1>6, InputDataKept, FilterDataKept DEF OrderInv, DataInv
<1>8. BlockingLog'
  <2>1. Len(log.bl) = BlocksWritten /\ (CallbackPaced => FixedDelay) /\ DataInv
    BY DEF OrderInv, BlockingLog
  <2>2. CASE OutputFillEnd \/ OutputEnd
    <3>1. /\ Len(log.bl) \in Nat /\ Len(log'.bl) = Len(log.bl) + 1
          /\ \A j \in 1 .. Len(log.bl) : log'.bl[j] = log.bl[j]
          /\ log'.bl[Len(log.bl) + 1].data = Contents(out.cur)
      BY <1>1, <2>2, WriteAppends DEF OutputFillEnd, OutputEnd
    <3>2. out.pc \in {"fill1_rest", "fill2_busy", "write_busy"} /\ BlockingOut /\ out.index \in Nat
      BY <1>1, <2>2 DEF OutputFillEnd, OutputEnd, OutputPlaces, OutputType
    <3>3. BlocksWritten' = BlocksWritten + 1
      <4>1. CASE out.pc = "fill1_rest"
        <5>1. synched_write /\ synched_write' /\ out'.pc = "prime2"
          BY <1>1, <1>6, <2>2, <4>1 DEF OutputFillEnd, OutputEnd, OutputPlaces, OutputType
        <5> QED
          BY <4>1, <5>1 DEF BlocksWritten, One, Unprimed
      <4>2. CASE out.pc = "fill2_busy"
        <5>1. synched_write /\ FillBlocks = 2 /\ out.index = 0
          BY <1>1, <4>2 DEF OutputPlaces, FillBlocks
        <5>2. out'.pc = "loop" /\ out'.index = 0 /\ FillBlocks' = 2
          BY <1>1, <1>6, <2>2, <4>2, <5>1 DEF OutputFillEnd, OutputEnd, OutputType
        <5>3. BlocksWritten = 1 /\ BlocksWritten' = 2
          BY <4>2, <5>1, <5>2 DEF BlocksWritten, One, Unprimed
        <5> QED
          BY <5>3
      <4>3. CASE out.pc = "write_busy"
        <5>1. /\ FillBlocks' = FillBlocks /\ FillBlocks \in Nat
              /\ \/ out'.pc = "finish" /\ out'.index = out.index
                 \/ out'.pc = "loop" /\ out'.index = out.index + 1
          BY <1>1, <1>6, <2>2, <4>3 DEF OutputFillEnd, OutputEnd, OutputType, FillBlocks
        <5>2. /\ BlocksWritten = FillBlocks + out.index + 0
              /\ BlocksWritten' \in {FillBlocks + out.index + 1, FillBlocks + (out.index + 1) + 0}
          BY <4>3, <5>1 DEF BlocksWritten, One, Unprimed
        <5> QED
          BY <3>2, <5>1, <5>2
      <4> QED
        BY <3>2, <4>1, <4>2, <4>3
    <3>4. ASSUME CallbackPaced' PROVE FixedDelay'
      <4>1. BlockingIn /\ Paced /\ CallbackPaced
        BY <1>1, <1>6, <3>2, <3>4, StateTypes DEF CallbackPaced, Paced
      <4>2. /\ out.pc \in {"fill1_rest", "fill2_busy"} => Contents(out.cur) = {}
            /\ out.pc = "write_busy" => Contents(out.cur) = {out.index}
        BY <1>1, <2>1, <4>1, WriteContents DEF DataInv
      <4> DEFINE n == Len(log.bl)
      <4>3. Contents(out.cur) = IF n + 1 <= FillBlocks THEN {} ELSE {(n + 1) - 1 - FillBlocks}
        <5>1. CASE out.pc = "fill1_rest" \/ out.pc = "fill2_busy"
          <6>1. FillBlocks = 2 /\ n \in {0, 1}
            BY <1>1, <2>1, <5>1 DEF OutputPlaces, FillBlocks, BlocksWritten, One, Unprimed
          <6>2. n + 1 <= FillBlocks
            <7> HIDE DEF n
            <7> QED
              BY <6>1
          <6> QED
            BY <4>2, <5>1, <6>2
        <5>2. CASE out.pc = "write_busy"
          <6>1. n = FillBlocks + out.index + 0 /\ FillBlocks \in Nat
            BY <2>1, <5>2 DEF FillBlocks, BlocksWritten, One, Unprimed
          <6>2. ~(n + 1 <= FillBlocks) /\ (n + 1) - 1 - FillBlocks = out.index
            BY <3>2, <6>1
          <6> QED
            BY <4>2, <5>2, <6>2
        <5> QED
          BY <3>2, <5>1, <5>2
      <4>4. SUFFICES ASSUME NEW k \in 1 .. n + 1
                     PROVE  log'.bl[k].data = IF k <= FillBlocks THEN {} ELSE {k - 1 - FillBlocks}
        BY <1>6, <3>1 DEF FixedDelay
      <4>5. CASE k = n + 1
        BY <3>1, <4>3, <4>5
      <4>6. CASE k # n + 1
        <5>1. k \in 1 .. Len(log.bl)
          BY <3>1, <4>6
        <5> QED
          BY <2>1, <3>1, <4>1, <5>1 DEF FixedDelay
      <4> QED
        BY <4>5, <4>6
    <3> QED
      BY <2>1, <3>1, <3>3, <3>4 DEF BlockingLog
  <2>3. CASE ~OutputFillEnd /\ ~OutputEnd
    <3>1. BlocksWritten' = BlocksWritten /\ log' = log
      BY <1>1, <1>2, <2>3, WrittenKept
    <3> QED
      BY <1>6, <2>1, <3>1 DEF BlockingLog, FixedDelay
  <2> QED
    BY <2>2, <2>3
<1> QED
  BY <1>5, <1>7, <1>8 DEF OrderInv

-----------------------------------------------------------------------------
(* Callback thread *)

\* What the callback thread stores and begins, and what it has been given, step by
\* step.
LEMMA CallbackLeaves ==
    ASSUME TypeOK, Callback
    PROVE  /\ UNCHANGED <<inp, out, flt>> /\ log'.bl = log.bl
           /\ \/ CallbackInCopy /\ cb.in_left = 1
              \/ mem' = mem /\ Stored' = Stored
           /\ \/ CallbackOutCopy
              \/ /\ log' = log /\ cb'.fill = cb.fill
                 /\ \/ Begun' = Begun /\ cb'.out_left = cb.out_left
                    \/ /\ CallbackOutLock /\ NeedsBlock
                       /\ Begun' = Begun + 1 /\ cb'.out_left = Ratio
<1>1. CallbackType /\ LogType /\ cb.in_index \in Nat /\ cb.out_index \in Nat
  BY DEF TypeOK, CallbackType
<1>2. UNCHANGED <<inp, out, flt>> /\ log'.bl = log.bl
  <2>1. CASE CallbackOutCopy
    BY <1>1, <2>1 DEF CallbackOutCopy, LogType
  <2>2. CASE ~CallbackOutCopy
    BY <2>2 DEF Callback, CallbackCall, CallbackInCopy, CallbackInit, CallbackInWait, CallbackInPost,
                CallbackOutLock, CallbackOutWait, CallbackOutPost, CallbackFinished
  <2> QED
    BY <2>1, <2>2
<1> USE <1>1 DEF CallbackType, Stored, Begun, One
<1>3. CASE CallbackCall
  BY <1>2, <1>3 DEF CallbackCall
<1>4. CASE CallbackInCopy
  BY <1>2, <1>4 DEF CallbackInCopy, AfterInput
<1>5. CASE CallbackInit
  BY <1>2, <1>5 DEF CallbackInit
<1>6. CASE CallbackInWait
  BY <1>2, <1>6 DEF CallbackInWait
<1>7. CASE CallbackInPost
  BY <1>2, <1>7 DEF CallbackInPost, AfterInput
<1>8. CASE CallbackOutLock
  BY <1>2, <1>8 DEF CallbackOutLock
<1>9. CASE CallbackOutWait
  BY <1>2, <1>9 DEF CallbackOutWait
<1>10. CASE CallbackOutPost
  BY <1>2, <1>10 DEF CallbackOutPost
<1>11. CASE CallbackOutCopy
  BY <1>2, <1>11 DEF CallbackOutCopy, PcOnReturn
<1>12. CASE CallbackFinished
  BY <1>2, <1>12 DEF CallbackFinished
<1> QED
  BY <1>3, <1>4, <1>5, <1>6, <1>7, <1>8, <1>9, <1>10, <1>11, <1>12 DEF Callback

LEMMA CallbackAppends ==
    ASSUME LogType, NEW d \in SUBSET Data, log' = [log EXCEPT !.cb = Append(@, d)]
    PROVE  /\ Len(log.cb) \in Nat
           /\ Len(log'.cb) = Len(log.cb) + 1
           /\ \A j \in 1 .. Len(log.cb) : log'.cb[j] = log.cb[j]
           /\ log'.cb[Len(log.cb) + 1] = d
<1> DEFINE S == SUBSET Data
<1>1. log.cb \in Seq(S) /\ d \in S
  BY DEF LogType
<1>2. log'.cb = Append(log.cb, d)
  BY DEF LogType
<1> HIDE DEF S
<1> QED
  BY <1>1, <1>2, AppendProperties

LEMMA BlockOfCallback ==
    ASSUME NEW R \in Nat \ {0}, NEW q \in Nat, NEW r \in 0 .. R - 1
    PROVE  (R * q + r) \div R = q
  OBVIOUS

LEMMA CallbackDataOrder ==
    ASSUME SyncInv, CountInv, DataInv, UNCHANGED conf, Callback
    PROVE  DataInv'
<1>1. TypeOK /\ MemType /\ CallbackType /\ CallbackPlaces
  BY DEF SyncInv, TypeOK, CountInv
<1>2. /\ UNCHANGED <<inp, out, flt>>
      /\ \/ CallbackInCopy /\ cb.in_left = 1
         \/ mem' = mem /\ Stored' = Stored
  BY <1>1, CallbackLeaves
<1>3. SUFFICES ASSUME Paced' PROVE InputData' /\ FreqData' /\ OutputData'
  BY DEF DataInv
<1>4. InputData /\ FreqData /\ OutputData
  BY <1>3, ConfKept DEF DataInv
<1>5. CASE mem' = mem /\ Stored' = Stored
  BY <1>2, <1>4, <1>5, InputDataKept, FilterDataKept
<1>6. CASE CallbackInCopy /\ cb.in_left = 1
  <2> DEFINE k == cb.in_index
  <2>1. /\ k \in Nat /\ Stored = k /\ cb.in_cur = k % 2 /\ k % 2 \in 0 .. 1
        /\ Stored' = k + 1
    <3>1. cb.pc = "in_copy" /\ cb'.pc = "in_init" /\ cb'.in_index = k /\ k \in Nat
      BY <1>1, <1>6 DEF CallbackInCopy, CallbackType
    <3>2. Stored = k /\ Stored' = k + 1
      BY <3>1 DEF Stored, One
    <3>3. cb.in_cur = k % 2
      BY <1>1, <3>2 DEF CallbackPlaces
    <3> QED
      BY <3>1, <3>2, <3>3
  <2>2. /\ UNCHANGED <<mem.freq_in, mem.freq_out, mem.out>>
        /\ mem'.in = [mem.in EXCEPT ![k % 2].cb = k]
    BY <1>1, <1>6, <2>1 DEF CallbackInCopy, StoreCb, MemType
  <2>3. /\ mem'.in[k % 2].cb = k
        /\ \A b \in 0 .. 1 : /\ mem'.in[b].bl = mem.in[b].bl
                             /\ b # k % 2 => mem'.in[b].cb = mem.in[b].cb
    BY <1>1, <2>1, <2>2 DEF MemType
  <2>4. InputData'
    <3> SUFFICES ASSUME NEW j \in Nat
                 PROVE  /\ LastTwo(j, inp.index) => mem'.in[j % 2].bl = j
                        /\ LastTwo(j, k + 1) => mem'.in[j % 2].cb = j
      BY <1>2, <2>1 DEF InputData
    <3> HIDE DEF k
    <3>1. j % 2 \in 0 .. 1
      OBVIOUS
    <3>2. ASSUME LastTwo(j, inp.index) PROVE mem'.in[j % 2].bl = j
      BY <1>4, <2>3, <3>1, <3>2 DEF InputData
    <3>3. ASSUME LastTwo(j, k + 1) PROVE mem'.in[j % 2].cb = j
      <4>1. CASE j = k
        BY <2>3, <4>1
      <4>2. CASE j # k
        <5>1. LastTwo(j, Stored) /\ j % 2 # k % 2
          BY <2>1, <3>3, <4>2 DEF LastTwo
        <5> QED
          BY <1>4, <2>3, <3>1, <5>1 DEF InputData
      <4> QED
        BY <4>1, <4>2
    <3> QED
      BY <3>2, <3>3
  <2> QED
    BY <1>2, <1>4, <2>2, <2>4, FilterDataKept
<1> QED
  BY <1>2, <1>5, <1>6

\* What the callback thread is about to copy to a buffer of the sound server.
LEMMA CopyContents ==
    ASSUME SyncInv, CountInv, DataInv, cb.pc = "out_copy", cb.fill = 0
    PROVE  Contents(cb.out_cur) = {cb.out_index - 1}
<1>1. TypeOK /\ CallbackOut /\ FilterPlaces
  BY DEF SyncInv, CountInv, CallbackPlaces, OutSteps
<1>2. OutputData /\ Proc # {} /\ cb.out_index \in Nat
  BY <1>1, StateTypes DEF DataInv, Paced, Proc
<1>3. cb.out_index > 0 /\ cb.out_cur = (cb.out_index - 1) % 2
  BY <1>1, <1>2, CallbackWindow
<1>4. \A p \in Proc : LastTwo(cb.out_index - 1, OutDone(flt[p]))
  BY <1>1, CallbackWindow
<1>5. \A p \in Proc : mem.out[cb.out_cur][p] = {cb.out_index - 1}
  BY <1>2, <1>3, <1>4 DEF OutputData
<1> QED
  BY <1>2, <1>5 DEF Contents

LEMMA CallbackLogOrder ==
    ASSUME SyncInv, CountInv, OrderInv, UNCHANGED conf, Callback
    PROVE  CallbackLog'
<1>1. TypeOK /\ LogType /\ MemType /\ CallbackType /\ CallbackPlaces /\ DataInv /\ CallbackLog
  BY DEF SyncInv, TypeOK, CountInv, OrderInv
<1>2. \/ CallbackOutCopy
      \/ /\ log' = log /\ cb'.fill = cb.fill
         /\ \/ Begun' = Begun /\ cb'.out_left = cb.out_left
            \/ /\ CallbackOutLock /\ NeedsBlock
               /\ Begun' = Begun + 1 /\ cb'.out_left = Ratio
  BY <1>1, CallbackLeaves
<1>3. UNCHANGED <<CallbackOut, CallbackDelay, Ratio>>
  BY ConfKept
<1>4. Begun \in Nat /\ Ratio \in Nat \ {0} /\ cb.fill \in Nat /\ cb.out_left \in Int /\ CallbackDelay \in Nat
  BY <1>1, StateTypes, CountedTypes DEF CallbackDelay
<1> DEFINE rb == Ratio * Begun
<1>5. rb \in Nat
  BY <1>4
<1>6. CASE /\ log' = log /\ cb'.fill = cb.fill
           /\ Begun' = Begun /\ cb'.out_left = cb.out_left
  BY <1>1, <1>6, CallbackLogKept
<1>7. CASE /\ log' = log /\ cb'.fill = cb.fill
           /\ CallbackOutLock /\ NeedsBlock /\ Begun' = Begun + 1 /\ cb'.out_left = Ratio
  <2>1. cb.out_left = 0
    BY <1>7 DEF NeedsBlock
  <2>2. Ratio * (Begun + 1) = rb + Ratio
    BY <1>4
  <2>3. CallbackDelay - cb.fill + Ratio * (Begun + 1) - Ratio = CallbackDelay - cb.fill + rb - cb.out_left
    <3> HIDE DEF rb
    <3> QED
      BY <1>4, <1>5, <2>1, <2>2
  <2>4. CallbackOrder'
    BY <1>1, <1>3, <1>7 DEF CallbackLog, CallbackOrder
  <2> QED
    BY <1>1, <1>3, <1>7, <2>3, <2>4 DEF CallbackLog
<1>8. CASE CallbackOutCopy
  <2>1. cb.pc = "out_copy" /\ CallbackOut
    BY <1>1, <1>8 DEF CallbackOutCopy, CallbackPlaces, OutSteps
  <2> DEFINE d == IF cb.fill # 0 THEN {} ELSE Contents(cb.out_cur)
             n == Len(log.cb)
  <2>2. d \in SUBSET Data
    BY <1>1, ContentsType DEF CallbackType
  <2>3. log' = [log EXCEPT !.cb = Append(@, d)]
    BY <1>8 DEF CallbackOutCopy
  <2>4. /\ n \in Nat /\ Len(log'.cb) = n + 1 /\ log'.cb[n + 1] = d
        /\ \A j \in 1 .. n : log'.cb[j] = log.cb[j]
    <3> HIDE DEF d
    <3> QED
      BY <1>1, <2>2, <2>3, CallbackAppends
  <2>5. /\ n = CallbackDelay - cb.fill + rb - cb.out_left
        /\ \A k \in 1 .. n : log.cb[k] = IF k <= CallbackDelay THEN {} ELSE {(k - 1 - CallbackDelay) \div Ratio}
    BY <1>1, <2>1 DEF CallbackLog, CallbackOrder
  <2>6. /\ Begun' = Begun
        /\ cb'.fill = IF cb.fill # 0 THEN cb.fill - 1 ELSE cb.fill
        /\ cb'.out_left = IF cb.fill # 0 THEN cb.out_left ELSE cb.out_left - 1
    BY <1>1, <1>8 DEF CallbackOutCopy, CallbackType, Begun, One, PcOnReturn
  <2>7. n + 1 = CallbackDelay - cb'.fill + rb - cb'.out_left
    <3> HIDE DEF n, rb
    <3> QED
      BY <1>4, <1>5, <2>5, <2>6
  <2>8. d = IF n + 1 <= CallbackDelay THEN {} ELSE {((n + 1) - 1 - CallbackDelay) \div Ratio}
    <3>1. CASE cb.fill # 0
      <4>1. Begun = 0 /\ cb.out_left = 0
        BY <1>1, <1>4, <3>1 DEF CallbackPlaces
      <4>2. rb = 0
        BY <1>4, <4>1
      <4>3. n + 1 <= CallbackDelay
        <5> HIDE DEF rb, n
        <5> QED
          BY <1>4, <2>4, <2>5, <3>1, <4>1, <4>2
      <4> QED
        BY <3>1, <4>3
    <3>2. CASE cb.fill = 0
      <4> DEFINE q == cb.out_index - 1
                 r == Ratio - cb.out_left
      <4>1. q \in Nat /\ Begun = q + 1 /\ cb.out_left \in 1 .. Ratio /\ r \in 0 .. Ratio - 1
        <5>1. Proc # {}
          BY StateTypes, <1>1 DEF Proc
        <5>2. cb.out_index \in Nat
          BY <1>1 DEF CallbackType
        <5>3. cb.out_index > 0 /\ Begun = cb.out_index /\ cb.out_left \in 1 .. Ratio
          BY <1>1, <2>1, <3>2, <5>1, CallbackWindow DEF SyncInv
        <5> QED
          BY <1>4, <5>2, <5>3
      <4>2. d = {q}
        BY <1>1, <2>1, <3>2, CopyContents
      <4> DEFINE rq == Ratio * q
      <4>3. rb = rq + Ratio /\ rq \in Nat
        BY <1>4, <4>1
      <4>4. (rq + r) \div Ratio = q
        BY <1>4, <4>1, BlockOfCallback
      <4>5. ~(n + 1 <= CallbackDelay) /\ (n + 1) - 1 - CallbackDelay = rq + r
        <5>1. n = CallbackDelay - 0 + (rq + Ratio) - cb.out_left
          BY <2>5, <3>2, <4>3
        <5>2. cb.out_left \in 1 .. Ratio
          BY <4>1
        <5> HIDE DEF rb, n, rq, q
        <5> QED
          BY <1>4, <4>3, <5>1, <5>2
      <4> QED
        BY <4>2, <4>4, <4>5
    <3> QED
      BY <3>1, <3>2
  <2>9. CallbackOrder'
    <3> HIDE DEF d, n, rb
    <3> SUFFICES ASSUME NEW k \in 1 .. n + 1
                 PROVE  log'.cb[k] = IF k <= CallbackDelay THEN {} ELSE {(k - 1 - CallbackDelay) \div Ratio}
      BY <1>3, <2>4 DEF CallbackOrder
    <3>1. CASE k = n + 1
      BY <2>4, <2>8, <3>1
    <3>2. CASE k # n + 1
      <4>1. k \in 1 .. n
        BY <2>4, <3>2
      <4> QED
        BY <2>4, <2>5, <4>1
    <3> QED
      BY <3>1, <3>2
  <2> QED
    BY <1>3, <2>1, <2>4, <2>6, <2>7, <2>9 DEF CallbackLog
<1> QED
  BY <1>2, <1>6, <1>7, <1>8

LEMMA CallbackThreadOrder ==
    ASSUME SyncInv, CountInv, OrderInv, UNCHANGED conf, Callback
    PROVE  OrderInv'
<1>1. TypeOK /\ DataInv /\ BlockingLog
  BY DEF SyncInv, OrderInv
<1>2. log'.bl = log.bl /\ UNCHANGED <<conf, out>>
  BY <1>1, CallbackLeaves
<1> QED
  BY <1>1, <1>2, CallbackDataOrder, CallbackLogOrder, BlockingLogKept DEF OrderInv

-----------------------------------------------------------------------------

LEMMA InitOrder == Init => OrderInv
<1> SUFFICES ASSUME Init PROVE OrderInv
  OBVIOUS
<1>1. /\ inp.index = 0 /\ Stored = 0 /\ Begun = 0 /\ cb.out_left = 0 /\ cb.fill = iodelay_fill
      /\ log.bl = <<>> /\ log.cb = <<>> /\ conf \in Configs /\ out.index = 0
      /\ out.pc \in {"start", "none"} /\ (out.pc = "none" <=> ~BlockingOut)
  BY DEF Init, Stored, Begun, One
<1>2. \A p \in Proc : flt[p].pc = "wait_init" /\ flt[p].block = 0
  BY DEF Init
<1>3. \A p \in Proc : InDone(flt[p]) = 0 /\ ConvDone(flt[p]) = 0 /\ OutDone(flt[p]) = 0
  BY <1>2 DEF InDone, ConvDone, OutDone, Past, One
<1>4. \A p \in Proc, b \in 0 .. 1 : mem.out[b][p] = {}
  BY DEF Init
<1>5. InputData
  BY <1>1 DEF InputData, LastTwo
<1>6. FreqData
  BY <1>3 DEF FreqData
<1>7. OutputData
  BY <1>3, <1>4 DEF OutputData, LastTwo
<1>8. BlockingLog
  <2>1. BlocksWritten = 0
    <3>1. CASE out.pc = "start"
      BY <3>1 DEF BlocksWritten, Unprimed
    <3>2. CASE out.pc = "none"
      <4>1. ~synched_write
        BY <1>1, <3>2, PipelineAssumption DEF BlockingOut, synched_write
      <4>2. FillBlocks = 0
        BY <4>1 DEF FillBlocks
      <4> QED
        BY <1>1, <3>2, <4>2 DEF BlocksWritten, Unprimed, One
    <3> QED
      BY <1>1, <3>1, <3>2
  <2>2. Len(log.bl) = 0
    BY <1>1, EmptySeq
  <2> QED
    BY <2>1, <2>2 DEF BlockingLog, FixedDelay
<1>9. CallbackLog
  <2>1. Len(log.cb) = 0
    BY <1>1, EmptySeq
  <2>2. iodelay_fill = CallbackDelay /\ CallbackDelay \in Int /\ Ratio * 0 = 0
    BY <1>1, FillValue, ConstantTypes DEF CallbackDelay
  <2> QED
    BY <1>1, <2>1, <2>2 DEF CallbackLog, CallbackOrder
<1> QED
  BY <1>5, <1>6, <1>7, <1>8, <1>9 DEF OrderInv, DataInv

LEMMA NextOrder == SyncInv /\ CountInv /\ OrderInv /\ [Next]_vars => OrderInv'
<1> SUFFICES ASSUME SyncInv, CountInv, OrderInv, [Next]_vars PROVE OrderInv'
  OBVIOUS
<1>1. CASE Running(Input)
  BY <1>1, InputOrder DEF Running
<1>2. CASE Running(Output)
  BY <1>2, OutputOrder DEF Running
<1>3. CASE Running(Callback)
  BY <1>3, CallbackThreadOrder DEF Running
<1>4. ASSUME NEW p \in Proc, Running(Filter(p)) PROVE OrderInv'
  BY <1>4, FilterOrder DEF Running
<1>5. CASE UNCHANGED vars
  <2>1. UNCHANGED <<conf, out>> /\ UNCHANGED conf /\ UNCHANGED <<conf, CallbackCounts>>
    BY <1>5 DEF vars, CallbackCounts
  <2>2. Stored' = Stored /\ Begun' = Begun /\ UNCHANGED <<inp, flt, mem, log, cb>>
    BY <1>5, <2>1, CallbackKept DEF vars
  <2>3. BlockingLog' /\ CallbackLog'
    BY <2>1, <2>2, BlockingLogKept, CallbackLogKept DEF OrderInv
  <2>4. DataInv'
    BY <2>1, <2>2, ConfKept, InputDataKept, FilterDataKept DEF OrderInv, DataInv
  <2> QED
    BY <2>3, <2>4 DEF OrderInv
<1> QED
  BY <1>1, <1>2, <1>3, <1>4, <1>5 DEF Next, Done

\* The output process and the callback thread read, and the filter processes convert, the
\* blocks their numbers say, for every value of the constants.
THEOREM Ordered == Spec => [](SyncInv /\ CountInv /\ OrderInv)
<1>1. Init => SyncInv /\ CountInv /\ OrderInv
  BY InitSync, InitCount, InitOrder
<1>2. SyncInv /\ CountInv /\ OrderInv /\ [Next]_vars => (SyncInv /\ CountInv /\ OrderInv)'
  BY NextSync, NextCount, NextOrder
<1> QED
  BY <1>1, <1>2, PTL DEF Spec

\* The blocking output is given two periods of silence if it is clocked and then the
\* blocks of the input in order, each of them once and unmixed, whatever the speeds of
\* the threads, unless a callback input runs ahead of it unpaced.
THEOREM BlockingInOrder == Spec => []BlockingOrder
<1>1. OrderInv => BlockingOrder
  BY DEF OrderInv, BlockingLog, BlockingOrder
<1> QED
  BY <1>1, Ordered, PTL

\* The k-th callback is given the samples of the callback 2 * Ratio - 2 before it, for
\* every number of callbacks per block.
THEOREM CallbackInOrder == Spec => []CallbackOrder
<1>1. OrderInv => CallbackOrder
  BY DEF OrderInv, CallbackLog
<1> QED
  BY <1>1, Ordered, PTL

-----------------------------------------------------------------------------
(* The block stream *)

\* Blocks the blocking output has got.
PlayedBl == Max2(0, Len(log.bl) - FillBlocks)

StreamInv == Played <= Taken /\ Taken <= Played + Inside

LEMMA PlayedTypes ==
    ASSUME TypeOK, OutputPlaces, BlockingLog
    PROVE  /\ PlayedBl \in Nat
           /\ PlayedBl = out.index + One(out.pc \in {"finish", "pause"})
<1>1. out.index \in Nat /\ Len(log.bl) = BlocksWritten
  BY StateTypes DEF BlockingLog
<1>2. CASE out.pc \in Unprimed \cup {"fill1", "fill1_busy", "fill1_rest", "prime2", "fill2", "fill2_busy"}
  <2>1. out.index = 0 /\ One(out.pc \in {"finish", "pause"}) = 0
    BY <1>2 DEF OutputPlaces, One, Unprimed
  <2>2. BlocksWritten <= FillBlocks /\ BlocksWritten \in Nat /\ FillBlocks \in Nat
    BY <1>2 DEF BlocksWritten, FillBlocks, One, Unprimed
  <2> QED
    BY <1>1, <2>1, <2>2 DEF PlayedBl, Max2
<1>3. CASE out.pc \notin Unprimed \cup {"fill1", "fill1_busy", "fill1_rest", "prime2", "fill2", "fill2_busy"}
  <2>1. BlocksWritten = FillBlocks + out.index + One(out.pc \in {"finish", "pause"})
    BY <1>3 DEF BlocksWritten
  <2>2. FillBlocks \in Nat /\ One(out.pc \in {"finish", "pause"}) \in Nat
    BY DEF FillBlocks, One
  <2> QED
    BY <1>1, <2>1, <2>2 DEF PlayedBl, Max2
<1> QED
  BY <1>2, <1>3

\* No output gets a block that an input has not delivered.
LEMMA PlayedDelivered ==
    ASSUME TypeOK, CountInv, BlockingLog
    PROVE  /\ BlockingOut /\ BlockingIn => PlayedBl <= inp.index
           /\ BlockingOut /\ CallbackIn => PlayedBl <= cb.in_index
           /\ CallbackOut /\ BlockingIn => cb.out_index <= inp.index
           /\ CallbackOut /\ CallbackIn => cb.out_index <= cb.in_index
<1>1. PICK p \in Proc : TRUE
  BY StateTypes DEF Proc
<1> DEFINE n == OutDone(flt[p])
<1>2. /\ n \in Nat
      /\ BlockingIn /\ n > 0 => n + 1 <= InputPosts
      /\ CallbackIn => n <= cb.in_index
      /\ BlockingOut => OutputRounds <= n + 1
      /\ CallbackOut => CallbackRounds <= n
  BY DoneTaken, OfProcess, StateTypes, PostTypes DEF CountInv, TakenBlBy, TakenCbBy, PostedBlBy, One
<1> HIDE DEF n
<1>3. InputPosts <= 1 + inp.index /\ InputPosts \in Nat /\ inp.index \in Nat /\ cb.in_index \in Nat
  BY StateTypes, PostTypes DEF InputPosts, One, CountInv
<1>4. PlayedBl + 1 <= OutputRounds \/ PlayedBl = 0
  <2>1. PlayedBl = out.index + One(out.pc \in {"finish", "pause"}) /\ out.index \in Nat
    BY StateTypes, PlayedTypes DEF CountInv
  <2>2. CASE out.pc \in {"start", "wait_init"}
    BY <2>1, <2>2 DEF CountInv, OutputPlaces, Unprimed, One
  <2>3. CASE out.pc \notin {"start", "wait_init"}
    BY <2>1, <2>3 DEF OutputRounds, One
  <2> QED
    BY <2>2, <2>3
<1>5. cb.out_index <= CallbackRounds /\ cb.out_index \in Nat /\ CallbackRounds \in Nat
      /\ OutputRounds \in Nat /\ PlayedBl \in Nat
  BY StateTypes, PostTypes, PlayedTypes DEF CallbackRounds, One, CountInv
<1>6. BlockingIn => n <= inp.index
  BY <1>2, <1>3
<1> QED
  BY <1>2, <1>3, <1>4, <1>5, <1>6

\* No input is further ahead of an output than the buffers allow.
LEMMA DeliveredBound ==
    ASSUME TypeOK, CountInv, BlockingLog
    PROVE  /\ BlockingIn /\ BlockingOut => inp.index <= PlayedBl + 3
           /\ BlockingIn /\ CallbackOut => inp.index <= cb.out_index + 2
           /\ CallbackIn /\ BlockingOut => cb.in_index <= PlayedBl + 3
           /\ CallbackIn /\ CallbackOut => cb.in_index <= cb.out_index + 2
<1>1. /\ inp.index \in Nat /\ cb.in_index \in Nat /\ cb.out_index \in Nat /\ PlayedBl \in Nat
      /\ GrantsBl \in Int /\ GrantsCb \in Int /\ InputTakes \in Int /\ ExtraTakes \in Int
      /\ Returns \in Int /\ out.index \in Nat
  BY StateTypes, CountedTypes, PlayedTypes DEF CountInv
<1>2. BlockingOut => GrantsBl <= PlayedBl + 3 /\ GrantsCb <= PlayedBl + 3
  BY <1>1, PlayedTypes DEF GrantsBl, GrantsCb, Written, Unprimed, One, CountInv
<1>3. Returns <= cb.out_index + 1
  BY <1>1 DEF Returns, One
<1>4. /\ BlockingOut => inp.index <= InputTakes
      /\ inp.index <= InputTakes + 1
      /\ inp.index <= ExtraTakes + 1
  BY <1>1 DEF InputTakes, ExtraTakes, One, CountInv, InputPlaces
<1>5. /\ BlockingIn /\ BlockingOut => InputTakes <= GrantsBl
      /\ BlockingIn /\ CallbackOut => (IF BlockingOut THEN ExtraTakes ELSE InputTakes) <= Returns
      /\ CallbackIn /\ BlockingOut => cb.in_index <= GrantsCb
  BY <1>1, StateTypes DEF CountInv, ThreadTokens, Sems, One
<1>6. CallbackIn /\ CallbackOut => cb.in_index <= cb.out_index + 2
  <2>1. Begun <= cb.out_index + 1 /\ Begun \in Nat /\ Stored \in Nat
    BY <1>1, CountedTypes DEF Begun, One
  <2> QED
    BY <1>1, <2>1, InputAhead
<1> QED
  BY <1>1, <1>2, <1>3, <1>4, <1>5, <1>6

LEMMA StreamBounds == SyncInv /\ CountInv /\ OrderInv => StreamInv
<1> SUFFICES ASSUME SyncInv, CountInv, OrderInv PROVE StreamInv
  OBVIOUS
<1>1. TypeOK /\ BlockingLog
  BY DEF SyncInv, OrderInv
<1>2. /\ inp.index \in Nat /\ cb.in_index \in Nat /\ cb.out_index \in Nat /\ PlayedBl \in Nat
      /\ BlockingIn \/ CallbackIn
      /\ BlockingOut \/ CallbackOut
  BY <1>1, StateTypes, PlayedTypes DEF CountInv
<1>3. /\ Taken = CASE ~CallbackIn -> inp.index
                   [] ~BlockingIn -> cb.in_index
                   [] OTHER       -> Min2(inp.index, cb.in_index)
      /\ Played = CASE ~CallbackOut -> PlayedBl
                    [] ~BlockingOut -> cb.out_index
                    [] OTHER        -> Min2(PlayedBl, cb.out_index)
  BY DEF Taken, Played, PlayedBl
<1> QED
  BY <1>1, <1>2, <1>3, PlayedDelivered, DeliveredBound DEF StreamInv, Inside, Min2

\* A step delivers one block, or plays one block, or neither.
LEMMA StreamSteps ==
    ASSUME SyncInv, CountInv, OrderInv, SyncInv', CountInv', OrderInv', [Next]_vars
    PROVE  /\ UNCHANGED Inside
           /\ \/ UNCHANGED <<Taken, Played>>
              \/ Taken' = Taken + 1 /\ Played' = Played
              \/ Played' = Played + 1 /\ Taken' = Taken
<1>1. /\ TypeOK /\ BlockingLog /\ OutputPlaces /\ CallbackType /\ InputType /\ LogType
      /\ MemType /\ OutputType
  BY DEF SyncInv, OrderInv, CountInv, TypeOK
<1>2. conf' = conf
  BY DEF Next, Running, Done, vars
<1>3. UNCHANGED <<BlockingIn, BlockingOut, CallbackIn, CallbackOut, FillBlocks>> /\ Inside' = Inside
  BY <1>2, ConfKept DEF Inside
<1>4. /\ inp.index \in Nat /\ cb.in_index \in Nat /\ cb.out_index \in Nat /\ PlayedBl \in Nat
  BY <1>1, StateTypes, PlayedTypes
<1> DEFINE a == inp.index
           b == cb.in_index
           c == PlayedBl
           d == cb.out_index
<1>5. \/ a' = a + 1 /\ UNCHANGED <<b, c, d>>
      \/ b' = b + 1 /\ UNCHANGED <<a, c, d>>
      \/ c' = c + 1 /\ UNCHANGED <<a, b, d>>
      \/ d' = d + 1 /\ UNCHANGED <<a, b, c>>
      \/ UNCHANGED <<a, b, c, d>>
  <2>1. log'.bl = log.bl => c' = c
    BY <1>3 DEF PlayedBl, Max2
  <2>2. CASE Running(Input)
    <3>1. Input
      BY <2>2 DEF Running
    <3>2. /\ UNCHANGED <<out, flt, log, CallbackCounts>>
          /\ a' = a \/ a' = a + 1
      BY <1>1, <3>1, InputLeaves DEF InputType
    <3> QED
      BY <2>1, <3>2 DEF CallbackCounts
  <2>3. CASE Running(Output)
    <3>1. Output
      BY <2>3 DEF Running
    <3>2. UNCHANGED <<inp, flt, mem, CallbackCounts>> /\ (OutputFillEnd \/ OutputEnd \/ log' = log)
      BY <1>1, <3>1, OutputLeaves
    <3>3. c' = c \/ c' = c + 1
      <4>1. CASE OutputFillEnd \/ OutputEnd
        <5>1. Write
          BY <4>1 DEF OutputFillEnd, OutputEnd
        <5>2. Len(log'.bl) = Len(log.bl) + 1 /\ Len(log.bl) \in Nat
          BY <1>1, <5>1, WriteAppends
        <5>3. FillBlocks \in Nat
          BY DEF FillBlocks
        <5> QED
          BY <1>3, <5>2, <5>3 DEF PlayedBl, Max2
      <4>2. CASE log' = log
        BY <2>1, <4>2
      <4> QED
        BY <3>2, <4>1, <4>2
    <3> QED
      BY <3>2, <3>3 DEF CallbackCounts
  <2>4. CASE Running(Callback)
    <3>1. Callback
      BY <2>4 DEF Running
    <3>2. UNCHANGED <<inp, out, flt>> /\ log'.bl = log.bl
      BY <1>1, <3>1, CallbackLeaves
    <3>3. \/ UNCHANGED <<b, d>>
          \/ b' = b + 1 /\ d' = d
          \/ d' = d + 1 /\ b' = b
      <4>1. CASE CallbackInPost
        BY <1>1, <4>1 DEF CallbackInPost, CallbackType
      <4>2. CASE CallbackOutPost
        BY <1>1, <4>2 DEF CallbackOutPost, CallbackType
      <4>3. CASE CallbackCall \/ CallbackInCopy \/ CallbackInit \/ CallbackInWait \/ CallbackOutLock
        BY <1>1, <4>3 DEF CallbackCall, CallbackInCopy, CallbackInit, CallbackInWait, CallbackOutLock,
                          CallbackType
      <4>4. CASE CallbackOutWait \/ CallbackOutCopy \/ CallbackFinished
        BY <1>1, <4>4 DEF CallbackOutWait, CallbackOutCopy, CallbackFinished, CallbackType
      <4> QED
        BY <3>1, <4>1, <4>2, <4>3, <4>4 DEF Callback
    <3> QED
      BY <2>1, <3>2, <3>3
  <2>5. ASSUME NEW p \in Proc, Running(Filter(p)) PROVE UNCHANGED <<a, b, c, d>>
    <3>1. Filter(p) /\ StartInv /\ FilterPlaces
      BY <2>5 DEF Running, SyncInv, CountInv
    <3>2. UNCHANGED <<inp, out, cb, log>>
      BY <1>1, <1>2, <3>1, FilterMoves
    <3> QED
      BY <2>1, <3>2
  <2>6. CASE UNCHANGED vars
    BY <2>1, <2>6 DEF vars
  <2> HIDE DEF a, b, c, d
  <2> QED
    BY <2>2, <2>3, <2>4, <2>5, <2>6 DEF Next, Done
<1>6. /\ Taken = CASE ~CallbackIn -> a
                   [] ~BlockingIn -> b
                   [] OTHER       -> Min2(a, b)
      /\ Played = CASE ~CallbackOut -> c
                    [] ~BlockingOut -> d
                    [] OTHER        -> Min2(c, d)
  BY DEF Taken, Played, PlayedBl
<1>7. /\ Taken' = CASE ~CallbackIn -> a'
                    [] ~BlockingIn -> b'
                    [] OTHER       -> Min2(a', b')
      /\ Played' = CASE ~CallbackOut -> c'
                     [] ~BlockingOut -> d'
                     [] OTHER        -> Min2(c', d')
  BY <1>3 DEF Taken, Played, PlayedBl, Min2
<1> HIDE DEF a, b, c, d
<1>8. /\ \/ Taken' = Taken
         \/ Taken' = Taken + 1 /\ UNCHANGED <<c, d>>
      /\ \/ Played' = Played
         \/ Played' = Played + 1 /\ UNCHANGED <<a, b>>
  BY <1>4, <1>5, <1>6, <1>7 DEF a, b, c, d, Min2
<1>9. /\ UNCHANGED <<c, d>> => Played' = Played
      /\ UNCHANGED <<a, b>> => Taken' = Taken
  BY <1>6, <1>7
<1> QED
  BY <1>3, <1>8, <1>9

LEMMA InitStream == Init => Stream!Init
<1> SUFFICES ASSUME Init PROVE Stream!Init
  OBVIOUS
<1>1. inp.index = 0 /\ cb.in_index = 0 /\ cb.out_index = 0 /\ log.bl = <<>>
  BY DEF Init
<1>2. PlayedBl = 0
  BY <1>1, EmptySeq DEF PlayedBl, Max2, FillBlocks
<1>3. Taken = 0 /\ Played = 0
  BY <1>1, <1>2 DEF Taken, Played, PlayedBl, Min2
<1> QED
  BY <1>3 DEF Stream!Init, Inside

\* The pipeline implements BlockStream: whatever the devices and the speeds of the
\* threads, blocks are played one by one, after they have been delivered, and no more
\* than Inside of them are inside.
THEOREM Streams == Spec => StreamSpec
<1>1. Init => Stream!Init
  BY InitStream
<1>2. /\ SyncInv /\ CountInv /\ OrderInv /\ (SyncInv /\ CountInv /\ OrderInv)'
      /\ [Next]_vars
      => [Stream!Next]_(Stream!vars)
  <2> SUFFICES ASSUME SyncInv, CountInv, OrderInv, SyncInv', CountInv', OrderInv', [Next]_vars
               PROVE  [Stream!Next]_(Stream!vars)
    OBVIOUS
  <2>1. StreamInv /\ StreamInv'
    <3>1. SyncInv /\ CountInv /\ OrderInv => StreamInv
      BY StreamBounds
    <3>2. (SyncInv /\ CountInv /\ OrderInv => StreamInv)'
      BY StreamBounds, PTL
    <3> QED
      BY <3>1, <3>2
  <2>2. /\ UNCHANGED Inside
        /\ \/ UNCHANGED <<Taken, Played>>
           \/ Taken' = Taken + 1 /\ Played' = Played
           \/ Played' = Played + 1 /\ Taken' = Taken
    BY StreamSteps
  <2>3. Taken \in Int /\ Played \in Int /\ Inside \in Int
    <3>1. TypeOK /\ BlockingLog /\ OutputPlaces
      BY DEF SyncInv, OrderInv, CountInv
    <3>2. inp.index \in Nat /\ cb.in_index \in Nat /\ cb.out_index \in Nat /\ PlayedBl \in Nat
      BY <3>1, StateTypes, PlayedTypes
    <3> QED
      BY <3>2 DEF Taken, Played, PlayedBl, Min2, Inside
  <2>4. CASE UNCHANGED <<Taken, Played>>
    BY <2>2, <2>4 DEF Stream!vars
  <2>5. CASE Taken' = Taken + 1 /\ Played' = Played
    <3>1. Taken < Played + Inside
      BY <2>1, <2>2, <2>3, <2>5 DEF StreamInv
    <3> QED
      BY <2>2, <2>5, <3>1 DEF Stream!Next, Stream!Accept
  <2>6. CASE Played' = Played + 1 /\ Taken' = Taken
    <3>1. Played < Taken
      BY <2>1, <2>3, <2>6 DEF StreamInv
    <3> QED
      BY <2>2, <2>6, <3>1 DEF Stream!Next, Stream!Play
  <2> QED
    BY <2>2, <2>4, <2>5, <2>6
<1> QED
  BY <1>1, <1>2, Ordered, PTL DEF Spec, StreamSpec, Stream!Spec

-----------------------------------------------------------------------------
(* The end of the input *)

\* The end is compared with a lastbuf_index that is still 0 while the input process
\* stores the one after the other.  A blocking output is past block 0 by then if the
\* end is far enough, and at it if it is the last one; a clocked one may be playing
\* its silence.
OutputClear(c) == c.EofBlock >= 3 \/ (c.EofBlock = 0 /\ ~c.synched_write)

\* So is a callback output.  With more than one callback per block a callback input
\* is ahead of it, and both are compared.
CallbackClear(c) ==
    /\ c.EofBlock >= 3 \/ c.EofBlock = 0
    /\ c.BlockingIn /\ c.CallbackIn => c.Ratio = 1

\* The input process has stored the end, frames_left first, in block EofBlock.
EofPlaces ==
    IF eof.frames_left = -1
    THEN eof.lastbuf_index = 0 /\ inp.index <= conf.EofBlock /\ inp.pc # "eof"
    ELSE /\ eof.frames_left = conf.EofFrames /\ inp.pc # "reading"
         /\ IF inp.pc = "eof"
            THEN inp.index = conf.EofBlock /\ eof.lastbuf_index = 0
            ELSE inp.index = conf.EofBlock + 1 /\ eof.lastbuf_index = conf.EofBlock

\* The blocking output takes the block EofBlock, and no other, for the last one.
OutputEnding ==
    /\ BlockingIn => out.index <= conf.EofBlock
    /\ out.islast => /\ out.index = conf.EofBlock /\ out.frames = conf.EofFrames
                     /\ out.pc \in {"write_busy", "finish", "pause"}
    /\ ~out.islast => /\ out.frames = Period /\ out.pc \notin {"finish", "pause"}
                      /\ BlockingIn /\ out.pc = "write_busy" => out.index # conf.EofBlock
    /\ out.finished <=> out.pc \in {"finish", "pause"}
    /\ \A k \in 1 .. Len(log.bl) :
           log.bl[k].frames = IF out.finished /\ k = Len(log.bl) THEN conf.EofFrames ELSE Period

\* So does the callback output, at its first callback of that block; it returns the
\* frames that are left at the last one that has any.
CallbackEnding ==
    /\ CallbackIn \/ cb.in_index = 0
    /\ cb.frames = -1 /\ BlockingIn =>
          \/ cb.out_index <= conf.EofBlock
          \/ cb.out_index = conf.EofBlock + 1 /\ cb.pc = "out_copy" /\ cb.out_left = Ratio
    /\ cb.frames = -1 => cb.ret = 0
    /\ cb.frames # -1 =>
          /\ CallbackOut
          /\ cb.out_index = conf.EofBlock + 1 /\ cb.out_left < Ratio
          /\ cb.pc \notin {"out_init", "out_wait", "out_post"}
          /\ cb.ret = 0 =>
                /\ cb.frames > 0
                /\ conf.EofFrames = (Ratio - cb.out_left) * BlockFrames + cb.frames
          /\ cb.ret # 0 =>
                /\ cb.pc \in {"idle", "stopped", "finished_event"}
                /\ \/ /\ cb.frames \in 1 .. BlockFrames
                      /\ conf.EofFrames = (Ratio - cb.out_left - 1) * BlockFrames + cb.frames
                   \/ conf.EofFrames = 0 /\ cb.out_left = Ratio - 1
    /\ cb.pc = "finished_event" \/ cb.finished => cb.ret # 0

EndInv ==
    /\ EofPlaces
    /\ OutputClear(conf) => OutputEnding
    /\ CallbackClear(conf) => CallbackEnding

-----------------------------------------------------------------------------
(* Who is where when the end is stored *)

LEMMA EofStep ==
    ASSUME TypeOK, EofPlaces, UNCHANGED conf, Input
    PROVE  EofPlaces'
<1>1. InputType /\ EofType /\ conf.EofBlock \in Nat /\ conf.EofFrames \in Nat
  BY ConstantTypes DEF TypeOK
<1> USE <1>1 DEF InputType, EofType, EofPlaces
<1>2. CASE MainPostInit \/ InputSynchPost
  BY <1>2 DEF MainPostInit, InputSynchPost
<1>3. CASE MainWaitInit \/ InputSynchWait
  BY <1>3 DEF MainWaitInit, InputSynchWait
<1>4. CASE InputBegin
  <2>1. CASE NoMoreInput
    BY <1>4, <2>1 DEF InputBegin
  <2>2. CASE ~NoMoreInput
    <3>1. eof.frames_left = -1
      BY <1>4, <2>2 DEF InputBegin, NoMoreInput
    <3> QED
      BY <1>4, <2>2, <3>1 DEF InputBegin
  <2> QED
    BY <2>1, <2>2
<1>5. CASE InputEnd
  BY <1>5 DEF InputEnd
<1>6. CASE InputEofFrames
  BY <1>6 DEF InputEofFrames
<1>7. CASE InputEofIndex
  BY <1>7 DEF InputEofIndex
<1>8. CASE InputTakeOutput
  BY <1>8 DEF InputTakeOutput
<1>9. CASE InputTakeExtra \/ InputPostFilter
  BY <1>9 DEF InputTakeExtra, InputPostFilter
<1> QED
  BY <1>2, <1>3, <1>4, <1>5, <1>6, <1>7, <1>8, <1>9 DEF Input

LEMMA EndAhead ==
    ASSUME SyncInv, CountInv, OrderInv, EofPlaces
    PROVE  /\ eof.frames_left # -1 => BlockingIn
           /\ BlockingIn /\ out.pc = "write" => out.index < inp.index
           /\ BlockingIn /\ BlockingOut => inp.index <= GrantsBl
           /\ BlockingIn /\ BlockingOut /\ inp.pc = "eof" => inp.index < GrantsBl
           /\ BlockingIn /\ CallbackOut => cb.out_index <= inp.index
           /\ BlockingIn /\ CallbackOut /\ inp.pc = "eof" => inp.index <= cb.out_index + 1
<1>1. TypeOK /\ BlockingLog /\ InputPlaces /\ OutputPlaces
  BY DEF SyncInv, OrderInv, CountInv
<1>2. /\ inp.index \in Nat /\ cb.in_index \in Nat /\ cb.out_index \in Nat /\ out.index \in Nat
      /\ GrantsBl \in Int /\ InputTakes \in Int /\ ExtraTakes \in Int /\ Returns \in Int
      /\ conf.EofBlock \in Nat
  BY <1>1, StateTypes, CountedTypes, ConstantTypes DEF TypeOK
<1>3. eof.frames_left # -1 => BlockingIn
  BY <1>1, <1>2 DEF EofPlaces, InputPlaces
<1>4. ASSUME BlockingIn, out.pc = "write" PROVE out.index < inp.index
  <2>1. PICK p \in Proc : TRUE
    BY <1>1, StateTypes DEF Proc
  <2> DEFINE n == OutDone(flt[p])
  <2>2. n \in Nat /\ (n > 0 => n + 1 <= InputPosts) /\ OutputRounds <= n + 1
    <3>1. BlockingOut
      BY <1>1, <1>4 DEF OutputPlaces
    <3> QED
      BY <1>1, <1>4, <3>1, DoneTaken, OfProcess, StateTypes, PostTypes DEF CountInv, TakenBlBy, PostedBlBy, One
  <2>3. OutputRounds = 2 + out.index
    BY <1>2, <1>4 DEF OutputRounds, One
  <2>4. InputPosts <= 1 + inp.index /\ InputPosts \in Nat
    BY <1>1, <1>2, PostTypes DEF InputPosts, One
  <2> HIDE DEF n
  <2> QED
    BY <1>2, <2>2, <2>3, <2>4
<1>5. /\ BlockingOut => inp.index <= InputTakes
      /\ BlockingOut /\ inp.pc = "eof" => inp.index + 1 <= InputTakes
      /\ inp.pc = "eof" => inp.index <= InputTakes /\ inp.index <= ExtraTakes
  BY <1>1, <1>2 DEF InputTakes, ExtraTakes, One, InputPlaces
<1>6. /\ BlockingIn /\ BlockingOut => InputTakes <= GrantsBl
      /\ BlockingIn /\ CallbackOut => (IF BlockingOut THEN ExtraTakes ELSE InputTakes) <= Returns
  BY <1>1, <1>2, StateTypes DEF CountInv, ThreadTokens, Sems, One
<1>7. Returns <= cb.out_index + 1
  BY <1>2 DEF Returns, One
<1>8. BlockingIn /\ CallbackOut => cb.out_index <= inp.index
  BY <1>1, PlayedDelivered
<1> QED
  BY <1>2, <1>3, <1>4, <1>5, <1>6, <1>7, <1>8

\* The output process takes the right block for the last.
LEMMA LastBlock ==
    ASSUME SyncInv, CountInv, OrderInv, EofPlaces, OutputClear(conf),
           BlockingIn => out.index <= conf.EofBlock,
           out.pc \in {"fill1", "fill2", "write"}
    PROVE  IsLast <=> BlockingIn /\ out.pc = "write" /\ out.index = conf.EofBlock
<1>1. OutputPlaces /\ TypeOK /\ EofType
  BY DEF SyncInv, CountInv, TypeOK
<1>2. out.index \in Nat /\ inp.index \in Nat /\ conf.EofBlock \in Nat /\ conf.EofFrames \in Nat /\ BlockingOut
  BY <1>1, StateTypes, ConstantTypes DEF TypeOK, OutputPlaces
<1>3. CASE ~BlockingIn
  BY <1>3, EndAhead DEF IsLast
<1>4. CASE BlockingIn /\ out.pc \in {"fill1", "fill2"}
  <2>1. out.index = 0 /\ conf.EofBlock >= 3
    BY <1>1, <1>4 DEF OutputPlaces, OutputClear, synched_write
  <2>2. GrantsBl <= 2
    BY <1>4, <2>1 DEF GrantsBl, Unprimed, Written, One
  <2>3. inp.index <= 2
    BY <1>2, <1>4, <2>2, EndAhead, CountedTypes, <1>1 DEF CountInv
  <2>4. eof.frames_left = -1
    BY <1>2, <2>1, <2>3 DEF EofPlaces
  <2> QED
    BY <1>4, <2>4 DEF IsLast
<1>5. CASE BlockingIn /\ out.pc = "write"
  <2>1. out.index < inp.index
    BY <1>5, EndAhead
  <2>2. inp.pc = "eof" => inp.index < 3 + out.index
    <3>1. GrantsBl = 3 + out.index
      BY <1>2, <1>5 DEF GrantsBl, Unprimed, Written, One
    <3> QED
      BY <1>2, <1>5, <3>1, EndAhead
  <2>3. CASE out.index = conf.EofBlock
    BY <1>2, <1>5, <2>1, <2>3 DEF EofPlaces, IsLast
  <2>4. CASE out.index < conf.EofBlock
    <3>1. conf.EofBlock >= 3
      BY <1>2, <2>4 DEF OutputClear
    <3> QED
      BY <1>2, <1>5, <2>2, <2>4, <3>1 DEF EofPlaces, IsLast
  <2> QED
    BY <1>2, <1>5, <2>3, <2>4
<1> QED
  BY <1>3, <1>4, <1>5

LEMMA OutputEndingKept ==
    ASSUME OutputEnding, UNCHANGED <<conf, out>>, log'.bl = log.bl
    PROVE  OutputEnding'
  BY DEF OutputEnding, BlockingIn, Period, Ratio, BlockFrames

LEMMA OutputEndingStep ==
    ASSUME SyncInv, CountInv, OrderInv, EofPlaces, OutputClear(conf), OutputEnding,
           UNCHANGED conf, Output
    PROVE  OutputEnding'
<1>1. OutputPlaces /\ TypeOK /\ OutputType /\ LogType /\ MemType /\ BlockingLog
  BY DEF SyncInv, CountInv, TypeOK, OrderInv
<1>2. /\ out.index \in Nat /\ conf.EofBlock \in Nat /\ conf.EofFrames \in Nat
      /\ UNCHANGED <<BlockingIn, Period, conf>>
  BY <1>1, StateTypes, ConstantTypes DEF TypeOK, BlockingIn, Period, Ratio, BlockFrames
<1>3. ASSUME NEW a, out' = [out EXCEPT !.pc = a], a \notin {"write_busy", "finish", "pause"},
             out.pc \notin {"write_busy", "finish", "pause"}, log' = log
      PROVE  OutputEnding'
  <2>1. /\ out'.pc = a /\ out'.index = out.index /\ out'.islast = out.islast
        /\ out'.frames = out.frames /\ out'.finished = out.finished
    BY <1>1, <1>3 DEF OutputType
  <2> QED
    BY <1>2, <1>3, <2>1 DEF OutputEnding
<1>4. CASE OutputStart \/ OutputWaitInit \/ OutputSynchWait
  BY <1>3, <1>4 DEF OutputStart, OutputWaitInit, OutputSynchWait
<1>5. CASE OutputPrime \/ OutputPrime2
  BY <1>3, <1>5 DEF OutputPrime, OutputPrime2
<1>6. CASE OutputSynchPost \/ OutputWaitFilter \/ OutputPostInput
  BY <1>3, <1>6 DEF OutputSynchPost, OutputWaitFilter, OutputPostInput
<1>7. CASE OutputBegin
  <2>1. out.pc \in {"fill1", "fill2", "write"} /\ ~out.islast /\ ~out.finished
    BY <1>7 DEF OutputBegin, OutputEnding
  <2>2. /\ out'.pc = Busy(out.pc) /\ out'.index = out.index /\ out'.finished = out.finished
        /\ out'.islast = IsLast
        /\ out'.frames = IF IsLast THEN eof.frames_left ELSE out.frames
        /\ log' = log
    BY <1>1, <1>7, <2>1 DEF OutputBegin, OutputType, IsLast
  <2>3. IsLast <=> BlockingIn /\ out.pc = "write" /\ out.index = conf.EofBlock
    BY <2>1, LastBlock DEF OutputEnding
  <2>4. IsLast => eof.frames_left = conf.EofFrames
    BY DEF IsLast, EofPlaces
  <2>5. Busy(out.pc) \in {"fill1_busy", "fill2_busy", "write_busy"}
        /\ (Busy(out.pc) = "write_busy" <=> out.pc = "write")
    BY <2>1 DEF Busy
  <2> QED
    BY <1>2, <2>1, <2>2, <2>3, <2>4, <2>5 DEF OutputEnding
<1>8. CASE OutputFillEnd \/ OutputEnd
  <2> DEFINE n == Len(log.bl)
             g == out.frames
  <2>1. /\ n \in Nat /\ Len(log'.bl) = n + 1
        /\ \A j \in 1 .. n : log'.bl[j] = log.bl[j]
        /\ log'.bl[n + 1].frames = g
    BY <1>1, <1>8, WriteAppends DEF OutputFillEnd, OutputEnd
  <2>2. ~out.finished /\ \A k \in 1 .. n : log.bl[k].frames = Period
    BY <1>8 DEF OutputFillEnd, OutputEnd, OutputEnding
  <2>3. CASE out.islast
    <3>1. /\ out' = [out EXCEPT !.pc = "finish", !.finished = TRUE]
          /\ out.pc = "write_busy"
      BY <1>8, <2>3 DEF OutputFillEnd, OutputEnd, OutputEnding
    <3>2. out'.pc = "finish" /\ out'.index = out.index /\ out'.islast /\ out'.frames = g /\ out'.finished
      BY <1>1, <2>3, <3>1 DEF OutputType
    <3>3. g = conf.EofFrames /\ out.index = conf.EofBlock
      BY <2>3 DEF OutputEnding
    <3>4. \A k \in 1 .. n + 1 : log'.bl[k].frames = IF k = n + 1 THEN conf.EofFrames ELSE Period
      <4> HIDE DEF n, g
      <4> QED
        BY <2>1, <2>2, <3>3
    <3> HIDE DEF n, g
    <3> QED
      BY <1>2, <2>1, <3>2, <3>3, <3>4 DEF OutputEnding
  <2>4. CASE ~out.islast
    <3>1. /\ out'.pc \in {"prime2", "loop"} /\ out'.islast = out.islast /\ out'.frames = g
          /\ out'.finished = out.finished
          /\ out'.index = IF out.pc = "write_busy" THEN out.index + 1 ELSE out.index
      BY <1>1, <1>8, <2>4 DEF OutputFillEnd, OutputEnd, OutputType
    <3>2. g = Period
      BY <2>4 DEF OutputEnding
    <3>3. \A k \in 1 .. n + 1 : log'.bl[k].frames = Period
      <4> HIDE DEF n, g
      <4> QED
        BY <2>1, <2>2, <3>2
    <3>4. BlockingIn => out'.index <= conf.EofBlock
      BY <1>2, <2>4, <3>1 DEF OutputEnding
    <3> HIDE DEF n, g
    <3> QED
      BY <1>2, <2>1, <2>2, <2>4, <3>1, <3>2, <3>3, <3>4 DEF OutputEnding
  <2> QED
    BY <2>3, <2>4
<1>9. CASE OutputFinish
  <2>1. /\ out'.pc \in {"finish", "pause"} /\ out.pc = "finish" /\ log' = log
        /\ out'.index = out.index /\ out'.islast = out.islast /\ out'.frames = out.frames
        /\ out'.finished = out.finished
    BY <1>1, <1>9 DEF OutputFinish, OutputType
  <2> QED
    BY <1>2, <2>1 DEF OutputEnding
<1> QED
  BY <1>4, <1>5, <1>6, <1>7, <1>8, <1>9 DEF Output

-----------------------------------------------------------------------------
(* The end of the callback output *)

\* At the test of process_callback() both indices are those of the output.
LEMMA AtTest ==
    ASSUME SyncInv, CountInv, CallbackClear(conf), CallbackIn \/ cb.in_index = 0,
           BlockingIn, cb.pc = "out_copy"
    PROVE  Max2(cb.in_index, cb.out_index) = cb.out_index
<1>1. TypeOK /\ CallbackPlaces /\ Lag
  BY DEF SyncInv, CountInv
<1>2. /\ cb.in_index \in Nat /\ cb.out_index \in Nat /\ cb.in_left \in Nat /\ cb.out_left \in Int
      /\ cb.fill \in Nat /\ Stored = cb.in_index /\ Begun = cb.out_index /\ CallbackOut
  BY <1>1, StateTypes DEF Stored, Begun, One, CallbackPlaces, OutSteps
<1>3. CASE ~CallbackIn
  BY <1>2, <1>3 DEF Max2
<1>4. CASE CallbackIn
  <2>1. Ratio = 1
    BY <1>4 DEF CallbackClear, BlockingIn, CallbackIn, Ratio
  <2>2. cb.in_left = 1 /\ cb.out_left \in 0 .. 1 /\ (cb.fill > 0 \/ cb.out_left > 0)
    BY <1>1, <1>2, <2>1 DEF CallbackPlaces
  <2>3. One(cb.pc \in InSteps \cup OutSteps) = 1
    BY DEF One, InSteps, OutSteps
  <2>4. \/ Stored = Begun + 1 /\ cb.in_left + 1 = 2 + cb.fill + cb.out_left
        \/ Stored = Begun
    BY <1>1, <1>2, <1>4, <2>3 DEF Lag
  <2> QED
    BY <1>2, <2>2, <2>4 DEF Max2
<1> QED
  BY <1>3, <1>4

\* The callback output takes the right block for the last.
LEMMA LastCallback ==
    ASSUME SyncInv, CountInv, OrderInv, EofPlaces, CallbackClear(conf), CallbackEnding,
           cb.pc = "out_copy", cb.frames = -1
    PROVE  LastFrames = IF BlockingIn /\ cb.out_index = conf.EofBlock + 1 THEN conf.EofFrames ELSE -1
<1>1. /\ cb.out_index \in Nat /\ inp.index \in Nat /\ conf.EofBlock \in Nat /\ CallbackOut
      /\ conf.EofFrames \in Nat
  BY StateTypes, ConstantTypes DEF SyncInv, TypeOK, CountInv, CallbackPlaces, OutSteps
<1>2. CASE ~BlockingIn
  BY <1>2, EndAhead DEF LastFrames
<1>3. CASE BlockingIn
  <2>1. Max2(cb.in_index, cb.out_index) = cb.out_index
    BY <1>3, AtTest DEF CallbackEnding
  <2>2. cb.out_index <= inp.index /\ (inp.pc = "eof" => inp.index <= cb.out_index + 1)
    BY <1>1, <1>3, EndAhead
  <2>3. CASE cb.out_index = conf.EofBlock + 1
    <3>1. eof.frames_left = conf.EofFrames /\ eof.lastbuf_index = conf.EofBlock /\ eof.frames_left # -1
      BY <1>1, <2>2, <2>3 DEF EofPlaces
    <3> QED
      BY <1>3, <2>1, <2>3, <3>1 DEF LastFrames
  <2>4. CASE cb.out_index # conf.EofBlock + 1
    <3>1. cb.out_index <= conf.EofBlock /\ (conf.EofBlock >= 3 \/ conf.EofBlock = 0)
      BY <1>3, <2>4 DEF CallbackEnding, CallbackClear
    <3>2. eof.frames_left # -1 => cb.out_index # eof.lastbuf_index + 1
      BY <1>1, <2>2, <2>4, <3>1 DEF EofPlaces
    <3> QED
      BY <1>3, <2>1, <2>4, <3>2 DEF LastFrames
  <2> QED
    BY <2>3, <2>4
<1> QED
  BY <1>2, <1>3

\* What the end depends on, when the callback thread does not play.
EndCounts ==
    <<cb.in_index, cb.out_index, cb.out_left, cb.frames, cb.ret, cb.finished>>

\* The step of the callback thread that may set the end.
LEMMA CopyEnding ==
    ASSUME SyncInv, CountInv, OrderInv, EofPlaces, CallbackClear(conf), CallbackEnding,
           UNCHANGED conf, CallbackOutCopy
    PROVE  CallbackEnding'
<1>1. TypeOK /\ CallbackType /\ CallbackPlaces
  BY DEF SyncInv, TypeOK, CountInv
<1>2. /\ conf.EofBlock \in Nat /\ conf.EofFrames \in Nat /\ Ratio \in Nat \ {0} /\ BlockFrames \in Nat \ {0}
      /\ UNCHANGED <<BlockingIn, CallbackIn, CallbackOut, Ratio, BlockFrames, conf>>
      /\ cb.out_index \in Nat /\ cb.out_left \in Int /\ cb.frames \in Int /\ cb.fill \in Nat
  BY <1>1, ConstantTypes, StateTypes DEF TypeOK, BlockingIn, CallbackIn, CallbackOut, Ratio, BlockFrames, CallbackType
<1> DEFINE e == conf.EofBlock
           f == conf.EofFrames
           g == LastFrames
           ret == Returned(g)
<1>3. /\ cb.pc = "out_copy"
      /\ cb'.in_index = cb.in_index /\ cb'.out_index = cb.out_index /\ cb'.finished = cb.finished
      /\ cb'.out_left = IF cb.fill # 0 THEN cb.out_left ELSE cb.out_left - 1
      /\ cb'.frames = IF g > BlockFrames THEN g - BlockFrames ELSE g
      /\ cb'.ret = ret
      /\ cb'.pc = PcOnReturn(ret)
  BY <1>1 DEF CallbackOutCopy, CallbackType
<1>4. /\ PcOnReturn(ret) \in {"idle", "stopped"}
  BY DEF PcOnReturn
<1>5. /\ CallbackOut /\ (cb.fill > 0 => cb.out_index = 0) /\ (cb.fill = 0 => cb.out_left \in 1 .. Ratio)
      /\ cb.out_left \in 0 .. Ratio
  BY <1>1, <1>2, <1>3 DEF CallbackPlaces, Begun, One, OutSteps
<1>6. cb.ret = 0 /\ ~cb.finished /\ (CallbackIn \/ cb.in_index = 0)
  BY <1>3 DEF CallbackEnding
<1>7. CASE g = -1
  <2>1. ret = 0 /\ cb'.frames = -1 /\ cb'.ret = 0
    BY <1>2, <1>3, <1>7 DEF Returned
  <2>2. cb.frames = -1
    BY <1>7 DEF LastFrames
  <2>3. BlockingIn => cb.out_index <= e
    BY <1>2, <1>3, <1>7, <2>2, LastCallback DEF CallbackEnding
  <2> QED
    BY <1>2, <1>3, <1>4, <1>6, <2>1, <2>3 DEF CallbackEnding
<1>8. CASE g # -1
  <2>1. /\ cb.fill = 0 /\ cb.out_index = e + 1 /\ g \in Nat /\ (BlockingIn \/ cb.frames # -1)
        /\ f = (Ratio - cb.out_left) * BlockFrames + g /\ (g = 0 => cb.out_left = Ratio /\ f = 0)
    <3>1. CASE cb.frames = -1
      <4>1. BlockingIn /\ cb.out_index = e + 1 /\ g = f
        BY <1>3, <1>8, <3>1, LastCallback
      <4>2. cb.out_left = Ratio
        BY <1>2, <3>1, <4>1 DEF CallbackEnding
      <4>3. (Ratio - Ratio) * BlockFrames = 0
        BY <1>2
      <4> QED
        BY <1>2, <1>5, <4>1, <4>2, <4>3
    <3>2. CASE cb.frames # -1
      <4>1. g = cb.frames
        BY <3>2 DEF LastFrames
      <4> QED
        BY <1>2, <1>3, <1>5, <1>6, <3>2, <4>1 DEF CallbackEnding
    <3> QED
      BY <3>1, <3>2
  <2> DEFINE k == (Ratio - cb.out_left) * BlockFrames
             l == cb.out_left - 1
  <2>2. /\ cb'.out_left = l /\ l \in Int /\ l < Ratio
        /\ (Ratio - l) * BlockFrames = k + BlockFrames
        /\ (Ratio - l - 1) * BlockFrames = k
        /\ k \in Int
    <3>1. l \in Int /\ l < Ratio /\ cb.out_left = l + 1
      BY <1>2, <1>5
    <3>a. cb'.out_left = l
      BY <1>3, <2>1
    <3>2. Ratio - l = (Ratio - cb.out_left) + 1 /\ Ratio - l - 1 = Ratio - cb.out_left
      BY <1>2, <3>1
    <3>3. \A x, y \in Int : (x + 1) * y = x * y + y
      OBVIOUS
    <3>4. Ratio - cb.out_left \in Int /\ k \in Int
      BY <1>2
    <3> HIDE DEF l
    <3> QED
      BY <1>2, <3>1, <3>a, <3>2, <3>3, <3>4
  <2>b. cb'.out_left = l /\ l < Ratio /\ cb'.out_index = e + 1
    BY <1>3, <2>1, <2>2
  <2>c. /\ CallbackOut' /\ ~cb'.finished /\ (CallbackIn' \/ cb'.in_index = 0)
        /\ cb'.ret = ret /\ cb'.pc \in {"idle", "stopped"}
    BY <1>2, <1>3, <1>4, <1>5, <1>6
  <2> HIDE DEF k, l, e, f, g
  <2>3. f = k + g
    BY <2>1 DEF k
  <2>4. CASE g = 0
    <3>1. ret = -1 /\ cb'.frames = 0
      BY <1>2, <1>3, <2>4 DEF Returned
    <3>2. f = 0 /\ l = Ratio - 1
      BY <2>1, <2>4 DEF l
    <3> QED
      BY <1>2, <2>b, <2>c, <3>1, <3>2 DEF CallbackEnding, e, f
  <2>5. CASE g > BlockFrames
    <3>1. ret = 0 /\ cb'.frames = g - BlockFrames /\ cb'.frames > 0 /\ cb'.frames # -1
      BY <1>2, <1>3, <2>1, <2>5 DEF Returned
    <3>2. f = (Ratio - l) * BlockFrames + (g - BlockFrames)
      BY <1>2, <2>1, <2>2, <2>3
    <3> QED
      BY <1>2, <2>b, <2>c, <3>1, <3>2 DEF CallbackEnding, e, f
  <2>6. CASE g \in 1 .. BlockFrames
    <3>1. ret = g /\ cb'.frames = g
      BY <1>2, <1>3, <2>1, <2>6 DEF Returned
    <3>2. f = (Ratio - l - 1) * BlockFrames + g
      BY <1>2, <2>1, <2>2, <2>3
    <3>3. g # 0 /\ cb'.frames # -1 /\ cb'.frames \in 1 .. BlockFrames
      BY <1>2, <2>6, <3>1
    <3> QED
      BY <1>2, <2>b, <2>c, <3>1, <3>2, <3>3 DEF CallbackEnding, e, f
  <2> QED
    BY <1>2, <2>1, <2>4, <2>5, <2>6
<1> QED
  BY <1>7, <1>8

LEMMA CallbackEndingKept ==
    ASSUME CallbackEnding, UNCHANGED conf, UNCHANGED EndCounts, cb'.pc = cb.pc
    PROVE  CallbackEnding'
<1>1. UNCHANGED <<BlockingIn, CallbackIn, CallbackOut, Ratio, BlockFrames>>
  BY DEF BlockingIn, CallbackIn, CallbackOut, Ratio, BlockFrames
<1>2. /\ cb'.in_index = cb.in_index /\ cb'.out_index = cb.out_index /\ cb'.out_left = cb.out_left
      /\ cb'.frames = cb.frames /\ cb'.ret = cb.ret /\ cb'.finished = cb.finished
  BY DEF EndCounts
<1> QED
  BY <1>1, <1>2 DEF CallbackEnding

LEMMA CallbackEndingStep ==
    ASSUME SyncInv, CountInv, OrderInv, EofPlaces, CallbackClear(conf), CallbackEnding,
           UNCHANGED conf, Callback
    PROVE  CallbackEnding'
<1>1. TypeOK /\ CallbackType /\ CallbackPlaces
  BY DEF SyncInv, TypeOK, CountInv
<1>2. /\ conf.EofBlock \in Nat /\ conf.EofFrames \in Nat /\ Ratio \in Nat \ {0} /\ BlockFrames \in Nat \ {0}
      /\ UNCHANGED <<BlockingIn, CallbackIn, CallbackOut, Ratio, BlockFrames, conf>>
      /\ cb.out_index \in Nat /\ cb.in_index \in Nat /\ cb.out_left \in Int
  BY <1>1, ConstantTypes, StateTypes DEF TypeOK, BlockingIn, CallbackIn, CallbackOut, Ratio, BlockFrames
\* A new pc only.
<1>3. ASSUME NEW a, cb'.pc = a, UNCHANGED EndCounts,
             cb.pc \in {"out_copy", "idle", "stopped", "finished_event"} => cb.ret = 0 /\ cb.pc # "out_copy",
             a \notin {"finished_event", "out_init", "out_wait", "out_post"}
                \/ (a \in {"out_wait", "out_post"} /\ cb.pc \in {"out_init", "out_wait"})
      PROVE  CallbackEnding'
  <2>1. /\ cb'.in_index = cb.in_index /\ cb'.out_index = cb.out_index /\ cb'.out_left = cb.out_left
        /\ cb'.frames = cb.frames /\ cb'.ret = cb.ret /\ cb'.finished = cb.finished
    BY <1>3 DEF EndCounts
  <2>2. cb.frames # -1 => cb.ret = 0
    BY <1>3 DEF CallbackEnding
  <2> QED
    BY <1>2, <1>3, <2>1, <2>2 DEF CallbackEnding
<1>4. CASE CallbackCall
  <2>1. UNCHANGED EndCounts /\ cb.pc = "idle"
    BY <1>1, <1>4 DEF CallbackCall, CallbackType, EndCounts
  <2>2. CASE cb.ret = 0
    <3>1. cb'.pc \in {"in_copy", "out_lock"}
      BY <1>1, <1>4, <2>2 DEF CallbackCall, CallbackType
    <3> QED
      BY <1>3, <2>1, <2>2, <3>1
  <2>3. CASE cb.ret # 0
    <3>1. cb'.pc = "finished_event"
      BY <1>1, <1>4, <2>3 DEF CallbackCall, CallbackType
    <3>2. /\ cb'.in_index = cb.in_index /\ cb'.out_index = cb.out_index /\ cb'.out_left = cb.out_left
          /\ cb'.frames = cb.frames /\ cb'.ret = cb.ret /\ cb'.finished = cb.finished
      BY <2>1 DEF EndCounts
    <3> QED
      BY <1>2, <2>1, <2>3, <3>1, <3>2 DEF CallbackEnding
  <2> QED
    BY <2>2, <2>3
<1>5. CASE CallbackInCopy
  <2>1. UNCHANGED EndCounts /\ cb.pc = "in_copy" /\ cb'.pc \in {"in_init", "out_lock", "idle"}
    <3>1. CASE cb.in_left = 1
      <4>1. cb' = [cb EXCEPT !.pc = "in_init", !.in_left = Ratio, !.in_cur = 1 - @] /\ cb.pc = "in_copy"
        BY <1>5, <3>1 DEF CallbackInCopy
      <4>2. /\ cb'.in_index = cb.in_index /\ cb'.out_index = cb.out_index /\ cb'.out_left = cb.out_left
            /\ cb'.frames = cb.frames /\ cb'.ret = cb.ret /\ cb'.finished = cb.finished
            /\ cb'.pc = "in_init"
        BY <1>1, <4>1 DEF CallbackType
      <4> QED
        BY <4>1, <4>2 DEF EndCounts
    <3>2. CASE cb.in_left # 1
      BY <1>1, <1>5, <3>2 DEF CallbackInCopy, CallbackType, EndCounts, AfterInput
    <3> QED
      BY <3>1, <3>2
  <2> QED
    BY <1>3, <2>1
<1>6. CASE CallbackInit
  <2>1. /\ UNCHANGED EndCounts
        /\ \/ cb.pc = "in_init" /\ cb'.pc = "in_wait"
           \/ cb.pc = "out_init" /\ cb'.pc = "out_wait"
    BY <1>1, <1>6 DEF CallbackInit, CallbackType, EndCounts
  <2> QED
    BY <1>3, <2>1
<1>7. CASE CallbackInWait
  <2>1. UNCHANGED EndCounts /\ cb.pc = "in_wait" /\ cb'.pc = "in_post"
    BY <1>1, <1>7 DEF CallbackInWait, CallbackType, EndCounts
  <2> QED
    BY <1>3, <2>1
<1>8. CASE CallbackInPost
  <2>1. /\ cb'.in_index = cb.in_index + 1 /\ cb'.out_index = cb.out_index /\ cb'.out_left = cb.out_left
        /\ cb'.frames = cb.frames /\ cb'.ret = cb.ret /\ cb'.finished = cb.finished
        /\ cb.pc = "in_post" /\ cb'.pc \in {"out_lock", "idle"} /\ CallbackIn
    BY <1>1, <1>8 DEF CallbackInPost, CallbackType, AfterInput, CallbackPlaces, InSteps
  <2> QED
    BY <1>2, <2>1 DEF CallbackEnding
<1>9. CASE CallbackOutLock
  <2>1. cb.pc = "out_lock"
    BY <1>9 DEF CallbackOutLock
  <2>2. CASE ~NeedsBlock
    <3>1. UNCHANGED EndCounts /\ cb'.pc = "out_copy"
      BY <1>1, <1>9, <2>2 DEF CallbackOutLock, CallbackType, EndCounts
    <3> QED
      BY <1>3, <2>1, <3>1
  <2>3. CASE NeedsBlock
    <3>1. /\ cb'.in_index = cb.in_index /\ cb'.out_index = cb.out_index /\ cb'.out_left = Ratio
          /\ cb'.frames = cb.frames /\ cb'.ret = cb.ret /\ cb'.finished = cb.finished
          /\ cb'.pc = "out_init" /\ cb.out_left = 0
      BY <1>1, <1>9, <2>3 DEF CallbackOutLock, CallbackType, NeedsBlock
    <3>2. cb.frames = -1
      <4> SUFFICES ASSUME cb.frames # -1 PROVE FALSE
        OBVIOUS
      <4>1. cb.ret = 0 /\ cb.frames > 0 /\ conf.EofFrames = (Ratio - 0) * BlockFrames + cb.frames
        BY <2>1, <3>1 DEF CallbackEnding
      <4>2. Ratio - 0 = Ratio /\ Ratio * BlockFrames \in Nat /\ cb.frames \in Int
        BY <1>1, <1>2 DEF CallbackType
      <4>3. conf.EofFrames < Ratio * BlockFrames
        BY <1>1, PipelineAssumption DEF TypeOK, Ratio, BlockFrames
      <4> QED
        BY <1>2, <4>1, <4>2, <4>3
    <3> QED
      BY <1>2, <2>1, <3>1, <3>2 DEF CallbackEnding
  <2> QED
    BY <2>2, <2>3
<1>10. CASE CallbackOutWait
  <2>1. UNCHANGED EndCounts /\ cb.pc = "out_wait" /\ cb'.pc = "out_post"
    BY <1>1, <1>10 DEF CallbackOutWait, CallbackType, EndCounts
  <2> QED
    BY <1>3, <2>1
<1>11. CASE CallbackOutPost
  <2>1. /\ cb'.in_index = cb.in_index /\ cb'.out_index = cb.out_index + 1 /\ cb'.out_left = cb.out_left
        /\ cb'.frames = cb.frames /\ cb'.ret = cb.ret /\ cb'.finished = cb.finished
        /\ cb.pc = "out_post" /\ cb'.pc = "out_copy" /\ cb.out_left = Ratio
    BY <1>1, <1>11 DEF CallbackOutPost, CallbackType, CallbackPlaces
  <2>2. cb.frames = -1
    BY <2>1 DEF CallbackEnding
  <2>3. BlockingIn => cb.out_index <= conf.EofBlock
    BY <2>1, <2>2 DEF CallbackEnding
  <2> QED
    BY <1>2, <2>1, <2>2, <2>3 DEF CallbackEnding
<1>12. CASE CallbackOutCopy
  BY <1>12, CopyEnding
<1>13. CASE CallbackFinished
  <2>1. /\ cb'.in_index = cb.in_index /\ cb'.out_index = cb.out_index /\ cb'.out_left = cb.out_left
        /\ cb'.frames = cb.frames /\ cb'.ret = cb.ret
        /\ cb.pc = "finished_event" /\ cb'.pc = "stopped"
    BY <1>1, <1>13 DEF CallbackFinished, CallbackType
  <2>2. cb.ret # 0
    BY <2>1 DEF CallbackEnding
  <2> QED
    BY <1>2, <2>1, <2>2 DEF CallbackEnding
<1> QED
  BY <1>4, <1>5, <1>6, <1>7, <1>8, <1>9, <1>10, <1>11, <1>12, <1>13 DEF Callback

-----------------------------------------------------------------------------

LEMMA InitEnd == Init => EndInv
<1> SUFFICES ASSUME Init PROVE EndInv
  OBVIOUS
<1>1. /\ conf \in Configs /\ conf.EofBlock \in Nat
      /\ eof.frames_left = -1 /\ eof.lastbuf_index = 0 /\ inp.index = 0 /\ inp.pc # "eof"
      /\ out.index = 0 /\ ~out.islast /\ ~out.finished /\ out.frames = Period
      /\ out.pc \in {"start", "none"} /\ log.bl = <<>>
      /\ cb.in_index = 0 /\ cb.out_index = 0 /\ cb.frames = -1 /\ cb.ret = 0 /\ ~cb.finished
      /\ cb.pc # "finished_event"
  BY ConstantTypes DEF Init
<1>2. EofPlaces
  BY <1>1 DEF EofPlaces
<1>3. OutputEnding
  <2>1. Len(log.bl) = 0
    BY <1>1, EmptySeq
  <2> QED
    BY <1>1, <2>1 DEF OutputEnding
<1>4. CallbackEnding
  BY <1>1 DEF CallbackEnding
<1> QED
  BY <1>2, <1>3, <1>4 DEF EndInv

LEMMA NextEnd == SyncInv /\ CountInv /\ OrderInv /\ EndInv /\ [Next]_vars => EndInv'
<1> SUFFICES ASSUME SyncInv, CountInv, OrderInv, EndInv, [Next]_vars PROVE EndInv'
  OBVIOUS
<1>1. /\ TypeOK /\ StartInv /\ FilterPlaces /\ EofPlaces /\ conf' = conf
  BY DEF SyncInv, CountInv, EndInv, Next, Running, Done, vars
<1>2. UNCHANGED <<inp, eof>> => EofPlaces'
  BY <1>1 DEF EofPlaces
<1>3. out' = out /\ log'.bl = log.bl => (OutputClear(conf) => OutputEnding)'
  BY <1>1, OutputEndingKept DEF EndInv
<1>4. UNCHANGED EndCounts /\ cb'.pc = cb.pc => (CallbackClear(conf) => CallbackEnding)'
  BY <1>1, CallbackEndingKept DEF EndInv
<1>5. CASE Running(Input)
  <2>1. Input
    BY <1>5 DEF Running
  <2>2. UNCHANGED <<out, flt, log, CallbackCounts>>
    BY <1>1, <2>1, InputLeaves
  <2>3. UNCHANGED EndCounts /\ cb'.pc = cb.pc
    <3>1. cb' = cb \/ \E s \in BOOLEAN : cb' = [cb EXCEPT !.started = s]
      BY <1>1, <2>1 DEF Input, MainPostInit, InputSynchPost, InputSynchWait, InputTakeOutput, InputTakeExtra,
              InputPostFilter, InputEofFrames, MainWaitInit, InputBegin, InputEnd, InputEofIndex,
              TypeOK, CallbackType
    <3> QED
      BY <1>1, <3>1 DEF TypeOK, CallbackType, EndCounts
  <2>4. EofPlaces'
    BY <1>1, <2>1, EofStep
  <2> QED
    BY <1>3, <1>4, <2>2, <2>3, <2>4 DEF EndInv
<1>6. CASE Running(Output)
  <2>1. Output
    BY <1>6 DEF Running
  <2>2. UNCHANGED <<inp, eof>>
    BY <2>1 DEF Output, OutputStart, OutputWaitInit, OutputSynchWait, OutputPrime, OutputPrime2,
                OutputBegin, OutputSynchPost, OutputFillEnd, OutputWaitFilter, OutputPostInput,
                OutputEnd, OutputFinish
  <2>3. UNCHANGED EndCounts /\ cb'.pc = cb.pc
    <3>1. cb' = cb \/ \E s \in BOOLEAN : cb' = [cb EXCEPT !.started = s]
      BY <1>1, <2>1 DEF Output, OutputStart, OutputWaitInit, OutputSynchWait, OutputPrime, OutputPrime2,
                OutputBegin, OutputSynchPost, OutputFillEnd, OutputWaitFilter, OutputPostInput,
                OutputEnd, OutputFinish, TypeOK, CallbackType
    <3> QED
      BY <1>1, <3>1 DEF TypeOK, CallbackType, EndCounts
  <2>4. (OutputClear(conf) => OutputEnding)'
    BY <1>1, <2>1, OutputEndingStep DEF EndInv
  <2> QED
    BY <1>2, <1>4, <2>2, <2>3, <2>4 DEF EndInv
<1>7. CASE Running(Callback)
  <2>1. Callback
    BY <1>7 DEF Running
  <2>2. UNCHANGED <<inp, out, flt>> /\ log'.bl = log.bl
    BY <1>1, <2>1, CallbackLeaves
  <2>3. eof' = eof
    BY <2>1 DEF Callback, CallbackCall, CallbackInCopy, CallbackInit, CallbackInWait, CallbackInPost,
                CallbackOutLock, CallbackOutWait, CallbackOutPost, CallbackOutCopy, CallbackFinished
  <2>4. (CallbackClear(conf) => CallbackEnding)'
    BY <1>1, <2>1, CallbackEndingStep DEF EndInv
  <2> QED
    BY <1>2, <1>3, <2>2, <2>3, <2>4 DEF EndInv
<1>8. ASSUME NEW p \in Proc, Running(Filter(p)) PROVE EndInv'
  <2>1. UNCHANGED <<inp, out, cb, eof, log>>
    BY <1>1, <1>8, FilterMoves DEF Running
  <2>2. UNCHANGED EndCounts /\ cb'.pc = cb.pc
    BY <2>1 DEF EndCounts
  <2> QED
    BY <1>2, <1>3, <1>4, <2>1, <2>2 DEF EndInv
<1>9. CASE UNCHANGED vars
  <2>1. UNCHANGED <<inp, out, cb, eof, log>>
    BY <1>9 DEF vars
  <2>2. UNCHANGED EndCounts /\ cb'.pc = cb.pc
    BY <2>1 DEF EndCounts
  <2> QED
    BY <1>2, <1>3, <1>4, <2>1, <2>2 DEF EndInv
<1> QED
  BY <1>5, <1>6, <1>7, <1>8, <1>9 DEF Next, Done

\* The output process takes the right block for the last and the callback thread the
\* right callback, where the configuration keeps them clear of the end being stored.
THEOREM Ends == Spec => [](SyncInv /\ CountInv /\ OrderInv /\ EndInv)
<1>1. Init => EndInv
  BY InitEnd
<1>2. SyncInv /\ CountInv /\ OrderInv /\ EndInv /\ [Next]_vars => EndInv'
  BY NextEnd
<1> QED
  BY <1>1, <1>2, Ordered, PTL DEF Spec

\* A blocking output that has finished has been given every block of the blocking
\* input, whole, and of the last one the frames that were read of it: if the input ends
\* in its first block or behind its third, and not in the first with a clocked output.
THEOREM BlockingOutputWhole == Spec => [](OutputClear(conf) => OutputComplete)
<1>1. SyncInv /\ CountInv /\ OrderInv /\ EndInv => (OutputClear(conf) => OutputComplete)
  <2> SUFFICES ASSUME SyncInv, OrderInv, EndInv, OutputClear(conf), out.finished PROVE
             /\ Len(log.bl) = FillBlocks + conf.EofBlock + 1
             /\ \A k \in 1 .. Len(log.bl) :
                   log.bl[k].frames = IF k = Len(log.bl) THEN conf.EofFrames ELSE Period
    BY DEF OutputComplete
  <2>1. OutputEnding
    BY DEF EndInv
  <2>2. out.pc \in {"finish", "pause"} /\ out.index = conf.EofBlock
    BY <2>1 DEF OutputEnding
  <2>3. Len(log.bl) = FillBlocks + out.index + 1
    BY <2>2 DEF OrderInv, BlockingLog, BlocksWritten, Unprimed, One
  <2> QED
    BY <2>1, <2>2, <2>3 DEF OutputEnding
<1> QED
  BY <1>1, Ends, PTL

\* When the end has been reported to the callback output it has been given the samples
\* up to the last frame read of the blocking input, to the buffer: if the input ends in
\* its first block or behind its third, and a callback input, if there is one too, has
\* one callback per block.
THEOREM CallbackOutputWhole == Spec => [](CallbackClear(conf) => CallbackComplete)
<1>1. SyncInv /\ CountInv /\ OrderInv /\ EndInv => (CallbackClear(conf) => CallbackComplete)
  <2> SUFFICES ASSUME SyncInv, CountInv, OrderInv, EndInv, CallbackClear(conf), cb.finished
               PROVE  Len(log.cb) = CallbackDelay + conf.EofBlock * Ratio +
                                    Max2(1, (conf.EofFrames + BlockFrames - 1) \div BlockFrames)
    BY DEF CallbackComplete
  <2> DEFINE e == conf.EofBlock
             f == conf.EofFrames
             g == cb.frames
             b == BlockFrames
  <2>1. /\ TypeOK /\ CallbackEnding /\ CallbackLog /\ CallbackPlaces /\ CallbackType
    BY DEF EndInv, OrderInv, SyncInv, CountInv, TypeOK
  <2>2. /\ e \in Nat /\ f \in Nat /\ Ratio \in Nat \ {0} /\ b \in Nat \ {0} /\ CallbackDelay \in Int
        /\ cb.out_left \in Int /\ cb.out_index \in Nat
    BY <2>1, ConstantTypes, StateTypes DEF TypeOK, CallbackDelay
  <2>3. /\ CallbackOut /\ cb.out_index = e + 1 /\ cb.out_left < Ratio /\ cb.out_left \in 0 .. Ratio
        /\ cb.pc \in {"idle", "stopped", "finished_event"}
        /\ \/ g \in 1 .. b /\ f = (Ratio - cb.out_left - 1) * b + g
           \/ f = 0 /\ cb.out_left = Ratio - 1
    BY <2>1 DEF CallbackEnding, CallbackPlaces
  <2>4. Begun = e + 1 /\ cb.fill = 0
    BY <2>1, <2>2, <2>3 DEF Begun, One, CallbackPlaces, CallbackType
  <2>5. Len(log.cb) = CallbackDelay - 0 + Ratio * (e + 1) - cb.out_left
    BY <2>1, <2>3, <2>4 DEF CallbackLog
  <2>6. Ratio * (e + 1) = e * Ratio + Ratio /\ e * Ratio \in Nat
    BY <2>2
  <2> DEFINE j == Ratio - cb.out_left - 1
             m == Max2(1, (f + b - 1) \div b)
  <2>7. j \in Nat
    BY <2>2, <2>3
  <2>8. m = j + 1
    <3>1. CASE g \in 1 .. b /\ f = j * b + g
      <4>1. g - 1 \in 0 .. b - 1
        BY <2>2, <3>1
      <4>2. f + b - 1 = b * (j + 1) + (g - 1)
        <5>1. b * (j + 1) = j * b + b /\ j * b \in Nat
          BY <2>2, <2>7
        <5> HIDE DEF j, f, g, b
        <5> QED
          BY <2>2, <3>1, <4>1, <5>1
      <4>3. (f + b - 1) \div b = j + 1
        <5> HIDE DEF j, f, g, b
        <5>1. j + 1 \in Nat
          BY <2>7
        <5> QED
          BY <2>2, <4>1, <4>2, <5>1, BlockOfCallback
      <4> QED
        BY <2>7, <4>3 DEF Max2
    <3>2. CASE f = 0 /\ cb.out_left = Ratio - 1
      <4>1. j = 0
        BY <2>2, <3>2
      <4>2. b * 0 + (b - 1) = f + b - 1 /\ b - 1 \in 0 .. b - 1
        BY <2>2, <3>2
      <4>3. (f + b - 1) \div b = 0
        <5> HIDE DEF f, b
        <5> QED
          BY <2>2, <4>2, BlockOfCallback
      <4> QED
        BY <4>1, <4>3 DEF Max2
    <3> QED
      BY <2>3, <3>1, <3>2
  <2>9. Len(log.cb) = CallbackDelay + e * Ratio + (j + 1)
    <3> DEFINE er == e * Ratio
    <3>1. Len(log.cb) = CallbackDelay - 0 + (er + Ratio) - cb.out_left
      BY <2>5, <2>6
    <3>2. er \in Nat
      BY <2>6
    <3>3. Len(log.cb) = CallbackDelay + er + (j + 1)
      <4> HIDE DEF er
      <4> QED
        BY <2>2, <3>1, <3>2
    <3> QED
      BY <3>3
  <2> QED
    BY <2>8, <2>9
<1> QED
  BY <1>1, Ends, PTL
=============================================================================
