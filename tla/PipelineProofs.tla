--------------------------- MODULE PipelineProofs ---------------------------
(***************************************************************************)
(* Type correctness of Pipeline, the barrier between its phases, and the   *)
(* ownership of its sample buffers, for every value of the constants.      *)
(*                                                                         *)
(* Types.  The facts that are not a matter of shape: no semaphore and no   *)
(* count of frames, callbacks or fill ever becomes negative, the buffer    *)
(* indices stay 0 or 1, the loop variables stay within what the code tests *)
(* for.  Each part of TypeOK is preserved by the few ways an action changes*)
(* that variable (the lemmas first); then one lemma for each thread of the *)
(* program has one step per action.                                        *)
(*                                                                         *)
(* Buffers.  No thread counts the blocks it is ahead of another.  What it  *)
(* has posted and taken is determined by its place in the code and its     *)
(* block number, and every semaphore holds what has been posted less what  *)
(* has been taken (ThreadTokens, FilterTokens).  That nothing is negative  *)
(* bounds how far two threads can be apart, and a buffer is shared by two  *)
(* blocks only if they are two apart.  The tokens of the filter processes  *)
(* are anonymous: that each takes its own follows from the barrier         *)
(* (SyncInv).                                                              *)
(***************************************************************************)
EXTENDS Pipeline, FiniteSetTheorems, FunctionTheorems, TLAPS

LEMMA ConstantTypes ==
    ASSUME conf \in Configs
    PROVE  /\ n_processes \in Nat \ {0} /\ n_processes - 1 \in Nat
           /\ Ratio \in Nat \ {0} /\ BlockFrames \in Nat \ {0}
           /\ Period \in Nat
           /\ conf.EofFrames \in Nat /\ conf.EofBlock \in Nat
<1>1. conf \in Config /\ n_processes \in Nat \ {0}
  BY PipelineAssumption
<1>2. Ratio \in Nat \ {0} /\ BlockFrames \in Nat \ {0}
  BY <1>1 DEF Config, Ratio, BlockFrames
<1>3. conf.EofFrames \in Nat /\ conf.EofBlock \in Nat
  BY <1>1 DEF Config
<1> QED
  BY <1>1, <1>2, <1>3 DEF Period

\* The subtraction of the two callbacks never goes below zero, since a callback is
\* at most a period long.
LEMMA FillType == ASSUME conf \in Configs PROVE iodelay_fill \in Nat
<1>1. \A a, b \in Nat : b # 0 => (a * b) \div b = a
  OBVIOUS
<1>2. 2 * (Ratio * BlockFrames) = (2 * Ratio) * BlockFrames
  BY ConstantTypes
<1>3. 2 * Ratio \in Nat /\ 2 * Ratio >= 2
  BY ConstantTypes
<1>4. ((2 * Ratio) * BlockFrames) \div BlockFrames = 2 * Ratio
  BY <1>1, <1>3, ConstantTypes
<1> QED
  BY <1>2, <1>3, <1>4 DEF iodelay_fill, Period

-----------------------------------------------------------------------------
(* The ways a variable changes *)

LEMMA PostType ==
    ASSUME SemType, NEW s \in Sems, NEW k \in Nat, Post(s, k)
    PROVE  SemType'
  BY DEF SemType, Post

LEMMA PostAllType ==
    ASSUME SemType, NEW S \in SUBSET Sems, NEW k \in Nat, PostAll(S, k)
    PROVE  SemType'
  BY DEF SemType, PostAll

\* A semaphore is only decremented by what it holds.
LEMMA TakeType ==
    ASSUME SemType, NEW s \in Sems, NEW k \in Nat, Take(s, k)
    PROVE  SemType'
  BY DEF SemType, Take

LEMMA SemNames ==
    /\ input_writefd \in Sems /\ output_readfd \in Sems
    /\ extra_input_writefd \in SUBSET Sems
    /\ InputSide \in SUBSET Sems
    /\ OutputSems \in SUBSET Sems
    /\ {"bl_output_2_cb_input", "cb_output_2_bl_input", "bl_input_2_filter",
        "filter_2_bl_output", "cb_input_2_filter", "filter_2_cb_output",
        "synch_sp"} \subseteq Sems
  BY DEF Sems, input_writefd, output_readfd, extra_input_writefd, InputSide, OutputSems

\* Input process: a new pc, and the index as it is or one further.
LEMMA InputStep ==
    ASSUME InputType, NEW a \in InputPcs, NEW k \in Nat,
           inp' = [inp EXCEPT !.pc = a, !.index = k] \/ inp' = [inp EXCEPT !.pc = a]
    PROVE  InputType'
  BY DEF InputType

\* Filter process: a new pc, and what is done after the synchronisation.
LEMMA FilterStep ==
    ASSUME FilterType, NEW p \in Proc, NEW a \in FilterPcs, NEW b \in WorkPcs,
           \/ flt' = [flt EXCEPT ![p].pc = a, ![p].next = b]
           \/ flt' = [flt EXCEPT ![p].pc = a]
    PROVE  FilterType'
  BY DEF FilterType

LEMMA GotoType ==
    ASSUME FilterType, NEW p \in Proc, NEW a \in FilterPcs, Goto(p, a)
    PROVE  FilterType'
<1>1. "ready" \in WorkPcs
  BY DEF WorkPcs
<1> QED
  BY <1>1, FilterStep DEF Goto

LEMMA SynchType ==
    ASSUME FilterType, NEW p \in Proc, NEW b \in WorkPcs, Synch(p, b)
    PROVE  FilterType'
<1>1. "synch_post" \in FilterPcs
  BY DEF FilterPcs
<1> QED
  BY <1>1, FilterStep DEF Synch, SynchPc

LEMMA ContentsType ==
    ASSUME MemType, NEW b \in 0 .. 1
    PROVE  Contents(b) \in SUBSET Data
  BY DEF MemType, Contents

LEMMA WriteType ==
    ASSUME MemType, OutputType, LogType, Write
    PROVE  LogType'
<1> DEFINE r == [data |-> Contents(out.cur), frames |-> out.frames]
<1>1. r \in [data : SUBSET Data, frames : Nat]
  BY ContentsType DEF OutputType
<1>2. log' = [log EXCEPT !.bl = Append(log.bl, r)]
  BY DEF Write
<1> HIDE DEF r
<1>3. Append(log.bl, r) \in Seq([data : SUBSET Data, frames : Nat])
  BY <1>1 DEF LogType
<1> QED
  BY <1>2, <1>3 DEF LogType

\* What an action leaves alone keeps its type.
LEMMA Unchanged ==
    ASSUME TypeOK
    PROVE  /\ conf' = conf => conf' \in Configs
           /\ sem' = sem => SemType'
           /\ f2f' = f2f => BarrierType'
           /\ inp' = inp => InputType'
           /\ out' = out => OutputType'
           /\ flt' = flt => FilterType'
           /\ cb' = cb => CallbackType'
           /\ eof' = eof => EofType'
           /\ mem' = mem => MemType'
           /\ log' = log => LogType'
           /\ exited' = exited => exited' \in BOOLEAN
  BY DEF TypeOK, SemType, BarrierType, InputType, OutputType, FilterType,
         CallbackType, EofType, MemType, LogType

-----------------------------------------------------------------------------
(* Initial state *)

LEMMA InitType == Init => TypeOK
<1> SUFFICES ASSUME Init PROVE TypeOK
  OBVIOUS
<1> USE DEF Init
<1>0. conf \in Configs
  OBVIOUS
<1>1. SemType /\ BarrierType /\ exited \in BOOLEAN
  BY DEF SemType, BarrierType
<1>2. InputType
  BY DEF InputType, InputPcs
<1>3. OutputType
  BY <1>0, ConstantTypes DEF OutputType, OutputPcs
<1>4. FilterType
  BY DEF FilterType, FilterPcs, WorkPcs
<1>5. CallbackType
  BY <1>0, ConstantTypes, FillType DEF CallbackType, CallbackPcs
<1>6. EofType
  BY DEF EofType
<1>7. MemType
  BY DEF MemType, Data
<1>8. LogType
  BY DEF LogType
<1> QED
  BY <1>0, <1>1, <1>2, <1>3, <1>4, <1>5, <1>6, <1>7, <1>8 DEF TypeOK

-----------------------------------------------------------------------------
(* Main thread and input process *)

LEMMA InputTypes == ASSUME TypeOK, UNCHANGED conf, Input PROVE TypeOK'
<1>0. conf \in Configs /\ SemType /\ BarrierType /\ InputType /\ OutputType /\
      FilterType /\ CallbackType /\ EofType /\ MemType /\ LogType /\ exited \in BOOLEAN
  BY DEF TypeOK
<1>1. CASE MainPostInit
  <2>1. SemType'
    BY <1>0, <1>1, PostType, SemNames, ConstantTypes DEF MainPostInit
  <2>2. InputType'
    BY <1>0, <1>1 DEF MainPostInit, InputType, InputPcs
  <2> QED
    BY <1>1, <2>1, <2>2, Unchanged DEF TypeOK, MainPostInit
<1>2. CASE MainWaitInit
  <2>1. SemType'
    BY <1>0, <1>2, TakeType, SemNames, ConstantTypes DEF MainWaitInit
  <2>2. InputType'
    BY <1>0, <1>2 DEF MainWaitInit, InputType, InputPcs
  <2>3. CallbackType'
    BY <1>0, <1>2 DEF MainWaitInit, CallbackType
  <2> QED
    BY <1>2, <2>1, <2>2, <2>3, Unchanged DEF TypeOK, MainWaitInit
<1>3. CASE InputSynchPost
  <2>1. SemType'
    BY <1>0, <1>3, PostType, SemNames, ConstantTypes DEF InputSynchPost
  <2>2. InputType'
    BY <1>0, <1>3 DEF InputSynchPost, InputType, InputPcs
  <2> QED
    BY <1>3, <2>1, <2>2, Unchanged DEF TypeOK, InputSynchPost
<1>4. CASE InputSynchWait
  <2>1. SemType'
    BY <1>0, <1>4, TakeType, SemNames, ConstantTypes DEF InputSynchWait
  <2>2. InputType'
    BY <1>0, <1>4 DEF InputSynchWait, InputType, InputPcs
  <2> QED
    BY <1>4, <2>1, <2>2, Unchanged DEF TypeOK, InputSynchWait
<1>5. CASE InputBegin
  <2>1. InputType'
    BY <1>0, <1>5 DEF InputBegin, InputType, InputPcs
  <2>2. CallbackType'
    BY <1>0, <1>5 DEF InputBegin, CallbackType
  <2> QED
    BY <1>5, <2>1, <2>2, Unchanged DEF TypeOK, InputBegin
<1>6. CASE InputEnd
  <2>1. InputType'
    <3>1. inp.index + 1 \in Nat /\ "wait_output" \in InputPcs
      BY <1>0 DEF InputType, InputPcs
    <3>2. inp' = [inp EXCEPT !.pc = "wait_output", !.index = inp.index + 1]
      BY <1>6 DEF InputEnd
    <3> QED
      BY <1>0, <3>1, <3>2, InputStep
  <2>2. MemType'
    BY <1>0, <1>6 DEF InputEnd, MemType, InputType, StoreBl, Data
  <2> QED
    BY <1>6, <2>1, <2>2, Unchanged DEF TypeOK, InputEnd
<1>7. CASE InputEofFrames
  <2>1. InputType'
    BY <1>0, <1>7 DEF InputEofFrames, InputType, InputPcs
  <2>2. EofType'
    BY <1>0, <1>7, ConstantTypes DEF InputEofFrames, EofType
  <2> QED
    BY <1>7, <2>1, <2>2, Unchanged DEF TypeOK, InputEofFrames
<1>8. CASE InputEofIndex
  <2>1. InputType'
    <3>1. inp.index + 1 \in Nat /\ "wait_output" \in InputPcs
      BY <1>0 DEF InputType, InputPcs
    <3>2. inp' = [inp EXCEPT !.pc = "wait_output", !.index = inp.index + 1]
      BY <1>8 DEF InputEofIndex
    <3> QED
      BY <1>0, <3>1, <3>2, InputStep
  <2>2. MemType'
    BY <1>0, <1>8 DEF InputEofIndex, MemType, InputType, StoreBl, Data
  <2>3. EofType'
    BY <1>0, <1>8 DEF InputEofIndex, EofType, InputType
  <2> QED
    BY <1>8, <2>1, <2>2, <2>3, Unchanged DEF TypeOK, InputEofIndex
<1>9. CASE InputTakeOutput
  <2>1. SemType'
    BY <1>0, <1>9, TakeType, SemNames, ConstantTypes DEF InputTakeOutput
  <2>2. InputType'
    BY <1>0, <1>9 DEF InputTakeOutput, InputType, InputPcs
  <2> QED
    BY <1>9, <2>1, <2>2, Unchanged DEF TypeOK, InputTakeOutput
<1>10. CASE InputTakeExtra
  <2>1. SemType'
    BY <1>0, <1>10, TakeType, SemNames, ConstantTypes DEF InputTakeExtra
  <2>2. InputType'
    BY <1>0, <1>10 DEF InputTakeExtra, InputType, InputPcs
  <2> QED
    BY <1>10, <2>1, <2>2, Unchanged DEF TypeOK, InputTakeExtra
<1>11. CASE InputPostFilter
  <2>1. SemType'
    BY <1>0, <1>11, PostType, SemNames, ConstantTypes DEF InputPostFilter
  <2>2. InputType'
    BY <1>0, <1>11 DEF InputPostFilter, InputType, InputPcs
  <2> QED
    BY <1>11, <2>1, <2>2, Unchanged DEF TypeOK, InputPostFilter
<1> QED
  BY <1>1, <1>2, <1>3, <1>4, <1>5, <1>6, <1>7, <1>8, <1>9, <1>10, <1>11 DEF Input

-----------------------------------------------------------------------------
(* Output process *)

LEMMA OutputTypes == ASSUME TypeOK, UNCHANGED conf, Output PROVE TypeOK'
<1>0. conf \in Configs /\ SemType /\ BarrierType /\ InputType /\ OutputType /\
      FilterType /\ CallbackType /\ EofType /\ MemType /\ LogType /\ exited \in BOOLEAN
  BY DEF TypeOK
<1>1. CASE OutputStart
  <2>1. SemType'
    <3>1. (IF BlockingIn THEN 0 ELSE 2 * n_processes) \in Nat
      BY <1>0, ConstantTypes
    <3> QED
      BY <1>0, <3>1, <1>1, PostType, SemNames DEF OutputStart
  <2>2. OutputType'
    BY <1>0, <1>1 DEF OutputStart, OutputType, OutputPcs
  <2> QED
    BY <1>1, <2>1, <2>2, Unchanged DEF TypeOK, OutputStart
<1>2. CASE OutputWaitInit
  <2>1. SemType'
    BY <1>0, <1>2, TakeType, SemNames, ConstantTypes DEF OutputWaitInit
  <2>2. OutputType'
    BY <1>0, <1>2 DEF OutputWaitInit, OutputType, OutputPcs
  <2> QED
    BY <1>2, <2>1, <2>2, Unchanged DEF TypeOK, OutputWaitInit
<1>3. CASE OutputSynchWait
  <2>1. SemType'
    BY <1>0, <1>3, TakeType, SemNames, ConstantTypes DEF OutputSynchWait
  <2>2. OutputType'
    BY <1>0, <1>3 DEF OutputSynchWait, OutputType, OutputPcs
  <2> QED
    BY <1>3, <2>1, <2>2, Unchanged DEF TypeOK, OutputSynchWait
<1>4. CASE OutputPrime
  <2>1. SemType'
    BY <1>0, <1>4, PostAllType, SemNames DEF OutputPrime, PrimeTokens
  <2>2. OutputType'
    BY <1>0, <1>4 DEF OutputPrime, OutputType, OutputPcs
  <2>3. CallbackType'
    BY <1>0, <1>4 DEF OutputPrime, CallbackType
  <2> QED
    BY <1>4, <2>1, <2>2, <2>3, Unchanged DEF TypeOK, OutputPrime
<1>5. CASE OutputPrime2
  <2>1. SemType'
    BY <1>0, <1>5, PostAllType, SemNames DEF OutputPrime2
  <2>2. OutputType'
    BY <1>0, <1>5 DEF OutputPrime2, OutputType, OutputPcs
  <2> QED
    BY <1>5, <2>1, <2>2, Unchanged DEF TypeOK, OutputPrime2
<1>6. CASE OutputBegin
  <2>1. OutputType'
    <3>1. Busy(out.pc) \in OutputPcs
      BY DEF Busy, OutputPcs
    <3>2. (out.islast \/ IsLast) \in BOOLEAN
      BY <1>0 DEF OutputType, IsLast
    <3>3. (IF IsLast THEN eof.frames_left ELSE out.frames) \in Nat
      BY <1>0 DEF OutputType, EofType, IsLast
    <3>4. out' = [out EXCEPT !.pc = Busy(out.pc), !.islast = out.islast \/ IsLast,
                             !.frames = IF IsLast THEN eof.frames_left ELSE out.frames]
      BY <1>6 DEF OutputBegin
    <3> QED
      BY <1>0, <3>1, <3>2, <3>3, <3>4 DEF OutputType
  <2> QED
    BY <1>6, <2>1, Unchanged DEF TypeOK, OutputBegin
<1>7. CASE OutputSynchPost
  <2>1. SemType'
    BY <1>0, <1>7, PostType, SemNames, ConstantTypes DEF OutputSynchPost
  <2>2. OutputType'
    BY <1>0, <1>7 DEF OutputSynchPost, OutputType, OutputPcs
  <2> QED
    BY <1>7, <2>1, <2>2, Unchanged DEF TypeOK, OutputSynchPost
<1>8. CASE OutputFillEnd
  <2>1. OutputType'
    <3>1. 1 - out.cur \in 0 .. 1
      BY <1>0 DEF OutputType
    <3> QED
      BY <1>0, <3>1, <1>8 DEF OutputFillEnd, OutputType, OutputPcs
  <2>2. LogType'
    BY <1>0, <1>8, WriteType DEF OutputFillEnd
  <2> QED
    BY <1>8, <2>1, <2>2, Unchanged DEF TypeOK, OutputFillEnd
<1>9. CASE OutputWaitFilter
  <2>1. SemType'
    BY <1>0, <1>9, TakeType, SemNames, ConstantTypes DEF OutputWaitFilter
  <2>2. OutputType'
    BY <1>0, <1>9 DEF OutputWaitFilter, OutputType, OutputPcs
  <2> QED
    BY <1>9, <2>1, <2>2, Unchanged DEF TypeOK, OutputWaitFilter
<1>10. CASE OutputPostInput
  <2>1. SemType'
    BY <1>0, <1>10, PostAllType, SemNames DEF OutputPostInput
  <2>2. OutputType'
    BY <1>0, <1>10 DEF OutputPostInput, OutputType, OutputPcs
  <2> QED
    BY <1>10, <2>1, <2>2, Unchanged DEF TypeOK, OutputPostInput
<1>11. CASE OutputEnd
  <2>1. OutputType'
    <3>1. 1 - out.cur \in 0 .. 1 /\ out.index + 1 \in Nat
      BY <1>0 DEF OutputType
    <3> QED
      BY <1>0, <3>1, <1>11 DEF OutputEnd, OutputType, OutputPcs
  <2>2. LogType'
    BY <1>0, <1>11, WriteType DEF OutputEnd
  <2> QED
    BY <1>11, <2>1, <2>2, Unchanged DEF TypeOK, OutputEnd
<1>12. CASE OutputFinish
  <2>1. OutputType' /\ exited' \in BOOLEAN
    BY <1>0, <1>12 DEF OutputFinish, OutputType, OutputPcs
  <2> QED
    BY <1>12, <2>1, Unchanged DEF TypeOK, OutputFinish
<1> QED
  BY <1>1, <1>2, <1>3, <1>4, <1>5, <1>6, <1>7, <1>8, <1>9, <1>10, <1>11, <1>12 DEF Output

-----------------------------------------------------------------------------
(* Filter processes *)

LEMMA FilterTypes == ASSUME TypeOK, UNCHANGED conf, NEW p \in Proc, Filter(p) PROVE TypeOK'
<1>0. conf \in Configs /\ SemType /\ BarrierType /\ InputType /\ OutputType /\
      FilterType /\ CallbackType /\ EofType /\ MemType /\ LogType /\ exited \in BOOLEAN
  BY DEF TypeOK
<1>1. CASE FilterSynchPost(p)
  <2>1. FilterType'
    BY <1>0, <1>1, GotoType DEF FilterSynchPost, FilterPcs
  <2>2. BarrierType'
    BY <1>0, <1>1 DEF FilterSynchPost, BarrierType
  <2> QED
    BY <1>1, <2>1, <2>2, Unchanged DEF TypeOK, FilterSynchPost
<1>2. CASE FilterSynchWait(p)
  <2>1. FilterType'
    <3>1. flt[p].next \in FilterPcs
      BY <1>0 DEF FilterType, FilterPcs
    <3> QED
      BY <1>0, <3>1, <1>2, GotoType DEF FilterSynchWait
  <2>2. BarrierType'
    BY <1>0, <1>2, ConstantTypes DEF FilterSynchWait, BarrierType
  <2> QED
    BY <1>2, <2>1, <2>2, Unchanged DEF TypeOK, FilterSynchWait
<1>3. CASE FilterWaitInit(p)
  <2>1. SemType'
    BY <1>0, <1>3, TakeType, SemNames, ConstantTypes DEF FilterWaitInit
  <2>2. FilterType'
    BY <1>0, <1>3, SynchType DEF FilterWaitInit, WorkPcs
  <2> QED
    BY <1>3, <2>1, <2>2, Unchanged DEF TypeOK, FilterWaitInit
<1>4. CASE FilterReady(p)
  <2>1. SemType'
    BY <1>0, <1>4, PostType, SemNames, ConstantTypes DEF FilterReady
  <2>2. FilterType'
    BY <1>0, <1>4, GotoType DEF FilterReady, FilterPcs, FirstWait
  <2> QED
    BY <1>4, <2>1, <2>2, Unchanged DEF TypeOK, FilterReady
<1>5. CASE FilterWaitBl(p)
  <2>1. SemType'
    BY <1>0, <1>5, TakeType, SemNames, ConstantTypes DEF FilterWaitBl
  <2>2. FilterType'
    <3>1. "wait_cb" \in FilterPcs /\ "inputs" \in FilterPcs /\ "inputs" \in WorkPcs
      BY DEF FilterPcs, WorkPcs
    <3> QED
      BY <1>0, <3>1, <1>5, GotoType, SynchType DEF FilterWaitBl, StartBlock
  <2> QED
    BY <1>5, <2>1, <2>2, Unchanged DEF TypeOK, FilterWaitBl
<1>6. CASE FilterWaitCb(p)
  <2>1. SemType'
    BY <1>0, <1>6, TakeType, SemNames, ConstantTypes DEF FilterWaitCb
  <2>2. FilterType'
    <3>1. "inputs" \in FilterPcs /\ "inputs" \in WorkPcs
      BY DEF FilterPcs, WorkPcs
    <3> QED
      BY <1>0, <3>1, <1>6, GotoType, SynchType DEF FilterWaitCb, StartBlock
  <2> QED
    BY <1>6, <2>1, <2>2, Unchanged DEF TypeOK, FilterWaitCb
<1>7. CASE FilterInputs(p)
  <2>1. FilterType'
    BY <1>0, <1>7, SynchType DEF FilterInputs, WorkPcs
  <2>2. MemType'
    <3> DEFINE raw == mem.in[FilterBuf(flt[p].block)]
               new == (IF BlockingIn THEN {raw.bl} ELSE {}) \cup
                      (IF CallbackIn THEN {raw.cb} ELSE {})
    <3>1. FilterBuf(flt[p].block) \in 0 .. 1
      BY <1>0 DEF FilterType, FilterBuf
    <3>2. raw \in [bl : Data, cb : Data]
      BY <1>0, <3>1 DEF MemType
    <3>3. new \in SUBSET Data
      BY <3>2
    <3>4. mem' = [mem EXCEPT !.freq_in[p] = new]
      BY <1>7 DEF FilterInputs
    <3> HIDE DEF new, raw
    <3> QED
      BY <1>0, <3>3, <3>4 DEF MemType
  <2> QED
    BY <1>7, <2>1, <2>2, Unchanged DEF TypeOK, FilterInputs
<1>8. CASE FilterConvolve(p)
  <2>1. FilterType'
    BY <1>0, <1>8, SynchType DEF FilterConvolve, WorkPcs
  <2>2. MemType'
    BY <1>0, <1>8 DEF FilterConvolve, MemType
  <2> QED
    BY <1>8, <2>1, <2>2, Unchanged DEF TypeOK, FilterConvolve
<1>9. CASE FilterOutputs(p)
  <2>1. FilterType'
    BY <1>0, <1>9, GotoType DEF FilterOutputs, FilterPcs
  <2>2. MemType'
    <3> DEFINE new == UNION {mem.freq_out[q] : q \in Proc}
               b == FilterBuf(flt[p].block)
    <3>1. b \in 0 .. 1
      BY <1>0 DEF FilterType, FilterBuf
    <3>2. new \in SUBSET Data
      BY <1>0 DEF MemType
    <3>3. mem' = [mem EXCEPT !.out[b][p] = new]
      BY <1>9 DEF FilterOutputs
    <3> HIDE DEF new, b
    <3> QED
      BY <1>0, <3>1, <3>2, <3>3 DEF MemType
  <2> QED
    BY <1>9, <2>1, <2>2, Unchanged DEF TypeOK, FilterOutputs
<1>10. CASE FilterPostOutput(p)
  <2>1. SemType'
    BY <1>0, <1>10, PostAllType, SemNames DEF FilterPostOutput
  <2>2. FilterType'
    <3>1. flt[p].block + 1 \in Nat /\ FirstWait \in FilterPcs
      BY <1>0 DEF FilterType, FirstWait, FilterPcs
    <3>2. flt' = [flt EXCEPT ![p].pc = FirstWait, ![p].block = flt[p].block + 1]
      BY <1>10 DEF FilterPostOutput
    <3> QED
      BY <1>0, <3>1, <3>2 DEF FilterType
  <2> QED
    BY <1>10, <2>1, <2>2, Unchanged DEF TypeOK, FilterPostOutput
<1> QED
  BY <1>1, <1>2, <1>3, <1>4, <1>5, <1>6, <1>7, <1>8, <1>9, <1>10 DEF Filter

-----------------------------------------------------------------------------
(* Callback thread *)

LEMMA CallbackTypes == ASSUME TypeOK, UNCHANGED conf, Callback PROVE TypeOK'
<1>0. conf \in Configs /\ SemType /\ BarrierType /\ InputType /\ OutputType /\
      FilterType /\ CallbackType /\ EofType /\ MemType /\ LogType /\ exited \in BOOLEAN
  BY DEF TypeOK
<1>1. CASE CallbackCall
  <2>1. CallbackType'
    <3> DEFINE a == IF cb.ret # 0 THEN "finished_event"
                    ELSE IF CallbackIn THEN "in_copy" ELSE "out_lock"
               k == IF BlockingIn THEN cb.calls ELSE cb.calls + 1
    <3>1. a \in CallbackPcs /\ k \in Nat
      BY <1>0 DEF CallbackType, CallbackPcs
    <3>2. cb' = [cb EXCEPT !.pc = a, !.calls = k]
      BY <1>1 DEF CallbackCall
    <3> HIDE DEF a, k
    <3> QED
      BY <1>0, <3>1, <3>2 DEF CallbackType
  <2> QED
    BY <1>1, <2>1, Unchanged DEF TypeOK, CallbackCall
<1>2. CASE CallbackInCopy
  <2>1. CallbackType'
    <3>1. Ratio \in Nat \ {0} /\ 1 - cb.in_cur \in 0 .. 1
      BY <1>0, ConstantTypes DEF CallbackType
    <3>2. cb.in_left # 1 => cb.in_left - 1 \in Nat \ {0}
      BY <1>0 DEF CallbackType
    <3>3. AfterInput \in CallbackPcs /\ "in_init" \in CallbackPcs
      BY DEF AfterInput, CallbackPcs
    <3>4. CASE cb.in_left = 1
      <4>1. cb' = [cb EXCEPT !.pc = "in_init", !.in_left = Ratio, !.in_cur = 1 - cb.in_cur]
        BY <1>2, <3>4 DEF CallbackInCopy
      <4> QED
        BY <1>0, <4>1, <3>1, <3>3 DEF CallbackType
    <3>5. CASE cb.in_left # 1
      <4>1. cb' = [cb EXCEPT !.pc = AfterInput, !.in_left = cb.in_left - 1]
        BY <1>2, <3>5 DEF CallbackInCopy
      <4> QED
        BY <1>0, <4>1, <3>2, <3>3, <3>5 DEF CallbackType
    <3> QED
      BY <3>4, <3>5
  <2>2. MemType'
    BY <1>0, <1>2 DEF CallbackInCopy, MemType, CallbackType, StoreCb, Data
  <2> QED
    BY <1>2, <2>1, <2>2, Unchanged DEF TypeOK, CallbackInCopy
<1>3. CASE CallbackInit
  <2>1. SemType'
    <3>1. (IF BlockingIn /\ ~cb.isinit THEN 1 ELSE 0) \in Nat
      OBVIOUS
    <3> QED
      BY <1>0, <3>1, <1>3, PostType, SemNames DEF CallbackInit
  <2>2. CallbackType'
    BY <1>0, <1>3 DEF CallbackInit, CallbackType, CallbackPcs
  <2> QED
    BY <1>3, <2>1, <2>2, Unchanged DEF TypeOK, CallbackInit
<1>4. CASE CallbackInWait
  <2>1. SemType'
    <3>1. (IF BlockingOut THEN 1 ELSE 0) \in Nat
      OBVIOUS
    <3> QED
      BY <1>0, <3>1, <1>4, TakeType, SemNames DEF CallbackInWait
  <2>2. CallbackType'
    BY <1>0, <1>4 DEF CallbackInWait, CallbackType, CallbackPcs
  <2> QED
    BY <1>4, <2>1, <2>2, Unchanged DEF TypeOK, CallbackInWait
<1>5. CASE CallbackInPost
  <2>1. SemType'
    BY <1>0, <1>5, PostType, SemNames, ConstantTypes DEF CallbackInPost
  <2>2. CallbackType'
    <3>1. cb.in_index + 1 \in Nat
      BY <1>0 DEF CallbackType
    <3>2. AfterInput \in CallbackPcs
      BY DEF AfterInput, CallbackPcs
    <3> QED
      BY <1>0, <3>1, <3>2, <1>5 DEF CallbackInPost, CallbackType
  <2> QED
    BY <1>5, <2>1, <2>2, Unchanged DEF TypeOK, CallbackInPost
<1>6. CASE CallbackOutLock
  <2>1. CallbackType'
    <3>1. Ratio \in Int /\ "out_init" \in CallbackPcs /\ "out_copy" \in CallbackPcs
      BY <1>0, ConstantTypes DEF CallbackPcs
    <3>2. \/ cb' = [cb EXCEPT !.pc = "out_init", !.locked = TRUE, !.out_left = Ratio]
          \/ cb' = [cb EXCEPT !.pc = "out_copy", !.locked = TRUE]
      BY <1>6 DEF CallbackOutLock
    <3> QED
      BY <1>0, <3>1, <3>2 DEF CallbackType
  <2> QED
    BY <1>6, <2>1, Unchanged DEF TypeOK, CallbackOutLock
<1>7. CASE CallbackOutWait
  <2>1. SemType'
    BY <1>0, <1>7, TakeType, SemNames, ConstantTypes DEF CallbackOutWait
  <2>2. CallbackType'
    BY <1>0, <1>7 DEF CallbackOutWait, CallbackType, CallbackPcs
  <2> QED
    BY <1>7, <2>1, <2>2, Unchanged DEF TypeOK, CallbackOutWait
<1>8. CASE CallbackOutPost
  <2>1. SemType'
    <3>1. (IF BlockingIn THEN 1 ELSE 0) \in Nat
      OBVIOUS
    <3> QED
      BY <1>0, <3>1, <1>8, PostType, SemNames DEF CallbackOutPost
  <2>2. CallbackType'
    <3>1. cb.out_index + 1 \in Nat
      BY <1>0 DEF CallbackType
    <3> QED
      BY <1>0, <3>1, <1>8 DEF CallbackOutPost, CallbackType, CallbackPcs
  <2> QED
    BY <1>8, <2>1, <2>2, Unchanged DEF TypeOK, CallbackOutPost
<1>9. CASE CallbackOutCopy
  <2>1. CallbackType'
    <3> DEFINE filling == cb.fill # 0
               frames  == LastFrames
               ret     == Returned(frames)
               used_up == ~filling /\ cb.out_left = 1
               rest    == IF frames > BlockFrames THEN frames - BlockFrames ELSE frames
    <3>1. frames \in Int
      BY <1>0 DEF EofType, CallbackType, LastFrames
    <3>2. ret \in Int /\ rest \in Int
      BY <1>0, <3>1, ConstantTypes DEF Returned
    <3>3. PcOnReturn(ret) \in CallbackPcs
      BY DEF PcOnReturn, CallbackPcs
    <3>4. (IF filling THEN cb.fill - 1 ELSE cb.fill) \in Nat
      BY <1>0 DEF CallbackType
    <3>5. (IF filling THEN cb.out_left ELSE cb.out_left - 1) \in Int
      BY <1>0 DEF CallbackType
    <3>6. (IF used_up THEN 1 - cb.out_cur ELSE cb.out_cur) \in 0 .. 1
      BY <1>0 DEF CallbackType
    <3>7. cb' = [cb EXCEPT !.pc = PcOnReturn(ret), !.locked = FALSE,
                           !.fill = IF filling THEN cb.fill - 1 ELSE cb.fill,
                           !.out_left = IF filling THEN cb.out_left ELSE cb.out_left - 1,
                           !.out_cur = IF used_up THEN 1 - cb.out_cur ELSE cb.out_cur,
                           !.frames = rest, !.ret = ret]
      BY <1>9 DEF CallbackOutCopy
    <3> HIDE DEF filling, frames, ret, used_up, rest
    <3> QED
      BY <1>0, <3>2, <3>3, <3>4, <3>5, <3>6, <3>7 DEF CallbackType
  <2>2. LogType'
    <3> DEFINE s == IF cb.fill # 0 THEN {} ELSE Contents(cb.out_cur)
    <3>1. s \in SUBSET Data
      BY <1>0, ContentsType DEF CallbackType
    <3>2. log' = [log EXCEPT !.cb = Append(log.cb, s)]
      BY <1>9 DEF CallbackOutCopy
    <3> HIDE DEF s
    <3>3. Append(log.cb, s) \in Seq(SUBSET Data)
      BY <1>0, <3>1 DEF LogType
    <3> QED
      BY <1>0, <3>2, <3>3 DEF LogType
  <2> QED
    BY <1>9, <2>1, <2>2, Unchanged DEF TypeOK, CallbackOutCopy
<1>10. CASE CallbackFinished
  <2>1. CallbackType' /\ exited' \in BOOLEAN
    BY <1>0, <1>10 DEF CallbackFinished, CallbackType, CallbackPcs, OutputType
  <2> QED
    BY <1>10, <2>1, Unchanged DEF TypeOK, CallbackFinished
<1> QED
  BY <1>1, <1>2, <1>3, <1>4, <1>5, <1>6, <1>7, <1>8, <1>9, <1>10 DEF Callback

-----------------------------------------------------------------------------

LEMMA TypeStep == TypeOK /\ [Next]_vars => TypeOK'
<1> SUFFICES ASSUME TypeOK, [Next]_vars PROVE TypeOK'
  OBVIOUS
<1>1. CASE Running(Input)
  BY <1>1, InputTypes DEF Running
<1>2. CASE Running(Output)
  BY <1>2, OutputTypes DEF Running
<1>3. CASE Running(Callback)
  BY <1>3, CallbackTypes DEF Running
<1>4. ASSUME NEW p \in Proc, Running(Filter(p)) PROVE TypeOK'
  BY <1>4, FilterTypes DEF Running
<1>5. CASE UNCHANGED vars
  BY <1>5, Unchanged DEF TypeOK, vars
<1> QED
  BY <1>1, <1>2, <1>3, <1>4, <1>5 DEF Next, Done


\* The state of the pipeline is well typed in every reachable state, for any number
\* of filter processes and any combination of devices: in particular no wait ever
\* takes a token that was not posted, and no buffer index leaves the pair of
\* buffers.
THEOREM TypeCorrect == Spec => []TypeOK
<1> QED
  BY InitType, TypeStep, PTL DEF Spec

-----------------------------------------------------------------------------
(***************************************************************************)
(* The frequency-domain buffers of Pipeline have one owner at a time, for  *)
(* every number of filter processes and every configuration.               *)
(*                                                                         *)
(* Pipeline keeps no count of the synchronisations a filter process has    *)
(* been through, but its place in the code and its block number determine  *)
(* it (Left, Entered).  The tokens in f2f[p] are then those of the other   *)
(* processes that have entered the round p is in or goes to next, and of   *)
(* those that have entered the one after: nobody can be further ahead,     *)
(* because nobody leaves a round that somebody has not entered.            *)
(***************************************************************************)

\* Calls of synch_filter_processes() per block.
Rounds == IF BlockStart THEN 3 ELSE 2

\* Synchronisations left before a place in the code, counted from the start of the
\* block; the one of the initialisation is counted with every block.
Before(w) ==
    CASE w = "ready"    -> 0
      [] w = "inputs"   -> 1
      [] w = "convolve" -> Rounds - 1
      [] OTHER          -> Rounds
Place(f) ==
    CASE f.pc = "wait_init"                    -> 0
      [] f.pc \in {"synch_post", "synch_wait"} -> Before(f.next)
      [] f.pc \in {"ready", "wait_bl", "wait_cb"} -> 1
      [] f.pc = "inputs"                       -> Rounds - 1
      [] f.pc = "convolve"                     -> Rounds
      [] OTHER                                 -> Rounds + 1

\* Synchronisations a filter process has left, and has entered (posted).
LeftBy(f) == Rounds * f.block + Place(f)
EnteredBy(f) == LeftBy(f) + (IF f.pc = "synch_wait" THEN 1 ELSE 0)
Left(p) == LeftBy(flt[p])
Entered(p) == EnteredBy(flt[p])

\* The other processes that have entered the k-th round after those p has left.
Ahead(p, k) == {q \in Proc \ {p} : Entered(q) >= Left(p) + k}

\* The synchronisation before the inputs is there for block_start listeners only.
StartInv ==
    \A p \in Proc :
        flt[p].pc \in {"synch_post", "synch_wait"} /\ flt[p].next = "inputs" => BlockStart

TokenInv ==
    \A p \in Proc : f2f[p] = Cardinality(Ahead(p, 1)) + Cardinality(Ahead(p, 2))

EnteredInv == \A p, q \in Proc : Left(p) <= Entered(q)

SyncInv == TypeOK /\ StartInv /\ TokenInv /\ EnteredInv

-----------------------------------------------------------------------------
(* Counting *)

LEMMA RoundsType == Rounds \in {2, 3} /\ Rounds \in Nat
  BY DEF Rounds

LEMMA LeftType ==
    ASSUME FilterType, NEW p \in Proc
    PROVE  /\ Left(p) \in Nat /\ Entered(p) \in Nat
           /\ Entered(p) = Left(p) + (IF flt[p].pc = "synch_wait" THEN 1 ELSE 0)
<1>1. flt[p].block \in Nat
  BY DEF FilterType
<1>2. Rounds * flt[p].block \in Nat
  <2>1. Rounds = 2 \/ Rounds = 3
    BY RoundsType
  <2> QED
    BY <1>1, <2>1
<1>3. Before(flt[p].next) \in Nat
  BY RoundsType DEF Before
<1>4. Place(flt[p]) \in Nat
  BY <1>3, RoundsType DEF Place
<1>5. Left(p) = Rounds * flt[p].block + Place(flt[p])
  BY DEF Left, LeftBy
<1>6. Entered(p) = Left(p) + (IF flt[p].pc = "synch_wait" THEN 1 ELSE 0)
  BY DEF Left, Entered, EnteredBy
<1> QED
  BY <1>2, <1>4, <1>5, <1>6

LEMMA ProcFinite ==
    ASSUME conf \in Configs
    PROVE  /\ IsFiniteSet(Proc)
           /\ \A p \in Proc : Cardinality(Proc \ {p}) = n_processes - 1
<1>1. n_processes \in Nat \ {0}
  BY ConstantTypes
<1>2. IsFiniteSet(0 .. n_processes - 1) /\ Cardinality(0 .. n_processes - 1) = n_processes
  BY <1>1, FS_Interval
<1>3. IsFiniteSet(Proc) /\ Cardinality(Proc) = n_processes
  BY <1>2 DEF Proc
<1> QED
  BY <1>1, <1>3, FS_RemoveElement

LEMMA AheadFinite ==
    ASSUME conf \in Configs, NEW p \in Proc, NEW k \in Nat
    PROVE  /\ IsFiniteSet(Ahead(p, k)) /\ Cardinality(Ahead(p, k)) \in Nat
           /\ Cardinality(Ahead(p, k)) <= n_processes - 1
           /\ Cardinality(Ahead(p, k)) = n_processes - 1 => Ahead(p, k) = Proc \ {p}
           /\ Cardinality(Ahead(p, k)) = 0 <=> Ahead(p, k) = {}
<1>1. IsFiniteSet(Proc \ {p}) /\ Cardinality(Proc \ {p}) = n_processes - 1
  BY ProcFinite, FS_RemoveElement
<1>2. Ahead(p, k) \in SUBSET (Proc \ {p})
  BY DEF Ahead
<1> QED
  BY <1>1, <1>2, FS_Subset, FS_CardinalityType, FS_EmptySet

\* Nobody is more than two rounds further than a process that has not left, and if
\* somebody has not entered a round nobody has entered the one after it.
LEMMA NobodyFurther ==
    ASSUME FilterType, EnteredInv, NEW p \in Proc
    PROVE  /\ Ahead(p, 3) = {}
           /\ Ahead(p, 1) # Proc \ {p} => Ahead(p, 2) = {}
           /\ flt[p].pc # "synch_wait" => Ahead(p, 2) = {}
<1>1. \A q \in Proc : /\ Left(q) \in Nat /\ Entered(q) \in Nat
                      /\ Entered(q) <= Left(q) + 1
                      /\ flt[q].pc # "synch_wait" => Entered(q) = Left(q)
  BY LeftType
<1>2. \A q, r \in Proc : Left(q) <= Entered(r)
  BY DEF EnteredInv
<1>3. Ahead(p, 3) = {}
  BY <1>1, <1>2 DEF Ahead
<1>4. flt[p].pc # "synch_wait" => Ahead(p, 2) = {}
  BY <1>1, <1>2 DEF Ahead
<1>5. ASSUME NEW q \in Proc \ {p}, q \notin Ahead(p, 1), NEW r \in Ahead(p, 2) PROVE FALSE
  <2>1. r \in Proc /\ Entered(r) >= Left(p) + 2
    BY DEF Ahead
  <2>2. Left(r) >= Left(p) + 1
    BY <1>1, <2>1
  <2>3. Entered(q) >= Left(p) + 1
    BY <1>1, <1>2, <2>1, <2>2
  <2> QED
    BY <1>5, <2>3 DEF Ahead
<1>6. Ahead(p, 1) \subseteq Proc \ {p}
  BY DEF Ahead
<1> QED
  BY <1>3, <1>4, <1>5, <1>6

-----------------------------------------------------------------------------
(* How a filter process gets on *)

\* It is somewhere between two synchronisations.
Stays(p) ==
    /\ UNCHANGED <<conf, f2f>>
    /\ \A q \in Proc : Left(q)' = Left(q) /\ Entered(q)' = Entered(q)

LEMMA StaysInv ==
    ASSUME TypeOK, TokenInv, EnteredInv, NEW p \in Proc, Stays(p)
    PROVE  TokenInv' /\ EnteredInv'
<1>1. \A q \in Proc, k \in {1, 2} : Ahead(q, k)' = Ahead(q, k)
  BY DEF Stays, Ahead
<1>2. TokenInv'
  BY <1>1 DEF Stays, TokenInv
<1>3. EnteredInv'
  BY DEF Stays, EnteredInv
<1> QED
  BY <1>2, <1>3

\* The places of the other processes do not change.
LEMMA OthersStay ==
    ASSUME FilterType, UNCHANGED conf, NEW p \in Proc,
           NEW f, flt' = [flt EXCEPT ![p] = f],
           NEW q \in Proc, q # p
    PROVE  Left(q)' = Left(q) /\ Entered(q)' = Entered(q) /\ flt'[q] = flt[q]
<1>1. flt'[q] = flt[q]
  BY DEF FilterType
<1>2. Rounds' = Rounds
  BY DEF Rounds, BlockStart
<1> QED
  BY <1>1, <1>2 DEF Left, Entered, LeftBy, EnteredBy, Place, Before

\* A filter process that moves on without entering or leaving a synchronisation.
LEMMA MovesOn ==
    ASSUME TypeOK, TokenInv, EnteredInv, UNCHANGED <<conf, f2f>>,
           NEW p \in Proc, NEW f, flt' = [flt EXCEPT ![p] = f],
           f.pc # "synch_wait", flt[p].pc # "synch_wait",
           LeftBy(f) = LeftBy(flt[p])
    PROVE  TokenInv' /\ EnteredInv'
<1>0. FilterType
  BY DEF TypeOK
<1>1. flt'[p] = f
  BY <1>0 DEF FilterType
<1>2. Rounds' = Rounds
  BY DEF Rounds, BlockStart
<1>3. Left(p)' = LeftBy(f)
  BY <1>1, <1>2 DEF Left, LeftBy, Place, Before
<1>4. Entered(p)' = LeftBy(f) /\ Entered(p) = Left(p)
  <2>1. Entered(p)' = Left(p)' + 0
    BY <1>1 DEF Left, Entered, EnteredBy
  <2>2. Entered(p) = Left(p) + 0
    BY DEF Left, Entered, EnteredBy
  <2>3. Left(p) \in Nat
    BY <1>0, LeftType
  <2> QED
    BY <1>3, <2>1, <2>2, <2>3 DEF Left
<1>5. Left(p)' = Left(p) /\ Entered(p)' = Entered(p)
  BY <1>3, <1>4 DEF Left
<1>6. \A q \in Proc : Left(q)' = Left(q) /\ Entered(q)' = Entered(q)
  BY <1>0, <1>5, OthersStay
<1> QED
  BY <1>6, StaysInv DEF Stays

\* Steps of the other threads.
LEMMA OthersStep ==
    ASSUME TypeOK, StartInv, TokenInv, EnteredInv, UNCHANGED <<conf, f2f, flt>>
    PROVE  StartInv' /\ TokenInv' /\ EnteredInv'
<1>1. Rounds' = Rounds /\ BlockStart' = BlockStart
  BY DEF Rounds, BlockStart
<1>2. \A q \in Proc : Left(q)' = Left(q) /\ Entered(q)' = Entered(q)
  BY <1>1 DEF Left, Entered, LeftBy, EnteredBy, Place, Before
<1>3. StartInv'
  BY <1>1 DEF StartInv
<1>4. Proc # {}
  <2>1. n_processes \in Nat \ {0}
    BY ConstantTypes DEF TypeOK
  <2> QED
    BY <2>1 DEF Proc
<1> QED
  BY <1>2, <1>3, <1>4, StaysInv DEF Stays

-----------------------------------------------------------------------------
(* Entering and leaving a synchronisation *)

LEMMA EnterStep ==
    ASSUME TypeOK, TokenInv, EnteredInv, UNCHANGED conf, NEW p \in Proc, FilterSynchPost(p)
    PROVE  TokenInv' /\ EnteredInv'
<1>0. FilterType /\ BarrierType /\ conf \in Configs
  BY DEF TypeOK
<1> DEFINE f == [flt[p] EXCEPT !.pc = "synch_wait"]
<1>1. /\ flt' = [flt EXCEPT ![p] = f] /\ flt'[p] = f
      /\ flt[p].pc = "synch_post" /\ f.pc = "synch_wait"
      /\ f.next = flt[p].next /\ f.block = flt[p].block
  BY <1>0 DEF FilterSynchPost, Goto, FilterType
<1> HIDE DEF f
<1>2. Rounds' = Rounds
  BY DEF Rounds, BlockStart
<1>3. Left(p)' = Left(p)
  BY <1>1, <1>2 DEF Left, LeftBy, Place, Before
<1>4. Entered(p)' = Left(p) + 1
  BY <1>1, <1>3 DEF Left, Entered, EnteredBy
<1>5. Entered(p) = Left(p) /\ Left(p) \in Nat
  BY <1>0, <1>1, LeftType
<1>6. \A q \in Proc : q # p => Left(q)' = Left(q) /\ Entered(q)' = Entered(q)
  BY <1>0, <1>1, OthersStay
<1>7. \A q \in Proc : /\ Left(q) \in Nat /\ Entered(q) \in Nat
                      /\ Entered(q) <= Left(q) + 1
  BY <1>0, LeftType
<1>8. \A q, r \in Proc : Left(q) <= Entered(r)
  BY DEF EnteredInv
<1>9. EnteredInv'
  <2>1. \A q, r \in Proc : Left(q)' = Left(q) /\ Entered(r)' >= Entered(r)
    BY <1>3, <1>4, <1>5, <1>6, <1>7
  <2>2. \A r \in Proc : Entered(r)' \in Nat
    BY <1>4, <1>5, <1>6, <1>7
  <2> QED
    BY <1>7, <1>8, <2>1, <2>2 DEF EnteredInv
<1>10. ASSUME NEW q \in Proc PROVE f2f'[q] = Cardinality(Ahead(q, 1)') + Cardinality(Ahead(q, 2)')
  <2>1. f2f[q] = Cardinality(Ahead(q, 1)) + Cardinality(Ahead(q, 2))
    BY DEF TokenInv
  <2>2. CASE q = p
    <3>1. Ahead(q, 1)' = Ahead(q, 1) /\ Ahead(q, 2)' = Ahead(q, 2)
      BY <1>3, <1>6, <2>2 DEF Ahead
    <3>2. f2f'[q] = f2f[q]
      BY <1>0, <2>2 DEF FilterSynchPost, BarrierType
    <3> QED
      BY <2>1, <3>1, <3>2
  <2>3. CASE q # p
    <3>1. f2f'[q] = f2f[q] + 1
      BY <1>0, <2>3 DEF FilterSynchPost, BarrierType
    <3>2. /\ IsFiniteSet(Ahead(q, 1)) /\ Cardinality(Ahead(q, 1)) \in Nat
          /\ IsFiniteSet(Ahead(q, 2)) /\ Cardinality(Ahead(q, 2)) \in Nat
      BY <1>0, AheadFinite
    <3>3. Left(q)' = Left(q)
      BY <1>6, <2>3
    <3>4. Left(p) = Left(q) \/ Left(p) = Left(q) + 1
      BY <1>5, <1>7, <1>8
    <3>5. CASE Left(p) = Left(q)
      <4>1. Ahead(q, 1)' = Ahead(q, 1) \cup {p} /\ p \notin Ahead(q, 1)
        BY <1>4, <1>5, <1>6, <1>7, <2>3, <3>3, <3>5 DEF Ahead
      <4>2. Ahead(q, 2)' = Ahead(q, 2)
        BY <1>4, <1>5, <1>6, <1>7, <2>3, <3>3, <3>5 DEF Ahead
      <4>3. Cardinality(Ahead(q, 1)') = Cardinality(Ahead(q, 1)) + 1
        BY <3>2, <4>1, FS_AddElement
      <4> QED
        BY <2>1, <3>1, <3>2, <4>2, <4>3
    <3>6. CASE Left(p) = Left(q) + 1
      <4>1. Ahead(q, 2)' = Ahead(q, 2) \cup {p} /\ p \notin Ahead(q, 2)
        BY <1>4, <1>5, <1>6, <1>7, <2>3, <3>3, <3>6 DEF Ahead
      <4>2. Ahead(q, 1)' = Ahead(q, 1)
        BY <1>4, <1>5, <1>6, <1>7, <2>3, <3>3, <3>6 DEF Ahead
      <4>3. Cardinality(Ahead(q, 2)') = Cardinality(Ahead(q, 2)) + 1
        BY <3>2, <4>1, FS_AddElement
      <4> QED
        BY <2>1, <3>1, <3>2, <4>2, <4>3
    <3> QED
      BY <3>4, <3>5, <3>6
  <2> QED
    BY <2>2, <2>3
<1>11. TokenInv'
  BY <1>10 DEF TokenInv
<1> QED
  BY <1>9, <1>11

LEMMA LeaveStep ==
    ASSUME TypeOK, StartInv, TokenInv, EnteredInv, UNCHANGED conf,
           NEW p \in Proc, FilterSynchWait(p)
    PROVE  TokenInv' /\ EnteredInv'
<1>0. FilterType /\ BarrierType /\ conf \in Configs /\ n_processes \in Nat \ {0}
  BY ConstantTypes DEF TypeOK
<1> DEFINE f == [flt[p] EXCEPT !.pc = flt[p].next]
<1>1. /\ flt' = [flt EXCEPT ![p] = f] /\ flt'[p] = f
      /\ flt[p].pc = "synch_wait" /\ flt[p].next \in WorkPcs
      /\ f.pc = flt[p].next /\ f.next = flt[p].next /\ f.block = flt[p].block
      /\ f2f[p] >= n_processes - 1
      /\ f2f' = [f2f EXCEPT ![p] = f2f[p] - (n_processes - 1)]
  BY <1>0 DEF FilterSynchWait, Goto, FilterType
<1> HIDE DEF f
<1>2. Rounds' = Rounds /\ (flt[p].next = "inputs" => Rounds = 3)
  BY <1>1 DEF Rounds, BlockStart, StartInv
<1>3. Place(f) = Before(flt[p].next) + 1 /\ f.pc # "synch_wait"
  BY <1>1, <1>2, RoundsType DEF Place, Before, WorkPcs
<1>4. Place(flt[p]) = Before(flt[p].next)
  BY <1>1 DEF Place
<1>5. Left(p) \in Nat /\ Entered(p) = Left(p) + 1
  BY <1>0, <1>1, LeftType
<1>6. Left(p)' = Left(p) + 1
  <2>1. Left(p)' = Rounds * flt[p].block + Place(f)
    BY <1>1, <1>2 DEF Left, LeftBy, Place, Before
  <2>2. Left(p) = Rounds * flt[p].block + Before(flt[p].next)
    BY <1>4 DEF Left, LeftBy
  <2>3. Rounds * flt[p].block \in Nat
    <3>1. (Rounds = 2 \/ Rounds = 3) /\ flt[p].block \in Nat
      BY <1>0, RoundsType DEF FilterType
    <3> QED
      BY <3>1
  <2>4. Before(flt[p].next) \in Nat
    BY RoundsType DEF Before
  <2> QED
    BY <1>3, <2>1, <2>2, <2>3, <2>4
<1>7. Entered(p)' = Left(p) + 1
  <2>1. Entered(p)' = Left(p)' + 0
    BY <1>1, <1>3 DEF Left, Entered, EnteredBy
  <2> QED
    BY <1>5, <1>6, <2>1
<1>8. \A q \in Proc : q # p => Left(q)' = Left(q) /\ Entered(q)' = Entered(q)
  BY <1>0, <1>1, OthersStay
<1>9. \A q \in Proc : /\ Left(q) \in Nat /\ Entered(q) \in Nat
  BY <1>0, LeftType
<1>10. /\ Cardinality(Ahead(p, 1)) \in Nat /\ Cardinality(Ahead(p, 2)) \in Nat
       /\ Cardinality(Ahead(p, 1)) <= n_processes - 1
       /\ Cardinality(Ahead(p, 1)) = n_processes - 1 => Ahead(p, 1) = Proc \ {p}
       /\ Ahead(p, 2) = {} => Cardinality(Ahead(p, 2)) = 0
  BY <1>0, AheadFinite
<1>11. f2f[p] = Cardinality(Ahead(p, 1)) + Cardinality(Ahead(p, 2))
  BY DEF TokenInv
<1>12. Ahead(p, 3) = {} /\ (Ahead(p, 1) # Proc \ {p} => Ahead(p, 2) = {})
  BY <1>0, NobodyFurther
\* Everybody has entered the round that p leaves.
<1>13. Ahead(p, 1) = Proc \ {p}
  BY <1>0, <1>1, <1>10, <1>11, <1>12
<1>14. EnteredInv'
  <2>1. \A q \in Proc : Entered(q)' >= Left(p) + 1
    BY <1>5, <1>7, <1>8, <1>13 DEF Ahead
  <2>2. \A q, r \in Proc : Left(q) <= Entered(r)
    BY DEF EnteredInv
  <2>3. \A q \in Proc : Entered(q)' = Entered(q)
    BY <1>5, <1>7, <1>8
  <2> QED
    BY <1>6, <1>8, <2>1, <2>2, <2>3 DEF EnteredInv
<1>15. ASSUME NEW q \in Proc PROVE f2f'[q] = Cardinality(Ahead(q, 1)') + Cardinality(Ahead(q, 2)')
  <2>1. CASE q = p
    <3>1. Ahead(p, 1)' = Ahead(p, 2)
      BY <1>5, <1>6, <1>8, <1>9 DEF Ahead
    <3>2. Ahead(p, 2)' = {}
      BY <1>5, <1>6, <1>8, <1>9, <1>12 DEF Ahead
    <3>3. Cardinality(Ahead(p, 1)) = n_processes - 1
      BY <1>0, <1>13, ProcFinite
    <3>4. f2f'[p] = Cardinality(Ahead(p, 2))
      BY <1>0, <1>1, <1>10, <1>11, <3>3 DEF BarrierType
    <3> QED
      BY <1>10, <2>1, <3>1, <3>2, <3>4, FS_EmptySet
  <2>2. CASE q # p
    <3>1. f2f'[q] = f2f[q]
      BY <1>0, <1>1, <2>2 DEF BarrierType
    <3>2. \A r \in Proc : Entered(r)' = Entered(r)
      BY <1>5, <1>7, <1>8
    <3>3. Ahead(q, 1)' = Ahead(q, 1) /\ Ahead(q, 2)' = Ahead(q, 2)
      BY <1>8, <2>2, <3>2 DEF Ahead
    <3> QED
      BY <3>1, <3>3 DEF TokenInv
  <2> QED
    BY <2>1, <2>2
<1>16. TokenInv'
  BY <1>15 DEF TokenInv
<1> QED
  BY <1>14, <1>16

-----------------------------------------------------------------------------
(* The code between two synchronisations *)

LEMMA StartStep ==
    ASSUME FilterType, StartInv, UNCHANGED conf, NEW p \in Proc,
           NEW f, flt' = [flt EXCEPT ![p] = f],
           f.pc \in {"synch_post", "synch_wait"} /\ f.next = "inputs" => BlockStart
    PROVE  StartInv'
<1>1. BlockStart' = BlockStart
  BY DEF BlockStart
<1>2. \A q \in Proc : flt'[q] = IF q = p THEN f ELSE flt[q]
  BY DEF FilterType
<1> QED
  BY <1>1, <1>2 DEF StartInv

LEMMA GotoMoves ==
    ASSUME SyncInv, UNCHANGED <<conf, f2f>>, NEW p \in Proc,
           NEW w \in FilterPcs \ {"synch_post", "synch_wait"}, Goto(p, w),
           flt[p].pc # "synch_wait",
           Place([flt[p] EXCEPT !.pc = w]) = Place(flt[p])
    PROVE  StartInv' /\ TokenInv' /\ EnteredInv'
<1> DEFINE f == [flt[p] EXCEPT !.pc = w]
<1>0. FilterType
  BY DEF SyncInv, TypeOK
<1>1. flt' = [flt EXCEPT ![p] = f] /\ f.pc = w /\ f.block = flt[p].block
  BY <1>0 DEF Goto, FilterType
<1>2. LeftBy(f) = LeftBy(flt[p])
  BY <1>1 DEF LeftBy
<1> HIDE DEF f
<1>3. StartInv'
  BY <1>0, <1>1, StartStep DEF SyncInv
<1>4. TokenInv' /\ EnteredInv'
  BY <1>1, <1>2, MovesOn DEF SyncInv
<1> QED
  BY <1>3, <1>4

LEMMA SynchMoves ==
    ASSUME SyncInv, UNCHANGED <<conf, f2f>>, NEW p \in Proc,
           NEW w \in WorkPcs, Synch(p, w), w = "inputs" => BlockStart,
           flt[p].pc # "synch_wait",
           Before(w) = Place(flt[p])
    PROVE  StartInv' /\ TokenInv' /\ EnteredInv'
<1> DEFINE f == [flt[p] EXCEPT !.pc = "synch_post", !.next = w]
<1>0. FilterType
  BY DEF SyncInv, TypeOK
<1>1. /\ flt' = [flt EXCEPT ![p] = f]
      /\ f.pc = "synch_post" /\ f.next = w /\ f.block = flt[p].block
  BY <1>0 DEF Synch, SynchPc, FilterType
<1>2. LeftBy(f) = LeftBy(flt[p])
  BY <1>1 DEF LeftBy, Place
<1> HIDE DEF f
<1>3. StartInv'
  BY <1>0, <1>1, StartStep DEF SyncInv
<1>4. TokenInv' /\ EnteredInv'
  BY <1>1, <1>2, MovesOn DEF SyncInv
<1> QED
  BY <1>3, <1>4

\* All the input has arrived, and the next synchronisation, if there is one before
\* the inputs, is the block_start one.
LEMMA StartBlockMoves ==
    ASSUME SyncInv, UNCHANGED <<conf, f2f>>, NEW p \in Proc,
           flt[p].pc \in {"wait_bl", "wait_cb"}, StartBlock(p)
    PROVE  StartInv' /\ TokenInv' /\ EnteredInv'
<1>1. Place(flt[p]) = 1
  BY DEF Place
<1>2. CASE BlockStart
  <2>1. Synch(p, "inputs") /\ Before("inputs") = 1
    BY <1>2 DEF StartBlock, Before
  <2> QED
    BY <1>1, <1>2, <2>1, SynchMoves DEF WorkPcs
<1>3. CASE ~BlockStart
  <2>1. Goto(p, "inputs") /\ Rounds = 2
    BY <1>3 DEF StartBlock, Rounds
  <2>2. [flt[p] EXCEPT !.pc = "inputs"].pc = "inputs"
    BY DEF SyncInv, TypeOK, FilterType
  <2>3. Place([flt[p] EXCEPT !.pc = "inputs"]) = 1
    BY <2>1, <2>2 DEF Place
  <2> QED
    BY <1>1, <2>1, <2>3, GotoMoves DEF FilterPcs, WorkPcs
<1> QED
  BY <1>2, <1>3

\* The buffers are swapped: Rounds synchronisations per block have been left, and
\* the one of the initialisation.
LEMMA NextBlockMoves ==
    ASSUME SyncInv, UNCHANGED <<conf, f2f>>, NEW p \in Proc,
           flt[p].pc = "post_output",
           flt' = [flt EXCEPT ![p].pc = FirstWait, ![p].block = @ + 1]
    PROVE  StartInv' /\ TokenInv' /\ EnteredInv'
<1> DEFINE f == [flt[p] EXCEPT !.pc = FirstWait, !.block = @ + 1]
<1>0. FilterType
  BY DEF SyncInv, TypeOK
<1>1. /\ flt' = [flt EXCEPT ![p] = f]
      /\ f.pc \in {"wait_bl", "wait_cb"} /\ f.block = flt[p].block + 1
      /\ flt[p].block \in Nat
  BY <1>0 DEF FirstWait, FilterType
<1> HIDE DEF f
<1>2. Place(f) = 1 /\ Place(flt[p]) = Rounds + 1
  BY <1>1 DEF Place
<1>3. Rounds * (flt[p].block + 1) + 1 = Rounds * flt[p].block + (Rounds + 1)
  <2>1. Rounds = 2 \/ Rounds = 3
    BY RoundsType
  <2> QED
    BY <1>1, <2>1
<1>4. LeftBy(f) = LeftBy(flt[p])
  BY <1>1, <1>2, <1>3 DEF LeftBy
<1>5. StartInv'
  BY <1>0, <1>1, StartStep DEF SyncInv
<1>6. TokenInv' /\ EnteredInv'
  BY <1>1, <1>4, MovesOn DEF SyncInv
<1> QED
  BY <1>5, <1>6

LEMMA FilterBarrier ==
    ASSUME SyncInv, UNCHANGED conf, NEW p \in Proc, Filter(p)
    PROVE  StartInv' /\ TokenInv' /\ EnteredInv'
<1>0. FilterType /\ flt[p].next \in WorkPcs
  BY DEF SyncInv, TypeOK, FilterType
<1>1. CASE FilterSynchPost(p)
  <2>1. StartInv'
    <3> DEFINE f == [flt[p] EXCEPT !.pc = "synch_wait"]
    <3>1. flt' = [flt EXCEPT ![p] = f] /\ f.next = flt[p].next /\ flt[p].pc = "synch_post"
      BY <1>0, <1>1 DEF FilterSynchPost, Goto, FilterType
    <3>2. f.next = "inputs" => BlockStart
      BY <3>1 DEF SyncInv, StartInv
    <3> HIDE DEF f
    <3> QED
      BY <1>0, <3>1, <3>2, StartStep DEF SyncInv
  <2> QED
    BY <1>1, <2>1, EnterStep DEF SyncInv
<1>2. CASE FilterSynchWait(p)
  <2>1. StartInv'
    <3> DEFINE f == [flt[p] EXCEPT !.pc = flt[p].next]
    <3>1. flt' = [flt EXCEPT ![p] = f] /\ f.pc \notin {"synch_post", "synch_wait"}
      BY <1>0, <1>2 DEF FilterSynchWait, Goto, FilterType, WorkPcs
    <3> HIDE DEF f
    <3> QED
      BY <1>0, <3>1, StartStep DEF SyncInv
  <2> QED
    BY <1>2, <2>1, LeaveStep DEF SyncInv
<1>3. CASE FilterWaitInit(p)
  <2>1. flt[p].pc = "wait_init" /\ Synch(p, "ready") /\ UNCHANGED f2f
    BY <1>3 DEF FilterWaitInit
  <2>2. Place(flt[p]) = 0 /\ Before("ready") = 0
    BY <2>1 DEF Place, Before
  <2> QED
    BY <2>1, <2>2, SynchMoves DEF WorkPcs
<1>4. CASE FilterReady(p)
  <2>1. flt[p].pc = "ready" /\ Goto(p, FirstWait) /\ UNCHANGED f2f
    BY <1>4 DEF FilterReady
  <2>2. FirstWait \in {"wait_bl", "wait_cb"}
    BY DEF FirstWait
  <2>3. [flt[p] EXCEPT !.pc = FirstWait].pc = FirstWait
    BY <1>0 DEF FilterType
  <2>4. Place(flt[p]) = 1 /\ Place([flt[p] EXCEPT !.pc = FirstWait]) = 1
    BY <2>1, <2>2, <2>3 DEF Place
  <2> QED
    BY <2>1, <2>2, <2>4, GotoMoves DEF FilterPcs
<1>5. CASE FilterWaitBl(p)
  <2>1. flt[p].pc = "wait_bl" /\ UNCHANGED f2f
    BY <1>5 DEF FilterWaitBl
  <2>2. CASE CallbackIn
    <3>1. Goto(p, "wait_cb")
      BY <1>5, <2>2 DEF FilterWaitBl
    <3>2. [flt[p] EXCEPT !.pc = "wait_cb"].pc = "wait_cb"
      BY <1>0 DEF FilterType
    <3>3. Place(flt[p]) = 1 /\ Place([flt[p] EXCEPT !.pc = "wait_cb"]) = 1
      BY <2>1, <3>2 DEF Place
    <3> QED
      BY <2>1, <3>1, <3>3, GotoMoves DEF FilterPcs
  <2>3. CASE ~CallbackIn
    BY <1>5, <2>1, <2>3, StartBlockMoves DEF FilterWaitBl
  <2> QED
    BY <2>2, <2>3
<1>6. CASE FilterWaitCb(p)
  BY <1>6, StartBlockMoves DEF FilterWaitCb
<1>7. CASE FilterInputs(p)
  <2>1. flt[p].pc = "inputs" /\ Synch(p, "convolve") /\ UNCHANGED f2f
    BY <1>7 DEF FilterInputs
  <2>2. Place(flt[p]) = Rounds - 1 /\ Before("convolve") = Rounds - 1
    BY <2>1 DEF Place, Before
  <2> QED
    BY <2>1, <2>2, SynchMoves DEF WorkPcs
<1>8. CASE FilterConvolve(p)
  <2>1. flt[p].pc = "convolve" /\ Synch(p, "outputs") /\ UNCHANGED f2f
    BY <1>8 DEF FilterConvolve
  <2>2. Place(flt[p]) = Rounds /\ Before("outputs") = Rounds
    BY <2>1 DEF Place, Before
  <2> QED
    BY <2>1, <2>2, SynchMoves DEF WorkPcs
<1>9. CASE FilterOutputs(p)
  <2>1. flt[p].pc = "outputs" /\ Goto(p, "post_output") /\ UNCHANGED f2f
    BY <1>9 DEF FilterOutputs
  <2>2. [flt[p] EXCEPT !.pc = "post_output"].pc = "post_output"
    BY <1>0 DEF FilterType
  <2>3. Place(flt[p]) = Rounds + 1 /\ Place([flt[p] EXCEPT !.pc = "post_output"]) = Rounds + 1
    BY <2>1, <2>2 DEF Place
  <2> QED
    BY <2>1, <2>3, GotoMoves DEF FilterPcs
<1>10. CASE FilterPostOutput(p)
  BY <1>10, NextBlockMoves DEF FilterPostOutput
<1> QED
  BY <1>1, <1>2, <1>3, <1>4, <1>5, <1>6, <1>7, <1>8, <1>9, <1>10 DEF Filter

-----------------------------------------------------------------------------

LEMMA InitSync == Init => SyncInv
<1> SUFFICES ASSUME Init PROVE SyncInv
  OBVIOUS
<1>1. TypeOK
  BY InitType
<1>2. \A p \in Proc : /\ flt[p].pc = "wait_init" /\ flt[p].block = 0
                      /\ f2f[p] = 0
  BY DEF Init
<1>3. ASSUME NEW p \in Proc PROVE Left(p) = 0 /\ Entered(p) = 0
  <2>1. Place(flt[p]) = 0
    BY <1>2 DEF Place
  <2>2. Rounds * 0 = 0
    BY RoundsType
  <2>3. Left(p) = 0
    BY <1>2, <2>1, <2>2 DEF Left, LeftBy
  <2> QED
    BY <1>2, <2>3 DEF Left, Entered, EnteredBy
<1>4. StartInv
  BY <1>2 DEF StartInv
<1>5. EnteredInv
  BY <1>3 DEF EnteredInv
<1>6. \A p \in Proc : Ahead(p, 1) = {} /\ Ahead(p, 2) = {}
  BY <1>3 DEF Ahead
<1>7. TokenInv
  BY <1>2, <1>6, FS_EmptySet DEF TokenInv
<1> QED
  BY <1>1, <1>4, <1>5, <1>7 DEF SyncInv

\* The other threads do not touch the barrier or the filter processes.
LEMMA OthersKeep == Input \/ Output \/ Callback => UNCHANGED <<f2f, flt>>
<1>1. Input => UNCHANGED <<f2f, flt>>
  BY DEF Input, MainPostInit, MainWaitInit, InputSynchPost, InputSynchWait,
         InputBegin, InputEnd, InputEofFrames, InputEofIndex, InputTakeOutput,
         InputTakeExtra, InputPostFilter
<1>2. Output => UNCHANGED <<f2f, flt>>
  BY DEF Output, OutputStart, OutputWaitInit, OutputSynchWait, OutputPrime,
         OutputPrime2, OutputBegin, OutputSynchPost, OutputFillEnd, OutputWaitFilter,
         OutputPostInput, OutputEnd, OutputFinish
<1>3. Callback => UNCHANGED <<f2f, flt>>
  BY DEF Callback, CallbackCall, CallbackInCopy, CallbackInit, CallbackInWait,
         CallbackInPost, CallbackOutLock, CallbackOutWait, CallbackOutPost,
         CallbackOutCopy, CallbackFinished
<1> QED
  BY <1>1, <1>2, <1>3

LEMMA NextSync == SyncInv /\ [Next]_vars => SyncInv'
<1> SUFFICES ASSUME SyncInv, [Next]_vars PROVE SyncInv'
  OBVIOUS
<1>1. TypeOK'
  BY TypeStep DEF SyncInv
<1>2. StartInv' /\ TokenInv' /\ EnteredInv'
  <2>1. CASE UNCHANGED <<conf, f2f, flt>>
    BY <2>1, OthersStep DEF SyncInv
  <2>2. CASE Running(Input) \/ Running(Output) \/ Running(Callback)
    BY <2>1, <2>2, OthersKeep DEF Running
  <2>3. ASSUME NEW p \in Proc, Running(Filter(p))
        PROVE  StartInv' /\ TokenInv' /\ EnteredInv'
    BY <2>3, FilterBarrier DEF Running
  <2>4. CASE UNCHANGED vars
    BY <2>1, <2>4 DEF vars
  <2> QED
    BY <2>2, <2>3, <2>4 DEF Next, Done
<1> QED
  BY <1>1, <1>2 DEF SyncInv

\* Two processes of which one converts inputs and the other convolves, or one
\* convolves and the other converts outputs, have left numbers of synchronisations
\* that differ by one modulo Rounds; none of them being in a synchronisation, the
\* numbers must be equal.
LEMMA SyncApart == SyncInv => FreqBufferOwned
<1> SUFFICES ASSUME SyncInv, NEW p \in Proc, NEW q \in Proc
             PROVE  /\ ~(flt[p].pc = "inputs" /\ flt[q].pc = "convolve")
                    /\ ~(flt[p].pc = "convolve" /\ flt[q].pc = "outputs")
  BY DEF FreqBufferOwned
<1>1. FilterType /\ flt[p].block \in Nat /\ flt[q].block \in Nat
  BY DEF SyncInv, TypeOK, FilterType
<1>2. /\ Left(p) \in Nat /\ Left(q) \in Nat
      /\ flt[p].pc # "synch_wait" => Entered(p) = Left(p)
      /\ flt[q].pc # "synch_wait" => Entered(q) = Left(q)
  BY <1>1, LeftType
<1>3. flt[p].pc # "synch_wait" /\ flt[q].pc # "synch_wait" => Left(p) = Left(q)
  BY <1>2 DEF SyncInv, EnteredInv
<1>4. \A a, b \in Nat : /\ 2 * a # 2 * b + 1 /\ 3 * a # 3 * b + 1
  OBVIOUS
<1>5. \A a, b \in Nat : Rounds * a \in Nat /\ Rounds * b \in Nat /\ Rounds * a # Rounds * b + 1
  BY <1>4, RoundsType
<1>6. /\ Left(p) = Rounds * flt[p].block + Place(flt[p])
      /\ Left(q) = Rounds * flt[q].block + Place(flt[q])
  BY DEF Left, LeftBy
<1>7. ASSUME flt[p].pc = "inputs", flt[q].pc = "convolve" PROVE FALSE
  <2>1. Place(flt[p]) = Rounds - 1 /\ Place(flt[q]) = Rounds
    BY <1>7 DEF Place
  <2>2. Rounds * flt[p].block + (Rounds - 1) = Rounds * flt[q].block + Rounds
    BY <1>3, <1>6, <1>7, <2>1
  <2> QED
    BY <1>1, <1>5, <2>2, RoundsType
<1>8. ASSUME flt[p].pc = "convolve", flt[q].pc = "outputs" PROVE FALSE
  <2>1. Place(flt[p]) = Rounds /\ Place(flt[q]) = Rounds + 1
    BY <1>8 DEF Place
  <2>2. Rounds * flt[p].block + Rounds = Rounds * flt[q].block + (Rounds + 1)
    BY <1>3, <1>6, <1>8, <2>1
  <2> QED
    BY <1>1, <1>5, <2>2, RoundsType
<1> QED
  BY <1>7, <1>8

\* The synchronisations of filter_process() keep the three phases of a block apart:
\* no process transforms inputs or convolves into a frequency-domain buffer while
\* another one reads it, for every number of processes and every configuration.
THEOREM PhasesApart == Spec => []FreqBufferOwned
<1> QED
  BY InitSync, NextSync, SyncApart, PTL DEF Spec

-----------------------------------------------------------------------------
(* What each thread has posted and taken *)

\* Filter process f has not told the output side that it is ready; has taken all
\* of the input of its block; has taken the blocking part of it.
Starting(f) ==
    \/ f.pc \in {"wait_init", "ready"}
    \/ f.pc \in {"synch_post", "synch_wait"} /\ f.next = "ready"
HasInput(f) ==
    \/ f.pc \in {"inputs", "convolve", "outputs", "post_output"}
    \/ f.pc \in {"synch_post", "synch_wait"} /\ f.next # "ready"
HasBl(f) == f.pc = "wait_cb" \/ HasInput(f)

One(b) == IF b THEN 1 ELSE 0

\* Tokens filter process f has taken and posted.
TakenBlBy(f) == IF f.pc = "wait_init" THEN 0 ELSE 1 + f.block + One(HasBl(f))
TakenCbBy(f) == f.block + One(HasInput(f))
PostedBlBy(f) == f.block + One(~Starting(f))

TakenBl == [p \in Proc |-> TakenBlBy(flt[p])]
TakenCb == [p \in Proc |-> TakenCbBy(flt[p])]
PostedBl == [p \in Proc |-> PostedBlBy(flt[p])]
PostedCb == [p \in Proc |-> flt[p].block]

\* Times the other threads have posted, or waited for, a token for or of each of
\* them; the initialisation is counted.
InputPosts == IF inp.pc = "post_init" THEN 0
              ELSE 1 + inp.index - One(inp.pc \in {"wait_output", "wait_extra", "post_filter"})
OutputRounds == IF out.pc \in {"start", "wait_init"} THEN 0
                ELSE 1 + out.index + One(out.pc \in {"post_input", "write", "write_busy", "finish", "pause"})
CallbackRounds == cb.out_index + One(cb.pc = "out_post")

\* Blocks the callback thread has stored, and has begun to play.
Stored == cb.in_index + One(cb.pc \in {"in_init", "in_wait", "in_post"})
Begun == cb.out_index + One(cb.pc \in {"out_init", "out_wait", "out_post"})

\* Tokens between pairs of threads.
Unprimed == {"start", "wait_init", "synch_wait", "prime"}
Written == {"write", "write_busy", "finish", "pause"}
GrantsBl ==
    CASE out.pc \in Unprimed \cup {"fill1", "fill1_busy"} -> 0
      [] out.pc \in {"fill1_rest", "prime2"} -> 1
      [] OTHER -> 2 + out.index + One(out.pc \in Written)
GrantsCb ==
    CASE out.pc \in Unprimed -> 0
      [] out.pc \in {"fill1", "fill1_busy"} -> One(BlockingIn)
      [] out.pc \in {"fill1_rest", "prime2"} -> 1
      [] OTHER -> 2 + out.index + One(out.pc \in Written)
InputTakes ==
    CASE inp.pc \in {"post_init", "synch_post", "synch_wait"} -> 0
      [] OTHER -> One(BlockingOut) + inp.index - One(inp.pc = "wait_output")
ExtraTakes == inp.index - One(inp.pc \in {"wait_output", "wait_extra"})
Returns == One(cb.isinit) + cb.out_index

-----------------------------------------------------------------------------
(* The invariant *)

Between(taken, posted) ==
    {x \in Proc \X Nat : taken[x[1]] <= x[2] /\ x[2] < posted[x[1]]}
Tokens(n, taken, posted) ==
    /\ \A p \in Proc : taken[p] <= posted[p]
    /\ IsFiniteSet(Between(taken, posted))
    /\ n = Cardinality(Between(taken, posted))

\* The semaphores of the filter processes, by the device at the other end.
BlockingInTokens ==
    BlockingIn => Tokens(sem["bl_input_2_filter"], TakenBl, [p \in Proc |-> InputPosts])
CallbackInTokens ==
    CallbackIn => Tokens(sem["cb_input_2_filter"], TakenCb, [p \in Proc |-> cb.in_index])
BlockingOutTokens ==
    BlockingOut => Tokens(sem["filter_2_bl_output"], [p \in Proc |-> OutputRounds], PostedBl)
CallbackOutTokens ==
    CallbackOut => Tokens(sem["filter_2_cb_output"], [p \in Proc |-> CallbackRounds], PostedCb)
FilterTokens ==
    BlockingInTokens /\ CallbackInTokens /\ BlockingOutTokens /\ CallbackOutTokens

ThreadTokens ==
    /\ BlockingIn /\ BlockingOut => sem["bl_output_2_bl_input"] = GrantsBl - InputTakes
    /\ CallbackIn /\ BlockingOut =>
          sem["bl_output_2_cb_input"] = GrantsCb - (cb.in_index + One(cb.pc = "in_post"))
    /\ BlockingIn /\ CallbackOut =>
          sem["cb_output_2_bl_input"] = Returns - (IF BlockingOut THEN ExtraTakes ELSE InputTakes)

InputPlaces ==
    /\ inp.pc = "none" <=> ~BlockingIn /\ BlockingOut
    /\ ~BlockingIn => inp.pc \in {"post_init", "wait_init", "pause", "none"} /\ inp.index = 0
    /\ inp.pc \in {"post_init", "wait_init", "synch_post", "synch_wait"} => inp.index = 0
    /\ inp.pc \in {"wait_output", "wait_extra", "post_filter"} => inp.index > 0
    /\ inp.pc = "wait_init" => ~BlockingOut
    /\ inp.pc \in {"synch_post", "synch_wait"} => BlockingOut
    /\ inp.pc = "wait_extra" => HasExtraOutput

OutputPlaces ==
    /\ out.pc = "none" <=> ~BlockingOut
    /\ out.pc \in {"fill1", "fill1_busy", "fill1_rest", "fill2", "fill2_busy"} => synched_write
    /\ out.pc \in Unprimed \cup {"fill1", "fill1_busy", "fill1_rest", "prime2", "fill2", "fill2_busy"} =>
          out.index = 0
    /\ out.cur = IF synched_write /\ out.pc \in {"prime2", "fill2", "fill2_busy"}
                 THEN 1 ELSE out.index % 2

\* The initialisation is over before the first block begins.
FilterPlaces == \A p \in Proc : Starting(flt[p]) => flt[p].block = 0

InSteps == {"in_init", "in_wait", "in_post"}
OutSteps == {"out_lock", "out_init", "out_wait", "out_post", "out_copy"}
CallbackPlaces ==
    /\ cb.pc = "none" <=> ~CallbackIn /\ ~CallbackOut
    /\ cb.pc \in InSteps \cup {"in_copy"} => CallbackIn
    /\ cb.pc \in OutSteps => CallbackOut
    /\ cb.in_cur = Stored % 2
    /\ cb.out_left \in 0 .. Ratio /\ cb.in_left \in 1 .. Ratio
    /\ cb.fill > 0 => Begun = 0 /\ cb.out_left = 0
    /\ cb.out_cur = (Begun - One(cb.out_left > 0)) % 2
    /\ cb.pc \in InSteps => cb.in_left = Ratio
    /\ cb.pc \in InSteps => cb.isinit \/ cb.pc = "in_init"
    /\ cb.pc \in {"out_init", "out_wait", "out_post"} => cb.out_left = Ratio
    /\ cb.pc \in {"out_wait", "out_post"} => cb.isinit
    /\ cb.out_index > 0 => cb.isinit
    /\ cb.pc = "out_copy" => cb.fill > 0 \/ cb.out_left > 0
    /\ cb.out_left > 0 => Begun > 0

\* Within a call the callback thread is one callback further with its input; over
\* all, input and output are at most one block apart.
Lag ==
    CallbackIn /\ CallbackOut =>
        LET ahead == One(cb.pc \in InSteps \cup OutSteps)
        IN  \/ /\ Stored = Begun + 1
               /\ cb.in_left + ahead = 2 + cb.fill + cb.out_left
            \/ /\ Stored = Begun
               /\ cb.in_left + ahead + Ratio = 2 + cb.fill + cb.out_left

CountInv ==
    /\ FilterTokens /\ ThreadTokens
    /\ InputPlaces /\ OutputPlaces /\ FilterPlaces /\ CallbackPlaces /\ Lag
-----------------------------------------------------------------------------
(* Counting the tokens of the filter processes *)

\* A set of pairs with one pair for each filter process.
LEMMA RowSize ==
    ASSUME conf \in Configs, NEW h \in [Proc -> Nat]
    PROVE  /\ IsFiniteSet({<<p, h[p]>> : p \in Proc})
           /\ Cardinality({<<p, h[p]>> : p \in Proc}) = n_processes
<1> DEFINE R == {<<p, h[p]>> : p \in Proc}
           f == [p \in Proc |-> <<p, h[p]>>]
<1>1. IsFiniteSet(Proc) /\ Cardinality(Proc) = n_processes
  <2>1. n_processes \in Nat \ {0}
    BY ConstantTypes
  <2> QED
    BY <2>1, FS_Interval DEF Proc
<1>2. f \in Surjection(Proc, R)
  BY DEF Surjection
<1>3. f \in Injection(Proc, R)
  BY DEF Injection, IsInjective
<1>4. IsFiniteSet(R) /\ Cardinality(R) = Cardinality(Proc)
  BY <1>1, <1>2, <1>3, FS_Surjection
<1> QED
  BY <1>1, <1>4

LEMMA BetweenPairs ==
    ASSUME NEW taken, NEW posted
    PROVE  /\ \A p \in Proc, k \in Nat :
                 <<p, k>> \in Between(taken, posted) <=> taken[p] <= k /\ k < posted[p]
           /\ \A x \in Between(taken, posted) :
                 \E p \in Proc, k \in Nat : x = <<p, k>> /\ taken[p] <= k /\ k < posted[p]
  BY DEF Between

\* One more token for p.
LEMMA PostOne ==
    ASSUME NEW n \in Nat, NEW taken \in [Proc -> Nat], NEW posted \in [Proc -> Nat],
           Tokens(n, taken, posted), NEW p \in Proc
    PROVE  Tokens(n + 1, taken, [posted EXCEPT ![p] = @ + 1])
<1> DEFINE new == [posted EXCEPT ![p] = posted[p] + 1]
           B == Between(taken, posted)
           x == <<p, posted[p]>>
<1>1. IsFiniteSet(B) /\ n = Cardinality(B) /\ \A q \in Proc : taken[q] <= posted[q]
  BY DEF Tokens
<1>2. Between(taken, new) = B \cup {x}
  BY <1>1 DEF Between
<1>3. x \notin B
  BY DEF Between
<1>4. IsFiniteSet(Between(taken, new)) /\ Cardinality(Between(taken, new)) = n + 1
  <2> HIDE DEF new, B, x
  <2>1. IsFiniteSet(B \cup {x}) /\ Cardinality(B \cup {x}) = Cardinality(B) + 1
    BY <1>1, <1>3, FS_AddElement
  <2> QED
    BY <1>1, <1>2, <2>1
<1>5. \A q \in Proc : taken[q] <= new[q]
  BY <1>1
<1> QED
  BY <1>4, <1>5 DEF Tokens

\* One token less for p.
LEMMA TakeOne ==
    ASSUME NEW n \in Nat, NEW taken \in [Proc -> Nat], NEW posted \in [Proc -> Nat],
           Tokens(n, taken, posted), NEW p \in Proc, taken[p] < posted[p]
    PROVE  Tokens(n - 1, [taken EXCEPT ![p] = @ + 1], posted)
<1> DEFINE new == [taken EXCEPT ![p] = taken[p] + 1]
           B == Between(taken, posted)
<1>1. IsFiniteSet(B) /\ n = Cardinality(B) /\ \A q \in Proc : taken[q] <= posted[q]
  BY DEF Tokens
<1>2. Between(new, posted) = B \ {<<p, taken[p]>>}
  BY <1>1 DEF Between
<1>3. <<p, taken[p]>> \in B
  BY DEF Between
<1>4. IsFiniteSet(Between(new, posted)) /\ Cardinality(Between(new, posted)) = n - 1
  <2> HIDE DEF new, B
  <2> QED
    BY <1>1, <1>2, <1>3, FS_RemoveElement
<1>5. \A q \in Proc : new[q] <= posted[q]
  BY <1>1
<1> QED
  BY <1>4, <1>5 DEF Tokens

\* One more token for everybody.
LEMMA PostEach ==
    ASSUME conf \in Configs,
           NEW n \in Nat, NEW taken \in [Proc -> Nat], NEW posted \in [Proc -> Nat],
           Tokens(n, taken, posted)
    PROVE  Tokens(n + n_processes, taken, [p \in Proc |-> posted[p] + 1])
<1> DEFINE new == [p \in Proc |-> posted[p] + 1]
           B == Between(taken, posted)
           R == {<<p, posted[p]>> : p \in Proc}
<1>0. n_processes \in Nat
  BY ConstantTypes
<1>1. IsFiniteSet(B) /\ n = Cardinality(B) /\ \A q \in Proc : taken[q] <= posted[q]
  BY DEF Tokens
<1>2. IsFiniteSet(R) /\ Cardinality(R) = n_processes
  BY RowSize
<1>3. Between(taken, new) = B \cup R
  BY <1>1 DEF Between
<1>4. B \cap R = {}
  BY DEF Between
<1>5. IsFiniteSet(B \cup R) /\ Cardinality(B \cup R) = n + n_processes - Cardinality({})
  BY <1>1, <1>2, <1>4, FS_Union
<1>6. IsFiniteSet(Between(taken, new)) /\ Cardinality(Between(taken, new)) = n + n_processes
  <2>1. Cardinality({}) = 0
    BY FS_EmptySet
  <2> HIDE DEF new, B, R
  <2> QED
    BY <1>0, <1>3, <1>5, <2>1
<1>7. \A q \in Proc : taken[q] <= new[q]
  BY <1>1
<1> QED
  BY <1>6, <1>7 DEF Tokens

\* One token less for everybody.
LEMMA TakeEach ==
    ASSUME conf \in Configs,
           NEW n \in Nat, NEW taken \in [Proc -> Nat], NEW posted \in [Proc -> Nat],
           Tokens(n, taken, posted), \A p \in Proc : taken[p] < posted[p]
    PROVE  Tokens(n - n_processes, [p \in Proc |-> taken[p] + 1], posted)
<1> DEFINE new == [p \in Proc |-> taken[p] + 1]
           B == Between(taken, posted)
           C == Between(new, posted)
           R == {<<p, taken[p]>> : p \in Proc}
<1>0. n_processes \in Nat
  BY ConstantTypes
<1>1. IsFiniteSet(B) /\ n = Cardinality(B) /\ \A q \in Proc : taken[q] <= posted[q]
  BY DEF Tokens
<1>2. IsFiniteSet(R) /\ Cardinality(R) = n_processes
  BY RowSize
<1>3. B = C \cup R /\ C \cap R = {} /\ C \in SUBSET B
  BY <1>1 DEF Between
<1>4. IsFiniteSet(C) /\ Cardinality(C) \in Nat
  BY <1>1, <1>3, FS_Subset, FS_CardinalityType
<1>5. Cardinality(B) = Cardinality(C) + n_processes - Cardinality({})
  BY <1>2, <1>3, <1>4, FS_Union
<1>6. Cardinality(C) = n - n_processes
  BY <1>0, <1>1, <1>4, <1>5, FS_EmptySet
<1>7. \A q \in Proc : new[q] <= posted[q]
  OBVIOUS
<1> QED
  BY <1>4, <1>6, <1>7 DEF Tokens

\* A token that is there was posted for somebody who has not taken it.
LEMMA SomebodysToken ==
    ASSUME NEW n \in Nat, NEW taken \in [Proc -> Nat], NEW posted \in [Proc -> Nat],
           Tokens(n, taken, posted), n >= 1
    PROVE  \E q \in Proc : taken[q] < posted[q]
<1>1. Between(taken, posted) # {}
  BY FS_EmptySet DEF Tokens
<1> QED
  BY <1>1, BetweenPairs

\* As many tokens as there are processes, which are at most one apart: each of them
\* has posted one.
LEMMA EverybodysToken ==
    ASSUME conf \in Configs,
           NEW n \in Nat, NEW u \in Nat, NEW posted \in [Proc -> Nat],
           Tokens(n, [p \in Proc |-> u], posted), n >= n_processes,
           \A p, q \in Proc : posted[p] <= posted[q] + 1
    PROVE  \A q \in Proc : u < posted[q]
<1> DEFINE taken == [p \in Proc |-> u]
           B == Between(taken, posted)
           f == [p \in Proc |-> u]
           R == {<<p, f[p]>> : p \in Proc}
<1> SUFFICES ASSUME NEW q \in Proc, ~(u < posted[q]) PROVE FALSE
  OBVIOUS
<1>0. n_processes \in Nat \ {0}
  BY ConstantTypes
<1>1. IsFiniteSet(B) /\ n = Cardinality(B) /\ \A p \in Proc : u <= posted[p]
  BY DEF Tokens
<1>2. IsFiniteSet(R) /\ Cardinality(R) = n_processes
  BY RowSize
<1>3. \A p \in Proc : posted[p] <= u + 1
  BY <1>1
<1>4. <<q, u>> \in R
  OBVIOUS
<1>5. B \subseteq R \ {<<q, u>>}
  BY <1>3 DEF Between
<1>6. IsFiniteSet(R \ {<<q, u>>}) /\ Cardinality(R \ {<<q, u>>}) = n_processes - 1
  BY <1>2, <1>4, FS_RemoveElement
<1>7. Cardinality(B) <= n_processes - 1
  BY <1>5, <1>6, FS_Subset
<1>8. Cardinality(B) \in Nat
  BY <1>1, FS_CardinalityType
<1> QED
  BY <1>0, <1>1, <1>7, <1>8

-----------------------------------------------------------------------------
(* What the barrier says of blocks *)

\* Where a filter process is, from the synchronisations it has been through.
LEMMA Whereabouts ==
    ASSUME TypeOK, StartInv, NEW p \in Proc
    PROVE  LET f == flt[p]
               R == Rounds
           IN  /\ f.block \in Nat
               /\ Left(p) = R * f.block + Place(f) /\ Left(p) \in Nat
               /\ Entered(p) = Left(p) + One(f.pc = "synch_wait")
               /\ Place(f) \in Nat /\ Place(f) + One(f.pc = "synch_wait") <= R + 1
               /\ Starting(f) => Place(f) + One(f.pc = "synch_wait") <= 1
               /\ ~Starting(f) => Place(f) >= 1
               /\ f.pc = "wait_init" => Place(f) = 0
               /\ f.pc \in {"wait_bl", "wait_cb"} => Place(f) = 1
               /\ ~HasInput(f) => Place(f) + One(f.pc = "synch_wait") <= 1
<1>1. flt[p] \in [pc : FilterPcs, next : WorkPcs, block : Nat]
  BY DEF TypeOK, FilterType
<1>2. Left(p) \in Nat /\ Entered(p) = Left(p) + One(flt[p].pc = "synch_wait")
  BY LeftType DEF TypeOK, One
<1>3. Left(p) = Rounds * flt[p].block + Place(flt[p])
  BY DEF Left, LeftBy
<1>4. flt[p].pc \in {"synch_post", "synch_wait"} /\ flt[p].next = "inputs" => Rounds = 3
  BY DEF StartInv, Rounds
<1> QED
  BY <1>1, <1>2, <1>3, <1>4, RoundsType
     DEF Place, Before, Starting, HasInput, One, FilterPcs, WorkPcs

\* All processes have taken as many tokens as one that waits for the next.
LEMMA WaitersLast ==
    ASSUME TypeOK, StartInv, EnteredInv, FilterPlaces, NEW p \in Proc, NEW q \in Proc
    PROVE  /\ flt[p].pc \in {"wait_init", "wait_bl"} => TakenBl[p] <= TakenBl[q]
           /\ flt[p].pc = "wait_cb" => TakenCb[p] <= TakenCb[q]
<1>1. Left(p) <= Entered(q)
  BY DEF EnteredInv
<1>2. Starting(flt[q]) => flt[q].block = 0
  BY DEF FilterPlaces
<1>3. Rounds = 2 \/ Rounds = 3
  BY RoundsType
<1> DEFINE b == flt[p].block
           c == flt[q].block
           rb == Rounds * b
           rc == Rounds * c
<1>4. b \in Nat /\ c \in Nat
  BY DEF TypeOK, FilterType
<1>a. \/ Rounds = 2 /\ rb = 2 * b /\ rc = 2 * c
      \/ Rounds = 3 /\ rb = 3 * b /\ rc = 3 * c
  BY <1>3, <1>4
<1>b. /\ Left(p) = rb + Place(flt[p]) /\ Place(flt[p]) \in Nat
      /\ Entered(q) = rc + Place(flt[q]) + One(flt[q].pc = "synch_wait")
      /\ Place(flt[q]) \in Nat /\ One(flt[q].pc = "synch_wait") \in Nat
      /\ rb \in Nat /\ rc \in Nat
  BY <1>4, <1>a, Whereabouts DEF One
<1>c. Left(p) \in Nat /\ Entered(q) \in Nat /\ rb \in Nat /\ rc \in Nat
  BY <1>b
<1> HIDE DEF rb, rc
<1>5. flt[p].pc \in {"wait_bl", "wait_cb"} => Left(p) = rb + 1
  BY <1>b, Whereabouts
<1>6. ~HasInput(flt[q]) => Entered(q) <= rc + 1
  BY <1>3, <1>4, <1>b, Whereabouts
<1>7. flt[q].pc = "wait_init" => Entered(q) = 0 /\ c = 0
  BY <1>2, <1>a, <1>4, <1>b, Whereabouts DEF Starting, One
<1>8. Entered(q) <= rc + Rounds + 1
  BY <1>3, <1>4, <1>b, Whereabouts
<1>9. flt[p].pc \in {"wait_bl", "wait_cb"} =>
         IF HasInput(flt[q]) THEN b <= c + 1 ELSE b <= c
  BY <1>1, <1>a, <1>c, <1>4, <1>5, <1>6, <1>8
<1>10. flt[p].pc \in {"wait_init", "wait_bl"} => ~HasInput(flt[p]) /\ ~HasBl(flt[p])
  BY DEF HasInput, HasBl
<1>11. flt[p].pc = "wait_bl" => flt[q].pc # "wait_init"
  BY <1>1, <1>a, <1>c, <1>4, <1>5, <1>7
<1>12. flt[p].pc = "wait_cb" => ~HasInput(flt[p])
  BY DEF HasInput
<1> QED
  BY <1>4, <1>9, <1>10, <1>11, <1>12 DEF TakenBl, TakenCb, TakenBlBy, TakenCbBy, One, HasBl

\* Nobody has posted two tokens more than another.
LEMMA PostersClose ==
    ASSUME TypeOK, StartInv, EnteredInv, FilterPlaces, NEW p \in Proc, NEW q \in Proc
    PROVE  /\ PostedBl[p] <= PostedBl[q] + 1
           /\ PostedCb[p] <= PostedCb[q] + 1
<1>1. Left(p) <= Entered(q)
  BY DEF EnteredInv
<1>2. \A r \in Proc : Starting(flt[r]) => flt[r].block = 0
  BY DEF FilterPlaces
<1>3. Rounds = 2 \/ Rounds = 3
  BY RoundsType
<1> DEFINE b == flt[p].block
           c == flt[q].block
           rb == Rounds * b
           rc == Rounds * c
<1>4. b \in Nat /\ c \in Nat
  BY DEF TypeOK, FilterType
<1>a. \/ Rounds = 2 /\ rb = 2 * b /\ rc = 2 * c
      \/ Rounds = 3 /\ rb = 3 * b /\ rc = 3 * c
  BY <1>3, <1>4
<1>b. /\ Left(p) = rb + Place(flt[p]) /\ Place(flt[p]) \in Nat
      /\ Entered(q) = rc + Place(flt[q]) + One(flt[q].pc = "synch_wait")
      /\ Place(flt[q]) \in Nat /\ One(flt[q].pc = "synch_wait") \in Nat
      /\ rb \in Nat /\ rc \in Nat
  BY <1>4, <1>a, Whereabouts DEF One
<1>c. Left(p) \in Nat /\ Entered(q) \in Nat /\ rb \in Nat /\ rc \in Nat
  BY <1>b
<1> HIDE DEF rb, rc
<1>5. ~Starting(flt[p]) => Left(p) >= rb + 1
  BY <1>3, <1>4, <1>b, Whereabouts
<1>6. Entered(q) <= rc + Rounds + 1
  BY <1>3, <1>4, <1>b, Whereabouts
<1>7. Starting(flt[q]) => Entered(q) <= 1 /\ c = 0
  BY <1>2, <1>a, <1>4, <1>b, Whereabouts
<1>8. ~Starting(flt[p]) => b <= c + 1
  BY <1>1, <1>a, <1>c, <1>4, <1>5, <1>6
<1>9. ~Starting(flt[p]) /\ Starting(flt[q]) => b = 0
  BY <1>1, <1>a, <1>c, <1>4, <1>5, <1>7
<1>10. Starting(flt[p]) => b = 0
  BY <1>2
<1> QED
  BY <1>4, <1>8, <1>9, <1>10 DEF PostedBl, PostedCb, PostedBlBy, One

-----------------------------------------------------------------------------
(* Steps of the filter processes *)

FilterRecord == [pc : FilterPcs, next : WorkPcs, block : Nat]

LEMMA CountsOf ==
    ASSUME FilterType, NEW p \in Proc, NEW f, flt' = [flt EXCEPT ![p] = f]
    PROVE  /\ TakenBl' = [TakenBl EXCEPT ![p] = TakenBlBy(f)]
           /\ TakenCb' = [TakenCb EXCEPT ![p] = TakenCbBy(f)]
           /\ PostedBl' = [PostedBl EXCEPT ![p] = PostedBlBy(f)]
           /\ PostedCb' = [PostedCb EXCEPT ![p] = f.block]
  BY DEF FilterType, TakenBl, TakenCb, PostedBl, PostedCb

LEMMA CountTypes ==
    ASSUME FilterType
    PROVE  /\ TakenBl \in [Proc -> Nat] /\ TakenCb \in [Proc -> Nat]
           /\ PostedBl \in [Proc -> Nat] /\ PostedCb \in [Proc -> Nat]
  BY DEF FilterType, TakenBl, TakenCb, PostedBl, PostedCb,
         TakenBlBy, TakenCbBy, PostedBlBy, One

\* Filter process f moves on to g and has taken or posted at most one token of each
\* kind.
Moves(f, g) ==
    /\ BlockingIn =>
          \/ TakenBlBy(g) = TakenBlBy(f) /\ sem'["bl_input_2_filter"] = sem["bl_input_2_filter"]
          \/ /\ TakenBlBy(g) = TakenBlBy(f) + 1 /\ f.pc \in {"wait_init", "wait_bl"}
             /\ sem["bl_input_2_filter"] >= 1
             /\ sem'["bl_input_2_filter"] = sem["bl_input_2_filter"] - 1
    /\ CallbackIn =>
          \/ TakenCbBy(g) = TakenCbBy(f) /\ sem'["cb_input_2_filter"] = sem["cb_input_2_filter"]
          \/ /\ TakenCbBy(g) = TakenCbBy(f) + 1 /\ f.pc = "wait_cb"
             /\ sem["cb_input_2_filter"] >= 1
             /\ sem'["cb_input_2_filter"] = sem["cb_input_2_filter"] - 1
    /\ BlockingOut =>
          \/ PostedBlBy(g) = PostedBlBy(f) /\ sem'["filter_2_bl_output"] = sem["filter_2_bl_output"]
          \/ /\ PostedBlBy(g) = PostedBlBy(f) + 1
             /\ sem'["filter_2_bl_output"] = sem["filter_2_bl_output"] + 1
    /\ CallbackOut =>
          \/ g.block = f.block /\ sem'["filter_2_cb_output"] = sem["filter_2_cb_output"]
          \/ g.block = f.block + 1 /\ sem'["filter_2_cb_output"] = sem["filter_2_cb_output"] + 1
    /\ Starting(g) => g.block = 0
ThreadSems == {"bl_output_2_bl_input", "bl_output_2_cb_input", "cb_output_2_bl_input"}

LEMMA FilterMoves ==
    ASSUME TypeOK, StartInv, FilterPlaces, UNCHANGED conf, NEW p \in Proc, Filter(p)
    PROVE  /\ UNCHANGED <<inp, out, cb, eof, log, exited>>
           /\ \A s \in ThreadSems : sem'[s] = sem[s]
           /\ \E g \in FilterRecord : flt' = [flt EXCEPT ![p] = g] /\ Moves(flt[p], g)
<1>1. /\ flt[p] \in FilterRecord /\ flt \in [Proc -> FilterRecord]
      /\ sem \in [Sems -> Nat]
      /\ Starting(flt[p]) => flt[p].block = 0
  BY DEF TypeOK, FilterType, SemType, FilterRecord, FilterPlaces
<1> USE <1>1 DEF Moves, FilterRecord, FilterPcs, WorkPcs, ThreadSems, Sems, TakenBlBy, TakenCbBy,
                 PostedBlBy, HasBl, HasInput, Starting, One
<1>2. CASE FilterSynchPost(p)
  <2> DEFINE g == [flt[p] EXCEPT !.pc = "synch_wait"]
  <2>1. flt' = [flt EXCEPT ![p] = g] /\ g \in FilterRecord
    BY <1>2 DEF FilterSynchPost, Goto
  <2>2. Moves(flt[p], g)
    BY <1>2 DEF FilterSynchPost
  <2> QED
    BY <1>2, <2>1, <2>2 DEF FilterSynchPost
<1>3. CASE FilterSynchWait(p)
  <2> DEFINE g == [flt[p] EXCEPT !.pc = flt[p].next]
  <2>1. flt' = [flt EXCEPT ![p] = g] /\ g \in FilterRecord
    BY <1>3 DEF FilterSynchWait, Goto
  <2>2. Moves(flt[p], g)
    BY <1>3 DEF FilterSynchWait
  <2> QED
    BY <1>3, <2>1, <2>2 DEF FilterSynchWait
<1>4. CASE FilterWaitInit(p)
  <2> DEFINE g == [flt[p] EXCEPT !.pc = "synch_post", !.next = "ready"]
  <2>1. flt' = [flt EXCEPT ![p] = g] /\ g \in FilterRecord
    BY <1>4 DEF FilterWaitInit, Synch, SynchPc
  <2>2. Moves(flt[p], g)
    BY <1>4 DEF FilterWaitInit, Take
  <2> QED
    BY <1>4, <2>1, <2>2 DEF FilterWaitInit, Take
<1>5. CASE FilterReady(p)
  <2> DEFINE g == [flt[p] EXCEPT !.pc = FirstWait]
  <2>1. flt' = [flt EXCEPT ![p] = g] /\ g \in FilterRecord
    BY <1>5 DEF FilterReady, Goto, FirstWait
  <2>2. Moves(flt[p], g)
    BY <1>5 DEF FilterReady, Post, FirstWait
  <2> QED
    BY <1>5, <2>1, <2>2 DEF FilterReady, Post
<1>6. CASE FilterWaitBl(p)
  <2>1. \E g \in FilterRecord :
           /\ flt' = [flt EXCEPT ![p] = g] /\ g.block = flt[p].block
           /\ IF CallbackIn THEN g.pc = "wait_cb"
              ELSE g.pc = "inputs" \/ (g.pc = "synch_post" /\ g.next = "inputs")
    <3>1. CASE CallbackIn
      <4> WITNESS [flt[p] EXCEPT !.pc = "wait_cb"] \in FilterRecord
      <4> QED
        BY <1>6, <3>1 DEF FilterWaitBl, Goto
    <3>2. CASE ~CallbackIn /\ BlockStart
      <4> WITNESS [flt[p] EXCEPT !.pc = "synch_post", !.next = "inputs"] \in FilterRecord
      <4> QED
        BY <1>6, <3>2 DEF FilterWaitBl, StartBlock, Synch, SynchPc
    <3>3. CASE ~CallbackIn /\ ~BlockStart
      <4> WITNESS [flt[p] EXCEPT !.pc = "inputs"] \in FilterRecord
      <4> QED
        BY <1>6, <3>3 DEF FilterWaitBl, StartBlock, Goto
    <3> QED
      BY <3>1, <3>2, <3>3
  <2>2. PICK g \in FilterRecord :
           /\ flt' = [flt EXCEPT ![p] = g] /\ g.block = flt[p].block
           /\ IF CallbackIn THEN g.pc = "wait_cb"
              ELSE g.pc = "inputs" \/ (g.pc = "synch_post" /\ g.next = "inputs")
    BY <2>1
  <2>3. Moves(flt[p], g)
    BY <1>6, <2>2 DEF FilterWaitBl, Take
  <2> QED
    BY <1>6, <2>2, <2>3 DEF FilterWaitBl, Take
<1>7. CASE FilterWaitCb(p)
  <2>1. \E g \in FilterRecord :
           /\ flt' = [flt EXCEPT ![p] = g] /\ g.block = flt[p].block
           /\ g.pc = "inputs" \/ (g.pc = "synch_post" /\ g.next = "inputs")
    <3>1. CASE BlockStart
      <4> WITNESS [flt[p] EXCEPT !.pc = "synch_post", !.next = "inputs"] \in FilterRecord
      <4> QED
        BY <1>7, <3>1 DEF FilterWaitCb, StartBlock, Synch, SynchPc
    <3>2. CASE ~BlockStart
      <4> WITNESS [flt[p] EXCEPT !.pc = "inputs"] \in FilterRecord
      <4> QED
        BY <1>7, <3>2 DEF FilterWaitCb, StartBlock, Goto
    <3> QED
      BY <3>1, <3>2
  <2>2. PICK g \in FilterRecord :
           /\ flt' = [flt EXCEPT ![p] = g] /\ g.block = flt[p].block
           /\ g.pc = "inputs" \/ (g.pc = "synch_post" /\ g.next = "inputs")
    BY <2>1
  <2>3. Moves(flt[p], g)
    BY <1>7, <2>2 DEF FilterWaitCb, Take
  <2> QED
    BY <1>7, <2>2, <2>3 DEF FilterWaitCb, Take
<1>8. CASE FilterInputs(p)
  <2> DEFINE g == [flt[p] EXCEPT !.pc = "synch_post", !.next = "convolve"]
  <2>1. flt' = [flt EXCEPT ![p] = g] /\ g \in FilterRecord
    BY <1>8 DEF FilterInputs, Synch, SynchPc
  <2>2. Moves(flt[p], g)
    BY <1>8 DEF FilterInputs
  <2> QED
    BY <1>8, <2>1, <2>2 DEF FilterInputs
<1>9. CASE FilterConvolve(p)
  <2> DEFINE g == [flt[p] EXCEPT !.pc = "synch_post", !.next = "outputs"]
  <2>1. flt' = [flt EXCEPT ![p] = g] /\ g \in FilterRecord
    BY <1>9 DEF FilterConvolve, Synch, SynchPc
  <2>2. Moves(flt[p], g)
    BY <1>9 DEF FilterConvolve
  <2> QED
    BY <1>9, <2>1, <2>2 DEF FilterConvolve
<1>10. CASE FilterOutputs(p)
  <2> DEFINE g == [flt[p] EXCEPT !.pc = "post_output"]
  <2>1. flt' = [flt EXCEPT ![p] = g] /\ g \in FilterRecord
    BY <1>10 DEF FilterOutputs, Goto
  <2>2. Moves(flt[p], g)
    BY <1>10 DEF FilterOutputs
  <2> QED
    BY <1>10, <2>1, <2>2 DEF FilterOutputs
<1>11. CASE FilterPostOutput(p)
  <2> DEFINE g == [flt[p] EXCEPT !.pc = FirstWait, !.block = flt[p].block + 1]
  <2>1. flt' = [flt EXCEPT ![p] = g] /\ g \in FilterRecord
    BY <1>11 DEF FilterPostOutput, FirstWait
  <2>2. Moves(flt[p], g)
    BY <1>11 DEF FilterPostOutput, FirstWait, PostAll, OutputSems
  <2> QED
    BY <1>11, <2>1, <2>2 DEF FilterPostOutput, PostAll, OutputSems
<1> QED
  BY <1>2, <1>3, <1>4, <1>5, <1>6, <1>7, <1>8, <1>9, <1>10, <1>11 DEF Filter

-----------------------------------------------------------------------------
(* Steps that leave counts alone *)

LEMMA PostTypes ==
    ASSUME TypeOK, InputPlaces
    PROVE  InputPosts \in Nat /\ cb.in_index \in Nat /\ OutputRounds \in Nat /\ CallbackRounds \in Nat
<1>1. InputType /\ OutputType /\ CallbackType
  BY DEF TypeOK
<1>2. cb.in_index \in Nat /\ cb.out_index \in Nat
  BY <1>1 DEF CallbackType
<1>3. inp.index \in Nat /\ out.index \in Nat
  BY <1>1 DEF InputType, OutputType
<1> QED
  BY <1>2, <1>3 DEF InputPosts, OutputRounds, CallbackRounds, One, InputPlaces

LEMMA TokensKept ==
    ASSUME FilterTokens, UNCHANGED <<conf, flt>>
    PROVE  /\ InputPosts' = InputPosts /\ sem'["bl_input_2_filter"] = sem["bl_input_2_filter"] =>
                 BlockingInTokens'
           /\ cb'.in_index = cb.in_index /\ sem'["cb_input_2_filter"] = sem["cb_input_2_filter"] =>
                 CallbackInTokens'
           /\ OutputRounds' = OutputRounds /\ sem'["filter_2_bl_output"] = sem["filter_2_bl_output"] =>
                 BlockingOutTokens'
           /\ CallbackRounds' = CallbackRounds /\ sem'["filter_2_cb_output"] = sem["filter_2_cb_output"] =>
                 CallbackOutTokens'
<1>1. UNCHANGED <<BlockingIn, BlockingOut, CallbackIn, CallbackOut>>
  BY DEF BlockingIn, BlockingOut, CallbackIn, CallbackOut
<1>2. UNCHANGED <<TakenBl, TakenCb, PostedBl, PostedCb>>
  BY DEF TakenBl, TakenCb, PostedBl, PostedCb, TakenBlBy, TakenCbBy, PostedBlBy,
         HasBl, HasInput, Starting, One
<1> QED
  BY <1>1, <1>2 DEF FilterTokens, BlockingInTokens, CallbackInTokens,
         BlockingOutTokens, CallbackOutTokens, Tokens, Between

LEMMA InputKept ==
    ASSUME UNCHANGED <<conf, inp>>
    PROVE  /\ InputPlaces => InputPlaces'
           /\ UNCHANGED <<InputPosts, InputTakes, ExtraTakes>>
<1>1. UNCHANGED <<BlockingIn, BlockingOut, CallbackOut>>
  BY DEF BlockingIn, BlockingOut, CallbackOut
<1> QED
  BY <1>1 DEF InputPlaces, HasExtraOutput, InputPosts, InputTakes, ExtraTakes, One

LEMMA OutputKept ==
    ASSUME UNCHANGED <<conf, out>>
    PROVE  /\ OutputPlaces => OutputPlaces'
           /\ UNCHANGED <<OutputRounds, GrantsBl, GrantsCb>>
<1>1. UNCHANGED <<BlockingIn, BlockingOut, synched_write>>
  BY DEF BlockingIn, BlockingOut, synched_write
<1> QED
  BY <1>1 DEF OutputPlaces, OutputRounds, GrantsBl, GrantsCb, Unprimed, Written, One

\* Of the callback thread, what the invariant is about.
CallbackCounts ==
    <<cb.pc, cb.isinit, cb.in_left, cb.in_cur, cb.in_index,
      cb.out_left, cb.out_cur, cb.out_index, cb.fill>>

LEMMA CallbackKept ==
    ASSUME UNCHANGED <<conf, CallbackCounts>>
    PROVE  /\ CallbackPlaces => CallbackPlaces'
           /\ Lag => Lag'
           /\ UNCHANGED <<CallbackRounds, Stored, Begun, Returns>>
           /\ cb'.in_index = cb.in_index /\ cb'.pc = cb.pc
<1>1. UNCHANGED <<CallbackIn, CallbackOut, Ratio>>
  BY DEF CallbackIn, CallbackOut, Ratio
<1>2. /\ cb'.pc = cb.pc /\ cb'.isinit = cb.isinit /\ cb'.in_left = cb.in_left
      /\ cb'.in_cur = cb.in_cur /\ cb'.in_index = cb.in_index /\ cb'.out_left = cb.out_left
      /\ cb'.out_cur = cb.out_cur /\ cb'.out_index = cb.out_index /\ cb'.fill = cb.fill
  BY DEF CallbackCounts
<1>3. UNCHANGED <<CallbackRounds, Stored, Begun, Returns>>
  BY <1>2 DEF CallbackRounds, Stored, Begun, Returns, One
<1>4. CallbackPlaces => CallbackPlaces'
  BY <1>1, <1>2, <1>3 DEF CallbackPlaces, One, InSteps, OutSteps
<1>5. Lag => Lag'
  BY <1>1, <1>2, <1>3 DEF Lag, One, InSteps, OutSteps
<1> QED
  BY <1>2, <1>3, <1>4, <1>5

LEMMA FiltersKept ==
    ASSUME FilterPlaces, UNCHANGED flt
    PROVE  FilterPlaces'
  BY DEF FilterPlaces, Starting

LEMMA ThreadTokensKept ==
    ASSUME ThreadTokens, UNCHANGED conf, \A s \in ThreadSems : sem'[s] = sem[s],
           UNCHANGED <<InputTakes, ExtraTakes, GrantsBl, GrantsCb, Returns>>,
           cb'.pc = cb.pc /\ cb'.in_index = cb.in_index
    PROVE  ThreadTokens'
<1>1. UNCHANGED <<BlockingIn, BlockingOut, CallbackIn, CallbackOut>>
  BY DEF BlockingIn, BlockingOut, CallbackIn, CallbackOut
<1> QED
  BY <1>1 DEF ThreadTokens, ThreadSems, One

-----------------------------------------------------------------------------
(* Filter processes *)

LEMMA FilterCount ==
    ASSUME SyncInv, CountInv, UNCHANGED conf, NEW p \in Proc, Filter(p)
    PROVE  CountInv'
<1>0. TypeOK /\ StartInv /\ EnteredInv /\ FilterType /\ conf \in Configs
  BY DEF SyncInv, TypeOK
<1>1. /\ FilterTokens /\ ThreadTokens /\ InputPlaces /\ OutputPlaces /\ FilterPlaces
      /\ CallbackPlaces /\ Lag
  BY DEF CountInv
<1>2. /\ UNCHANGED <<inp, out, cb>> /\ \A s \in ThreadSems : sem'[s] = sem[s]
      /\ \E g \in FilterRecord : flt' = [flt EXCEPT ![p] = g] /\ Moves(flt[p], g)
  BY <1>0, <1>1, FilterMoves
<1>3. PICK g \in FilterRecord : flt' = [flt EXCEPT ![p] = g] /\ Moves(flt[p], g)
  BY <1>2
<1>4. /\ ThreadTokens' /\ InputPlaces' /\ OutputPlaces' /\ CallbackPlaces' /\ Lag'
      /\ UNCHANGED <<InputPosts, OutputRounds, CallbackRounds>>
  <2>1. InputPlaces' /\ UNCHANGED <<InputPosts, InputTakes, ExtraTakes>>
    BY <1>1, <1>2, InputKept
  <2>2. OutputPlaces' /\ UNCHANGED <<OutputRounds, GrantsBl, GrantsCb>>
    BY <1>1, <1>2, OutputKept
  <2>3. UNCHANGED <<conf, CallbackCounts>>
    BY <1>2 DEF CallbackCounts
  <2>4. /\ CallbackPlaces' /\ Lag' /\ UNCHANGED <<CallbackRounds, Returns>>
        /\ cb'.pc = cb.pc /\ cb'.in_index = cb.in_index
    BY <1>1, <2>3, CallbackKept
  <2>5. ThreadTokens'
    BY <1>1, <1>2, <2>1, <2>2, <2>4, ThreadTokensKept
  <2> QED
    BY <2>1, <2>2, <2>4, <2>5
<1>5. FilterPlaces'
  BY <1>0, <1>1, <1>3 DEF FilterPlaces, FilterType, Moves
<1>6. /\ TakenBl' = [TakenBl EXCEPT ![p] = TakenBlBy(g)]
      /\ TakenCb' = [TakenCb EXCEPT ![p] = TakenCbBy(g)]
      /\ PostedBl' = [PostedBl EXCEPT ![p] = PostedBlBy(g)]
      /\ PostedCb' = [PostedCb EXCEPT ![p] = g.block]
  BY <1>0, <1>3, CountsOf
<1>7. /\ TakenBl \in [Proc -> Nat] /\ TakenCb \in [Proc -> Nat]
      /\ PostedBl \in [Proc -> Nat] /\ PostedCb \in [Proc -> Nat]
      /\ TakenBl[p] = TakenBlBy(flt[p]) /\ TakenCb[p] = TakenCbBy(flt[p])
      /\ PostedBl[p] = PostedBlBy(flt[p]) /\ PostedCb[p] = flt[p].block
  BY <1>0, CountTypes DEF TakenBl, TakenCb, PostedBl, PostedCb
<1>8. /\ InputPosts \in Nat /\ cb.in_index \in Nat /\ OutputRounds \in Nat /\ CallbackRounds \in Nat
      /\ \A s \in Sems : sem[s] \in Nat
  BY <1>0, <1>1, PostTypes DEF TypeOK, SemType
<1>9. /\ [q \in Proc |-> InputPosts] \in [Proc -> Nat]
      /\ [q \in Proc |-> cb.in_index] \in [Proc -> Nat]
      /\ [q \in Proc |-> OutputRounds] \in [Proc -> Nat]
      /\ [q \in Proc |-> CallbackRounds] \in [Proc -> Nat]
  BY <1>8
<1>10. UNCHANGED <<BlockingIn, BlockingOut, CallbackIn, CallbackOut>>
  BY DEF BlockingIn, BlockingOut, CallbackIn, CallbackOut
<1>11. BlockingInTokens'
  <2> DEFINE s == "bl_input_2_filter"
             u == [q \in Proc |-> InputPosts]
  <2> SUFFICES ASSUME BlockingIn PROVE Tokens(sem'[s], TakenBl', u)
    BY <1>4, <1>10 DEF BlockingInTokens, Tokens, Between
  <2>1. Tokens(sem[s], TakenBl, u) /\ sem[s] \in Nat
    BY <1>1, <1>8 DEF FilterTokens, BlockingInTokens, Sems
  <2>2. CASE TakenBlBy(g) = TakenBlBy(flt[p]) /\ sem'[s] = sem[s]
    <3>1. TakenBl' = TakenBl
      BY <1>6, <1>7, <2>2
    <3> QED
      BY <2>1, <2>2, <3>1
  <2>3. CASE /\ TakenBlBy(g) = TakenBlBy(flt[p]) + 1 /\ flt[p].pc \in {"wait_init", "wait_bl"}
             /\ sem[s] >= 1 /\ sem'[s] = sem[s] - 1
    <3>1. PICK q \in Proc : TakenBl[q] < u[q]
      BY <1>7, <1>9, <2>1, <2>3, SomebodysToken
    <3>2. TakenBl[p] < u[p]
      <4>1. TakenBl[p] <= TakenBl[q]
        BY <1>0, <1>1, <2>3, WaitersLast
      <4> QED
        BY <1>7, <1>8, <3>1, <4>1
    <3>3. Tokens(sem[s] - 1, [TakenBl EXCEPT ![p] = @ + 1], u)
      BY <1>7, <1>9, <2>1, <3>2, TakeOne
    <3>4. TakenBl' = [TakenBl EXCEPT ![p] = @ + 1]
      BY <1>6, <1>7, <2>3
    <3> QED
      BY <2>3, <3>3, <3>4
  <2> QED
    BY <1>3, <2>2, <2>3 DEF Moves
<1>12. CallbackInTokens'
  <2> DEFINE s == "cb_input_2_filter"
             u == [q \in Proc |-> cb.in_index]
  <2> SUFFICES ASSUME CallbackIn PROVE Tokens(sem'[s], TakenCb', u)
    BY <1>2, <1>10 DEF CallbackInTokens, Tokens, Between
  <2>1. Tokens(sem[s], TakenCb, u) /\ sem[s] \in Nat
    BY <1>1, <1>8 DEF FilterTokens, CallbackInTokens, Sems
  <2>2. CASE TakenCbBy(g) = TakenCbBy(flt[p]) /\ sem'[s] = sem[s]
    <3>1. TakenCb' = TakenCb
      BY <1>6, <1>7, <2>2
    <3> QED
      BY <2>1, <2>2, <3>1
  <2>3. CASE /\ TakenCbBy(g) = TakenCbBy(flt[p]) + 1 /\ flt[p].pc = "wait_cb"
             /\ sem[s] >= 1 /\ sem'[s] = sem[s] - 1
    <3>1. PICK q \in Proc : TakenCb[q] < u[q]
      BY <1>7, <1>9, <2>1, <2>3, SomebodysToken
    <3>2. TakenCb[p] < u[p]
      <4>1. TakenCb[p] <= TakenCb[q]
        BY <1>0, <1>1, <2>3, WaitersLast
      <4> QED
        BY <1>7, <1>8, <3>1, <4>1
    <3>3. Tokens(sem[s] - 1, [TakenCb EXCEPT ![p] = @ + 1], u)
      BY <1>7, <1>9, <2>1, <3>2, TakeOne
    <3>4. TakenCb' = [TakenCb EXCEPT ![p] = @ + 1]
      BY <1>6, <1>7, <2>3
    <3> QED
      BY <2>3, <3>3, <3>4
  <2> QED
    BY <1>3, <2>2, <2>3 DEF Moves
<1>13. BlockingOutTokens'
  <2> DEFINE s == "filter_2_bl_output"
             t == [q \in Proc |-> OutputRounds]
  <2> SUFFICES ASSUME BlockingOut PROVE Tokens(sem'[s], t, PostedBl')
    BY <1>4, <1>10 DEF BlockingOutTokens, Tokens, Between
  <2>1. Tokens(sem[s], t, PostedBl) /\ sem[s] \in Nat
    BY <1>1, <1>8 DEF FilterTokens, BlockingOutTokens, Sems
  <2>2. CASE PostedBlBy(g) = PostedBlBy(flt[p]) /\ sem'[s] = sem[s]
    <3>1. PostedBl' = PostedBl
      BY <1>6, <1>7, <2>2
    <3> QED
      BY <2>1, <2>2, <3>1
  <2>3. CASE PostedBlBy(g) = PostedBlBy(flt[p]) + 1 /\ sem'[s] = sem[s] + 1
    <3>1. Tokens(sem[s] + 1, t, [PostedBl EXCEPT ![p] = @ + 1])
      BY <1>7, <1>9, <2>1, PostOne
    <3>2. PostedBl' = [PostedBl EXCEPT ![p] = @ + 1]
      BY <1>6, <1>7, <2>3
    <3> QED
      BY <2>3, <3>1, <3>2
  <2> QED
    BY <1>3, <2>2, <2>3 DEF Moves
<1>14. CallbackOutTokens'
  <2> DEFINE s == "filter_2_cb_output"
             t == [q \in Proc |-> CallbackRounds]
  <2> SUFFICES ASSUME CallbackOut PROVE Tokens(sem'[s], t, PostedCb')
    BY <1>4, <1>10 DEF CallbackOutTokens, Tokens, Between
  <2>1. Tokens(sem[s], t, PostedCb) /\ sem[s] \in Nat
    BY <1>1, <1>8 DEF FilterTokens, CallbackOutTokens, Sems
  <2>2. CASE g.block = flt[p].block /\ sem'[s] = sem[s]
    <3>1. PostedCb' = PostedCb
      BY <1>6, <1>7, <2>2
    <3> QED
      BY <2>1, <2>2, <3>1
  <2>3. CASE g.block = flt[p].block + 1 /\ sem'[s] = sem[s] + 1
    <3>1. Tokens(sem[s] + 1, t, [PostedCb EXCEPT ![p] = @ + 1])
      BY <1>7, <1>9, <2>1, PostOne
    <3>2. PostedCb' = [PostedCb EXCEPT ![p] = @ + 1]
      BY <1>6, <1>7, <2>3
    <3> QED
      BY <2>3, <3>1, <3>2
  <2> QED
    BY <1>3, <2>2, <2>3 DEF Moves
<1> QED
  BY <1>4, <1>5, <1>11, <1>12, <1>13, <1>14 DEF CountInv, FilterTokens

-----------------------------------------------------------------------------
(* Input process *)

LEMMA CountedTypes ==
    ASSUME TypeOK
    PROVE  /\ GrantsBl \in Int /\ GrantsCb \in Int /\ Returns \in Int
           /\ InputTakes \in Int /\ ExtraTakes \in Int
           /\ Stored \in Nat /\ Begun \in Nat
<1>1. /\ inp.index \in Nat /\ out.index \in Nat
      /\ cb.in_index \in Nat /\ cb.out_index \in Nat
  BY DEF TypeOK, InputType, OutputType, CallbackType
<1> QED
  BY <1>1 DEF GrantsBl, GrantsCb, Returns, InputTakes, ExtraTakes, Stored, Begun, One

\* Once more for everybody.
LEMMA InputPostsOne ==
    ASSUME TypeOK, CountInv, UNCHANGED <<conf, flt>>,
           sem'["bl_input_2_filter"] = sem["bl_input_2_filter"] + n_processes,
           InputPosts' = InputPosts + 1
    PROVE  BlockingInTokens'
<1> DEFINE s == "bl_input_2_filter"
           u == [q \in Proc |-> InputPosts]
<1> SUFFICES ASSUME BlockingIn PROVE Tokens(sem'[s], TakenBl', [q \in Proc |-> InputPosts + 1])
  BY DEF BlockingInTokens, BlockingIn, Tokens, Between
<1>1. InputPosts \in Nat /\ sem[s] \in Nat /\ conf \in Configs /\ FilterType
  BY PostTypes DEF CountInv, TypeOK, SemType, Sems
<1>2. TakenBl' = TakenBl /\ TakenBl \in [Proc -> Nat]
  BY <1>1, CountTypes DEF TakenBl, TakenBlBy, HasBl, HasInput, One
<1>3. u \in [Proc -> Nat] /\ Tokens(sem[s], TakenBl, u)
  BY <1>1 DEF CountInv, FilterTokens, BlockingInTokens
<1>4. Tokens(sem[s] + n_processes, TakenBl, [q \in Proc |-> u[q] + 1])
  BY <1>1, <1>2, <1>3, PostEach
<1>5. [q \in Proc |-> u[q] + 1] = [q \in Proc |-> InputPosts + 1]
  OBVIOUS
<1> QED
  BY <1>2, <1>4, <1>5

LEMMA InputCount ==
    ASSUME SyncInv, CountInv, UNCHANGED conf, Input
    PROVE  CountInv'
<1>0. /\ TypeOK /\ InputType /\ CallbackType /\ SemType /\ conf \in Configs
      /\ n_processes \in Nat
  BY ConstantTypes DEF SyncInv, TypeOK
<1>1. /\ FilterTokens /\ ThreadTokens /\ InputPlaces /\ OutputPlaces /\ FilterPlaces
      /\ CallbackPlaces /\ Lag
  BY DEF CountInv
<1>2. UNCHANGED <<out, flt>>
  BY DEF Input, MainPostInit, MainWaitInit, InputSynchPost, InputSynchWait,
         InputBegin, InputEnd, InputEofFrames, InputEofIndex, InputTakeOutput,
         InputTakeExtra, InputPostFilter
<1>3. UNCHANGED CallbackCounts
  BY <1>0 DEF Input, MainPostInit, MainWaitInit, InputSynchPost, InputSynchWait,
         InputBegin, InputEnd, InputEofFrames, InputEofIndex, InputTakeOutput,
         InputTakeExtra, InputPostFilter, CallbackCounts, CallbackType
<1>4. OutputPlaces' /\ UNCHANGED <<OutputRounds, GrantsBl, GrantsCb>>
  BY <1>1, <1>2, OutputKept
<1>5. /\ CallbackPlaces' /\ Lag' /\ UNCHANGED <<CallbackRounds, Returns>>
      /\ cb'.pc = cb.pc /\ cb'.in_index = cb.in_index
  BY <1>1, <1>3, CallbackKept
<1>6. FilterPlaces'
  BY <1>1, <1>2, FiltersKept
<1>7. UNCHANGED <<BlockingIn, BlockingOut, CallbackIn, CallbackOut>>
  BY DEF BlockingIn, BlockingOut, CallbackIn, CallbackOut
<1>8. inp.pc \in InputPcs /\ inp.index \in Nat
  BY <1>0 DEF InputType
<1>9. /\ GrantsBl \in Int /\ GrantsCb \in Int /\ Returns \in Int
      /\ InputTakes \in Int /\ ExtraTakes \in Int
  BY <1>0, CountedTypes
<1>10. InputPlaces' /\ FilterTokens' /\ ThreadTokens'
  <2>1. CASE MainPostInit
    <3>1. InputPlaces'
      BY <1>0, <1>1, <1>7, <1>8, <2>1 DEF MainPostInit, InputPlaces, InputType, HasExtraOutput
    <3>2. /\ \A s \in Sems \ {"bl_input_2_filter"} : sem'[s] = sem[s]
          /\ sem'["bl_input_2_filter"] = sem["bl_input_2_filter"] + n_processes
      BY <1>0, <1>1, <2>1 DEF MainPostInit, Post, SemType, Sems, InputPlaces, output_readfd, HasExtraOutput
    <3>3. InputPosts' = InputPosts + 1 /\ UNCHANGED <<InputTakes, ExtraTakes>>
      BY <1>0, <1>1, <1>7, <1>8, <2>1 DEF MainPostInit, InputPosts, InputTakes, ExtraTakes, One,
         InputType, InputPlaces
    <3>4. FilterTokens'
      <4>1. BlockingInTokens'
        BY <1>0, <1>2, <3>2, <3>3, InputPostsOne
      <4> QED
        BY <1>1, <1>2, <1>4, <1>5, <3>2, <4>1, TokensKept DEF FilterTokens, Sems
    <3>5. ThreadTokens'
      BY <1>0, <1>1, <1>4, <1>5, <1>7, <1>8, <1>9, <3>2, <3>3 DEF ThreadTokens, Sems, SemType, One
    <3> QED
      BY <3>1, <3>4, <3>5
  <2>2. CASE MainWaitInit
    <3>1. InputPlaces'
      BY <1>0, <1>1, <1>7, <1>8, <2>2 DEF MainWaitInit, InputPlaces, InputType, HasExtraOutput
    <3>2. /\ \A s \in Sems \ {"filter_2_bl_output"} : sem'[s] = sem[s]
          /\ sem'["filter_2_bl_output"] = sem["filter_2_bl_output"] - n_processes /\ ~BlockingOut
      BY <1>0, <1>1, <2>2 DEF MainWaitInit, Take, SemType, Sems, InputPlaces, output_readfd, HasExtraOutput
    <3>3. UNCHANGED <<InputPosts, InputTakes, ExtraTakes>>
      BY <1>0, <1>1, <1>7, <1>8, <2>2 DEF MainWaitInit, InputPosts, InputTakes, ExtraTakes, One,
         InputType, InputPlaces
    <3>4. FilterTokens'
      <4>1. BlockingOutTokens'
        BY <1>7, <3>2 DEF BlockingOutTokens
      <4> QED
        BY <1>1, <1>2, <1>4, <1>5, <3>2, <3>3, <4>1, TokensKept DEF FilterTokens, Sems
    <3>5. ThreadTokens'
      BY <1>0, <1>1, <1>4, <1>5, <1>7, <1>8, <1>9, <3>2, <3>3 DEF ThreadTokens, Sems, SemType, One
    <3> QED
      BY <3>1, <3>4, <3>5
  <2>3. CASE InputSynchPost
    <3>1. InputPlaces'
      BY <1>0, <1>1, <1>7, <1>8, <2>3 DEF InputSynchPost, InputPlaces, InputType, HasExtraOutput
    <3>2. /\ \A s \in Sems \ {"synch_sp"} : sem'[s] = sem[s]
          /\ sem'["synch_sp"] = sem["synch_sp"] + 1
      BY <1>0, <1>1, <2>3 DEF InputSynchPost, Post, SemType, Sems, InputPlaces, output_readfd, HasExtraOutput
    <3>3. UNCHANGED <<InputPosts, InputTakes, ExtraTakes>>
      BY <1>0, <1>1, <1>7, <1>8, <2>3 DEF InputSynchPost, InputPosts, InputTakes, ExtraTakes, One,
         InputType, InputPlaces
    <3>4. FilterTokens'
      BY <1>1, <1>2, <1>4, <1>5, <3>2, <3>3, TokensKept DEF FilterTokens, Sems
    <3>5. ThreadTokens'
      BY <1>0, <1>1, <1>4, <1>5, <1>7, <1>8, <1>9, <3>2, <3>3 DEF ThreadTokens, Sems, SemType, One
    <3> QED
      BY <3>1, <3>4, <3>5
  <2>4. CASE InputSynchWait
    <3>1. InputPlaces'
      BY <1>0, <1>1, <1>7, <1>8, <2>4 DEF InputSynchWait, InputPlaces, InputType, HasExtraOutput
    <3>2. /\ \A s \in Sems \ {"bl_output_2_bl_input"} : sem'[s] = sem[s]
          /\ sem'["bl_output_2_bl_input"] = sem["bl_output_2_bl_input"] - 1 /\ BlockingOut /\ BlockingIn
      BY <1>0, <1>1, <2>4 DEF InputSynchWait, Take, SemType, Sems, InputPlaces, output_readfd, HasExtraOutput
    <3>3. InputTakes' = InputTakes + 1 /\ UNCHANGED <<InputPosts, ExtraTakes>>
      BY <1>0, <1>1, <1>7, <1>8, <2>4 DEF InputSynchWait, InputPosts, InputTakes, ExtraTakes, One,
         InputType, InputPlaces
    <3>4. FilterTokens'
      BY <1>1, <1>2, <1>4, <1>5, <3>2, <3>3, TokensKept DEF FilterTokens, Sems
    <3>5. ThreadTokens'
      BY <1>0, <1>1, <1>4, <1>5, <1>7, <1>8, <1>9, <3>2, <3>3 DEF ThreadTokens, Sems, SemType, One
    <3> QED
      BY <3>1, <3>4, <3>5
  <2>5. CASE InputBegin
    <3>1. InputPlaces'
      BY <1>0, <1>1, <1>7, <1>8, <2>5 DEF InputBegin, InputPlaces, InputType, HasExtraOutput
    <3>2. sem' = sem
      BY <2>5 DEF InputBegin
    <3>3. UNCHANGED <<InputPosts, InputTakes, ExtraTakes>>
      BY <1>0, <1>1, <1>7, <1>8, <2>5 DEF InputBegin, InputPosts, InputTakes, ExtraTakes, One,
         InputType, InputPlaces
    <3>4. FilterTokens'
      BY <1>1, <1>2, <1>4, <1>5, <3>2, <3>3, TokensKept DEF FilterTokens, Sems
    <3>5. ThreadTokens'
      BY <1>0, <1>1, <1>4, <1>5, <1>7, <1>8, <1>9, <3>2, <3>3 DEF ThreadTokens, Sems, SemType, One
    <3> QED
      BY <3>1, <3>4, <3>5
  <2>6. CASE InputEnd
    <3>1. InputPlaces'
      BY <1>0, <1>1, <1>7, <1>8, <2>6 DEF InputEnd, InputPlaces, InputType, HasExtraOutput
    <3>2. sem' = sem
      BY <2>6 DEF InputEnd
    <3>3. UNCHANGED <<InputPosts, InputTakes, ExtraTakes>>
      BY <1>0, <1>1, <1>7, <1>8, <2>6 DEF InputEnd, InputPosts, InputTakes, ExtraTakes, One,
         InputType, InputPlaces
    <3>4. FilterTokens'
      BY <1>1, <1>2, <1>4, <1>5, <3>2, <3>3, TokensKept DEF FilterTokens, Sems
    <3>5. ThreadTokens'
      BY <1>0, <1>1, <1>4, <1>5, <1>7, <1>8, <1>9, <3>2, <3>3 DEF ThreadTokens, Sems, SemType, One
    <3> QED
      BY <3>1, <3>4, <3>5
  <2>7. CASE InputEofFrames
    <3>1. InputPlaces'
      BY <1>0, <1>1, <1>7, <1>8, <2>7 DEF InputEofFrames, InputPlaces, InputType, HasExtraOutput
    <3>2. sem' = sem
      BY <2>7 DEF InputEofFrames
    <3>3. UNCHANGED <<InputPosts, InputTakes, ExtraTakes>>
      BY <1>0, <1>1, <1>7, <1>8, <2>7 DEF InputEofFrames, InputPosts, InputTakes, ExtraTakes, One,
         InputType, InputPlaces
    <3>4. FilterTokens'
      BY <1>1, <1>2, <1>4, <1>5, <3>2, <3>3, TokensKept DEF FilterTokens, Sems
    <3>5. ThreadTokens'
      BY <1>0, <1>1, <1>4, <1>5, <1>7, <1>8, <1>9, <3>2, <3>3 DEF ThreadTokens, Sems, SemType, One
    <3> QED
      BY <3>1, <3>4, <3>5
  <2>8. CASE InputEofIndex
    <3>1. InputPlaces'
      BY <1>0, <1>1, <1>7, <1>8, <2>8 DEF InputEofIndex, InputPlaces, InputType, HasExtraOutput
    <3>2. sem' = sem
      BY <2>8 DEF InputEofIndex
    <3>3. UNCHANGED <<InputPosts, InputTakes, ExtraTakes>>
      BY <1>0, <1>1, <1>7, <1>8, <2>8 DEF InputEofIndex, InputPosts, InputTakes, ExtraTakes, One,
         InputType, InputPlaces
    <3>4. FilterTokens'
      BY <1>1, <1>2, <1>4, <1>5, <3>2, <3>3, TokensKept DEF FilterTokens, Sems
    <3>5. ThreadTokens'
      BY <1>0, <1>1, <1>4, <1>5, <1>7, <1>8, <1>9, <3>2, <3>3 DEF ThreadTokens, Sems, SemType, One
    <3> QED
      BY <3>1, <3>4, <3>5
  <2>9. CASE InputTakeOutput
    <3>1. InputPlaces'
      BY <1>0, <1>1, <1>7, <1>8, <2>9 DEF InputTakeOutput, InputPlaces, InputType, HasExtraOutput
    <3>2. /\ \A s \in Sems \ {output_readfd} : sem'[s] = sem[s]
          /\ sem'[output_readfd] = sem[output_readfd] - 1
      BY <1>0, <2>9, SemNames DEF InputTakeOutput, Take, SemType
    <3>3. /\ InputTakes' = InputTakes + 1 /\ InputPosts' = InputPosts
          /\ BlockingOut /\ CallbackOut => ExtraTakes' = ExtraTakes
      BY <1>0, <1>1, <1>7, <1>8, <2>9 DEF InputTakeOutput, InputPosts, InputTakes, ExtraTakes, One,
         InputType, InputPlaces, HasExtraOutput
    <3>4. FilterTokens'
      BY <1>1, <1>2, <1>4, <1>5, <3>2, <3>3, TokensKept DEF FilterTokens, Sems, output_readfd
    <3>5. ThreadTokens'
      BY <1>0, <1>1, <1>4, <1>5, <1>7, <1>8, <1>9, <3>2, <3>3 DEF ThreadTokens, Sems, SemType, One, output_readfd
    <3> QED
      BY <3>1, <3>4, <3>5
  <2>10. CASE InputTakeExtra
    <3>1. InputPlaces'
      BY <1>0, <1>1, <1>7, <1>8, <2>10 DEF InputTakeExtra, InputPlaces, InputType, HasExtraOutput
    <3>2. /\ \A s \in Sems \ {"cb_output_2_bl_input"} : sem'[s] = sem[s]
          /\ sem'["cb_output_2_bl_input"] = sem["cb_output_2_bl_input"] - 1 /\ BlockingOut /\ CallbackOut
      BY <1>0, <1>1, <2>10 DEF InputTakeExtra, Take, SemType, Sems, InputPlaces, output_readfd, HasExtraOutput
    <3>3. ExtraTakes' = ExtraTakes + 1 /\ UNCHANGED <<InputPosts, InputTakes>>
      BY <1>0, <1>1, <1>7, <1>8, <2>10 DEF InputTakeExtra, InputPosts, InputTakes, ExtraTakes, One,
         InputType, InputPlaces
    <3>4. FilterTokens'
      BY <1>1, <1>2, <1>4, <1>5, <3>2, <3>3, TokensKept DEF FilterTokens, Sems
    <3>5. ThreadTokens'
      BY <1>0, <1>1, <1>4, <1>5, <1>7, <1>8, <1>9, <3>2, <3>3 DEF ThreadTokens, Sems, SemType, One
    <3> QED
      BY <3>1, <3>4, <3>5
  <2>11. CASE InputPostFilter
    <3>1. InputPlaces'
      BY <1>0, <1>1, <1>7, <1>8, <2>11 DEF InputPostFilter, InputPlaces, InputType, HasExtraOutput
    <3>2. /\ \A s \in Sems \ {"bl_input_2_filter"} : sem'[s] = sem[s]
          /\ sem'["bl_input_2_filter"] = sem["bl_input_2_filter"] + n_processes
      BY <1>0, <1>1, <2>11 DEF InputPostFilter, Post, SemType, Sems, InputPlaces, output_readfd, HasExtraOutput
    <3>3. InputPosts' = InputPosts + 1 /\ UNCHANGED <<InputTakes, ExtraTakes>>
      BY <1>0, <1>1, <1>7, <1>8, <2>11 DEF InputPostFilter, InputPosts, InputTakes, ExtraTakes, One,
         InputType, InputPlaces
    <3>4. FilterTokens'
      <4>1. BlockingInTokens'
        BY <1>0, <1>2, <3>2, <3>3, InputPostsOne
      <4> QED
        BY <1>1, <1>2, <1>4, <1>5, <3>2, <4>1, TokensKept DEF FilterTokens, Sems
    <3>5. ThreadTokens'
      BY <1>0, <1>1, <1>4, <1>5, <1>7, <1>8, <1>9, <3>2, <3>3 DEF ThreadTokens, Sems, SemType, One
    <3> QED
      BY <3>1, <3>4, <3>5
  <2> QED
    BY <2>1, <2>2, <2>3, <2>4, <2>5, <2>6, <2>7, <2>8, <2>9, <2>10, <2>11 DEF Input
<1> QED
  BY <1>4, <1>5, <1>6, <1>10 DEF CountInv

-----------------------------------------------------------------------------
(* Output process *)

\* The output process has waited for everybody once more.
LEMMA OutputRoundsOne ==
    ASSUME SyncInv, CountInv, BlockingOut, UNCHANGED <<conf, flt>>,
           sem["filter_2_bl_output"] >= n_processes,
           sem'["filter_2_bl_output"] = sem["filter_2_bl_output"] - n_processes,
           OutputRounds' = OutputRounds + 1
    PROVE  BlockingOutTokens'
<1> DEFINE s == "filter_2_bl_output"
           t == [q \in Proc |-> OutputRounds]
<1> SUFFICES Tokens(sem'[s], [q \in Proc |-> OutputRounds + 1], PostedBl')
  BY DEF BlockingOutTokens, BlockingOut, Tokens, Between
<1>1. /\ OutputRounds \in Nat /\ sem[s] \in Nat /\ conf \in Configs /\ FilterType
      /\ TypeOK /\ StartInv /\ EnteredInv /\ FilterPlaces
  BY PostTypes DEF SyncInv, CountInv, TypeOK, SemType, Sems
<1>2. PostedBl' = PostedBl /\ PostedBl \in [Proc -> Nat]
  BY <1>1, CountTypes DEF PostedBl, PostedBlBy, Starting, One
<1>3. t \in [Proc -> Nat] /\ Tokens(sem[s], t, PostedBl)
  BY <1>1 DEF CountInv, FilterTokens, BlockingOutTokens
<1>4. \A q \in Proc : OutputRounds < PostedBl[q]
  <2>1. \A p, q \in Proc : PostedBl[p] <= PostedBl[q] + 1
    BY <1>1, PostersClose
  <2> QED
    BY <1>1, <1>2, <1>3, <2>1, EverybodysToken
<1>5. Tokens(sem[s] - n_processes, [q \in Proc |-> t[q] + 1], PostedBl)
  BY <1>1, <1>2, <1>3, <1>4, TakeEach
<1>6. [q \in Proc |-> t[q] + 1] = [q \in Proc |-> OutputRounds + 1]
  OBVIOUS
<1> QED
  BY <1>2, <1>5, <1>6

LEMMA OutputCount ==
    ASSUME SyncInv, CountInv, UNCHANGED conf, Output
    PROVE  CountInv'
<1>0. /\ TypeOK /\ OutputType /\ CallbackType /\ SemType /\ conf \in Configs
      /\ n_processes \in Nat
  BY ConstantTypes DEF SyncInv, TypeOK
<1>1. /\ FilterTokens /\ ThreadTokens /\ InputPlaces /\ OutputPlaces /\ FilterPlaces
      /\ CallbackPlaces /\ Lag
  BY DEF CountInv
<1>2. UNCHANGED <<inp, flt>>
  BY DEF Output, OutputStart, OutputWaitInit, OutputSynchWait, OutputPrime,
         OutputPrime2, OutputBegin, OutputSynchPost, OutputFillEnd, OutputWaitFilter,
         OutputPostInput, OutputEnd, OutputFinish
<1>3. UNCHANGED CallbackCounts
  BY <1>0 DEF Output, OutputStart, OutputWaitInit, OutputSynchWait, OutputPrime,
         OutputPrime2, OutputBegin, OutputSynchPost, OutputFillEnd, OutputWaitFilter,
         OutputPostInput, OutputEnd, OutputFinish, CallbackCounts, CallbackType
<1>4. InputPlaces' /\ UNCHANGED <<InputPosts, InputTakes, ExtraTakes>>
  BY <1>1, <1>2, InputKept
<1>5. /\ CallbackPlaces' /\ Lag' /\ UNCHANGED <<CallbackRounds, Returns>>
      /\ cb'.pc = cb.pc /\ cb'.in_index = cb.in_index
  BY <1>1, <1>3, CallbackKept
<1>6. FilterPlaces'
  BY <1>1, <1>2, FiltersKept
<1>7. UNCHANGED <<BlockingIn, BlockingOut, CallbackIn, CallbackOut, synched_write>>
  BY DEF BlockingIn, BlockingOut, CallbackIn, CallbackOut, synched_write
<1>8. out.pc \in OutputPcs /\ out.index \in Nat /\ out.cur \in 0 .. 1
  BY <1>0 DEF OutputType
<1>9. /\ GrantsBl \in Int /\ GrantsCb \in Int /\ Returns \in Int
      /\ InputTakes \in Int /\ ExtraTakes \in Int
  BY <1>0, CountedTypes
<1>10. SemType'
  <2>1. TypeOK'
    BY <1>0, OutputTypes
  <2> QED
    BY <2>1 DEF TypeOK
<1>11. OutputPlaces' /\ FilterTokens' /\ ThreadTokens'
  <2>1. CASE OutputStart
    <3>1. OutputPlaces'
      BY <1>0, <1>1, <1>7, <1>8, <2>1 DEF OutputStart, OutputPlaces, OutputType, Unprimed
    <3>2. /\ \A s \in Sems \ {"bl_input_2_filter"} : sem'[s] = sem[s]
          /\ BlockingIn => sem'["bl_input_2_filter"] = sem["bl_input_2_filter"]
      BY <1>0, <1>1, <1>8, <2>1 DEF OutputStart, Post, PostAll, Take, SemType, Sems, InputSide, input_writefd,
         extra_input_writefd
    <3>3. UNCHANGED <<OutputRounds, GrantsBl, GrantsCb>>
      BY <1>0, <1>1, <1>7, <1>8, <2>1 DEF OutputStart, OutputRounds, GrantsBl, GrantsCb, One,
         OutputType, OutputPlaces, Unprimed, Written
    <3>4. FilterTokens'
      BY <1>1, <1>2, <1>4, <1>5, <3>2, <3>3, TokensKept DEF FilterTokens, Sems, BlockingInTokens, BlockingIn
    <3>5. ThreadTokens'
      BY <1>0, <1>1, <1>4, <1>5, <1>7, <1>8, <1>9, <3>2, <3>3 DEF ThreadTokens, Sems, SemType, One
    <3> QED
      BY <3>1, <3>4, <3>5
  <2>2. CASE OutputWaitInit
    <3>1. OutputPlaces'
      BY <1>0, <1>1, <1>7, <1>8, <2>2 DEF OutputWaitInit, OutputPlaces, OutputType, Unprimed
    <3>2. /\ \A s \in Sems \ {"filter_2_bl_output"} : sem'[s] = sem[s]
          /\ sem["filter_2_bl_output"] >= n_processes
          /\ sem'["filter_2_bl_output"] = sem["filter_2_bl_output"] - n_processes
      BY <1>0, <1>1, <1>8, <2>2 DEF OutputWaitInit, Post, PostAll, Take, SemType, Sems, InputSide, input_writefd,
         extra_input_writefd
    <3>3. OutputRounds' = OutputRounds + 1 /\ UNCHANGED <<GrantsBl, GrantsCb>>
      BY <1>0, <1>1, <1>7, <1>8, <2>2 DEF OutputWaitInit, OutputRounds, GrantsBl, GrantsCb, One,
         OutputType, OutputPlaces, Unprimed, Written
    <3>4. FilterTokens'
      <4>1. BlockingOutTokens'
        <5>1. BlockingOut
          BY <1>1, <2>2 DEF OutputWaitInit, OutputPlaces
        <5> QED
          BY <1>2, <3>2, <3>3, <5>1, OutputRoundsOne
      <4> QED
        BY <1>1, <1>2, <1>4, <1>5, <3>2, <4>1, TokensKept DEF FilterTokens, Sems
    <3>5. ThreadTokens'
      BY <1>0, <1>1, <1>4, <1>5, <1>7, <1>8, <1>9, <3>2, <3>3 DEF ThreadTokens, Sems, SemType, One
    <3> QED
      BY <3>1, <3>4, <3>5
  <2>3. CASE OutputSynchWait
    <3>1. OutputPlaces'
      BY <1>0, <1>1, <1>7, <1>8, <2>3 DEF OutputSynchWait, OutputPlaces, OutputType, Unprimed
    <3>2. \A s \in Sems \ {"synch_sp"} : sem'[s] = sem[s]
      BY <1>0, <1>1, <1>8, <2>3 DEF OutputSynchWait, Post, PostAll, Take, SemType, Sems, InputSide, input_writefd,
         extra_input_writefd
    <3>3. UNCHANGED <<OutputRounds, GrantsBl, GrantsCb>>
      BY <1>0, <1>1, <1>7, <1>8, <2>3 DEF OutputSynchWait, OutputRounds, GrantsBl, GrantsCb, One,
         OutputType, OutputPlaces, Unprimed, Written
    <3>4. FilterTokens'
      BY <1>1, <1>2, <1>4, <1>5, <3>2, <3>3, TokensKept DEF FilterTokens, Sems
    <3>5. ThreadTokens'
      BY <1>0, <1>1, <1>4, <1>5, <1>7, <1>8, <1>9, <3>2, <3>3 DEF ThreadTokens, Sems, SemType, One
    <3> QED
      BY <3>1, <3>4, <3>5
  <2>4. CASE OutputPrime
    <3>1. OutputPlaces'
      BY <1>0, <1>1, <1>7, <1>8, <2>4 DEF OutputPrime, OutputPlaces, OutputType, Unprimed
    <3>2. /\ \A s \in Sems \ {"bl_output_2_bl_input", "bl_output_2_cb_input"} : sem'[s] = sem[s]
          /\ OutputRounds' = OutputRounds
          /\ BlockingIn => sem'["bl_output_2_bl_input"] - sem["bl_output_2_bl_input"] = GrantsBl' - GrantsBl
          /\ CallbackIn => sem'["bl_output_2_cb_input"] - sem["bl_output_2_cb_input"] = GrantsCb' - GrantsCb
          /\ GrantsBl' \in Int /\ GrantsCb' \in Int
      <4>1. CASE synched_write
        BY <1>0, <1>1, <1>7, <1>8, <2>4, <4>1 DEF OutputPrime, PostAll, PrimeTokens, SemType, Sems,
           extra_input_writefd, OutputRounds, GrantsBl, GrantsCb, One, OutputType, Unprimed, Written
      <4>2. CASE ~synched_write
        BY <1>0, <1>1, <1>7, <1>8, <2>4, <4>2 DEF OutputPrime, PostAll, PrimeTokens, SemType, Sems,
           InputSide, input_writefd, extra_input_writefd, OutputRounds, GrantsBl, GrantsCb, One,
           OutputType, Unprimed, Written
      <4> QED
        BY <4>1, <4>2
    <3>4. FilterTokens'
      BY <1>1, <1>2, <1>4, <1>5, <3>2, TokensKept DEF FilterTokens, Sems
    <3>5. sem'["cb_output_2_bl_input"] = sem["cb_output_2_bl_input"]
      BY <3>2 DEF Sems
    <3>6. /\ sem["bl_output_2_bl_input"] \in Nat /\ sem'["bl_output_2_bl_input"] \in Int
          /\ sem["bl_output_2_cb_input"] \in Nat /\ sem'["bl_output_2_cb_input"] \in Int
      BY <1>0, <1>10 DEF SemType, Sems
    <3>7. ThreadTokens'
      <4>1. BlockingIn /\ BlockingOut => sem'["bl_output_2_bl_input"] = GrantsBl' - InputTakes
        BY <1>1, <1>9, <3>2, <3>6 DEF ThreadTokens
      <4>2. CallbackIn /\ BlockingOut =>
               sem'["bl_output_2_cb_input"] = GrantsCb' - (cb.in_index + One(cb.pc = "in_post"))
        <5>1. cb.in_index + One(cb.pc = "in_post") \in Int
          BY <1>0 DEF CallbackType, One
        <5> QED
          BY <1>1, <1>9, <3>2, <3>6, <5>1 DEF ThreadTokens
      <4> QED
        BY <1>1, <1>4, <1>5, <1>7, <3>5, <4>1, <4>2 DEF ThreadTokens
    <3> QED
      BY <3>1, <3>4, <3>7
  <2>5. CASE OutputPrime2
    <3>1. OutputPlaces'
      BY <1>0, <1>1, <1>7, <1>8, <2>5 DEF OutputPrime2, OutputPlaces, OutputType, Unprimed
    <3>2. /\ \A s \in Sems \ {"bl_output_2_bl_input", "bl_output_2_cb_input"} : sem'[s] = sem[s]
          /\ BlockingIn => sem'["bl_output_2_bl_input"] = sem["bl_output_2_bl_input"] + 1
          /\ CallbackIn => sem'["bl_output_2_cb_input"] = sem["bl_output_2_cb_input"] + 1
      BY <1>0, <1>1, <1>8, <2>5 DEF OutputPrime2, Post, PostAll, Take, SemType, Sems, InputSide, input_writefd,
         extra_input_writefd
    <3>3. /\ OutputRounds' = OutputRounds /\ GrantsBl' = GrantsBl + 1 /\ GrantsCb' = GrantsCb + 1
      BY <1>0, <1>1, <1>7, <1>8, <2>5 DEF OutputPrime2, OutputRounds, GrantsBl, GrantsCb, One,
         OutputType, OutputPlaces, Unprimed, Written
    <3>4. FilterTokens'
      BY <1>1, <1>2, <1>4, <1>5, <3>2, <3>3, TokensKept DEF FilterTokens, Sems
    <3>5. sem'["cb_output_2_bl_input"] = sem["cb_output_2_bl_input"]
      BY <3>2 DEF Sems
    <3>6. /\ sem["bl_output_2_bl_input"] \in Nat /\ sem'["bl_output_2_bl_input"] \in Int
          /\ sem["bl_output_2_cb_input"] \in Nat /\ sem'["bl_output_2_cb_input"] \in Int
      BY <1>0, <1>10 DEF SemType, Sems
    <3>7. ThreadTokens'
      <4>1. BlockingIn /\ BlockingOut => sem'["bl_output_2_bl_input"] = GrantsBl' - InputTakes
        BY <1>1, <1>9, <3>2, <3>3, <3>6 DEF ThreadTokens
      <4>2. CallbackIn /\ BlockingOut =>
               sem'["bl_output_2_cb_input"] = GrantsCb' - (cb.in_index + One(cb.pc = "in_post"))
        <5>1. cb.in_index + One(cb.pc = "in_post") \in Int
          BY <1>0 DEF CallbackType, One
        <5> QED
          BY <1>1, <1>9, <3>2, <3>3, <3>6, <5>1 DEF ThreadTokens
      <4> QED
        BY <1>1, <1>4, <1>5, <1>7, <3>5, <4>1, <4>2 DEF ThreadTokens
    <3> QED
      BY <3>1, <3>4, <3>7
  <2>6. CASE OutputBegin
    <3>1. OutputPlaces'
      BY <1>0, <1>1, <1>7, <1>8, <2>6 DEF OutputBegin, OutputPlaces, OutputType, Unprimed, Busy
    <3>2. sem' = sem
      BY <1>0, <1>1, <1>8, <2>6 DEF OutputBegin, Post, PostAll, Take, SemType, Sems, InputSide, input_writefd,
         extra_input_writefd
    <3>3. UNCHANGED <<OutputRounds, GrantsBl, GrantsCb>>
      BY <1>0, <1>1, <1>7, <1>8, <2>6 DEF OutputBegin, OutputRounds, GrantsBl, GrantsCb, One,
         OutputType, OutputPlaces, Unprimed, Written, Busy
    <3>4. FilterTokens'
      BY <1>1, <1>2, <1>4, <1>5, <3>2, <3>3, TokensKept DEF FilterTokens, Sems
    <3>5. ThreadTokens'
      BY <1>0, <1>1, <1>4, <1>5, <1>7, <1>8, <1>9, <3>2, <3>3 DEF ThreadTokens, Sems, SemType, One
    <3> QED
      BY <3>1, <3>4, <3>5
  <2>7. CASE OutputSynchPost
    <3>1. OutputPlaces'
      BY <1>0, <1>1, <1>7, <1>8, <2>7 DEF OutputSynchPost, OutputPlaces, OutputType, Unprimed
    <3>2. /\ \A s \in Sems \ {"bl_output_2_bl_input", "bl_output_2_cb_input"} : sem'[s] = sem[s]
          /\ OutputRounds' = OutputRounds
          /\ BlockingIn => sem'["bl_output_2_bl_input"] - sem["bl_output_2_bl_input"] = GrantsBl' - GrantsBl
          /\ CallbackIn => sem'["bl_output_2_cb_input"] - sem["bl_output_2_cb_input"] = GrantsCb' - GrantsCb
          /\ GrantsBl' \in Int /\ GrantsCb' \in Int
      BY <1>0, <1>1, <1>7, <1>8, <2>7 DEF OutputSynchPost, Post, PostAll, PrimeTokens, SemType, Sems, InputSide,
         input_writefd, extra_input_writefd, OutputRounds, GrantsBl, GrantsCb, One, OutputType,
         OutputPlaces, Unprimed, Written
    <3>4. FilterTokens'
      BY <1>1, <1>2, <1>4, <1>5, <3>2, TokensKept DEF FilterTokens, Sems
    <3>5. sem'["cb_output_2_bl_input"] = sem["cb_output_2_bl_input"]
      BY <3>2 DEF Sems
    <3>6. /\ sem["bl_output_2_bl_input"] \in Nat /\ sem'["bl_output_2_bl_input"] \in Int
          /\ sem["bl_output_2_cb_input"] \in Nat /\ sem'["bl_output_2_cb_input"] \in Int
      BY <1>0, <1>10 DEF SemType, Sems
    <3>7. ThreadTokens'
      <4>1. BlockingIn /\ BlockingOut => sem'["bl_output_2_bl_input"] = GrantsBl' - InputTakes
        BY <1>1, <1>9, <3>2, <3>6 DEF ThreadTokens
      <4>2. CallbackIn /\ BlockingOut =>
               sem'["bl_output_2_cb_input"] = GrantsCb' - (cb.in_index + One(cb.pc = "in_post"))
        <5>1. cb.in_index + One(cb.pc = "in_post") \in Int
          BY <1>0 DEF CallbackType, One
        <5> QED
          BY <1>1, <1>9, <3>2, <3>6, <5>1 DEF ThreadTokens
      <4> QED
        BY <1>1, <1>4, <1>5, <1>7, <3>5, <4>1, <4>2 DEF ThreadTokens
    <3> QED
      BY <3>1, <3>4, <3>7
  <2>8. CASE OutputFillEnd
    <3>1. OutputPlaces'
      BY <1>0, <1>1, <1>7, <1>8, <2>8 DEF OutputFillEnd, OutputPlaces, OutputType, Unprimed
    <3>2. sem' = sem
      BY <1>0, <1>1, <1>8, <2>8 DEF OutputFillEnd, Post, PostAll, Take, SemType, Sems, InputSide, input_writefd,
         extra_input_writefd
    <3>3. UNCHANGED <<OutputRounds, GrantsBl, GrantsCb>>
      BY <1>0, <1>1, <1>7, <1>8, <2>8 DEF OutputFillEnd, OutputRounds, GrantsBl, GrantsCb, One,
         OutputType, OutputPlaces, Unprimed, Written
    <3>4. FilterTokens'
      BY <1>1, <1>2, <1>4, <1>5, <3>2, <3>3, TokensKept DEF FilterTokens, Sems
    <3>5. ThreadTokens'
      BY <1>0, <1>1, <1>4, <1>5, <1>7, <1>8, <1>9, <3>2, <3>3 DEF ThreadTokens, Sems, SemType, One
    <3> QED
      BY <3>1, <3>4, <3>5
  <2>9. CASE OutputWaitFilter
    <3>1. OutputPlaces'
      BY <1>0, <1>1, <1>7, <1>8, <2>9 DEF OutputWaitFilter, OutputPlaces, OutputType, Unprimed
    <3>2. /\ \A s \in Sems \ {"filter_2_bl_output"} : sem'[s] = sem[s]
          /\ sem["filter_2_bl_output"] >= n_processes
          /\ sem'["filter_2_bl_output"] = sem["filter_2_bl_output"] - n_processes
      BY <1>0, <1>1, <1>8, <2>9 DEF OutputWaitFilter, Post, PostAll, Take, SemType, Sems, InputSide, input_writefd,
         extra_input_writefd
    <3>3. OutputRounds' = OutputRounds + 1 /\ UNCHANGED <<GrantsBl, GrantsCb>>
      BY <1>0, <1>1, <1>7, <1>8, <2>9 DEF OutputWaitFilter, OutputRounds, GrantsBl, GrantsCb, One,
         OutputType, OutputPlaces, Unprimed, Written
    <3>4. FilterTokens'
      <4>1. BlockingOutTokens'
        <5>1. BlockingOut
          BY <1>1, <2>9 DEF OutputWaitFilter, OutputPlaces
        <5> QED
          BY <1>2, <3>2, <3>3, <5>1, OutputRoundsOne
      <4> QED
        BY <1>1, <1>2, <1>4, <1>5, <3>2, <4>1, TokensKept DEF FilterTokens, Sems
    <3>5. ThreadTokens'
      BY <1>0, <1>1, <1>4, <1>5, <1>7, <1>8, <1>9, <3>2, <3>3 DEF ThreadTokens, Sems, SemType, One
    <3> QED
      BY <3>1, <3>4, <3>5
  <2>10. CASE OutputPostInput
    <3>1. OutputPlaces'
      BY <1>0, <1>1, <1>7, <1>8, <2>10 DEF OutputPostInput, OutputPlaces, OutputType, Unprimed
    <3>2. /\ \A s \in Sems \ {"bl_output_2_bl_input", "bl_output_2_cb_input"} : sem'[s] = sem[s]
          /\ BlockingIn => sem'["bl_output_2_bl_input"] = sem["bl_output_2_bl_input"] + 1
          /\ CallbackIn => sem'["bl_output_2_cb_input"] = sem["bl_output_2_cb_input"] + 1
      BY <1>0, <1>1, <1>8, <2>10 DEF OutputPostInput, Post, PostAll, Take, SemType, Sems, InputSide, input_writefd,
         extra_input_writefd
    <3>3. /\ OutputRounds' = OutputRounds /\ GrantsBl' = GrantsBl + 1 /\ GrantsCb' = GrantsCb + 1
      BY <1>0, <1>1, <1>7, <1>8, <2>10 DEF OutputPostInput, OutputRounds, GrantsBl, GrantsCb, One,
         OutputType, OutputPlaces, Unprimed, Written
    <3>4. FilterTokens'
      BY <1>1, <1>2, <1>4, <1>5, <3>2, <3>3, TokensKept DEF FilterTokens, Sems
    <3>5. sem'["cb_output_2_bl_input"] = sem["cb_output_2_bl_input"]
      BY <3>2 DEF Sems
    <3>6. /\ sem["bl_output_2_bl_input"] \in Nat /\ sem'["bl_output_2_bl_input"] \in Int
          /\ sem["bl_output_2_cb_input"] \in Nat /\ sem'["bl_output_2_cb_input"] \in Int
      BY <1>0, <1>10 DEF SemType, Sems
    <3>7. ThreadTokens'
      <4>1. BlockingIn /\ BlockingOut => sem'["bl_output_2_bl_input"] = GrantsBl' - InputTakes
        BY <1>1, <1>9, <3>2, <3>3, <3>6 DEF ThreadTokens
      <4>2. CallbackIn /\ BlockingOut =>
               sem'["bl_output_2_cb_input"] = GrantsCb' - (cb.in_index + One(cb.pc = "in_post"))
        <5>1. cb.in_index + One(cb.pc = "in_post") \in Int
          BY <1>0 DEF CallbackType, One
        <5> QED
          BY <1>1, <1>9, <3>2, <3>3, <3>6, <5>1 DEF ThreadTokens
      <4> QED
        BY <1>1, <1>4, <1>5, <1>7, <3>5, <4>1, <4>2 DEF ThreadTokens
    <3> QED
      BY <3>1, <3>4, <3>7
  <2>11. CASE OutputEnd
    <3>1. OutputPlaces'
      BY <1>0, <1>1, <1>7, <1>8, <2>11 DEF OutputEnd, OutputPlaces, OutputType, Unprimed
    <3>2. sem' = sem
      BY <1>0, <1>1, <1>8, <2>11 DEF OutputEnd, Post, PostAll, Take, SemType, Sems, InputSide, input_writefd,
         extra_input_writefd
    <3>3. UNCHANGED <<OutputRounds, GrantsBl, GrantsCb>>
      BY <1>0, <1>1, <1>7, <1>8, <2>11 DEF OutputEnd, OutputRounds, GrantsBl, GrantsCb, One,
         OutputType, OutputPlaces, Unprimed, Written
    <3>4. FilterTokens'
      BY <1>1, <1>2, <1>4, <1>5, <3>2, <3>3, TokensKept DEF FilterTokens, Sems
    <3>5. ThreadTokens'
      BY <1>0, <1>1, <1>4, <1>5, <1>7, <1>8, <1>9, <3>2, <3>3 DEF ThreadTokens, Sems, SemType, One
    <3> QED
      BY <3>1, <3>4, <3>5
  <2>12. CASE OutputFinish
    <3>1. OutputPlaces'
      BY <1>0, <1>1, <1>7, <1>8, <2>12 DEF OutputFinish, OutputPlaces, OutputType, Unprimed
    <3>2. sem' = sem
      BY <1>0, <1>1, <1>8, <2>12 DEF OutputFinish, Post, PostAll, Take, SemType, Sems, InputSide, input_writefd,
         extra_input_writefd
    <3>3. UNCHANGED <<OutputRounds, GrantsBl, GrantsCb>>
      BY <1>0, <1>1, <1>7, <1>8, <2>12 DEF OutputFinish, OutputRounds, GrantsBl, GrantsCb, One,
         OutputType, OutputPlaces, Unprimed, Written
    <3>4. FilterTokens'
      BY <1>1, <1>2, <1>4, <1>5, <3>2, <3>3, TokensKept DEF FilterTokens, Sems
    <3>5. ThreadTokens'
      BY <1>0, <1>1, <1>4, <1>5, <1>7, <1>8, <1>9, <3>2, <3>3 DEF ThreadTokens, Sems, SemType, One
    <3> QED
      BY <3>1, <3>4, <3>5
  <2> QED
    BY <2>1, <2>2, <2>3, <2>4, <2>5, <2>6, <2>7, <2>8, <2>9, <2>10, <2>11, <2>12 DEF Output
<1> QED
  BY <1>4, <1>5, <1>6, <1>11 DEF CountInv

-----------------------------------------------------------------------------
(* Callback thread *)

\* The callback thread has posted once more for everybody.
LEMMA CallbackPostsOne ==
    ASSUME TypeOK, CountInv, UNCHANGED <<conf, flt>>,
           sem'["cb_input_2_filter"] = sem["cb_input_2_filter"] + n_processes,
           cb'.in_index = cb.in_index + 1
    PROVE  CallbackInTokens'
<1> DEFINE s == "cb_input_2_filter"
           u == [q \in Proc |-> cb.in_index]
<1> SUFFICES ASSUME CallbackIn
             PROVE  Tokens(sem'[s], TakenCb', [q \in Proc |-> cb.in_index + 1])
  BY DEF CallbackInTokens, CallbackIn, Tokens, Between
<1>1. cb.in_index \in Nat /\ sem[s] \in Nat /\ conf \in Configs /\ FilterType
  BY PostTypes DEF CountInv, TypeOK, SemType, Sems
<1>2. TakenCb' = TakenCb /\ TakenCb \in [Proc -> Nat]
  BY <1>1, CountTypes DEF TakenCb, TakenCbBy, HasInput, One
<1>3. u \in [Proc -> Nat] /\ Tokens(sem[s], TakenCb, u)
  BY <1>1 DEF CountInv, FilterTokens, CallbackInTokens
<1>4. Tokens(sem[s] + n_processes, TakenCb, [q \in Proc |-> u[q] + 1])
  BY <1>1, <1>2, <1>3, PostEach
<1>5. [q \in Proc |-> u[q] + 1] = [q \in Proc |-> cb.in_index + 1]
  OBVIOUS
<1> QED
  BY <1>2, <1>4, <1>5

\* It has waited for everybody once more.
LEMMA CallbackRoundsOne ==
    ASSUME SyncInv, CountInv, CallbackOut, UNCHANGED <<conf, flt>>,
           sem["filter_2_cb_output"] >= n_processes,
           sem'["filter_2_cb_output"] = sem["filter_2_cb_output"] - n_processes,
           CallbackRounds' = CallbackRounds + 1
    PROVE  CallbackOutTokens'
<1> DEFINE s == "filter_2_cb_output"
           t == [q \in Proc |-> CallbackRounds]
<1> SUFFICES Tokens(sem'[s], [q \in Proc |-> CallbackRounds + 1], PostedCb')
  BY DEF CallbackOutTokens, CallbackOut, Tokens, Between
<1>1. /\ CallbackRounds \in Nat /\ sem[s] \in Nat /\ conf \in Configs /\ FilterType
      /\ TypeOK /\ StartInv /\ EnteredInv /\ FilterPlaces
  BY PostTypes DEF SyncInv, CountInv, TypeOK, SemType, Sems
<1>2. PostedCb' = PostedCb /\ PostedCb \in [Proc -> Nat]
  BY <1>1, CountTypes DEF PostedCb
<1>3. t \in [Proc -> Nat] /\ Tokens(sem[s], t, PostedCb)
  BY <1>1 DEF CountInv, FilterTokens, CallbackOutTokens
<1>4. \A q \in Proc : CallbackRounds < PostedCb[q]
  <2>1. \A p, q \in Proc : PostedCb[p] <= PostedCb[q] + 1
    BY <1>1, PostersClose
  <2> QED
    BY <1>1, <1>2, <1>3, <2>1, EverybodysToken
<1>5. Tokens(sem[s] - n_processes, [q \in Proc |-> t[q] + 1], PostedCb)
  BY <1>1, <1>2, <1>3, <1>4, TakeEach
<1>6. [q \in Proc |-> t[q] + 1] = [q \in Proc |-> CallbackRounds + 1]
  OBVIOUS
<1> QED
  BY <1>2, <1>5, <1>6

LEMMA CallbackCount ==
    ASSUME SyncInv, CountInv, UNCHANGED conf, Callback
    PROVE  CountInv'
<1>0. /\ TypeOK /\ CallbackType /\ SemType /\ conf \in Configs
      /\ n_processes \in Nat /\ Ratio \in Nat \ {0} /\ Ratio' = Ratio
  BY ConstantTypes DEF SyncInv, TypeOK, Ratio
<1>1. /\ FilterTokens /\ ThreadTokens /\ InputPlaces /\ OutputPlaces /\ FilterPlaces
      /\ CallbackPlaces /\ Lag
  BY DEF CountInv
<1>2. UNCHANGED <<inp, out, flt>>
  BY DEF Callback, CallbackCall, CallbackInCopy, CallbackInit, CallbackInWait,
         CallbackInPost, CallbackOutLock, CallbackOutWait, CallbackOutPost,
         CallbackOutCopy, CallbackFinished
<1>3. InputPlaces' /\ UNCHANGED <<InputPosts, InputTakes, ExtraTakes>>
  BY <1>1, <1>2, InputKept
<1>4. OutputPlaces' /\ UNCHANGED <<OutputRounds, GrantsBl, GrantsCb>>
  BY <1>1, <1>2, OutputKept
<1>5. FilterPlaces'
  BY <1>1, <1>2, FiltersKept
<1>6. UNCHANGED <<BlockingIn, BlockingOut, CallbackIn, CallbackOut>>
  BY DEF BlockingIn, BlockingOut, CallbackIn, CallbackOut
<1>7. /\ cb.pc \in CallbackPcs /\ cb.in_left \in Nat /\ cb.in_cur \in 0 .. 1 /\ cb.in_index \in Nat
      /\ cb.out_left \in Int /\ cb.out_cur \in 0 .. 1 /\ cb.out_index \in Nat /\ cb.fill \in Nat
  BY <1>0 DEF CallbackType
<1>8. /\ GrantsBl \in Int /\ GrantsCb \in Int /\ Returns \in Int
      /\ InputTakes \in Int /\ ExtraTakes \in Int
      /\ Stored \in Nat /\ Begun \in Nat
  BY <1>0, CountedTypes
<1>9. CallbackPlaces' /\ Lag' /\ FilterTokens' /\ ThreadTokens'
  <2>1. CASE CallbackCall
    <3>1. sem' = sem
      BY <1>0, <1>6, <1>7, <2>1 DEF CallbackCall, Post, Take, SemType, Sems, CallbackType
    <3>2. /\ UNCHANGED <<Stored, Begun>>
          /\ CallbackRounds' = CallbackRounds /\ Returns' = Returns
          /\ cb'.in_index = cb.in_index
          /\ cb'.in_index + One(cb'.pc = "in_post") =
                cb.in_index + One(cb.pc = "in_post")
      BY <1>0, <1>7, <2>1 DEF CallbackCall, Stored, Begun, CallbackRounds, Returns, One, CallbackType
    <3>3. CallbackPlaces'
      BY <1>0, <1>1, <1>6, <1>7, <1>8, <2>1, <3>2 DEF CallbackCall, CallbackPlaces, CallbackType, CallbackPcs,
         InSteps, OutSteps, One
    <3>4. Lag'
      BY <1>0, <1>1, <1>6, <1>7, <1>8, <2>1, <3>2 DEF CallbackCall, Lag, CallbackPlaces, CallbackType, InSteps,
         OutSteps, One
    <3>5. FilterTokens'
      BY <1>1, <1>2, <1>3, <1>4, <3>1, <3>2, TokensKept DEF FilterTokens, Sems
    <3>6. ThreadTokens'
      BY <1>0, <1>1, <1>3, <1>4, <1>6, <1>7, <1>8, <3>1, <3>2 DEF ThreadTokens, Sems, SemType
    <3> QED
      BY <3>3, <3>4, <3>5, <3>6
  <2>2. CASE CallbackInCopy
    <3>1. /\ sem' = sem /\ cb.pc = "in_copy" /\ CallbackIn
          /\ cb'.isinit = cb.isinit /\ cb'.in_index = cb.in_index /\ cb'.out_left = cb.out_left
          /\ cb'.out_cur = cb.out_cur /\ cb'.out_index = cb.out_index /\ cb'.fill = cb.fill
          /\ \/ /\ cb.in_left = 1 /\ cb'.pc = "in_init"
                /\ cb'.in_left = Ratio /\ cb'.in_cur = 1 - cb.in_cur
             \/ /\ cb.in_left > 1 /\ cb'.pc = IF CallbackOut THEN "out_lock" ELSE "idle"
                /\ cb'.in_left = cb.in_left - 1 /\ cb'.in_cur = cb.in_cur
      <4>1. cb.pc = "in_copy" /\ sem' = sem /\ CallbackIn
        BY <1>1, <2>2 DEF CallbackInCopy, CallbackPlaces
      <4>2. cb.in_left >= 1
        BY <1>0 DEF CallbackType
      <4>3. CASE cb.in_left = 1
        BY <1>0, <2>2, <4>1, <4>3 DEF CallbackInCopy, CallbackType
      <4>4. CASE cb.in_left # 1
        <5>1. cb' = [cb EXCEPT !.pc = AfterInput, !.in_left = cb.in_left - 1]
          BY <2>2, <4>4 DEF CallbackInCopy
        <5>2. AfterInput = IF CallbackOut THEN "out_lock" ELSE "idle"
          BY DEF AfterInput
        <5> QED
          BY <1>0, <1>7, <4>1, <4>2, <4>4, <5>1, <5>2 DEF CallbackType
      <4> QED
        BY <4>3, <4>4
    <3>2. /\ UNCHANGED Begun /\ Stored' = Stored + One(cb.in_left = 1)
          /\ CallbackRounds' = CallbackRounds /\ Returns' = Returns
          /\ cb'.in_index = cb.in_index
          /\ cb'.in_index + One(cb'.pc = "in_post") = cb.in_index + One(cb.pc = "in_post")
      BY <1>7, <3>1 DEF Stored, Begun, CallbackRounds, Returns, One
    <3>3. CallbackPlaces'
      BY <1>0, <1>1, <1>6, <1>7, <1>8, <3>1, <3>2 DEF CallbackPlaces, InSteps, OutSteps, One
    <3>4. Lag'
      BY <1>0, <1>1, <1>6, <1>7, <1>8, <3>1, <3>2 DEF Lag, CallbackPlaces, InSteps, OutSteps, One
    <3>5. FilterTokens'
      BY <1>1, <1>2, <1>3, <1>4, <3>1, <3>2, TokensKept DEF FilterTokens, Sems
    <3>6. ThreadTokens'
      BY <1>0, <1>1, <1>3, <1>4, <1>6, <1>7, <1>8, <3>1, <3>2 DEF ThreadTokens, Sems, SemType
    <3> QED
      BY <3>3, <3>4, <3>5, <3>6
  <2>3. CASE CallbackInit
    <3>1. /\ \A s \in Sems \ {"cb_output_2_bl_input"} : sem'[s] = sem[s]
          /\ BlockingIn => sem'["cb_output_2_bl_input"] - sem["cb_output_2_bl_input"] = Returns' - Returns
      BY <1>0, <1>6, <1>7, <2>3 DEF CallbackInit, Post, Take, SemType, Sems, CallbackType, Returns, One
    <3>2. /\ UNCHANGED <<Stored, Begun>>
          /\ CallbackRounds' = CallbackRounds /\ Returns' \in Int
          /\ cb'.in_index = cb.in_index
          /\ cb'.in_index + One(cb'.pc = "in_post") =
                cb.in_index + One(cb.pc = "in_post")
      BY <1>0, <1>7, <2>3 DEF CallbackInit, Stored, Begun, CallbackRounds, Returns, One, CallbackType
    <3>3. CallbackPlaces'
      BY <1>0, <1>1, <1>6, <1>7, <1>8, <2>3, <3>2 DEF CallbackInit, CallbackPlaces, CallbackType, CallbackPcs,
         InSteps, OutSteps, One
    <3>4. Lag'
      BY <1>0, <1>1, <1>6, <1>7, <1>8, <2>3, <3>2 DEF CallbackInit, Lag, CallbackPlaces, CallbackType, InSteps,
         OutSteps, One
    <3>5. FilterTokens'
      BY <1>1, <1>2, <1>3, <1>4, <3>1, <3>2, TokensKept DEF FilterTokens, Sems
    <3>6. ThreadTokens'
      <4>1. /\ sem'["bl_output_2_bl_input"] = sem["bl_output_2_bl_input"]
            /\ sem'["bl_output_2_cb_input"] = sem["bl_output_2_cb_input"]
            /\ sem["cb_output_2_bl_input"] \in Nat /\ sem'["cb_output_2_bl_input"] \in Nat
        <5>1. TypeOK'
          BY <1>0, CallbackTypes
        <5> QED
          BY <1>0, <3>1, <5>1 DEF Sems, SemType, TypeOK
      <4> QED
        BY <1>1, <1>3, <1>4, <1>6, <1>8, <3>1, <3>2, <4>1 DEF ThreadTokens
    <3> QED
      BY <3>3, <3>4, <3>5, <3>6
  <2>4. CASE CallbackInWait
    <3>1. /\ \A s \in Sems \ {"bl_output_2_cb_input"} : sem'[s] = sem[s]
          /\ BlockingOut => sem'["bl_output_2_cb_input"] = sem["bl_output_2_cb_input"] - 1
      BY <1>0, <1>6, <1>7, <2>4 DEF CallbackInWait, Post, Take, SemType, Sems, CallbackType
    <3>2. /\ UNCHANGED <<Stored, Begun>>
          /\ CallbackRounds' = CallbackRounds /\ Returns' = Returns
          /\ cb'.in_index = cb.in_index
          /\ cb'.in_index + One(cb'.pc = "in_post") =
                cb.in_index + One(cb.pc = "in_post") + 1
      BY <1>0, <1>7, <2>4 DEF CallbackInWait, Stored, Begun, CallbackRounds, Returns, One, CallbackType
    <3>3. CallbackPlaces'
      BY <1>0, <1>1, <1>6, <1>7, <1>8, <2>4, <3>2 DEF CallbackInWait, CallbackPlaces, CallbackType, CallbackPcs,
         InSteps, OutSteps, One
    <3>4. Lag'
      BY <1>0, <1>1, <1>6, <1>7, <1>8, <2>4, <3>2 DEF CallbackInWait, Lag, CallbackPlaces, CallbackType, InSteps,
         OutSteps, One
    <3>5. FilterTokens'
      BY <1>1, <1>2, <1>3, <1>4, <3>1, <3>2, TokensKept DEF FilterTokens, Sems
    <3>6. ThreadTokens'
      BY <1>0, <1>1, <1>3, <1>4, <1>6, <1>7, <1>8, <3>1, <3>2 DEF ThreadTokens, Sems, SemType, One
    <3> QED
      BY <3>3, <3>4, <3>5, <3>6
  <2>5. CASE CallbackInPost
    <3>1. /\ \A s \in Sems \ {"cb_input_2_filter"} : sem'[s] = sem[s]
          /\ sem'["cb_input_2_filter"] = sem["cb_input_2_filter"] + n_processes
      BY <1>0, <1>6, <1>7, <2>5 DEF CallbackInPost, Post, Take, SemType, Sems, CallbackType
    <3>2. /\ UNCHANGED <<Stored, Begun>>
          /\ CallbackRounds' = CallbackRounds /\ Returns' = Returns
          /\ cb'.in_index = cb.in_index + 1
          /\ cb'.in_index + One(cb'.pc = "in_post") =
                cb.in_index + One(cb.pc = "in_post")
      BY <1>0, <1>7, <2>5 DEF CallbackInPost, Stored, Begun, CallbackRounds, Returns, One, CallbackType, AfterInput
    <3>3. CallbackPlaces'
      BY <1>0, <1>1, <1>6, <1>7, <1>8, <2>5, <3>2 DEF CallbackInPost, CallbackPlaces, CallbackType, CallbackPcs,
         InSteps, OutSteps, One, AfterInput
    <3>4. Lag'
      BY <1>0, <1>1, <1>6, <1>7, <1>8, <2>5, <3>2 DEF CallbackInPost, Lag, CallbackPlaces, CallbackType, InSteps,
         OutSteps, One, AfterInput
    <3>5. FilterTokens'
      <4>1. CallbackInTokens'
        BY <1>0, <1>2, <3>1, <3>2, CallbackPostsOne
      <4> QED
        BY <1>1, <1>2, <1>3, <1>4, <3>1, <3>2, <4>1, TokensKept DEF FilterTokens, Sems
    <3>6. ThreadTokens'
      BY <1>0, <1>1, <1>3, <1>4, <1>6, <1>7, <1>8, <3>1, <3>2 DEF ThreadTokens, Sems, SemType
    <3> QED
      BY <3>3, <3>4, <3>5, <3>6
  <2>6. CASE CallbackOutLock
    <3>1. sem' = sem
      BY <1>0, <1>6, <1>7, <2>6 DEF CallbackOutLock, Post, Take, SemType, Sems, CallbackType
    <3>2. /\ UNCHANGED Stored /\ Begun' = Begun + One(NeedsBlock)
          /\ CallbackRounds' = CallbackRounds /\ Returns' = Returns
          /\ cb'.in_index = cb.in_index
          /\ cb'.in_index + One(cb'.pc = "in_post") =
                cb.in_index + One(cb.pc = "in_post")
      BY <1>0, <1>7, <2>6 DEF CallbackOutLock, Stored, Begun, CallbackRounds, Returns, One, CallbackType, NeedsBlock
    <3>3. CallbackPlaces'
      BY <1>0, <1>1, <1>6, <1>7, <1>8, <2>6, <3>2 DEF CallbackOutLock, CallbackPlaces, CallbackType, CallbackPcs,
         InSteps, OutSteps, One, NeedsBlock
    <3>4. Lag'
      BY <1>0, <1>1, <1>6, <1>7, <1>8, <2>6, <3>2 DEF CallbackOutLock, Lag, CallbackPlaces, CallbackType, InSteps,
         OutSteps, One, NeedsBlock
    <3>5. FilterTokens'
      BY <1>1, <1>2, <1>3, <1>4, <3>1, <3>2, TokensKept DEF FilterTokens, Sems
    <3>6. ThreadTokens'
      BY <1>0, <1>1, <1>3, <1>4, <1>6, <1>7, <1>8, <3>1, <3>2 DEF ThreadTokens, Sems, SemType
    <3> QED
      BY <3>3, <3>4, <3>5, <3>6
  <2>7. CASE CallbackOutWait
    <3>1. /\ \A s \in Sems \ {"filter_2_cb_output"} : sem'[s] = sem[s]
          /\ sem["filter_2_cb_output"] >= n_processes
          /\ sem'["filter_2_cb_output"] = sem["filter_2_cb_output"] - n_processes
      BY <1>0, <1>6, <1>7, <2>7 DEF CallbackOutWait, Post, Take, SemType, Sems, CallbackType
    <3>2. /\ UNCHANGED <<Stored, Begun>>
          /\ CallbackRounds' = CallbackRounds + 1 /\ Returns' = Returns
          /\ cb'.in_index = cb.in_index
          /\ cb'.in_index + One(cb'.pc = "in_post") =
                cb.in_index + One(cb.pc = "in_post")
      BY <1>0, <1>7, <2>7 DEF CallbackOutWait, Stored, Begun, CallbackRounds, Returns, One, CallbackType
    <3>3. CallbackPlaces'
      BY <1>0, <1>1, <1>6, <1>7, <1>8, <2>7, <3>2 DEF CallbackOutWait, CallbackPlaces, CallbackType, CallbackPcs,
         InSteps, OutSteps, One
    <3>4. Lag'
      BY <1>0, <1>1, <1>6, <1>7, <1>8, <2>7, <3>2 DEF CallbackOutWait, Lag, CallbackPlaces, CallbackType, InSteps,
         OutSteps, One
    <3>5. FilterTokens'
      <4>1. CallbackOutTokens'
        <5>1. CallbackOut
          BY <1>1, <2>7 DEF CallbackOutWait, CallbackPlaces, OutSteps
        <5> QED
          BY <1>2, <3>1, <3>2, <5>1, CallbackRoundsOne
      <4> QED
        BY <1>1, <1>2, <1>3, <1>4, <3>1, <3>2, <4>1, TokensKept DEF FilterTokens, Sems
    <3>6. ThreadTokens'
      BY <1>0, <1>1, <1>3, <1>4, <1>6, <1>7, <1>8, <3>1, <3>2 DEF ThreadTokens, Sems, SemType
    <3> QED
      BY <3>3, <3>4, <3>5, <3>6
  <2>8. CASE CallbackOutPost
    <3>1. /\ \A s \in Sems \ {"cb_output_2_bl_input"} : sem'[s] = sem[s]
          /\ BlockingIn => sem'["cb_output_2_bl_input"] - sem["cb_output_2_bl_input"] = Returns' - Returns
      BY <1>0, <1>6, <1>7, <2>8 DEF CallbackOutPost, Post, Take, SemType, Sems, CallbackType, Returns, One
    <3>2. /\ UNCHANGED <<Stored, Begun>>
          /\ CallbackRounds' = CallbackRounds /\ Returns' \in Int
          /\ cb'.in_index = cb.in_index
          /\ cb'.in_index + One(cb'.pc = "in_post") =
                cb.in_index + One(cb.pc = "in_post")
      BY <1>0, <1>7, <2>8 DEF CallbackOutPost, Stored, Begun, CallbackRounds, Returns, One, CallbackType
    <3>3. CallbackPlaces'
      BY <1>0, <1>1, <1>6, <1>7, <1>8, <2>8, <3>2 DEF CallbackOutPost, CallbackPlaces, CallbackType, CallbackPcs,
         InSteps, OutSteps, One
    <3>4. Lag'
      BY <1>0, <1>1, <1>6, <1>7, <1>8, <2>8, <3>2 DEF CallbackOutPost, Lag, CallbackPlaces, CallbackType, InSteps,
         OutSteps, One
    <3>5. FilterTokens'
      BY <1>1, <1>2, <1>3, <1>4, <3>1, <3>2, TokensKept DEF FilterTokens, Sems
    <3>6. ThreadTokens'
      <4>1. /\ sem'["bl_output_2_bl_input"] = sem["bl_output_2_bl_input"]
            /\ sem'["bl_output_2_cb_input"] = sem["bl_output_2_cb_input"]
            /\ sem["cb_output_2_bl_input"] \in Nat /\ sem'["cb_output_2_bl_input"] \in Nat
        <5>1. TypeOK'
          BY <1>0, CallbackTypes
        <5> QED
          BY <1>0, <3>1, <5>1 DEF Sems, SemType, TypeOK
      <4> QED
        BY <1>1, <1>3, <1>4, <1>6, <1>8, <3>1, <3>2, <4>1 DEF ThreadTokens
    <3> QED
      BY <3>3, <3>4, <3>5, <3>6
  <2>9. CASE CallbackOutCopy
    <3>1. /\ sem' = sem /\ cb.pc = "out_copy" /\ cb'.pc \in {"idle", "stopped"}
          /\ cb'.isinit = cb.isinit /\ cb'.in_index = cb.in_index /\ cb'.in_left = cb.in_left
          /\ cb'.in_cur = cb.in_cur /\ cb'.out_index = cb.out_index
          /\ \/ /\ cb.fill > 0 /\ cb'.fill = cb.fill - 1
                /\ cb'.out_left = cb.out_left /\ cb'.out_cur = cb.out_cur
             \/ /\ cb.fill = 0 /\ cb'.fill = 0 /\ cb'.out_left = cb.out_left - 1
                /\ cb'.out_cur = IF cb.out_left = 1 THEN 1 - cb.out_cur ELSE cb.out_cur
      <4>1. sem' = sem /\ cb.pc = "out_copy"
        BY <2>9 DEF CallbackOutCopy
      <4>2. cb'.pc \in {"idle", "stopped"}
        BY <1>0, <2>9 DEF CallbackOutCopy, PcOnReturn, CallbackType
      <4>3. CASE cb.fill # 0
        BY <1>0, <1>7, <2>9, <4>1, <4>2, <4>3 DEF CallbackOutCopy, CallbackType
      <4>4. CASE cb.fill = 0
        BY <1>0, <1>7, <2>9, <4>1, <4>2, <4>4 DEF CallbackOutCopy, CallbackType
      <4> QED
        BY <4>3, <4>4
    <3>2. /\ UNCHANGED <<Stored, Begun>>
          /\ CallbackRounds' = CallbackRounds /\ Returns' = Returns
          /\ cb'.in_index = cb.in_index
          /\ cb'.in_index + One(cb'.pc = "in_post") = cb.in_index + One(cb.pc = "in_post")
      BY <1>7, <3>1 DEF Stored, Begun, CallbackRounds, Returns, One
    <3>3. CallbackPlaces'
      <4>1. cb'.out_cur = (Begun - One(cb'.out_left > 0)) % 2
        BY <1>0, <1>1, <1>7, <1>8, <3>1 DEF CallbackPlaces, One
      <4> QED
        BY <1>0, <1>1, <1>6, <1>7, <1>8, <3>1, <3>2, <4>1 DEF CallbackPlaces, InSteps, OutSteps, One
    <3>4. Lag'
      <4>1. /\ One(cb.pc \in InSteps \cup OutSteps) = 1
            /\ One(cb'.pc \in InSteps \cup OutSteps) = 0
        BY <3>1 DEF InSteps, OutSteps, One
      <4>2. cb'.fill + cb'.out_left = cb.fill + cb.out_left - 1
        BY <1>7, <3>1
      <4>3. cb'.fill \in Int /\ cb'.out_left \in Int
        BY <1>7, <3>1
      <4> QED
        BY <1>0, <1>1, <1>6, <1>7, <1>8, <3>1, <3>2, <4>1, <4>2, <4>3 DEF Lag, InSteps, OutSteps
    <3>5. FilterTokens'
      BY <1>1, <1>2, <1>3, <1>4, <3>1, <3>2, TokensKept DEF FilterTokens, Sems
    <3>6. ThreadTokens'
      BY <1>0, <1>1, <1>3, <1>4, <1>6, <1>7, <1>8, <3>1, <3>2 DEF ThreadTokens, Sems, SemType
    <3> QED
      BY <3>3, <3>4, <3>5, <3>6
  <2>10. CASE CallbackFinished
    <3>1. sem' = sem
      BY <1>0, <1>6, <1>7, <2>10 DEF CallbackFinished, Post, Take, SemType, Sems, CallbackType
    <3>2. /\ UNCHANGED <<Stored, Begun>>
          /\ CallbackRounds' = CallbackRounds /\ Returns' = Returns
          /\ cb'.in_index = cb.in_index
          /\ cb'.in_index + One(cb'.pc = "in_post") =
                cb.in_index + One(cb.pc = "in_post")
      BY <1>0, <1>7, <2>10 DEF CallbackFinished, Stored, Begun, CallbackRounds, Returns, One, CallbackType
    <3>3. CallbackPlaces'
      BY <1>0, <1>1, <1>6, <1>7, <1>8, <2>10, <3>2 DEF CallbackFinished, CallbackPlaces, CallbackType, CallbackPcs,
         InSteps, OutSteps, One
    <3>4. Lag'
      BY <1>0, <1>1, <1>6, <1>7, <1>8, <2>10, <3>2 DEF CallbackFinished, Lag, CallbackPlaces, CallbackType, InSteps,
         OutSteps, One
    <3>5. FilterTokens'
      BY <1>1, <1>2, <1>3, <1>4, <3>1, <3>2, TokensKept DEF FilterTokens, Sems
    <3>6. ThreadTokens'
      BY <1>0, <1>1, <1>3, <1>4, <1>6, <1>7, <1>8, <3>1, <3>2 DEF ThreadTokens, Sems, SemType
    <3> QED
      BY <3>3, <3>4, <3>5, <3>6
  <2> QED
    BY <2>1, <2>2, <2>3, <2>4, <2>5, <2>6, <2>7, <2>8, <2>9, <2>10 DEF Callback
<1> QED
  BY <1>3, <1>4, <1>5, <1>9 DEF CountInv

-----------------------------------------------------------------------------
(* The invariant holds *)

LEMMA FillValue == ASSUME conf \in Configs PROVE iodelay_fill = 2 * Ratio - 2
<1>1. \A a, b \in Nat : b # 0 => (a * b) \div b = a
  OBVIOUS
<1>2. 2 * (Ratio * BlockFrames) = (2 * Ratio) * BlockFrames
  BY ConstantTypes
<1>3. 2 * Ratio \in Nat
  BY ConstantTypes
<1>4. ((2 * Ratio) * BlockFrames) \div BlockFrames = 2 * Ratio
  BY <1>1, <1>3, ConstantTypes
<1> QED
  BY <1>2, <1>4 DEF iodelay_fill, Period

LEMMA NoTokens ==
    ASSUME NEW f \in [Proc -> Nat], NEW g \in [Proc -> Nat], \A p \in Proc : f[p] = 0 /\ g[p] = 0
    PROVE  Tokens(0, f, g)
<1>1. Between(f, g) = {}
  BY DEF Between
<1> QED
  BY <1>1, FS_EmptySet DEF Tokens

LEMMA InitCount == Init => CountInv
<1> SUFFICES ASSUME Init PROVE CountInv
  OBVIOUS
<1>1. TypeOK /\ FilterType /\ conf \in Configs
  BY InitType DEF TypeOK
<1>2. /\ \A s \in Sems : sem[s] = 0
      /\ inp.pc = (IF BlockingIn \/ ~BlockingOut THEN "post_init" ELSE "none") /\ inp.index = 0
      /\ out.pc = (IF BlockingOut THEN "start" ELSE "none") /\ out.cur = 0 /\ out.index = 0
      /\ \A p \in Proc : flt[p].pc = "wait_init" /\ flt[p].block = 0
      /\ cb.pc = (IF CallbackIn \/ CallbackOut THEN "idle" ELSE "none")
      /\ cb.isinit = FALSE /\ cb.in_left = Ratio /\ cb.in_cur = 0 /\ cb.in_index = 0
      /\ cb.out_left = 0 /\ cb.out_cur = 0 /\ cb.out_index = 0
      /\ cb.fill = iodelay_fill
  BY DEF Init
<1>3. Ratio \in Nat \ {0} /\ iodelay_fill = 2 * Ratio - 2 /\ Ratio = conf.Ratio
  BY <1>1, ConstantTypes, FillValue DEF Ratio
<1>4. FilterTokens
  <2>1. /\ TakenBl \in [Proc -> Nat] /\ TakenCb \in [Proc -> Nat]
        /\ PostedBl \in [Proc -> Nat] /\ PostedCb \in [Proc -> Nat]
    BY <1>1, CountTypes
  <2>2. \A p \in Proc : TakenBl[p] = 0 /\ TakenCb[p] = 0 /\ PostedBl[p] = 0 /\ PostedCb[p] = 0
    BY <1>2 DEF TakenBl, TakenCb, PostedBl, PostedCb, TakenBlBy, TakenCbBy, PostedBlBy,
       HasInput, Starting, One
  <2>3. CallbackRounds = 0 /\ cb.in_index = 0
    BY <1>2 DEF CallbackRounds, One
  <2>4. BlockingIn => InputPosts = 0
    BY <1>2 DEF InputPosts
  <2>5. BlockingOut => OutputRounds = 0
    BY <1>2 DEF OutputRounds
  <2>6. [p \in Proc |-> 0] \in [Proc -> Nat]
    OBVIOUS
  <2> QED
    BY <1>2, <2>1, <2>2, <2>3, <2>4, <2>5, <2>6, NoTokens
       DEF FilterTokens, BlockingInTokens, CallbackInTokens, BlockingOutTokens, CallbackOutTokens, Sems
<1>5. ThreadTokens
  BY <1>2 DEF ThreadTokens, Sems, GrantsBl, GrantsCb, InputTakes, ExtraTakes, Returns, Unprimed, One
<1>6. InputPlaces
  BY <1>2 DEF InputPlaces
<1>7. OutputPlaces
  BY <1>2 DEF OutputPlaces, Unprimed
<1>8. FilterPlaces
  BY <1>2 DEF FilterPlaces
<1>9. Stored = 0 /\ Begun = 0
  BY <1>2 DEF Stored, Begun, One
<1>10. CallbackPlaces
  BY <1>2, <1>3, <1>9 DEF CallbackPlaces, InSteps, OutSteps, One
<1>11. Lag
  BY <1>2, <1>3, <1>9 DEF Lag, InSteps, OutSteps, One
<1> QED
  BY <1>4, <1>5, <1>6, <1>7, <1>8, <1>10, <1>11 DEF CountInv

LEMMA NextCount == SyncInv /\ CountInv /\ [Next]_vars => CountInv'
<1> SUFFICES ASSUME SyncInv, CountInv, [Next]_vars PROVE CountInv'
  OBVIOUS
<1>1. CASE Running(Input)
  BY <1>1, InputCount DEF Running
<1>2. CASE Running(Output)
  BY <1>2, OutputCount DEF Running
<1>3. CASE Running(Callback)
  BY <1>3, CallbackCount DEF Running
<1>4. ASSUME NEW p \in Proc, Running(Filter(p)) PROVE CountInv'
  BY <1>4, FilterCount DEF Running
<1>5. CASE UNCHANGED vars
  <2>1. UNCHANGED <<conf, flt>> /\ UNCHANGED <<conf, inp>> /\ UNCHANGED <<conf, out>>
    BY <1>5 DEF vars
  <2>2. UNCHANGED <<conf, CallbackCounts>>
    BY <1>5 DEF vars, CallbackCounts
  <2>3. sem' = sem
    BY <1>5 DEF vars
  <2>4. InputPlaces' /\ UNCHANGED <<InputPosts, InputTakes, ExtraTakes>>
    BY <2>1, InputKept DEF CountInv
  <2>5. OutputPlaces' /\ UNCHANGED <<OutputRounds, GrantsBl, GrantsCb>>
    BY <2>1, OutputKept DEF CountInv
  <2>6. /\ CallbackPlaces' /\ Lag' /\ UNCHANGED <<CallbackRounds, Returns>>
        /\ cb'.in_index = cb.in_index /\ cb'.pc = cb.pc
    BY <2>2, CallbackKept DEF CountInv
  <2>7. FilterPlaces'
    BY <2>1, FiltersKept DEF CountInv
  <2>8. FilterTokens'
    BY <2>1, <2>3, <2>4, <2>5, <2>6, TokensKept DEF FilterTokens, CountInv
  <2>9. ThreadTokens'
    BY <2>1, <2>3, <2>4, <2>5, <2>6, ThreadTokensKept DEF CountInv
  <2> QED
    BY <2>4, <2>5, <2>6, <2>7, <2>8, <2>9 DEF CountInv
<1> QED
  BY <1>1, <1>2, <1>3, <1>4, <1>5 DEF Next, Done

-----------------------------------------------------------------------------
(* What the counts say of a filter process that is at work *)

\* It has been posted its block, by everybody who delivers input, and nobody behind
\* it has finished with that block.
LEMMA AtWork ==
    ASSUME TypeOK, CountInv, NEW p \in Proc, flt[p].pc \in {"inputs", "convolve", "outputs"}
    PROVE  /\ flt[p].block \in Nat
           /\ BlockingIn => flt[p].block + 2 <= InputPosts
           /\ CallbackIn => flt[p].block + 1 <= cb.in_index
           /\ BlockingOut => OutputRounds <= flt[p].block + 1
           /\ CallbackOut => CallbackRounds <= flt[p].block
<1>1. flt[p].block \in Nat
  BY DEF TypeOK, FilterType
<1>2. TakenBl[p] = flt[p].block + 2 /\ TakenCb[p] = flt[p].block + 1
  BY <1>1 DEF TakenBl, TakenCb, TakenBlBy, TakenCbBy, HasBl, HasInput, One
<1>3. PostedBl[p] = flt[p].block + 1 /\ PostedCb[p] = flt[p].block
  BY <1>1 DEF PostedBl, PostedCb, PostedBlBy, Starting, One
<1> QED
  BY <1>1, <1>2, <1>3 DEF CountInv, FilterTokens, BlockingInTokens, CallbackInTokens,
     BlockingOutTokens, CallbackOutTokens, Tokens

\* The blocking input has taken a token for every block but the last that it has
\* posted.
LEMMA PostsTaken ==
    ASSUME TypeOK, CountInv, BlockingIn, InputPosts >= 2
    PROVE  /\ BlockingOut => InputPosts <= InputTakes
           /\ ~BlockingOut => InputPosts <= 1 + InputTakes
           /\ BlockingOut /\ CallbackOut => InputPosts <= 1 + ExtraTakes
<1>1. inp.index \in Nat /\ InputPlaces
  BY DEF TypeOK, InputType, CountInv
<1> QED
  BY <1>1 DEF InputPlaces, InputPosts, InputTakes, ExtraTakes, One, HasExtraOutput

LEMMA CountOwned == TypeOK /\ CountInv => InputBufferOwned
<1> SUFFICES ASSUME TypeOK, CountInv, NEW p \in Proc, flt[p].pc = "inputs"
             PROVE  LET b == FilterBuf(flt[p].block) IN
                    /\ ~(inp.pc \in {"reading", "eof"} /\ inp.index % 2 = b)
                    /\ CallbackOut => ~(cb.pc = "in_copy" /\ cb.in_cur = b)
  BY DEF InputBufferOwned
<1> DEFINE k == flt[p].block
<1>1. /\ k \in Nat
      /\ BlockingIn => k + 2 <= InputPosts
      /\ CallbackIn => k + 1 <= cb.in_index
      /\ BlockingOut => OutputRounds <= k + 1
      /\ CallbackOut => CallbackRounds <= k
  BY AtWork
<1>2. /\ inp.index \in Nat /\ out.index \in Nat /\ cb.in_index \in Nat /\ cb.out_index \in Nat
      /\ cb.fill \in Nat /\ cb.in_left \in Nat /\ cb.out_left \in Int
      /\ \A s \in Sems : sem[s] \in Nat
      /\ Ratio \in Nat \ {0}
      /\ BlockingOut \/ CallbackOut
  BY ConstantTypes, PipelineAssumption DEF TypeOK, InputType, OutputType, CallbackType, SemType,
     BlockingOut, CallbackOut
<1> HIDE DEF k
<1>3. ASSUME inp.pc \in {"reading", "eof"} PROVE inp.index = k + 1
  <2>1. BlockingIn /\ InputPosts = 1 + inp.index /\ InputTakes = One(BlockingOut) + inp.index
    BY <1>2, <1>3 DEF InputPosts, InputTakes, One, CountInv, InputPlaces
  <2>2. inp.index >= k + 1
    BY <1>1, <1>2, <2>1
  <2>3. CASE BlockingOut
    <3>1. sem["bl_output_2_bl_input"] = GrantsBl - (1 + inp.index)
      BY <2>1, <2>3 DEF CountInv, ThreadTokens, One
    <3>2. 1 + inp.index <= GrantsBl
      BY <1>2, <3>1, CountedTypes DEF Sems
    <3>3. GrantsBl <= k + 2
      BY <1>1, <1>2, <2>3 DEF GrantsBl, OutputRounds, Unprimed, Written, One, CountInv, OutputPlaces
    <3> QED
      BY <1>1, <1>2, <2>2, <3>2, <3>3, CountedTypes
  <2>4. CASE ~BlockingOut
    <3>1. sem["cb_output_2_bl_input"] = Returns - inp.index
      BY <1>2, <2>1, <2>4 DEF CountInv, ThreadTokens, One
    <3>2. inp.index <= 1 + cb.out_index
      BY <1>2, <3>1 DEF Sems, Returns, One
    <3>3. cb.out_index <= k
      BY <1>1, <1>2, <2>4 DEF CallbackRounds, One
    <3> QED
      BY <1>1, <1>2, <2>2, <3>2, <3>3
  <2> QED
    BY <2>3, <2>4
<1>4. ASSUME cb.pc = "in_copy", CallbackOut PROVE cb.in_index = k + 1 /\ cb.in_cur = (k + 1) % 2
  <2>1. CallbackIn /\ Stored = cb.in_index /\ Begun = cb.out_index /\ cb.in_cur = Stored % 2
    BY <1>2, <1>4 DEF CountInv, CallbackPlaces, Stored, Begun, InSteps, One
  <2>2. Stored <= Begun + 1
    BY <1>2, <1>4, <2>1 DEF CountInv, Lag
  <2>3. cb.out_index <= k
    BY <1>1, <1>2, <1>4 DEF CallbackRounds, One
  <2>4. cb.in_index = k + 1
    BY <1>1, <1>2, <2>1, <2>2, <2>3
  <2> QED
    BY <2>1, <2>4
<1>5. (k + 1) % 2 # k % 2
  BY <1>1
<1> QED
  BY <1>3, <1>4, <1>5 DEF FilterBuf, k

LEMMA CountApart == TypeOK /\ CountInv => OutputBufferOwned
<1> SUFFICES ASSUME TypeOK, CountInv, NEW p \in Proc, flt[p].pc = "outputs"
             PROVE  LET b == FilterBuf(flt[p].block) IN
                    /\ BlockingIn =>
                         ~(/\ out.pc \in {"fill1_busy", "fill1_rest", "fill2_busy", "write_busy"}
                           /\ out.cur = b)
                    /\ ~(cb.pc = "out_copy" /\ cb.fill = 0 /\ cb.out_cur = b)
  BY DEF OutputBufferOwned
<1> DEFINE k == flt[p].block
<1>1. /\ k \in Nat
      /\ BlockingIn => k + 2 <= InputPosts
      /\ CallbackIn => k + 1 <= cb.in_index
      /\ BlockingOut => OutputRounds <= k + 1
      /\ CallbackOut => CallbackRounds <= k
  BY AtWork
<1>2. /\ inp.index \in Nat /\ out.index \in Nat /\ cb.in_index \in Nat /\ cb.out_index \in Nat
      /\ cb.fill \in Nat /\ cb.in_left \in Nat /\ cb.out_left \in Int
      /\ \A s \in Sems : sem[s] \in Nat
      /\ Ratio \in Nat \ {0}
      /\ BlockingIn \/ CallbackIn
  BY ConstantTypes, PipelineAssumption DEF TypeOK, InputType, OutputType, CallbackType, SemType,
     BlockingIn, CallbackIn
<1>3. InputPosts \in Nat /\ GrantsBl \in Int /\ InputTakes \in Int /\ ExtraTakes \in Int /\ Returns \in Int
  BY CountedTypes, PostTypes DEF CountInv
<1> HIDE DEF k
<1>4. ASSUME BlockingIn, out.pc \in {"fill1_busy", "fill1_rest", "fill2_busy", "write_busy"}
      PROVE  out.cur # k % 2
  <2>1. BlockingOut
    BY <1>4 DEF CountInv, OutputPlaces
  <2>2. k + 2 <= InputTakes
    BY <1>1, <1>3, <1>4, <2>1, PostsTaken
  <2>3. sem["bl_output_2_bl_input"] = GrantsBl - InputTakes
    BY <1>4, <2>1 DEF CountInv, ThreadTokens
  <2>4. k + 2 <= GrantsBl
    BY <1>1, <1>2, <1>3, <2>2, <2>3 DEF Sems
  <2>5. CASE out.pc \in {"fill1_busy", "fill1_rest"}
    BY <1>1, <2>4, <2>5 DEF GrantsBl, Unprimed
  <2>6. CASE out.pc = "fill2_busy"
    <3>1. out.cur = 1 /\ GrantsBl = 2
      BY <2>6 DEF GrantsBl, Unprimed, Written, One, CountInv, OutputPlaces
    <3>2. k = 0
      BY <1>1, <2>4, <3>1
    <3> QED
      BY <3>1, <3>2
  <2>7. CASE out.pc = "write_busy"
    <3>1. GrantsBl = 3 + out.index /\ OutputRounds = 2 + out.index /\ out.cur = out.index % 2
      BY <1>2, <2>7 DEF GrantsBl, OutputRounds, Unprimed, Written, One, CountInv, OutputPlaces
    <3>2. k = out.index + 1
      BY <1>1, <1>2, <2>1, <2>4, <3>1
    <3> QED
      BY <1>2, <3>1, <3>2
  <2> QED
    BY <1>4, <2>5, <2>6, <2>7
<1>5. ASSUME cb.pc = "out_copy", cb.fill = 0 PROVE cb.out_cur # k % 2
  <2>1. /\ CallbackOut /\ cb.out_left > 0 /\ Begun = cb.out_index /\ cb.out_index > 0
        /\ cb.out_cur = (cb.out_index - 1) % 2
        /\ CallbackRounds = cb.out_index
    BY <1>2, <1>5 DEF CountInv, CallbackPlaces, OutSteps, Begun, CallbackRounds, One
  <2>2. k >= cb.out_index
    BY <1>1, <1>2, <2>1
  <2>3. CASE BlockingIn
    <3>1. Returns <= 1 + cb.out_index
      BY <1>2 DEF Returns, One
    <3>2. InputPosts <= 1 + (IF BlockingOut THEN ExtraTakes ELSE InputTakes)
      BY <1>1, <1>3, <2>1, <2>3, PostsTaken
    <3>3. sem["cb_output_2_bl_input"] = Returns - (IF BlockingOut THEN ExtraTakes ELSE InputTakes)
      BY <2>1, <2>3 DEF CountInv, ThreadTokens
    <3>4. InputPosts <= 2 + cb.out_index
      BY <1>2, <1>3, <3>1, <3>2, <3>3 DEF Sems
    <3>5. k = cb.out_index
      BY <1>1, <1>2, <1>3, <2>2, <2>3, <3>4
    <3> QED
      BY <1>2, <2>1, <3>5
  <2>4. CASE ~BlockingIn
    <3>1. Stored = cb.in_index
      BY <1>2, <1>5 DEF Stored, One
    <3>2. Stored <= Begun + 1
      BY <1>2, <2>1, <2>4, <3>1 DEF CountInv, Lag
    <3>3. k = cb.out_index
      BY <1>1, <1>2, <2>1, <2>2, <2>4, <3>1, <3>2
    <3> QED
      BY <1>2, <2>1, <3>3
  <2> QED
    BY <2>3, <2>4
<1> QED
  BY <1>4, <1>5 DEF FilterBuf, k

-----------------------------------------------------------------------------

\* Every semaphore of bfrun() holds what has been posted less what has been taken, as
\* far as the place of each thread in the code determines it.
THEOREM Counted == Spec => [](SyncInv /\ CountInv)
<1>1. Init => SyncInv /\ CountInv
  BY InitSync, InitCount
<1>2. SyncInv /\ CountInv /\ [Next]_vars => (SyncInv /\ CountInv)'
  BY NextSync, NextCount
<1> QED
  BY <1>1, <1>2, PTL DEF Spec

\* Neither the input process nor the callback thread (if it has an output too) writes
\* a buffer that a filter process converts samples from, for every number of filter
\* processes, every combination of devices and every number of callbacks per block.
THEOREM InputsApart == Spec => []InputBufferOwned
<1>1. SyncInv /\ CountInv => InputBufferOwned
  BY CountOwned DEF SyncInv
<1> QED
  BY <1>1, Counted, PTL

\* No filter process converts samples to a buffer that the output process (if there is
\* a blocking input) or the callback thread plays, likewise.
THEOREM OutputsApart == Spec => []OutputBufferOwned
<1>1. SyncInv /\ CountInv => OutputBufferOwned
  BY CountApart DEF SyncInv
<1> QED
  BY <1>1, Counted, PTL
=============================================================================
