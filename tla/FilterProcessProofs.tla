------------------------ MODULE FilterProcessProofs ------------------------
(***************************************************************************)
(* Four properties of filter_process for any number of processes, filters, *)
(* channels and blocks.  What the block-start hook sets is used by all     *)
(* processes or by none, since they meet twice in a block (Meetings) and   *)
(* copy the control in between (CopiesInv).  And a buffer whose zero flag  *)
(* is set is silent (ZeroInv): each flag is changed by one process only    *)
(* (Owned), and whenever a computation is skipped on account of the flags  *)
(* of what goes in, what comes out is silent too.  And the windows left out *)
(* of a sum are silent (PartsInv): a filter counts the blocks it has run    *)
(* since all that its set reaches was silent, and the ring carries silence  *)
(* that old along.  And what leaves is the convolution of what came in      *)
(* (IdealInv): each buffer on the way holds, until it is used again, what   *)
(* Ideal says of its block, and nothing settled in the history changes.     *)
(* Ideal is a recursive function; that it has the values its recursion      *)
(* names follows from the order of the filters, by a first (block, filter)  *)
(* for which it would not.                                                  *)
(***************************************************************************)
EXTENDS FilterProcess, TLAPS, FiniteSetTheorems, WellFoundedInduction

Coefficient == DOMAIN conf.coeffs \cup {-1}
Controls == [coeff : [Filters -> Coefficient], mute : SUBSET conf.mutable]

Before == {"start", "hooked", "copy", "done"}
Working == {"read", "synch", "filter", "mixed", "write"}

\* blocks p has copied the control for
Copied(p) == IF pc[p] \in Working THEN blk[p] ELSE blk[p] - 1

Types ==
    /\ conf \in Confs
    /\ pc \in [Procs -> Before \cup Working]
    /\ idx \in [Procs -> Nat \ {0}]
    /\ blk \in [Procs -> Nat \ {0}]
    /\ ctl \in Controls
    /\ DOMAIN copies = Procs
    /\ \A p \in Procs : copies[p] \in Seq(Controls) /\ Len(copies[p]) = Copied(p)
    /\ prevcoeff \in [Filters -> Coefficient]

-----------------------------------------------------------------------------
(* The configuration *)

LEMMA ConfOK ==
    ASSUME conf \in Confs
    PROVE  /\ Procs = 1..Len(conf.order)
           /\ DOMAIN conf.procin = Procs /\ DOMAIN conf.procout = Procs
           /\ conf.nblocks \in Nat \ {0}
           /\ conf.coeffs \in [DOMAIN conf.coeffs -> Nat]
           /\ conf.initcoeff \in [Filters -> Coefficient]
           /\ \A f \in Filters : conf.filters[f].delay \in Int
           /\ \A p \in Procs :
                /\ conf.order[p] \in Seq(Filters) /\ conf.order[p] # <<>>
                /\ conf.procin[p] \in Seq(InCh)
                /\ conf.procout[p] \in Seq(OutCh)
                /\ ProcOutputs(p) \subseteq OutCh
           /\ \A p, q \in Procs : p # q =>
                /\ Listed(conf.procin[p]) \cap Listed(conf.procin[q]) = {}
                /\ ProcOutputs(p) \cap ProcOutputs(q) = {}
           /\ \A p, q \in Procs : \A m \in DOMAIN conf.order[p], n \in DOMAIN conf.order[q] :
                conf.order[p][m] = conf.order[q][n] => p = q /\ m = n
<1>1. Dealt(conf) /\ Settings(conf)
  BY FilterProcessAssumption
<1> DEFINE outputs(p) == UNION {conf.filters[f].out : f \in Listed(conf.order[p])}
<1>2. \A p : outputs(p) = ProcOutputs(p)
  BY DEF ProcOutputs, FiltersOf, Listed
<1>3. /\ Apart([p \in Procs |-> Listed(conf.procin[p])])
      /\ Apart([p \in Procs |-> outputs(p)])
      /\ \A p \in Procs : outputs(p) \subseteq OutCh
  BY <1>1 DEF Dealt, Procs, OutCh
<1> HIDE DEF outputs
<1>4. \A p, q \in Procs : p # q =>
        /\ Listed(conf.procin[p]) \cap Listed(conf.procin[q]) = {}
        /\ outputs(p) \cap outputs(q) = {}
  BY <1>3 DEF Apart
<1>5. \A p \in Procs :
        /\ conf.order[p] \in Seq(Filters) /\ conf.order[p] # <<>>
        /\ conf.procin[p] \in Seq(InCh)
        /\ conf.procout[p] \in Seq(OutCh)
  BY <1>1 DEF Dealt, Procs, Filters, InCh, OutCh
<1>6. Procs = 1..Len(conf.order) /\ DOMAIN conf.procin = Procs /\ DOMAIN conf.procout = Procs
  BY <1>1 DEF Dealt, Procs
<1>7. /\ conf.nblocks \in Nat \ {0}
      /\ conf.coeffs \in [DOMAIN conf.coeffs -> Nat]
      /\ conf.initcoeff \in [Filters -> Coefficient]
      /\ \A f \in Filters : conf.filters[f].delay \in Int
  BY <1>1 DEF Settings, Filters, Coefficient
<1>8. \A p, q \in Procs : \A m \in DOMAIN conf.order[p], n \in DOMAIN conf.order[q] :
        conf.order[p][m] = conf.order[q][n] => p = q /\ m = n
  <2>1. \A p, q \in Procs : p # q => Listed(conf.order[p]) \cap Listed(conf.order[q]) = {}
    <3>1. Apart([p \in Procs |-> Listed(conf.order[p])])
      BY <1>1 DEF Dealt, Procs
    <3> QED BY <3>1 DEF Apart
  <2>2. \A p \in Procs : \A m, n \in DOMAIN conf.order[p] : conf.order[p][m] = conf.order[p][n] => m = n
    BY <1>1 DEF Dealt, Procs, Once
  <2> QED BY <2>1, <2>2 DEF Listed
<1> QED BY <1>2, <1>3, <1>4, <1>5, <1>6, <1>7, <1>8

-----------------------------------------------------------------------------
(* Types and copies *)

LEMMA InitTypes ==
    ASSUME Init
    PROVE  Types
<1>1. conf \in Confs /\ conf.initcoeff \in [Filters -> Coefficient]
  BY ConfOK DEF Init
<1>2. ctl \in Controls /\ prevcoeff \in [Filters -> Coefficient]
  BY <1>1 DEF Init, Controls
<1>3. \A p \in Procs : copies[p] \in Seq(Controls) /\ Len(copies[p]) = Copied(p)
  BY DEF Init, Copied, Working
<1> QED BY <1>1, <1>2, <1>3 DEF Init, Types, Before

LEMMA CurrentCopy ==
    ASSUME Types, NEW p \in Procs, pc[p] \in Working
    PROVE  Copy(p) \in Controls
<1>1. copies[p] \in Seq(Controls) /\ Len(copies[p]) = blk[p] /\ blk[p] \in Nat \ {0}
  BY DEF Types, Copied
<1> QED BY <1>1 DEF Copy

\* A step that neither copies the control nor ends a block.
Inside ==
    /\ UNCHANGED <<conf, blk, copies>>
    /\ \A p \in Procs : (pc'[p] \in Working) = (pc[p] \in Working)

LEMMA InsideTypes ==
    ASSUME Types, Inside, pc' \in [Procs -> Before \cup Working], idx' \in [Procs -> Nat \ {0}],
           ctl' \in Controls, prevcoeff' \in [Filters -> Coefficient]
    PROVE  Types'
<1>1. /\ Procs' = Procs /\ Filters' = Filters /\ Coefficient' = Coefficient /\ Controls' = Controls
      /\ conf' = conf /\ blk' = blk /\ copies' = copies
  BY DEF Inside, Procs, Filters, Coefficient, Controls
<1>2. \A p \in Procs : Copied(p)' = Copied(p)
  BY DEF Inside, Copied
<1> QED BY <1>1, <1>2 DEF Types

LEMMA GotoTypes ==
    ASSUME Types, NEW p \in Procs, NEW stage \in Before \cup Working, Goto(p, stage)
    PROVE  /\ pc' = [pc EXCEPT ![p] = stage]
           /\ pc' \in [Procs -> Before \cup Working] /\ idx' \in [Procs -> Nat \ {0}]
  BY DEF Types, Goto

LEMMA IdxStep ==
    ASSUME Types, NEW p \in Procs, idx' = [idx EXCEPT ![p] = @ + 1]
    PROVE  idx' \in [Procs -> Nat \ {0}]
<1>1. idx \in [Procs -> Nat \ {0}] /\ idx[p] + 1 \in Nat \ {0}
  BY SMT DEF Types
<1> QED BY <1>1

\* What a filter uses was copied.
LEMMA FilterTypes ==
    ASSUME Types, NEW p \in Procs, Filter(p)
    PROVE  /\ conf.order[p][idx[p]] \in Filters
           /\ Copy(p).coeff[conf.order[p][idx[p]]] \in Coefficient
           /\ prevcoeff' \in [Filters -> Coefficient]
<1> DEFINE f == conf.order[p][idx[p]]
<1>1. pc[p] \in Working /\ idx[p] <= Len(conf.order[p])
  BY DEF Filter, Working
<1>2. f \in Filters
  BY <1>1, ConfOK DEF Types
<1>3. Copy(p).coeff[f] \in Coefficient
  BY <1>1, <1>2, CurrentCopy DEF Controls
<1>4. prevcoeff' = [prevcoeff EXCEPT ![f] = Copy(p).coeff[f]]
  BY Zenon DEF Filter
<1> QED BY <1>2, <1>3, <1>4 DEF Types

LEMMA ControlTypes ==
    ASSUME Types, ChangeControl
    PROVE  ctl' \in Controls
<1>1. ASSUME NEW f \in Filters, NEW c \in DOMAIN conf.coeffs \cup {-1}, Assign(f, c)
      PROVE  ctl' \in Controls
  BY <1>1 DEF Types, Controls, Assign, Coefficient
<1>2. ASSUME NEW ch \in conf.mutable, ToggleMute(ch)
      PROVE  ctl' \in Controls
  BY <1>2 DEF Types, Controls, ToggleMute
<1> QED BY <1>1, <1>2 DEF ChangeControl

LEMMA TypesNext ==
    ASSUME Types, [Next]_vars
    PROVE  Types'
<1> USE DEF Before, Working
<1>0. /\ pc \in [Procs -> Before \cup Working] /\ idx \in [Procs -> Nat \ {0}] /\ ctl \in Controls
      /\ prevcoeff \in [Filters -> Coefficient] /\ blk \in [Procs -> Nat \ {0}]
  BY DEF Types
<1>1. CASE UNCHANGED vars
  <2>1. Inside /\ UNCHANGED <<pc, idx, ctl, prevcoeff>>
    BY <1>1 DEF vars, bufs, Inside
  <2> QED BY <1>0, <2>1, InsideTypes
<1>2. CASE NewInput
  <2>1. Inside /\ UNCHANGED <<pc, idx, ctl, prevcoeff>>
    BY <1>2 DEF NewInput, bufs, Inside
  <2> QED BY <1>0, <2>1, InsideTypes
<1>3. CASE ChangeControl
  <2>1. Inside /\ UNCHANGED <<pc, idx, prevcoeff>>
    BY <1>3 DEF ChangeControl, bufs, Inside
  <2> QED BY <1>0, <1>3, <2>1, ControlTypes, InsideTypes
<1>4. ASSUME NEW p \in Procs, BlockStart(p)
      PROVE  Types'
  <2>1. Goto(p, IF conf.hooks THEN "hooked" ELSE "copy") /\ UNCHANGED <<conf, blk, copies, prevcoeff>> /\ pc[p] = "start"
    BY <1>4 DEF BlockStart, bufs
  <2>2. ctl' \in Controls
    <3>1. CASE ctl' = ctl
      BY <1>0, <3>1
    <3>2. ASSUME NEW c \in DOMAIN conf.coeffs, ctl' = [ctl EXCEPT !.coeff = [f \in Filters |-> c]]
          PROVE  ctl' \in Controls
      BY <1>0, <3>2 DEF Controls, Coefficient
    <3> QED BY <1>4, <3>1, <3>2 DEF BlockStart
  <2>3. Inside
    BY <1>0, <2>1 DEF Goto, Inside
  <2> QED BY <1>0, <2>1, <2>2, <2>3, GotoTypes, InsideTypes
<1>5. ASSUME NEW p \in Procs, HooksDone(p)
      PROVE  Types'
  <2>1. Goto(p, "copy") /\ UNCHANGED <<conf, blk, copies, ctl, prevcoeff>> /\ pc[p] = "hooked"
    BY <1>5 DEF HooksDone, bufs
  <2>2. Inside
    BY <1>0, <2>1 DEF Goto, Inside
  <2> QED BY <1>0, <2>1, <2>2, GotoTypes, InsideTypes
<1>6. ASSUME NEW p \in Procs, CopyControl(p)
      PROVE  Types'
  <2>1. /\ pc[p] = "copy" /\ Goto(p, "read") /\ UNCHANGED <<conf, blk, ctl, prevcoeff>>
        /\ copies' = [copies EXCEPT ![p] = Append(copies[p], ctl)]
    BY <1>6 DEF CopyControl, bufs
  <2>2. /\ Procs' = Procs /\ Filters' = Filters /\ Coefficient' = Coefficient /\ Controls' = Controls
        /\ conf' = conf /\ blk' = blk
    BY <2>1 DEF Procs, Filters, Coefficient, Controls
  <2>3. pc' = [pc EXCEPT ![p] = "read"] /\ pc' \in [Procs -> Before \cup Working] /\ idx' \in [Procs -> Nat \ {0}]
    BY <2>1, GotoTypes
  <2>4. DOMAIN copies = Procs /\ \A q \in Procs : copies[q] \in Seq(Controls) /\ Len(copies[q]) = Copied(q)
    BY DEF Types
  <2>5. ASSUME NEW q \in Procs PROVE copies'[q] \in Seq(Controls) /\ Len(copies'[q]) = Copied(q)'
    <3>1. CASE q = p
      <4>1. copies'[p] = Append(copies[p], ctl) /\ Len(copies[p]) = blk[p] - 1 /\ blk[p] \in Nat
        BY <1>0, <2>1, <2>4 DEF Copied
      <4>2. Len(copies'[p]) = blk[p]
        BY <1>0, <2>4, <4>1, SMT
      <4>3. Copied(p)' = blk[p]
        BY <1>0, <2>2, <2>3 DEF Copied
      <4> QED BY <1>0, <2>4, <3>1, <4>1, <4>2, <4>3
    <3>2. CASE q # p
      BY <1>0, <2>1, <2>2, <2>3, <2>4, <3>2 DEF Copied
    <3> QED BY <3>1, <3>2
  <2> QED BY <1>0, <2>1, <2>2, <2>3, <2>4, <2>5 DEF Types
<1>7. ASSUME NEW p \in Procs, ReadInput(p)
      PROVE  Types'
  <2>1. Inside /\ UNCHANGED <<pc, ctl, prevcoeff>> /\ idx' = [idx EXCEPT ![p] = @ + 1]
    BY <1>7 DEF ReadInput, Inside
  <2> QED BY <1>0, <2>1, IdxStep, InsideTypes
<1>8. ASSUME NEW p \in Procs, InputsRead(p)
      PROVE  Types'
  <2>1. Goto(p, "synch") /\ UNCHANGED <<conf, blk, copies, ctl, prevcoeff>> /\ pc[p] = "read"
    BY <1>8 DEF InputsRead, bufs
  <2>2. Inside
    BY <1>0, <2>1 DEF Goto, Inside
  <2> QED BY <1>0, <2>1, <2>2, GotoTypes, InsideTypes
<1>9. ASSUME NEW p \in Procs, InputsSynched(p)
      PROVE  Types'
  <2>1. Goto(p, "filter") /\ UNCHANGED <<conf, blk, copies, ctl, prevcoeff>> /\ pc[p] = "synch"
    BY <1>9 DEF InputsSynched, bufs
  <2>2. Inside
    BY <1>0, <2>1 DEF Goto, Inside
  <2> QED BY <1>0, <2>1, <2>2, GotoTypes, InsideTypes
<1>10. ASSUME NEW p \in Procs, Filter(p)
       PROVE  Types'
  <2>1. Inside /\ UNCHANGED <<pc, ctl>> /\ idx' = [idx EXCEPT ![p] = @ + 1]
    BY <1>10 DEF Filter, Inside
  <2> QED BY <1>0, <1>10, <2>1, FilterTypes, IdxStep, InsideTypes
<1>11. ASSUME NEW p \in Procs, MixOutputs(p)
       PROVE  Types'
  <2>1. Goto(p, "mixed") /\ UNCHANGED <<conf, blk, copies, ctl, prevcoeff>> /\ pc[p] = "filter"
    BY <1>11 DEF MixOutputs
  <2>2. Inside
    BY <1>0, <2>1 DEF Goto, Inside
  <2> QED BY <1>0, <2>1, <2>2, GotoTypes, InsideTypes
<1>12. ASSUME NEW p \in Procs, OutputsSynched(p)
       PROVE  Types'
  <2>1. Goto(p, "write") /\ UNCHANGED <<conf, blk, copies, ctl, prevcoeff>> /\ pc[p] = "mixed"
    BY <1>12 DEF OutputsSynched, bufs
  <2>2. Inside
    BY <1>0, <2>1 DEF Goto, Inside
  <2> QED BY <1>0, <2>1, <2>2, GotoTypes, InsideTypes
<1>13. ASSUME NEW p \in Procs, WriteOutput(p)
       PROVE  Types'
  <2>1. Inside /\ UNCHANGED <<pc, ctl, prevcoeff>> /\ idx' = [idx EXCEPT ![p] = @ + 1]
    BY <1>13 DEF WriteOutput, Inside
  <2> QED BY <1>0, <2>1, IdxStep, InsideTypes
<1>14. ASSUME NEW p \in Procs, EndBlock(p)
       PROVE  Types'
  <2> DEFINE stage == IF blk[p] = conf.last THEN "done" ELSE "start"
  <2>1. /\ pc[p] = "write" /\ Goto(p, stage) /\ UNCHANGED <<conf, copies, ctl, prevcoeff>>
        /\ blk' = [blk EXCEPT ![p] = @ + 1]
    BY <1>14 DEF EndBlock, bufs
  <2>2. /\ Procs' = Procs /\ Filters' = Filters /\ Coefficient' = Coefficient /\ Controls' = Controls
        /\ conf' = conf /\ copies' = copies
    BY <2>1 DEF Procs, Filters, Coefficient, Controls
  <2>3. stage \in {"done", "start"}
    OBVIOUS
  <2> HIDE DEF stage
  <2>4. pc' = [pc EXCEPT ![p] = stage] /\ pc' \in [Procs -> Before \cup Working] /\ idx' \in [Procs -> Nat \ {0}]
    BY <2>1, <2>3, GotoTypes
  <2>5. blk[p] + 1 \in Nat \ {0} /\ (blk[p] + 1) - 1 = blk[p]
    BY <1>0, SMT
  <2>6. \A q \in Procs : Copied(q)' = Copied(q)
    BY <1>0, <2>1, <2>3, <2>4, <2>5 DEF Copied
  <2>7. blk' \in [Procs -> Nat \ {0}]
    BY <1>0, <2>1, <2>5
  <2> QED BY <1>0, <2>1, <2>2, <2>4, <2>6, <2>7 DEF Types
<1> QED
  BY <1>1, <1>2, <1>3, <1>4, <1>5, <1>6, <1>7, <1>8, <1>9, <1>10, <1>11, <1>12, <1>13, <1>14 DEF Next

-----------------------------------------------------------------------------
(* The processes meet. *)

At(q, b, stages) == blk[q] > b \/ (blk[q] = b /\ pc[q] \in stages)

AfterStart == {"hooked", "copy", "read", "synch", "filter", "mixed", "write"}
AfterRead == {"synch", "filter", "mixed", "write"}
AfterFilter == {"mixed", "write"}

\* Where q is at least, when p has left a meeting.
Meetings ==
    \A p, q \in Procs :
        /\ conf.hooks /\ pc[p] \in AfterStart \ {"hooked"} => At(q, blk[p], AfterStart)
        /\ pc[p] \in AfterRead \ {"synch"} => At(q, blk[p], AfterRead)
        /\ pc[p] = "write" => At(q, blk[p], AfterFilter)
        /\ At(q, blk[p] - 1, AfterFilter)

LEMMA InitMeetings ==
    ASSUME Init
    PROVE  Meetings
<1>1. \A p \in Procs : pc[p] = "start" /\ blk[p] = 1
  BY DEF Init
<1>2. 1 > 1 - 1
  BY SMT
<1> QED BY <1>1, <1>2 DEF Meetings, At, AfterStart, AfterRead

\* p goes on within its block: those that p has to meet where it leaves a meeting are there.
LEMMA GoOn ==
    ASSUME Types, Meetings, NEW p \in Procs, NEW to \in Before \cup Working,
           UNCHANGED <<conf, blk>>, pc' = [pc EXCEPT ![p] = to],
           pc[p] \in AfterStart => to \in AfterStart,
           pc[p] \in AfterRead => to \in AfterRead,
           pc[p] \in AfterFilter => to \in AfterFilter,
           conf.hooks /\ to \in AfterStart \ {"hooked"} =>
              pc[p] \in AfterStart \ {"hooked"} \/ \A q \in Procs : At(q, blk[p], AfterStart),
           to \in AfterRead \ {"synch"} =>
              pc[p] \in AfterRead \ {"synch"} \/ \A q \in Procs : At(q, blk[p], AfterRead),
           to = "write" => pc[p] = "write" \/ \A q \in Procs : At(q, blk[p], AfterFilter)
    PROVE  Meetings'
<1>1. pc \in [Procs -> Before \cup Working]
  BY DEF Types
<1>2. \A q \in Procs : pc'[q] = IF q = p THEN to ELSE pc[q]
  BY <1>1
<1>3. Procs' = Procs /\ blk' = blk /\ conf' = conf
  BY DEF Procs
<1>4. \A q, r \in Procs :
        /\ At(q, blk[r], AfterStart) => At(q, blk[r], AfterStart)'
        /\ At(q, blk[r], AfterRead) => At(q, blk[r], AfterRead)'
        /\ At(q, blk[r], AfterFilter) => At(q, blk[r], AfterFilter)'
        /\ At(q, blk[r] - 1, AfterFilter) => At(q, blk[r] - 1, AfterFilter)'
  BY <1>2, <1>3 DEF At, AfterStart, AfterRead, AfterFilter
<1>5. SUFFICES ASSUME NEW r \in Procs, NEW q \in Procs
               PROVE  /\ conf.hooks /\ pc'[r] \in AfterStart \ {"hooked"} => At(q, blk[r], AfterStart)'
                      /\ pc'[r] \in AfterRead \ {"synch"} => At(q, blk[r], AfterRead)'
                      /\ pc'[r] = "write" => At(q, blk[r], AfterFilter)'
                      /\ At(q, blk[r] - 1, AfterFilter)'
  BY <1>3 DEF Meetings, AfterStart, AfterRead
<1>6. /\ conf.hooks /\ pc[r] \in AfterStart \ {"hooked"} => At(q, blk[r], AfterStart)
      /\ pc[r] \in AfterRead \ {"synch"} => At(q, blk[r], AfterRead)
      /\ pc[r] = "write" => At(q, blk[r], AfterFilter)
      /\ At(q, blk[r] - 1, AfterFilter)
  BY DEF Meetings
<1>7. CASE r = p
  BY <1>2, <1>4, <1>6, <1>7
<1>8. CASE r # p
  BY <1>2, <1>4, <1>6, <1>8
<1> QED BY <1>7, <1>8

\* p ends its block: the others have met it after filtering.
LEMMA NextBlock ==
    ASSUME Types, Meetings, NEW p \in Procs, EndBlock(p)
    PROVE  Meetings'
<1> DEFINE to == IF blk[p] = conf.last THEN "done" ELSE "start"
<1>1. pc \in [Procs -> Before \cup Working] /\ blk \in [Procs -> Nat \ {0}]
  BY DEF Types
<1>2. /\ pc[p] = "write" /\ to \in {"done", "start"} /\ conf' = conf /\ Procs' = Procs
      /\ \A q \in Procs : pc'[q] = (IF q = p THEN to ELSE pc[q])
      /\ \A q \in Procs : blk'[q] = IF q = p THEN blk[q] + 1 ELSE blk[q]
  BY <1>1 DEF EndBlock, Goto, Procs
<1> HIDE DEF to
<1>3. \A q \in Procs : \A b \in Int :
        /\ At(q, b, AfterStart) => At(q, b, AfterStart)'
        /\ At(q, b, AfterRead) => At(q, b, AfterRead)'
        /\ At(q, b, AfterFilter) => At(q, b, AfterFilter)'
  BY <1>1, <1>2, SMT DEF At
<1>4. \A q \in Procs : blk[q] \in Int /\ blk[q] - 1 \in Int /\ (blk[q] + 1) - 1 = blk[q]
  BY <1>1, SMT
<1>5. SUFFICES ASSUME NEW r \in Procs, NEW q \in Procs
               PROVE  /\ conf.hooks /\ pc'[r] \in AfterStart \ {"hooked"} => At(q, blk[r], AfterStart)'
                      /\ pc'[r] \in AfterRead \ {"synch"} => At(q, blk[r], AfterRead)'
                      /\ pc'[r] = "write" => At(q, blk[r], AfterFilter)'
                      /\ At(q, blk[r] - 1, AfterFilter)'
  BY <1>2 DEF Meetings, AfterStart, AfterRead
<1>6. /\ conf.hooks /\ pc[r] \in AfterStart \ {"hooked"} => At(q, blk[r], AfterStart)
      /\ pc[r] \in AfterRead \ {"synch"} => At(q, blk[r], AfterRead)
      /\ pc[r] = "write" => At(q, blk[r], AfterFilter)
      /\ At(q, blk[r] - 1, AfterFilter)
  BY DEF Meetings
<1> DEFINE b == blk[r]
<1>7. CASE r = p
  <2>1. pc'[r] \in {"done", "start"} /\ blk'[r] - 1 = b /\ b \in Int
    BY <1>2, <1>4, <1>7
  <2>2. At(q, b, AfterFilter)
    BY <1>2, <1>6, <1>7
  <2> HIDE DEF b
  <2>4. blk'[q] > b \/ (blk'[q] = b /\ pc'[q] \in AfterFilter)
    <3>1. blk[q] > b \/ (blk[q] = b /\ pc[q] \in AfterFilter)
      BY <2>2 DEF At
    <3>2. blk[q] \in Nat /\ blk'[q] = (IF q = p THEN blk[q] + 1 ELSE blk[q]) /\ pc'[q] = (IF q = p THEN to ELSE pc[q])
      BY <1>1, <1>2
    <3> QED BY <2>1, <3>1, <3>2, SMT
  <2>5. At(q, blk[r] - 1, AfterFilter)'
    BY <2>1, <2>4 DEF At
  <2> QED BY <2>1, <2>5 DEF AfterStart, AfterRead
<1>8. CASE r # p
  <2>1. pc'[r] = pc[r] /\ blk'[r] = b /\ b \in Int /\ b - 1 \in Int
    BY <1>2, <1>4, <1>8
  <2>2. \A S : \A c \in Int : (blk[q] > c \/ (blk[q] = c /\ pc[q] \in S)) =>
                 (blk'[q] > c \/ (blk'[q] = c /\ pc'[q] \in S))
    <3>1. blk[q] \in Nat /\ blk'[q] = (IF q = p THEN blk[q] + 1 ELSE blk[q]) /\ pc'[q] = (IF q = p THEN to ELSE pc[q])
      BY <1>1, <1>2
    <3> QED BY <3>1, SMT
  <2> HIDE DEF b
  <2>3. /\ pc[r] = pc'[r]
        /\ At(q, b, AfterStart) => blk'[q] > b \/ (blk'[q] = b /\ pc'[q] \in AfterStart)
        /\ At(q, b, AfterRead) => blk'[q] > b \/ (blk'[q] = b /\ pc'[q] \in AfterRead)
        /\ At(q, b, AfterFilter) => blk'[q] > b \/ (blk'[q] = b /\ pc'[q] \in AfterFilter)
        /\ At(q, b - 1, AfterFilter) => blk'[q] > b - 1 \/ (blk'[q] = b - 1 /\ pc'[q] \in AfterFilter)
    BY <2>1, <2>2 DEF At
  <2>4. /\ At(q, blk[r], AfterStart)' <=> (blk'[q] > b \/ (blk'[q] = b /\ pc'[q] \in AfterStart))
        /\ At(q, blk[r], AfterRead)' <=> (blk'[q] > b \/ (blk'[q] = b /\ pc'[q] \in AfterRead))
        /\ At(q, blk[r], AfterFilter)' <=> (blk'[q] > b \/ (blk'[q] = b /\ pc'[q] \in AfterFilter))
        /\ At(q, blk[r] - 1, AfterFilter)' <=> (blk'[q] > b - 1 \/ (blk'[q] = b - 1 /\ pc'[q] \in AfterFilter))
    BY <2>1 DEF At, AfterStart, AfterRead, AfterFilter
  <2> QED BY <1>6, <2>3, <2>4 DEF b
<1> QED BY <1>7, <1>8

LEMMA MeetingsNext ==
    ASSUME Types, Meetings, [Next]_vars
    PROVE  Meetings'
<1> USE DEF AfterStart, AfterRead, AfterFilter
<1>1. CASE UNCHANGED <<conf, pc, blk>>
  BY <1>1 DEF Meetings, At, Procs
<1>2. ASSUME NEW p \in Procs, BlockStart(p)
      PROVE  Meetings'
  <2> DEFINE to == IF conf.hooks THEN "hooked" ELSE "copy"
  <2>1. UNCHANGED <<conf, blk>> /\ pc' = [pc EXCEPT ![p] = to] /\ pc[p] = "start"
    BY <1>2 DEF BlockStart, Goto
  <2> QED BY <2>1, GoOn DEF Before, Working
<1>3. ASSUME NEW p \in Procs, HooksDone(p)
      PROVE  Meetings'
  <2>1. UNCHANGED <<conf, blk>> /\ pc' = [pc EXCEPT ![p] = "copy"] /\ pc[p] = "hooked"
    BY <1>3 DEF HooksDone, Goto
  <2>2. \A q \in Procs : At(q, blk[p], AfterStart)
    BY <1>3 DEF HooksDone, Arrived, At
  <2> QED BY <2>1, <2>2, GoOn DEF Before, Working
<1>4. ASSUME NEW p \in Procs, CopyControl(p)
      PROVE  Meetings'
  <2>1. UNCHANGED <<conf, blk>> /\ pc' = [pc EXCEPT ![p] = "read"] /\ pc[p] = "copy"
    BY <1>4 DEF CopyControl, Goto
  <2> QED BY <2>1, GoOn DEF Before, Working
<1>5. ASSUME NEW p \in Procs, InputsRead(p)
      PROVE  Meetings'
  <2>1. UNCHANGED <<conf, blk>> /\ pc' = [pc EXCEPT ![p] = "synch"] /\ pc[p] = "read"
    BY <1>5 DEF InputsRead, Goto
  <2> QED BY <2>1, GoOn DEF Before, Working
<1>6. ASSUME NEW p \in Procs, InputsSynched(p)
      PROVE  Meetings'
  <2>1. UNCHANGED <<conf, blk>> /\ pc' = [pc EXCEPT ![p] = "filter"] /\ pc[p] = "synch"
    BY <1>6 DEF InputsSynched, Goto
  <2>2. \A q \in Procs : At(q, blk[p], AfterRead)
    BY <1>6 DEF InputsSynched, Arrived, At
  <2> QED BY <2>1, <2>2, GoOn DEF Before, Working
<1>7. ASSUME NEW p \in Procs, MixOutputs(p)
      PROVE  Meetings'
  <2>1. UNCHANGED <<conf, blk>> /\ pc' = [pc EXCEPT ![p] = "mixed"] /\ pc[p] = "filter"
    BY <1>7 DEF MixOutputs, Goto
  <2> QED BY <2>1, GoOn DEF Before, Working
<1>8. ASSUME NEW p \in Procs, OutputsSynched(p)
      PROVE  Meetings'
  <2>1. UNCHANGED <<conf, blk>> /\ pc' = [pc EXCEPT ![p] = "write"] /\ pc[p] = "mixed"
    BY <1>8 DEF OutputsSynched, Goto
  <2>2. \A q \in Procs : At(q, blk[p], AfterFilter)
    BY <1>8 DEF OutputsSynched, Arrived, At
  <2> QED BY <2>1, <2>2, GoOn DEF Before, Working
<1>9. \/ UNCHANGED <<conf, pc, blk>>
      \/ \E p \in Procs : \/ BlockStart(p) \/ HooksDone(p) \/ CopyControl(p) \/ InputsRead(p) \/ InputsSynched(p)
                          \/ MixOutputs(p) \/ OutputsSynched(p) \/ EndBlock(p)
  <2>1. CASE UNCHANGED vars
    BY <2>1 DEF vars
  <2>2. CASE NewInput \/ ChangeControl
    BY <2>2 DEF NewInput, ChangeControl
  <2>3. ASSUME NEW p \in Procs, ReadInput(p) \/ Filter(p) \/ WriteOutput(p)
        PROVE  UNCHANGED <<conf, pc, blk>>
    BY <2>3 DEF ReadInput, Filter, WriteOutput
  <2> QED BY <2>1, <2>2, <2>3 DEF Next
<1> QED BY <1>1, <1>2, <1>3, <1>4, <1>5, <1>6, <1>7, <1>8, <1>9, NextBlock

-----------------------------------------------------------------------------
(* The hook of a block has run when its control is copied, and does not run *)
(* again before everybody has copied it.                                   *)

\* blocks process 1 has called the hooks for
Hooked == IF pc[1] \in {"start", "done"} THEN blk[1] - 1 ELSE blk[1]

CopiesInv ==
    conf.hooks /\ ~conf.async =>
        /\ \A p \in Procs :
              /\ Copied(p) <= Hooked
              /\ Copied(p) = Hooked /\ Hooked # 0 => copies[p][Hooked].coeff = ctl.coeff
        /\ HooksAtomic

LEMMA Numbers ==
    ASSUME Types, NEW p \in Procs
    PROVE  /\ 1 \in Procs /\ blk[1] \in Nat \ {0} /\ Hooked \in Nat
           /\ blk[p] \in Nat \ {0} /\ Copied(p) \in Nat
           /\ DOMAIN copies[p] = 1..Copied(p)
<1>1. p \in 1..Len(conf.order) /\ Procs = 1..Len(conf.order)
  BY ConfOK DEF Types
<1>2. 1 \in Procs
  <2>1. Len(conf.order) \in Int \/ 1..Len(conf.order) = {}
    OBVIOUS
  <2> QED BY <1>1, <2>1, SMT
<1>3. blk[1] \in Nat \ {0} /\ blk[p] \in Nat \ {0}
  BY <1>2 DEF Types
<1>4. Hooked \in Nat /\ Copied(p) \in Nat
  BY <1>3, SMT DEF Hooked, Copied
<1>5. DOMAIN copies[p] = 1..Copied(p)
  BY DEF Types
<1> QED BY <1>2, <1>3, <1>4, <1>5

LEMMA InitCopies ==
    ASSUME Init
    PROVE  CopiesInv
<1>1. SUFFICES ASSUME NEW p \in Procs
               PROVE  Copied(p) = 0 /\ Hooked = 0 /\ copies[p] = <<>>
  <2>1. \A b : b \notin DOMAIN <<>>
    OBVIOUS
  <2> QED BY <2>1 DEF CopiesInv, HooksAtomic
<1>2. 1 \in Procs
  BY InitTypes, Numbers
<1> QED BY <1>2 DEF Init, Copied, Hooked, Working

\* A step that neither calls the hooks nor copies what they left.
LEMMA QuietCopies ==
    ASSUME Types, CopiesInv, UNCHANGED <<conf, ctl, copies>>,
           \A p \in Procs : Copied(p)' = Copied(p) /\ Hooked' = Hooked
    PROVE  CopiesInv'
  BY DEF CopiesInv, HooksAtomic, Procs

LEMMA CopyCopies ==
    ASSUME Types, Types', Meetings, CopiesInv, NEW p \in Procs, CopyControl(p)
    PROVE  CopiesInv'
<1> SUFFICES ASSUME conf.hooks, ~conf.async
             PROVE  CopiesInv'
  BY DEF CopyControl, CopiesInv
<1> DEFINE b == blk[p]
<1>1. /\ pc[p] = "copy" /\ UNCHANGED <<conf, blk, ctl>> /\ Procs' = Procs
      /\ pc' = [pc EXCEPT ![p] = "read"]
      /\ copies' = [copies EXCEPT ![p] = Append(copies[p], ctl)]
  BY DEF CopyControl, Goto, Procs
<1>2. /\ pc \in [Procs -> Before \cup Working] /\ DOMAIN copies = Procs
      /\ \A q \in Procs : copies[q] \in Seq(Controls) /\ Len(copies[q]) = Copied(q)
  BY DEF Types
<1>3. 1 \in Procs /\ blk[1] \in Nat \ {0} /\ b \in Nat \ {0} /\ Hooked \in Nat
  BY Numbers
<1>4. Copied(p) = b - 1
  BY <1>1 DEF Copied, Working
<1>5. Hooked = b
  <2>1. At(1, b, AfterStart)
    BY <1>1, <1>3 DEF Meetings, AfterStart
  <2>2. At(p, blk[1] - 1, AfterFilter)
    BY <1>3 DEF Meetings
  <2>3. ~(b = blk[1] - 1)
    BY <1>1, <1>3, <2>2, SMT DEF At, AfterFilter
  <2>4. b > blk[1] - 1
    BY <1>1, <1>3, <2>2, <2>3 DEF At
  <2>5. blk[1] = b /\ pc[1] \in AfterStart
    BY <1>3, <2>1, <2>4, SMT DEF At
  <2> QED BY <2>5 DEF Hooked, AfterStart
<1>6. Hooked' = Hooked
  BY <1>1, <1>2, <1>3 DEF Hooked
<1>7. \A q \in Procs : Copied(q)' = IF q = p THEN b ELSE Copied(q)
  BY <1>1, <1>2 DEF Copied, Working
<1>8. /\ \A q \in Procs : q # p => copies'[q] = copies[q]
      /\ copies'[p][b] = ctl
      /\ \A n \in 1..b - 1 : copies'[p][n] = copies[p][n]
  <2>1. copies[p] \in Seq(Controls) /\ Len(copies[p]) = b - 1
    BY <1>2, <1>4
  <2>2. (b - 1) + 1 = b
    BY <1>3, SMT
  <2> HIDE DEF b
  <2>3. Append(copies[p], ctl)[b] = ctl /\ \A n \in 1..b - 1 : Append(copies[p], ctl)[n] = copies[p][n]
    BY <1>3, <2>1, <2>2
  <2> QED BY <1>1, <1>2, <2>3
<1>9. /\ \A q \in Procs : Copied(q) <= b /\ Copied(q) \in Nat /\ DOMAIN copies[q] = 1..Copied(q)
      /\ \A q \in Procs : Copied(q) = b => copies[q][b].coeff = ctl.coeff
      /\ \A q, r \in Procs : \A n \in DOMAIN copies[q] \cap DOMAIN copies[r] : copies[q][n].coeff = copies[r][n].coeff
  <2> HIDE DEF b
  <2> QED BY <1>3, <1>5, Numbers, SMT DEF CopiesInv, HooksAtomic
<1> HIDE DEF b
<1>10. \A q \in Procs : DOMAIN copies'[q] = 1..Copied(q)'
  BY <1>1, Numbers DEF Types
<1>11. \A q \in Procs : \A n \in 1..Copied(q)' :
          IF n = b THEN copies'[q][n].coeff = ctl.coeff
          ELSE n \in 1..Copied(q) /\ copies'[q][n] = copies[q][n]
  <2> SUFFICES ASSUME NEW q \in Procs, NEW n \in 1..Copied(q)'
               PROVE  IF n = b THEN copies'[q][n].coeff = ctl.coeff
                      ELSE n \in 1..Copied(q) /\ copies'[q][n] = copies[q][n]
    OBVIOUS
  <2>1. CASE q = p
    <3>1. n \in 1..b
      BY <1>7, <2>1
    <3>2. n # b => n \in 1..b - 1
      BY <1>3, <3>1, SMT
    <3> QED BY <1>4, <1>8, <2>1, <3>2
  <2>2. CASE q # p
    <3>1. n \in 1..Copied(q) /\ copies'[q] = copies[q]
      BY <1>7, <1>8, <2>2
    <3>2. n = b => Copied(q) = b
      BY <1>3, <1>9, <3>1, SMT
    <3> QED BY <1>9, <3>1, <3>2
  <2> QED BY <2>1, <2>2
<1>12. HooksAtomic'
  <2>1. ASSUME NEW q \in Procs, NEW r \in Procs, NEW n \in DOMAIN copies'[q] \cap DOMAIN copies'[r]
        PROVE  copies'[q][n].coeff = copies'[r][n].coeff
    <3>1. n \in 1..Copied(q)' /\ n \in 1..Copied(r)'
      BY <1>10, <2>1
    <3>2. CASE n = b
      BY <1>11, <3>1, <3>2
    <3>3. CASE n # b
      BY <1>9, <1>11, <3>1, <3>3
    <3> QED BY <3>2, <3>3
  <2>2. \A q, r \in Procs' : \A n \in DOMAIN copies'[q] \cap DOMAIN copies'[r] : copies'[q][n].coeff = copies'[r][n].coeff
    BY <1>1, <2>1
  <2> QED BY <2>2, Zenon DEF HooksAtomic
<1>13. \A q \in Procs : /\ Copied(q)' <= Hooked'
                        /\ Copied(q)' = Hooked' => copies'[q][Hooked'].coeff = ctl'.coeff
  <2> SUFFICES ASSUME NEW q \in Procs
               PROVE  /\ Copied(q)' <= Hooked'
                      /\ Copied(q)' = Hooked' => copies'[q][Hooked'].coeff = ctl'.coeff
    OBVIOUS
  <2>1. Copied(q)' = (IF q = p THEN b ELSE Copied(q)) /\ Hooked' = b /\ ctl' = ctl
    BY <1>1, <1>5, <1>6, <1>7
  <2>2. Copied(q)' <= b
    BY <1>3, <1>9, <2>1, SMT
  <2>3. Copied(q)' = b => b \in 1..Copied(q)'
    BY <1>3, SMT
  <2> QED BY <1>11, <2>1, <2>2, <2>3
<1> QED BY <1>1, <1>12, <1>13 DEF CopiesInv

\* The hook of block blk[1] runs, while nobody has copied the control for it.
LEMMA HookCopies ==
    ASSUME Types, CopiesInv, BlockStart(1), 1 \in Procs
    PROVE  CopiesInv'
<1> SUFFICES ASSUME conf.hooks, ~conf.async
             PROVE  CopiesInv'
  BY DEF BlockStart, CopiesInv
<1>1. /\ pc[1] = "start" /\ pc' = [pc EXCEPT ![1] = "hooked"] /\ UNCHANGED <<conf, blk, copies>> /\ Procs' = Procs
  BY DEF BlockStart, Goto, Procs
<1>2. pc \in [Procs -> Before \cup Working] /\ blk[1] \in Nat
  BY Numbers DEF Types
<1>3. Hooked = blk[1] - 1 /\ Hooked' = blk[1]
  BY <1>1, <1>2 DEF Hooked
<1>4. \A p \in Procs : Copied(p)' = Copied(p) /\ Copied(p) <= Hooked /\ Copied(p) \in Nat
  BY <1>1, <1>2, Numbers DEF CopiesInv, Copied, Working
<1>5. \A p \in Procs : Copied(p)' <= Hooked' /\ Copied(p)' # Hooked'
  BY <1>2, <1>3, <1>4, SMT
<1>6. HooksAtomic'
  BY <1>1 DEF CopiesInv, HooksAtomic
<1> QED BY <1>1, <1>5, <1>6 DEF CopiesInv

LEMMA CopiesNext ==
    ASSUME Types, Types', Meetings, CopiesInv, [Next]_vars
    PROVE  CopiesInv'
<1>0. pc \in [Procs -> Before \cup Working] /\ blk \in [Procs -> Nat \ {0}]
  BY DEF Types
<1>1. ASSUME UNCHANGED <<conf, ctl, copies, blk, pc>>
      PROVE  CopiesInv'
  BY <1>1, QuietCopies DEF Copied, Hooked
<1>2. CASE ChangeControl
  BY <1>2 DEF ChangeControl, CopiesInv
<1>3. ASSUME NEW p \in Procs, BlockStart(p)
      PROVE  CopiesInv'
  <2>1. CASE p = 1
    BY <1>3, <2>1, HookCopies
  <2>2. CASE p # 1
    <3> DEFINE to == IF conf.hooks THEN "hooked" ELSE "copy"
    <3>1. UNCHANGED <<conf, ctl, copies, blk>> /\ pc' = [pc EXCEPT ![p] = to] /\ pc[p] = "start"
      BY <1>3, <2>2 DEF BlockStart, Goto
    <3>2. \A q \in Procs : Copied(q)' = Copied(q) /\ Hooked' = Hooked
      BY <1>0, <2>2, <3>1 DEF Copied, Hooked, Working
    <3> QED BY <3>1, <3>2, QuietCopies
  <2> QED BY <2>1, <2>2
<1>4. ASSUME NEW p \in Procs, NEW to \in {"copy", "synch", "filter", "mixed", "write"},
             UNCHANGED <<conf, ctl, copies, blk>>, pc' = [pc EXCEPT ![p] = to],
             pc[p] \in Working \cup {"hooked"}, to = "copy" <=> pc[p] = "hooked"
      PROVE  CopiesInv'
  <2>1. \A q \in Procs : Copied(q)' = Copied(q) /\ Hooked' = Hooked
    BY <1>0, <1>4 DEF Copied, Hooked, Working
  <2> QED BY <1>4, <2>1, QuietCopies
<1>5. ASSUME NEW p \in Procs, EndBlock(p)
      PROVE  CopiesInv'
  <2> DEFINE to == IF blk[p] = conf.last THEN "done" ELSE "start"
  <2>1. UNCHANGED <<conf, ctl, copies>> /\ pc' = [pc EXCEPT ![p] = to] /\ pc[p] = "write" /\ blk' = [blk EXCEPT ![p] = @ + 1]
    BY <1>5 DEF EndBlock, Goto
  <2>2. to \in {"done", "start"} /\ (blk[p] + 1) - 1 = blk[p]
    BY <1>0, SMT
  <2> HIDE DEF to
  <2>3. \A q \in Procs : pc'[q] = (IF q = p THEN to ELSE pc[q]) /\ blk'[q] = IF q = p THEN blk[p] + 1 ELSE blk[q]
    BY <1>0, <2>1
  <2>4. \A q \in Procs : Copied(q)' = Copied(q)
    BY <2>1, <2>2, <2>3 DEF Copied, Working
  <2>5. Hooked' = Hooked
    <3>1. 1 \in Procs
      BY Numbers
    <3> QED BY <2>1, <2>2, <2>3, <3>1 DEF Hooked
  <2> QED BY <2>1, <2>4, <2>5, QuietCopies
<1>6. \/ UNCHANGED <<conf, ctl, copies, blk, pc>>
      \/ ChangeControl
      \/ \E p \in Procs : BlockStart(p) \/ CopyControl(p) \/ EndBlock(p)
      \/ \E p \in Procs, to \in {"copy", "synch", "filter", "mixed", "write"} :
            /\ UNCHANGED <<conf, ctl, copies, blk>> /\ pc' = [pc EXCEPT ![p] = to]
            /\ pc[p] \in Working \cup {"hooked"} /\ (to = "copy" <=> pc[p] = "hooked")
  <2>1. CASE UNCHANGED vars
    BY <2>1 DEF vars
  <2>2. CASE NewInput
    BY <2>2 DEF NewInput
  <2>3. ASSUME NEW p \in Procs, ReadInput(p) \/ Filter(p) \/ WriteOutput(p)
        PROVE  UNCHANGED <<conf, ctl, copies, blk, pc>>
    BY <2>3 DEF ReadInput, Filter, WriteOutput
  <2>4. ASSUME NEW p \in Procs, HooksDone(p) \/ InputsRead(p) \/ InputsSynched(p) \/ MixOutputs(p) \/ OutputsSynched(p)
        PROVE  \E to \in {"copy", "synch", "filter", "mixed", "write"} :
                  /\ UNCHANGED <<conf, ctl, copies, blk>> /\ pc' = [pc EXCEPT ![p] = to]
                  /\ pc[p] \in Working \cup {"hooked"} /\ (to = "copy" <=> pc[p] = "hooked")
    BY <2>4 DEF HooksDone, InputsRead, InputsSynched, MixOutputs, OutputsSynched, Goto, Working
  <2> QED BY <2>1, <2>2, <2>3, <2>4 DEF Next
<1> QED BY <1>1, <1>2, <1>3, <1>4, <1>5, <1>6, CopyCopies

\* The inductive invariant of the meetings.
THEOREM Meets == Spec => [](Types /\ Meetings)
<1>1. Init => Types /\ Meetings
  BY InitTypes, InitMeetings
<1>2. Types /\ Meetings /\ [Next]_vars => (Types /\ Meetings)'
  BY TypesNext, MeetingsNext
<1> QED BY <1>1, <1>2, PTL DEF Spec

\* What the block-start hook sets (bfrun.c:1389) is used as one: all processes filter a block with
\* the coefficients the hook left, for any number of them, as long as no thread changes the control
\* in between.
THEOREM HooksAsOne == Spec => [](~conf.async => HooksAtomic)
<1>1. Init => CopiesInv
  BY InitCopies
<1>2. (Types /\ Meetings) /\ (Types /\ Meetings)' /\ CopiesInv /\ [Next]_vars => CopiesInv'
  BY CopiesNext
<1>3. CopiesInv => (~conf.async => HooksAtomic)
  BY DEF CopiesInv, HooksAtomic
<1> QED BY <1>1, <1>2, <1>3, Meets, PTL DEF Spec

-----------------------------------------------------------------------------
(* Zero flags *)

\* With powersave no stage uses a filter's buffer behind the back of its flag: the copy of a
\* shared input (bfrun.c:1256) and the delay line of a shared output (bfrun.c:1834) would.
FlagsApply ==
    conf.powersave =>
        /\ \A ch \in InCh : ~Shared(conf.physIn, ch)
        /\ \A o \in conf.delayed : ~Shared(conf.physOut, o)

Shapes ==
    /\ DOMAIN fbuf = InCh /\ DOMAIN outf = OutCh
    /\ DOMAIN fzero = Procs /\ DOMAIN outzero = Procs /\ DOMAIN scratch = Procs
    /\ DOMAIN ocbuf = Filters /\ DOMAIN ebuf = Filters /\ DOMAIN cbuf = Filters /\ DOMAIN czero = Filters
    /\ \A f \in Filters : DOMAIN cbuf[f] = 0..conf.nblocks - 1 /\ czero[f] \subseteq 0..conf.nblocks - 1

\* The flags of a channel are set by the process that has it.
Owned ==
    \A p \in Procs : fzero[p] \subseteq Listed(conf.procin[p]) /\ outzero[p] \subseteq ProcOutputs(p)

\* The flags of filters are not set without powersave.
FlagsOff == ~conf.powersave => ozero = {} /\ \A f \in Filters : czero[f] = {}

ZeroInv == FlagsApply => Shapes /\ Owned /\ FlagsOff /\ ZeroFlagsTrue

LEMMA InitZero ==
    ASSUME Init
    PROVE  ZeroInv
<1>1. /\ DOMAIN fbuf = InCh /\ DOMAIN fzero = Procs /\ DOMAIN outzero = Procs /\ DOMAIN scratch = Procs
      /\ DOMAIN ocbuf = Filters /\ DOMAIN ebuf = Filters /\ DOMAIN cbuf = Filters /\ DOMAIN czero = Filters
      /\ \A f \in Filters : DOMAIN cbuf[f] = 0..conf.nblocks - 1 /\ czero[f] = {}
      /\ \A p \in Procs : fzero[p] = {} /\ outzero[p] = {}
      /\ ozero = {} /\ ezero = {} /\ szero = {}
  BY DEF Init
<1>2. DOMAIN outf = OutCh
  BY DEF Init
<1> QED BY <1>1, <1>2 DEF ZeroInv, Shapes, Owned, FlagsOff, ZeroFlagsTrue

LEMMA SlotOK ==
    ASSUME Types, NEW p \in Procs, NEW n \in Int
    PROVE  Slot(p, n) \in 0..conf.nblocks - 1
<1>1. blk[p] \in Nat /\ conf.nblocks \in Nat \ {0} /\ CounterMod \in Nat \ {0}
  BY ConfOK, FilterProcessAssumption DEF Types
<1> DEFINE x == (blk[p] - 1 + n + CounterMod) % CounterMod
<1>2. x \in Nat
  BY <1>1, SMT
<1> HIDE DEF x
<1>3. x % conf.nblocks \in 0..conf.nblocks - 1
  BY <1>1, <1>2, SMT
<1> QED BY <1>3 DEF Slot, x

LEMMA DelayOK ==
    ASSUME conf \in Confs, NEW f \in Filters
    PROVE  DelayBlocks(f) \in Nat
<1>1. conf.filters[f].delay \in Int /\ conf.nblocks \in Nat \ {0}
  BY ConfOK
<1> QED BY <1>1, SMT DEF DelayBlocks

\* A sum ends before the slot that the delayed block enters.
LEMMA ReachOK ==
    ASSUME conf \in Confs, NEW f \in Filters, NEW c \in Coefficient
    PROVE  Reach(f, c) \in Int /\ Reach(f, c) <= conf.nblocks - DelayBlocks(f) /\ Reach(f, c) <= conf.nblocks
<1> DEFINE room == conf.nblocks - DelayBlocks(f)
<1>1. room \in Nat \ {0} /\ room <= conf.nblocks
  <2>1. conf.filters[f].delay \in Int /\ conf.nblocks \in Nat \ {0}
    BY ConfOK
  <2> QED BY <2>1, SMT DEF DelayBlocks
<1>2. Partitions(f, c) = IF c < 0 \/ Blocks(c) > room THEN room ELSE Blocks(c)
  BY DEF Partitions
<1> HIDE DEF room
<1>3. CASE c \in DOMAIN conf.coeffs
  <2>1. Blocks(c) \in Nat
    BY <1>3, ConfOK DEF Blocks
  <2>2. Reach(f, c) \in Int /\ Reach(f, c) <= room
    BY <1>1, <1>2, <2>1, SMT DEF Reach
  <2> QED BY <1>1, <2>2, ConfOK, SMT DEF room
<1>4. CASE c = -1
  <2>1. Reach(f, c) = 1
    BY <1>4, SMT DEF Reach
  <2>2. Reach(f, c) \in Int /\ Reach(f, c) <= room
    BY <1>1, <2>1, SMT
  <2> QED BY <1>1, <2>2, ConfOK, SMT DEF room
<1> QED BY <1>3, <1>4 DEF Coefficient

-----------------------------------------------------------------------------
(* The stages of filter_process *)

\* A window that is not transformed is silent.
LEMMA ReadZero ==
    ASSUME Types, ZeroInv, NEW p \in Procs, ReadInput(p)
    PROVE  ZeroInv'
<1> SUFFICES ASSUME FlagsApply, Shapes, Owned, FlagsOff, ZeroFlagsTrue
             PROVE  (Shapes /\ Owned /\ FlagsOff /\ ZeroFlagsTrue)'
  BY DEF ReadInput, ZeroInv, FlagsApply, InCh, Shared
<1> DEFINE ch == conf.procin[p][idx[p]]
           cur == blk[p] % 2
           shared == Shared(conf.physIn, ch)
           block == IF conf.physIn[ch] \in inputs[blk[p]] /\ ~(shared /\ ch \in Copy(p).mute)
                    THEN {<<ch, blk[p], <<>> >>} ELSE {}
           window == Raw2Cbuf(tbuf[ch][cur], block)
           transform == Transform(window)
           f0 == First(p)
<1>1. /\ idx[p] <= Len(conf.procin[p])
      /\ fbuf' = [fbuf EXCEPT ![ch] = IF transform THEN window ELSE IF ch \in fzero[p] THEN @ ELSE Silence]
      /\ fzero' = [fzero EXCEPT ![p] = IF transform THEN @ \ {ch} ELSE @ \cup {ch}]
      /\ IF shared THEN /\ ocbuf' = [ocbuf EXCEPT ![f0] = block]
                        /\ cbuf' = [cbuf EXCEPT ![f0] = Aliased(@, block)]
         ELSE UNCHANGED <<ocbuf, cbuf>>
      /\ UNCHANGED <<conf, czero, ozero, ebuf, ezero, scratch, szero, outf, outzero>>
  BY Zenon DEF ReadInput
<1>2. ch \in Listed(conf.procin[p]) /\ ch \in InCh
  <2>1. conf.procin[p] \in Seq(InCh) /\ idx[p] \in Nat \ {0}
    BY ConfOK DEF Types
  <2> QED BY <1>1, <2>1 DEF Listed
<1>3. f0 \in Filters
  BY ConfOK DEF Types, First
<1>4. ~transform => window = Silence
  BY DEF Transform
<1>5. conf.powersave => ~shared
  BY <1>2 DEF FlagsApply
<1> HIDE DEF ch, window, transform, block, shared, f0
<1>6. /\ conf' = conf /\ Procs' = Procs /\ Filters' = Filters /\ InCh' = InCh /\ OutCh' = OutCh
      /\ \A q \in Procs : ProcOutputs(q)' = ProcOutputs(q)
  BY <1>1 DEF Procs, Filters, InCh, OutCh, ProcOutputs, FiltersOf
<1>7. /\ \A c \in InCh : fbuf'[c] = IF c = ch THEN (IF transform THEN window ELSE IF ch \in fzero[p] THEN fbuf[ch] ELSE Silence)
                                            ELSE fbuf[c]
      /\ \A q \in Procs : fzero'[q] = IF q = p THEN (IF transform THEN fzero[p] \ {ch} ELSE fzero[p] \cup {ch})
                                               ELSE fzero[q]
      /\ DOMAIN fbuf' = InCh /\ DOMAIN fzero' = Procs
  BY <1>1 DEF Shapes
<1>8. \A q \in Procs : fzero'[q] \subseteq Listed(conf.procin[q])
  BY <1>2, <1>7 DEF Owned
<1>9. \A q \in Procs : \A c \in fzero'[q] : fbuf'[c] = Silence
  <2> SUFFICES ASSUME NEW q \in Procs, NEW c \in fzero'[q] PROVE fbuf'[c] = Silence
    OBVIOUS
  <2>1. c \in Listed(conf.procin[q]) /\ conf.procin[q] \in Seq(InCh)
    BY <1>8, ConfOK DEF Types
  <2>2. c \in InCh
    BY <2>1 DEF Listed
  <2>3. CASE c = ch
    <3>1. q = p
      BY <1>2, <2>1, <2>3, ConfOK DEF Types
    <3>2. ~transform
      BY <1>7, <2>3, <3>1
    <3> QED BY <1>7, <2>2, <2>3, <3>2 DEF ZeroFlagsTrue
  <2>4. CASE c # ch
    <3>1. c \in fzero[q]
      BY <1>7, <2>4
    <3> QED BY <1>7, <2>2, <2>4, <3>1 DEF ZeroFlagsTrue
  <2> QED BY <2>3, <2>4
<1>10. /\ DOMAIN ocbuf' = Filters /\ DOMAIN cbuf' = Filters
       /\ \A f \in Filters : DOMAIN cbuf'[f] = 0..conf.nblocks - 1
       /\ \A f \in Filters : f \in ozero => ocbuf'[f] = {}
       /\ \A f \in Filters : \A s \in czero[f] : cbuf'[f][s] = Silence
  <2>1. CASE ~shared
    BY <1>1, <2>1 DEF Shapes, ZeroFlagsTrue
  <2>2. CASE shared
    <3>1. ozero = {} /\ \A f \in Filters : czero[f] = {}
      BY <1>5, <2>2 DEF FlagsOff
    <3>2. \A ring : DOMAIN Aliased(ring, block) = DOMAIN ring
      BY DEF Aliased
    <3> QED BY <1>1, <1>3, <2>2, <3>1, <3>2 DEF Shapes
  <2> QED BY <2>1, <2>2
<1>11. Shapes'
  BY <1>1, <1>6, <1>7, <1>10 DEF Shapes
<1>12. Owned'
  BY <1>1, <1>6, <1>8 DEF Owned
<1>13. FlagsOff'
  BY <1>1, <1>6 DEF FlagsOff
<1>14. ZeroFlagsTrue'
  <2>1. /\ \A q \in Procs : /\ \A o \in outzero'[q] : outf'[o] = {}
                            /\ q \in szero' => scratch'[q] = Silence
        /\ \A f \in Filters : f \in ezero' => ebuf'[f] = {}
    BY <1>1 DEF ZeroFlagsTrue
  <2>2. /\ \A f \in Filters : f \in ozero' => ocbuf'[f] = {}
        /\ \A f \in Filters : \A s \in czero'[f] : cbuf'[f][s] = Silence
    BY <1>1, <1>10
  <2> QED BY <1>6, <1>9, <2>1, <2>2 DEF ZeroFlagsTrue, Silence
<1> QED BY <1>11, <1>12, <1>13, <1>14

\* What a filter gets from other filters is silent if its flag says so.
LEMMA EvaluateZero ==
    ASSUME ZeroFlagsTrue, NEW p \in Procs, NEW f \in Filters
    PROVE  /\ Evaluate(p, f).zero => Evaluate(p, f).win = Silence
           /\ Evaluate(p, f).ez => Evaluate(p, f).kept = {}
<1> DEFINE src == conf.filters[f].src
           iszero == conf.powersave /\ src \subseteq ozero
           mixed == IF ~iszero THEN <<{}, UNION {ocbuf[g] : g \in src}>>
                    ELSE IF p \in szero THEN scratch[p] ELSE Silence
           run == RunEvaluation(f, iszero)
<1>1. Evaluate(p, f) =
        IF src = {}
        THEN [win |-> scratch[p], zero |-> p \in szero, kept |-> ebuf[f], ez |-> f \in ezero]
        ELSE IF run
             THEN [win |-> ConvolveEval(ebuf[f], mixed[2]), zero |-> FALSE,
                   kept |-> mixed[2], ez |-> iszero]
             ELSE [win |-> mixed, zero |-> TRUE, kept |-> ebuf[f], ez |-> TRUE]
  BY Zenon DEF Evaluate
<1>2. /\ p \in szero => scratch[p] = Silence
      /\ f \in ezero => ebuf[f] = {}
  BY DEF ZeroFlagsTrue
<1>3. iszero => mixed = Silence
  BY <1>2
<1>4. ~run => iszero /\ f \in ezero
  BY DEF RunEvaluation
<1> HIDE DEF src, iszero, mixed, run
<1>5. CASE src = {}
  <2>1. Evaluate(p, f) = [win |-> scratch[p], zero |-> p \in szero, kept |-> ebuf[f], ez |-> f \in ezero]
    BY <1>1, <1>5, Zenon
  <2> DEFINE zero == p \in szero
             ez == f \in ezero
  <2>2. Evaluate(p, f) = [win |-> scratch[p], zero |-> zero, kept |-> ebuf[f], ez |-> ez]
    BY <2>1
  <2>3. (zero => scratch[p] = Silence) /\ (ez => ebuf[f] = {})
    BY <1>2
  <2> HIDE DEF zero, ez
  <2> QED BY <2>2, <2>3
<1>6. CASE src # {} /\ run
  <2>1. Silence[2] = {}
    BY DEF Silence
  <2> QED BY <1>1, <1>3, <1>6, <2>1
<1>7. CASE src # {} /\ ~run
  BY <1>1, <1>2, <1>3, <1>4, <1>7
<1> QED BY <1>5, <1>6, <1>7

\* The ring of a filter: a slot that is flagged is silent.
LEMMA EnqueueZero ==
    ASSUME Types, Shapes, FlagsOff, ZeroFlagsTrue, NEW p \in Procs, NEW f \in Filters, NEW ev
    PROVE  LET q == Enqueue(p, f, ev)
           IN  /\ DOMAIN q.ring = 0..conf.nblocks - 1 /\ q.zeros \subseteq 0..conf.nblocks - 1
               /\ \A s \in q.zeros : q.ring[s] = Silence
               /\ ~conf.powersave => q.zeros = {}
<1> DEFINE flt == conf.filters[f]
           slot == Slot(p, DelayBlocks(f))
           iszero == /\ flt.src = {} \/ ev.zero
                     /\ flt.in \subseteq fzero[p]
           mixed == MixWindows({fbuf[ch] : ch \in flt.in}
                                \cup (IF flt.src = {} THEN {} ELSE {ev.win}))
           q == Enqueue(p, f, ev)
<1>1. q = IF ~iszero \/ ~conf.powersave
          THEN [ring |-> [cbuf[f] EXCEPT ![slot] = mixed], zeros |-> czero[f] \ {slot}]
          ELSE [ring |-> [cbuf[f] EXCEPT ![slot] = IF slot \in czero[f] THEN @ ELSE Silence],
                zeros |-> czero[f] \cup {slot}]
  BY Zenon DEF Enqueue
<1>2. slot \in 0..conf.nblocks - 1
  <2>1. DelayBlocks(f) \in Int
    BY DelayOK, SMT DEF Types
  <2> QED BY <2>1, SlotOK
<1>3. /\ DOMAIN cbuf[f] = 0..conf.nblocks - 1 /\ czero[f] \subseteq 0..conf.nblocks - 1
      /\ \A s \in czero[f] : cbuf[f][s] = Silence
      /\ ~conf.powersave => czero[f] = {}
  BY DEF Shapes, FlagsOff, ZeroFlagsTrue
<1> HIDE DEF slot, iszero, mixed
<1>4. CASE ~iszero \/ ~conf.powersave
  <2>1. q = [ring |-> [cbuf[f] EXCEPT ![slot] = mixed], zeros |-> czero[f] \ {slot}]
    BY <1>1, <1>4
  <2> HIDE DEF q
  <2> QED BY <1>2, <1>3, <2>1 DEF q
<1>5. CASE iszero /\ conf.powersave
  <2>1. q = [ring |-> [cbuf[f] EXCEPT ![slot] = IF slot \in czero[f] THEN @ ELSE Silence],
             zeros |-> czero[f] \cup {slot}]
    BY <1>1, <1>5
  <2> HIDE DEF q
  <2>2. q.zeros = czero[f] \cup {slot} /\ DOMAIN q.ring = DOMAIN cbuf[f]
    BY <2>1
  <2>3. q.ring[slot] = Silence
    BY <1>2, <1>3, <2>1
  <2>4. \A s \in czero[f] : s # slot => q.ring[s] = cbuf[f][s]
    BY <1>3, <2>1
  <2> QED BY <1>2, <1>3, <1>5, <2>2, <2>3, <2>4 DEF q
<1> QED BY <1>4, <1>5

\* If a filter skips the convolution, nothing is added either, and its output is silent.
LEMMA FilterZero ==
    ASSUME Types, ZeroInv, NEW p \in Procs, Filter(p)
    PROVE  ZeroInv'
<1> SUFFICES ASSUME FlagsApply, Shapes, Owned, FlagsOff, ZeroFlagsTrue
             PROVE  (Shapes /\ Owned /\ FlagsOff /\ ZeroFlagsTrue)'
  BY DEF Filter, ZeroInv, FlagsApply, InCh, Shared
<1> DEFINE f == conf.order[p][idx[p]]
           coeff == Copy(p).coeff[f]
           prev == prevcoeff[f]
           pb == Processed(f)
           ev == Evaluate(p, f)
           q == Enqueue(p, f, ev)
           slot == Slot(p, 0)
           active == ~conf.powersave \/ slot \notin q.zeros
           fading == conf.filters[f].crossfade /\ prev # coeff
           n == Reach(f, coeff)
           m == Reach(f, prev)
           out0 == IF active THEN Convolve(q.ring[slot], f, coeff)
                   ELSE IF f \in ozero THEN ocbuf[f] ELSE {}
           old0 == IF active THEN Convolve(q.ring[slot], f, prev)
                   ELSE ev.win[1] \cup ev.win[2]
           out == SumAdds(p, f, q, coeff, n, pb, out0)
           old == SumAdds(p, f, q, prev, m, pb, old0)
           iszero == /\ ~active /\ AddSlots(p, q, n, pb) = {}
                     /\ ~(fading /\ Behind(m, pb) # {})
           faded == fading /\ ~iszero
           result == IF faded THEN Crossfade(f, out, old) ELSE out
<1>1. /\ cbuf' = [cbuf EXCEPT ![f] = Aliased(q.ring, result)]
      /\ czero' = [czero EXCEPT ![f] = q.zeros]
      /\ ebuf' = [ebuf EXCEPT ![f] = ev.kept]
      /\ ezero' = (IF ev.ez THEN ezero \cup {f} ELSE ezero \ {f})
      /\ ocbuf' = [ocbuf EXCEPT ![f] = result]
      /\ ozero' = (IF iszero THEN ozero \cup {f} ELSE ozero \ {f})
      /\ scratch' = [scratch EXCEPT ![p] = IF faded THEN <<{}, old>> ELSE ev.win]
      /\ szero' = (IF ev.zero /\ ~faded THEN szero \cup {p} ELSE szero \ {p})
      /\ UNCHANGED <<conf, fbuf, fzero, outf, outzero>>
  BY Zenon DEF Filter
<1>2. f \in Filters /\ prev \in Coefficient
  BY FilterTypes DEF Types
<1>3. (ev.zero => ev.win = Silence) /\ (ev.ez => ev.kept = {})
  BY <1>2, EvaluateZero
<1>4. /\ DOMAIN q.ring = 0..conf.nblocks - 1 /\ q.zeros \subseteq 0..conf.nblocks - 1
      /\ \A s \in q.zeros : q.ring[s] = Silence
      /\ ~conf.powersave => q.zeros = {}
  <2> HIDE DEF f, ev
  <2> QED BY <1>2, EnqueueZero
<1>5. iszero => result = {}
  <2>1. iszero => out0 = {}
    BY <1>2 DEF ZeroFlagsTrue
  <2>2. iszero => AddSlots(p, q, n, pb) = {}
    OBVIOUS
  <2>3. iszero => result = out
    OBVIOUS
  <2> HIDE DEF iszero, out0, q, n, pb, f, coeff, result
  <2>4. iszero => out = {}
    BY <2>1, <2>2 DEF SumAdds, ConvolveAdd
  <2> QED BY <2>3, <2>4
<1>6. ~conf.powersave => ~iszero
  OBVIOUS
<1>7. conf.nblocks = 1 /\ 0 \in q.zeros => iszero
  <2> SUFFICES ASSUME conf.nblocks = 1, 0 \in q.zeros
               PROVE  iszero
    OBVIOUS
  <2>1. conf.powersave
    BY <1>4
  <2>2. \A k \in Int : Slot(p, k) = 0
    <3>1. \A k \in Int : Slot(p, k) \in 0..1 - 1
      BY SlotOK
    <3> QED BY <3>1, SMT
  <2>3. ~active
    BY <2>1, <2>2
  <2>4. AddSlots(p, q, n, pb) = {}
    <3>1. \A k \in AddSlots(p, q, n, pb) : k \in Int /\ -k \in Int /\ Slot(p, -k) \notin q.zeros
      <4> HIDE DEF q, n, pb
      <4> QED BY <2>1, SMT DEF AddSlots, Behind
    <3> HIDE DEF q, n, pb
    <3> QED BY <2>2, <3>1
  <2>5. Behind(m, pb) = {}
    <3>1. m \in Int /\ m <= 1
      <4> HIDE DEF f, prev
      <4> QED BY <1>2, ReachOK DEF Types
    <3> HIDE DEF m, pb
    <3> QED BY <3>1, SMT DEF Behind
  <2> HIDE DEF active, q, n, m, pb
  <2> QED BY <2>3, <2>4, <2>5
<1> HIDE DEF f, ev, q, iszero, faded, result, old
<1>8. \A s \in q.zeros : Aliased(q.ring, result)[s] = Silence
  <2>1. CASE conf.nblocks # 1
    BY <1>4, <2>1 DEF Aliased
  <2>2. CASE conf.nblocks = 1
    <3> SUFFICES ASSUME NEW s \in q.zeros PROVE Aliased(q.ring, result)[s] = Silence
      OBVIOUS
    <3>1. s = 0 /\ 0 \in DOMAIN q.ring
      BY <1>4, <2>2, SMT
    <3>2. result = {}
      BY <1>5, <1>7, <2>2, <3>1
    <3>3. Aliased(q.ring, result)[0] = <<{}, result>>
      BY <2>2, <3>1 DEF Aliased
    <3> QED BY <3>1, <3>2, <3>3 DEF Silence
  <2> QED BY <2>1, <2>2
<1>9. DOMAIN Aliased(q.ring, result) = 0..conf.nblocks - 1
  BY <1>4 DEF Aliased
<1>10. /\ conf' = conf /\ Procs' = Procs /\ Filters' = Filters /\ InCh' = InCh /\ OutCh' = OutCh
       /\ \A r \in Procs : ProcOutputs(r)' = ProcOutputs(r)
  BY <1>1 DEF Procs, Filters, InCh, OutCh, ProcOutputs, FiltersOf
<1>11. \A g \in Filters :
         /\ cbuf'[g] = IF g = f THEN Aliased(q.ring, result) ELSE cbuf[g]
         /\ czero'[g] = IF g = f THEN q.zeros ELSE czero[g]
         /\ ebuf'[g] = IF g = f THEN ev.kept ELSE ebuf[g]
         /\ ocbuf'[g] = IF g = f THEN result ELSE ocbuf[g]
  BY <1>1, Zenon DEF Shapes
<1>12. \A r \in Procs : scratch'[r] = IF r = p THEN (IF faded THEN <<{}, old>> ELSE ev.win) ELSE scratch[r]
  BY <1>1, Zenon DEF Shapes
<1>13. Shapes'
  <2>1. /\ DOMAIN ocbuf' = Filters /\ DOMAIN ebuf' = Filters /\ DOMAIN cbuf' = Filters /\ DOMAIN czero' = Filters
        /\ DOMAIN scratch' = Procs
    BY <1>1, Zenon DEF Shapes
  <2>2. \A g \in Filters : DOMAIN cbuf'[g] = 0..conf.nblocks - 1 /\ czero'[g] \subseteq 0..conf.nblocks - 1
    BY <1>4, <1>9, <1>11 DEF Shapes
  <2> QED BY <1>1, <1>10, <2>1, <2>2 DEF Shapes
<1>14. Owned'
  BY <1>1, <1>10 DEF Owned
<1>15. FlagsOff'
  BY <1>1, <1>4, <1>6, <1>10, <1>11 DEF FlagsOff
<1>16. ZeroFlagsTrue'
  <2>1. \A r \in Procs : (\A ch \in fzero'[r] : fbuf'[ch] = Silence) /\ (\A o \in outzero'[r] : outf'[o] = {})
    BY <1>1 DEF ZeroFlagsTrue
  <2>2. \A r \in Procs : r \in szero' => scratch'[r] = Silence
    BY <1>1, <1>3, <1>12 DEF ZeroFlagsTrue
  <2>3. \A g \in Filters : \A s \in czero'[g] : cbuf'[g][s] = Silence
    BY <1>8, <1>11 DEF ZeroFlagsTrue
  <2>4. \A g \in Filters : g \in ozero' => ocbuf'[g] = {}
    BY <1>1, <1>5, <1>11 DEF ZeroFlagsTrue
  <2>5. \A g \in Filters : g \in ezero' => ebuf'[g] = {}
    BY <1>1, <1>3, <1>11 DEF ZeroFlagsTrue
  <2> QED BY <1>10, <2>1, <2>2, <2>3, <2>4, <2>5 DEF ZeroFlagsTrue, Silence
<1> QED BY <1>13, <1>14, <1>15, <1>16

\* An output that is not mixed is cleared once.
LEMMA MixZero ==
    ASSUME Types, ZeroInv, NEW p \in Procs, MixOutputs(p)
    PROVE  ZeroInv'
<1> SUFFICES ASSUME FlagsApply, Shapes, Owned, FlagsOff, ZeroFlagsTrue
             PROVE  (Shapes /\ Owned /\ FlagsOff /\ ZeroFlagsTrue)'
  BY DEF MixOutputs, ZeroInv, FlagsApply, InCh, Shared
<1> DEFINE feeds(o) == {f \in FiltersOf(p) : o \in conf.filters[f].out}
           run(o) == ~conf.powersave \/ ~(feeds(o) \subseteq ozero)
           outs == ProcOutputs(p)
<1>1. /\ outf' = [o \in OutCh |->
                    IF o \notin outs THEN outf[o]
                    ELSE IF run(o) THEN UNION {ocbuf[f] : f \in feeds(o)}
                    ELSE IF o \in outzero[p] THEN outf[o] ELSE {}]
      /\ outzero' = [outzero EXCEPT ![p] = {o \in outs : ~run(o)}]
      /\ UNCHANGED <<conf, fbuf, fzero, cbuf, czero, ocbuf, ozero, ebuf, ezero, scratch, szero>>
  BY Zenon DEF MixOutputs
<1> HIDE DEF feeds, run, outs
<1>2. /\ conf' = conf /\ Procs' = Procs /\ Filters' = Filters /\ InCh' = InCh /\ OutCh' = OutCh
      /\ \A r \in Procs : ProcOutputs(r)' = ProcOutputs(r)
  BY <1>1 DEF Procs, Filters, InCh, OutCh, ProcOutputs, FiltersOf
<1>3. \A r \in Procs : outzero'[r] = IF r = p THEN {o \in outs : ~run(o)} ELSE outzero[r]
  BY <1>1 DEF Shapes
<1>4. \A r \in Procs : ProcOutputs(r) \subseteq OutCh /\ (r # p => ProcOutputs(r) \cap ProcOutputs(p) = {})
  BY ConfOK DEF Types
<1>5. \A r \in Procs : \A o \in outzero'[r] : outf'[o] = {}
  <2> SUFFICES ASSUME NEW r \in Procs, NEW o \in outzero'[r] PROVE outf'[o] = {}
    OBVIOUS
  <2>1. CASE r = p
    <3>1. o \in outs /\ ~run(o) /\ o \in OutCh
      BY <1>3, <1>4, <2>1 DEF outs
    <3> QED BY <1>1, <3>1 DEF ZeroFlagsTrue
  <2>2. CASE r # p
    <3>1. o \in outzero[r] /\ o \in ProcOutputs(r)
      BY <1>3, <2>2 DEF Owned
    <3>2. o \in OutCh /\ o \notin outs
      BY <1>4, <2>2, <3>1 DEF outs
    <3> QED BY <1>1, <3>1, <3>2 DEF ZeroFlagsTrue
  <2> QED BY <2>1, <2>2
<1>6. Shapes'
  <2>1. DOMAIN outf' = OutCh /\ DOMAIN outzero' = Procs
    BY <1>1 DEF Shapes
  <2> QED BY <1>1, <1>2, <2>1 DEF Shapes
<1>7. Owned'
  <2>1. \A r \in Procs : outzero'[r] \subseteq ProcOutputs(r)
    BY <1>3 DEF Owned, outs
  <2> QED BY <1>1, <1>2, <2>1 DEF Owned
<1>8. FlagsOff'
  BY <1>1, <1>2 DEF FlagsOff
<1>9. ZeroFlagsTrue'
  BY <1>1, <1>2, <1>5 DEF ZeroFlagsTrue, Silence
<1> QED BY <1>6, <1>7, <1>8, <1>9

\* The first filter's buffer takes the output back to the time domain, and its flag with it.
LEMMA WriteZero ==
    ASSUME Types, ZeroInv, NEW p \in Procs, WriteOutput(p)
    PROVE  ZeroInv'
<1> SUFFICES ASSUME FlagsApply, Shapes, Owned, FlagsOff, ZeroFlagsTrue
             PROVE  (Shapes /\ Owned /\ FlagsOff /\ ZeroFlagsTrue)'
  BY DEF WriteOutput, ZeroInv, FlagsApply, InCh, Shared
<1> DEFINE o == conf.procout[p][idx[p]]
           f0 == First(p)
           ph == conf.physOut[o]
           run == ~conf.powersave \/ o \notin outzero[p]
           time == IF run THEN outf[o] ELSE IF f0 \in ozero THEN ocbuf[f0] ELSE {}
           held == conf.delayed \cap {o} # {}
           delayed == IF held THEN odelay[o] ELSE time
           heard == o \notin Copy(p).mute
           filled == mix[p].filled \/ heard
           sum == IF heard THEN (IF mix[p].filled THEN scratch[p][2] \cup delayed ELSE delayed)
                  ELSE scratch[p][2]
           last == mix[p].j + 1 = Cardinality(Virt(ph))
           shared == Shared(conf.physOut, o)
           block == IF shared THEN delayed ELSE time
<1>1. /\ ocbuf' = [ocbuf EXCEPT ![f0] = block]
      /\ cbuf' = [cbuf EXCEPT ![f0] = Aliased(@, block)]
      /\ ozero' = (IF run THEN ozero \ {f0} ELSE ozero \cup {f0})
      /\ czero' = (IF conf.nblocks > 1 THEN czero
                   ELSE [czero EXCEPT ![f0] = IF run THEN {} ELSE {0}])
      /\ UNCHANGED <<conf, fbuf, fzero, ebuf, ezero, outf, outzero>>
      /\ \/ UNCHANGED <<scratch, szero>>
         \/ /\ scratch' = [scratch EXCEPT ![p] =
                             IF heard THEN <<{}, sum>> ELSE IF last /\ ~filled THEN <<@[1], {}>> ELSE @]
            /\ szero' = (IF heard THEN szero \ {p} ELSE szero)
  BY Zenon DEF WriteOutput
<1>2. f0 \in Filters /\ conf.nblocks \in Nat \ {0}
  BY ConfOK DEF Types, First
<1>3. ~run => block = {} /\ conf.powersave
  <2> SUFFICES ASSUME ~run PROVE block = {} /\ conf.powersave
    OBVIOUS
  <2>1. conf.powersave
    OBVIOUS
  <2>2. time = {}
    BY <1>2 DEF ZeroFlagsTrue
  <2>3. ~(held /\ shared)
    BY <2>1 DEF FlagsApply
  <2> HIDE DEF time, held, shared
  <2> QED BY <2>1, <2>2, <2>3
<1> HIDE DEF o, f0, ph, run, time, held, delayed, heard, filled, sum, last, shared, block
<1>4. /\ conf' = conf /\ Procs' = Procs /\ Filters' = Filters /\ InCh' = InCh /\ OutCh' = OutCh
      /\ \A r \in Procs : ProcOutputs(r)' = ProcOutputs(r)
  BY <1>1 DEF Procs, Filters, InCh, OutCh, ProcOutputs, FiltersOf
<1>5. \A ring : /\ DOMAIN Aliased(ring, block) = DOMAIN ring
                /\ conf.nblocks # 1 => Aliased(ring, block) = ring
                /\ conf.nblocks = 1 /\ 0 \in DOMAIN ring => Aliased(ring, block)[0] = <<{}, block>>
  BY DEF Aliased
<1>6. \A g \in Filters :
         /\ ocbuf'[g] = IF g = f0 THEN block ELSE ocbuf[g]
         /\ cbuf'[g] = IF g = f0 THEN Aliased(cbuf[g], block) ELSE cbuf[g]
  BY <1>1, Zenon DEF Shapes
<1>7. \A g \in Filters : /\ conf.nblocks # 1 => czero'[g] = czero[g]
                         /\ conf.nblocks = 1 => czero'[g] = IF g = f0 THEN (IF run THEN {} ELSE {0}) ELSE czero[g]
  <2>1. conf.nblocks > 1 <=> conf.nblocks # 1
    BY <1>2, SMT
  <2> QED BY <1>1, <2>1 DEF Shapes
<1>8. \A g \in Filters : \A s \in czero'[g] : cbuf'[g][s] = Silence
  <2> SUFFICES ASSUME NEW g \in Filters, NEW s \in czero'[g] PROVE cbuf'[g][s] = Silence
    OBVIOUS
  <2>1. CASE conf.nblocks # 1 \/ g # f0
    BY <1>5, <1>6, <1>7, <2>1 DEF ZeroFlagsTrue
  <2>2. CASE conf.nblocks = 1 /\ g = f0
    <3>1. ~run /\ s = 0
      BY <1>7, <2>2
    <3>2. 0 \in DOMAIN cbuf[f0]
      BY <1>2, <2>2, SMT DEF Shapes
    <3> QED BY <1>2, <1>3, <1>5, <1>6, <2>2, <3>1, <3>2 DEF Silence
  <2> QED BY <2>1, <2>2
<1>9. Shapes'
  <2>1. /\ DOMAIN ocbuf' = Filters /\ DOMAIN cbuf' = Filters /\ DOMAIN czero' = Filters /\ DOMAIN scratch' = Procs
    BY <1>1 DEF Shapes
  <2>2. \A g \in Filters : DOMAIN cbuf'[g] = 0..conf.nblocks - 1
    BY <1>5, <1>6 DEF Shapes
  <2>3. conf.nblocks = 1 => 0 \in 0..conf.nblocks - 1
    BY SMT
  <2>4. \A g \in Filters : czero'[g] \subseteq 0..conf.nblocks - 1
    BY <1>7, <2>3 DEF Shapes
  <2> QED BY <1>1, <1>4, <2>1, <2>2, <2>4 DEF Shapes
<1>10. Owned'
  BY <1>1, <1>4 DEF Owned
<1>11. FlagsOff'
  BY <1>1, <1>3, <1>4, <1>7 DEF FlagsOff
<1>12. ZeroFlagsTrue'
  <2>1. \A r \in Procs : (\A ch \in fzero'[r] : fbuf'[ch] = Silence) /\ (\A c \in outzero'[r] : outf'[c] = {})
    BY <1>1 DEF ZeroFlagsTrue
  <2>2. \A r \in Procs : r \in szero' => scratch'[r] = Silence
    <3>1. CASE UNCHANGED <<scratch, szero>>
      BY <3>1 DEF ZeroFlagsTrue
    <3>2. CASE /\ scratch' = [scratch EXCEPT ![p] =
                                IF heard THEN <<{}, sum>> ELSE IF last /\ ~filled THEN <<@[1], {}>> ELSE @]
               /\ szero' = (IF heard THEN szero \ {p} ELSE szero)
      <4>1. p \in szero => scratch[p] = Silence /\ <<scratch[p][1], {}>> = Silence
        BY DEF ZeroFlagsTrue, Silence
      <4>2. \A r \in Procs : scratch'[r] = IF r # p THEN scratch[r] ELSE
                IF heard THEN <<{}, sum>> ELSE IF last /\ ~filled THEN <<scratch[p][1], {}>> ELSE scratch[p]
        BY <3>2, Zenon DEF Shapes
      <4> QED BY <3>2, <4>1, <4>2 DEF ZeroFlagsTrue
    <3> QED BY <1>1, <3>1, <3>2
  <2>3. \A g \in Filters : g \in ozero' => ocbuf'[g] = {}
    BY <1>1, <1>3, <1>6 DEF ZeroFlagsTrue
  <2>4. \A g \in Filters : g \in ezero' => ebuf'[g] = {}
    BY <1>1 DEF ZeroFlagsTrue
  <2> QED BY <1>4, <1>8, <2>1, <2>2, <2>3, <2>4 DEF ZeroFlagsTrue, Silence
<1> QED BY <1>9, <1>10, <1>11, <1>12

LEMMA ZeroNext ==
    ASSUME Types, ZeroInv, [Next]_vars
    PROVE  ZeroInv'
<1>1. ASSUME UNCHANGED <<conf, bufs>>
      PROVE  ZeroInv'
  <2>1. /\ UNCHANGED <<conf, fbuf, fzero, cbuf, czero, ocbuf, ozero, ebuf, ezero, scratch, szero, outf, outzero>>
        /\ Procs' = Procs /\ Filters' = Filters /\ InCh' = InCh /\ OutCh' = OutCh
        /\ \A r : ProcOutputs(r)' = ProcOutputs(r)
    BY <1>1 DEF bufs, Procs, Filters, InCh, OutCh, ProcOutputs, FiltersOf
  <2>2. FlagsApply' <=> FlagsApply
    BY <2>1 DEF FlagsApply, Shared
  <2>3. FlagsApply => Shapes' /\ Owned'
    BY <2>1 DEF ZeroInv, Shapes, Owned
  <2>4. FlagsApply => FlagsOff' /\ ZeroFlagsTrue'
    BY <2>1 DEF ZeroInv, FlagsOff, ZeroFlagsTrue, Silence
  <2> QED BY <2>2, <2>3, <2>4 DEF ZeroInv
<1>2. \/ UNCHANGED <<conf, bufs>>
      \/ \E p \in Procs : ReadInput(p) \/ Filter(p) \/ MixOutputs(p) \/ WriteOutput(p)
  <2>1. CASE UNCHANGED vars
    BY <2>1 DEF vars
  <2>2. CASE NewInput \/ ChangeControl
    BY <2>2 DEF NewInput, ChangeControl
  <2>3. ASSUME NEW p \in Procs, \/ BlockStart(p) \/ HooksDone(p) \/ CopyControl(p) \/ InputsRead(p) \/ InputsSynched(p)
                                \/ OutputsSynched(p) \/ EndBlock(p)
        PROVE  UNCHANGED <<conf, bufs>>
    BY <2>3 DEF BlockStart, HooksDone, CopyControl, InputsRead, InputsSynched, OutputsSynched, EndBlock
  <2> QED BY <2>1, <2>2, <2>3 DEF Next
<1> QED BY <1>1, <1>2, ReadZero, FilterZero, MixZero, WriteZero

\* Under powersave a buffer whose flag is set is silent (bfrun.c:1475): what is skipped because of a
\* flag would have added nothing, for any network of filters, number of processes, lengths of the
\* coefficient sets, cross-fades and delays, where no stage uses a filter's buffer without its flag.
THEOREM FlagsTrue == Spec => [](FlagsApply => ZeroFlagsTrue)
<1>1. Init => ZeroInv
  BY InitZero
<1>2. (Types /\ Meetings) /\ ZeroInv /\ [Next]_vars => ZeroInv'
  BY ZeroNext
<1>3. ZeroInv => (FlagsApply => ZeroFlagsTrue)
  BY DEF ZeroInv
<1> QED BY <1>1, <1>2, <1>3, Meets, PTL DEF Spec

-----------------------------------------------------------------------------
(* Partial processing *)

\* Blocks that the nth filter of p has run.
Runs(p, n) ==
    blk[p] - 1 + (IF pc[p] \in AfterFilter \/ (pc[p] = "filter" /\ n < idx[p]) THEN 1 ELSE 0)

\* The position in a ring of block number x.
Ring(x) == ((x + CounterMod) % CounterMod) % conf.nblocks

\* Windows that the set it ran with last reaches; when it was silent, all of them were.
Heard(p, n) ==
    IF conf.powersave /\ Runs(p, n) > 0
    THEN Reach(conf.order[p][n], copies[p][Runs(p, n)].coeff[conf.order[p][n]])
    ELSE conf.nblocks - DelayBlocks(conf.order[p][n])

\* With powersave, no filter is given a set that reaches further back than the one before.
NeverLonger ==
    conf.powersave =>
        \A p \in Procs : \A b \in DOMAIN copies[p] : \A f \in FiltersOf(p) :
            b > 1 => Reach(f, copies[p][b].coeff[f]) <= Reach(f, copies[p][b - 1].coeff[f])

\* The ring goes round evenly when the block counter wraps.
PartsApply == FlagsApply /\ NeverLonger /\ CounterMod % conf.nblocks = 0

\* The windows behind procblocks that are reached are silent.
LeftOut(p, n) ==
    \A i \in 1..Heard(p, n) - 1 :
        i > procblocks[conf.order[p][n]] => cbuf[conf.order[p][n]][Ring(Runs(p, n) - i)] = Silence

PartsInv ==
    /\ procblocks \in [Filters -> 0..conf.nblocks]
    /\ PartsApply => \A p \in Procs : \A n \in DOMAIN conf.order[p] : LeftOut(p, n)

LEMMA Division ==
    ASSUME NEW z \in Int, NEW d \in Nat \ {0}
    PROVE  z % d \in 0..d - 1 /\ \E q \in Int : z = d * q + (z % d)
<1> DEFINE q == z \div d
           r == z % d
<1>1. q \in Int /\ r \in 0..d - 1
  BY SMT
<1>2. z = q * d + r
  BY Z3
<1> HIDE DEF q, r
<1>3. z = d * q + r
  BY <1>1, <1>2, SMT
<1>4. \E k \in Int : z = d * k + r
  BY <1>1, <1>3
<1> QED BY <1>1, <1>4, Zenon DEF r

\* Fewer than nblocks apart, two blocks are not at the same position.
LEMMA RingOK ==
    ASSUME conf \in Confs, NEW x \in Int
    PROVE  Ring(x) \in 0..conf.nblocks - 1
<1> DEFINE r == (x + CounterMod) % CounterMod
<1>1. x + CounterMod \in Int /\ CounterMod \in Nat \ {0} /\ conf.nblocks \in Nat \ {0}
  BY FilterProcessAssumption, ConfOK, SMT
<1>2. r \in 0..CounterMod - 1
  BY <1>1, Division
<1> HIDE DEF r
<1>3. r \in Int
  BY <1>1, <1>2, SMT
<1>4. r % conf.nblocks \in 0..conf.nblocks - 1
  BY <1>1, <1>3, Division
<1> QED BY <1>4 DEF Ring, r

LEMMA RingApart ==
    ASSUME NEW x \in Int, NEW y \in Int, conf.nblocks \in Nat \ {0}, CounterMod % conf.nblocks = 0,
           0 < x - y, x - y < conf.nblocks
    PROVE  Ring(x) # Ring(y)
<1> DEFINE M == CounterMod
           m == conf.nblocks
<1>1. M \in Nat \ {0} /\ m \in Nat \ {0}
  BY FilterProcessAssumption
<1>2. M % m = 0 /\ 0 < x - y /\ x - y < m
  OBVIOUS
<1> HIDE DEF M, m
<1>3. PICK k \in Int : M = m * k
  <2>1. \E q \in Int : M = m * q + (M % m)
    <3>1. M \in Int
      BY <1>1, SMT
    <3> QED BY <1>1, <3>1, Division
  <2> QED BY <1>1, <1>2, <2>1, SMT
<1> DEFINE ring(z) == ((z + M) % M) % m
<1>4. ASSUME NEW z \in Int
      PROVE  \E q \in Int : z + M = m * q + ring(z) /\ ring(z) \in Int
  <2> DEFINE r == (z + M) % M
             t == r % m
  <2>1. r \in Int /\ \E a \in Int : z + M = M * a + r
    <3>1. z + M \in Int
      BY <1>1, SMT
    <3> HIDE DEF r
    <3>2. r \in 0..M - 1 /\ \E a \in Int : z + M = M * a + r
      BY <1>1, <3>1, Division DEF r
    <3>3. \A v \in 0..M - 1 : v \in Int
      BY <1>1, SMT
    <3> QED BY <3>2, <3>3, Zenon
  <2> HIDE DEF r
  <2>2. t \in Int /\ \E c \in Int : r = m * c + t
    <3> HIDE DEF t
    <3>1. t \in 0..m - 1 /\ \E c \in Int : r = m * c + t
      BY <1>1, <2>1, Division DEF t
    <3> QED BY <1>1, <3>1, SMT
  <2> HIDE DEF t
  <2>3. PICK a \in Int : z + M = M * a + r
    BY <2>1
  <2>4. PICK c \in Int : r = m * c + t
    BY <2>2
  <2>5. M * a = m * (k * a) /\ k * a \in Int
    BY <1>1, <1>3, SMT
  <2> DEFINE e == k * a
  <2> HIDE DEF e
  <2>6. z + M = m * e + (m * c + t)
    BY <2>3, <2>4, <2>5 DEF e
  <2>7. m * e + m * c = m * (e + c) /\ e + c \in Int
    BY <1>1, <2>5, SMT DEF e
  <2>8. m * e \in Int /\ m * c \in Int
    BY <1>1, <2>5, SMT DEF e
  <2>9. z + M = m * (e + c) + t
    BY <2>2, <2>6, <2>7, <2>8, SMT
  <2>10. t = ring(z)
    BY DEF t, r
  <2> HIDE DEF ring
  <2> QED BY <2>2, <2>7, <2>9, <2>10
<1> HIDE DEF ring
<1>6. PICK p \in Int : x + M = m * p + ring(x) /\ ring(x) \in Int
  BY <1>4
<1>7. PICK q \in Int : y + M = m * q + ring(y) /\ ring(y) \in Int
  BY <1>4
<1>8. ASSUME ring(x) = ring(y) PROVE FALSE
  <2>1. x - y = m * p - m * q
    BY <1>1, <1>6, <1>7, <1>8, SMT
  <2>2. m * p - m * q = m * (p - q)
    BY <1>1, SMT
  <2>3. CASE p - q >= 1
    <3>1. m * (p - q) >= m
      BY <1>1, <2>3, SMT
    <3> QED BY <1>1, <1>2, <2>1, <2>2, <3>1, SMT
  <2>4. CASE p - q <= 0
    <3>1. m * (p - q) <= 0
      BY <1>1, <2>4, SMT
    <3> QED BY <1>1, <1>2, <2>1, <2>2, <3>1, SMT
  <2> QED BY <2>3, <2>4, SMT
<1> QED BY <1>8 DEF ring, M, m, Ring

LEMMA RunsOK ==
    ASSUME Types, NEW p \in Procs, NEW n \in DOMAIN conf.order[p]
    PROVE  /\ n \in Nat /\ conf.order[p][n] \in Filters /\ conf.order[p][n] \in FiltersOf(p)
           /\ Runs(p, n) \in Nat
           /\ Runs(p, n) > 0 => /\ Runs(p, n) \in DOMAIN copies[p]
                                /\ copies[p][Runs(p, n)].coeff[conf.order[p][n]] \in Coefficient
           /\ Heard(p, n) \in Int /\ Heard(p, n) <= conf.nblocks - DelayBlocks(conf.order[p][n])
           /\ Heard(p, n) <= conf.nblocks
           /\ conf.nblocks \in Nat \ {0} /\ DelayBlocks(conf.order[p][n]) \in Nat
<1> DEFINE f == conf.order[p][n]
           N == Runs(p, n)
<1>1. conf.order[p] \in Seq(Filters) /\ conf.nblocks \in Nat \ {0} /\ conf \in Confs
  BY ConfOK DEF Types
<1>2. n \in Nat /\ f \in Filters /\ f \in FiltersOf(p)
  BY <1>1 DEF FiltersOf
<1>3. blk[p] \in Nat \ {0} /\ copies[p] \in Seq(Controls) /\ Len(copies[p]) = Copied(p)
  BY DEF Types
<1>4. N \in Nat /\ N <= Len(copies[p])
  BY <1>3, SMT DEF Runs, Copied, Working, AfterFilter
<1> HIDE DEF f, N
<1>5. N > 0 => N \in DOMAIN copies[p] /\ copies[p][N].coeff[f] \in Coefficient
  <2> SUFFICES ASSUME N > 0 PROVE N \in DOMAIN copies[p] /\ copies[p][N].coeff[f] \in Coefficient
    OBVIOUS
  <2>1. N \in 1..Len(copies[p])
    BY <1>3, <1>4, SMT
  <2>2. copies[p][N] \in Controls
    BY <1>3, <2>1
  <2> QED BY <1>2, <1>3, <2>1, <2>2 DEF Controls
<1>6. DelayBlocks(f) \in Nat
  BY <1>1, <1>2, DelayOK
<1>7. Heard(p, n) \in Int /\ Heard(p, n) <= conf.nblocks - DelayBlocks(f) /\ Heard(p, n) <= conf.nblocks
  <2>1. CASE conf.powersave /\ N > 0
    <3>1. Heard(p, n) = Reach(f, copies[p][N].coeff[f])
      BY <2>1 DEF Heard, f, N
    <3> QED BY <1>1, <1>2, <1>5, <2>1, <3>1, ReachOK
  <2>2. CASE ~(conf.powersave /\ N > 0)
    <3>1. Heard(p, n) = conf.nblocks - DelayBlocks(f)
      BY <2>2 DEF Heard, f, N
    <3> QED BY <1>1, <1>6, <3>1, SMT
  <2> QED BY <2>1, <2>2
<1> QED BY <1>1, <1>2, <1>4, <1>5, <1>6, <1>7 DEF f, N

\* What a filter is about to run with reaches no further than what it ran with.
LEMMA NextReach ==
    ASSUME Types, NeverLonger, NEW p \in Procs, NEW n \in DOMAIN conf.order[p],
           pc[p] = "filter", n >= idx[p]
    PROVE  /\ Runs(p, n) = blk[p] - 1
           /\ Reach(conf.order[p][n], Copy(p).coeff[conf.order[p][n]]) \in Int
           /\ Reach(conf.order[p][n], Copy(p).coeff[conf.order[p][n]]) <= Heard(p, n)
<1> DEFINE f == conf.order[p][n]
           N == Runs(p, n)
<1>1. /\ f \in Filters /\ f \in FiltersOf(p) /\ N \in Nat /\ n \in Nat /\ conf \in Confs
      /\ blk[p] \in Nat \ {0} /\ idx[p] \in Nat
  BY RunsOK DEF Types
<1>2. ~(n < idx[p])
  BY <1>1, SMT
<1>3. N = blk[p] - 1
  BY <1>1, <1>2, SMT DEF Runs, AfterFilter
<1>4. Copy(p).coeff[f] \in Coefficient /\ Len(copies[p]) = blk[p] /\ copies[p] \in Seq(Controls)
  <2>1. Copy(p) \in Controls
    BY CurrentCopy DEF Working
  <2> QED BY <1>1, <2>1 DEF Controls, Types, Copied, Working
<1>5. Reach(f, Copy(p).coeff[f]) \in Int /\ Reach(f, Copy(p).coeff[f]) <= conf.nblocks - DelayBlocks(f)
  BY <1>1, <1>4, ReachOK
<1> HIDE DEF f, N
<1>6. CASE conf.powersave /\ N > 0
  <2>1. blk[p] \in DOMAIN copies[p] /\ blk[p] > 1
    BY <1>1, <1>3, <1>4, <1>6, SMT
  <2>2. Reach(f, copies[p][blk[p]].coeff[f]) <= Reach(f, copies[p][blk[p] - 1].coeff[f])
    BY <1>1, <1>6, <2>1 DEF NeverLonger
  <2> QED BY <1>3, <1>5, <1>6, <2>2 DEF Heard, Copy, f, N
<1>7. CASE ~(conf.powersave /\ N > 0)
  BY <1>3, <1>5, <1>7 DEF Heard, f, N
<1> QED BY <1>6, <1>7, <1>3, <1>5 DEF f, N

\* Every process has run as many blocks as before, and keeps the copies it has used.
LEMMA QuietParts ==
    ASSUME Types, PartsInv, UNCHANGED <<conf, procblocks>>,
           FlagsApply /\ conf.nblocks # 1 => \A f \in Filters : cbuf'[f] = cbuf[f],
           \A p \in Procs : \A n \in DOMAIN conf.order[p] : Runs(p, n)' = Runs(p, n),
           \A p \in Procs : \A b \in DOMAIN copies[p] : b \in DOMAIN copies'[p] /\ copies'[p][b] = copies[p][b]
    PROVE  PartsInv'
<1>1. /\ conf' = conf /\ Procs' = Procs /\ Filters' = Filters
      /\ FlagsApply' = FlagsApply /\ \A p : FiltersOf(p)' = FiltersOf(p)
      /\ \A f, c : Reach(f, c)' = Reach(f, c)
      /\ \A f : DelayBlocks(f)' = DelayBlocks(f)
      /\ \A x : Ring(x)' = Ring(x)
  BY DEF Procs, Filters, FlagsApply, InCh, Shared, FiltersOf, Reach, Partitions, DelayBlocks, Blocks, Ring
<1>2. SUFFICES ASSUME PartsApply', NEW p \in Procs, NEW n \in DOMAIN conf.order[p]
               PROVE  LeftOut(p, n)'
  BY <1>1 DEF PartsInv
<1>3. NeverLonger
  <2> SUFFICES ASSUME conf.powersave, NEW q \in Procs, NEW b \in DOMAIN copies[q], NEW f \in FiltersOf(q), b > 1
               PROVE  Reach(f, copies[q][b].coeff[f]) <= Reach(f, copies[q][b - 1].coeff[f])
    BY DEF NeverLonger
  <2>1. b - 1 \in DOMAIN copies[q]
    <3>1. copies[q] \in Seq(Controls)
      BY DEF Types
    <3> QED BY <3>1, SMT
  <2>2. NeverLonger'
    BY <1>2 DEF PartsApply
  <2>3. Reach(f, copies'[q][b].coeff[f]) <= Reach(f, copies'[q][b - 1].coeff[f])
    BY <1>1, <2>2 DEF NeverLonger
  <2> QED BY <2>1, <2>3
<1>4. LeftOut(p, n)
  BY <1>1, <1>2, <1>3 DEF PartsInv, PartsApply
<1>5. Runs(p, n)' = Runs(p, n) /\ Heard(p, n)' = Heard(p, n)
  <2>1. Runs(p, n)' = Runs(p, n)
    OBVIOUS
  <2>2. Runs(p, n) > 0 => copies'[p][Runs(p, n)] = copies[p][Runs(p, n)]
    BY RunsOK
  <2> QED BY <1>1, <2>1, <2>2 DEF Heard
<1>6. CASE conf.nblocks # 1
  <2>1. cbuf'[conf.order[p][n]] = cbuf[conf.order[p][n]]
    BY <1>1, <1>2, <1>6, RunsOK DEF PartsApply
  <2> QED BY <1>1, <1>4, <1>5, <2>1 DEF LeftOut
<1>7. CASE conf.nblocks = 1
  <2>1. Heard(p, n) \in Int /\ Heard(p, n) <= 1
    BY <1>7, RunsOK
  <2>2. 1..Heard(p, n) - 1 = {}
    BY <2>1, SMT
  <2> QED BY <1>5, <2>2 DEF LeftOut
<1> QED BY <1>6, <1>7

\* The mixed window enters the ring ahead of what is still to be heard.
LEMMA EnqueueOther ==
    ASSUME NEW p, NEW f, NEW ev, NEW s \in DOMAIN cbuf[f], s # Slot(p, DelayBlocks(f))
    PROVE  Enqueue(p, f, ev).ring[s] = cbuf[f][s]
<1> DEFINE flt == conf.filters[f]
           slot == Slot(p, DelayBlocks(f))
           iszero == /\ flt.src = {} \/ ev.zero
                     /\ flt.in \subseteq fzero[p]
           mixed == MixWindows({fbuf[ch] : ch \in flt.in}
                                \cup (IF flt.src = {} THEN {} ELSE {ev.win}))
           q == Enqueue(p, f, ev)
<1>1. q = IF ~iszero \/ ~conf.powersave
          THEN [ring |-> [cbuf[f] EXCEPT ![slot] = mixed], zeros |-> czero[f] \ {slot}]
          ELSE [ring |-> [cbuf[f] EXCEPT ![slot] = IF slot \in czero[f] THEN @ ELSE Silence],
                zeros |-> czero[f] \cup {slot}]
  BY Zenon DEF Enqueue
<1> HIDE DEF slot, iszero, mixed, q
<1>2. s # slot
  BY DEF slot
<1>3. CASE ~iszero \/ ~conf.powersave
  <2>1. q = [ring |-> [cbuf[f] EXCEPT ![slot] = mixed], zeros |-> czero[f] \ {slot}]
    BY <1>1, <1>3
  <2> QED BY <1>2, <2>1 DEF q
<1>4. CASE iszero /\ conf.powersave
  <2>1. q = [ring |-> [cbuf[f] EXCEPT ![slot] = IF slot \in czero[f] THEN @ ELSE Silence],
             zeros |-> czero[f] \cup {slot}]
    BY <1>1, <1>4
  <2> QED BY <1>2, <2>1 DEF q
<1> QED BY <1>3, <1>4

\* A filter is taken for silent only if the windows its set reaches are silent, those included
\* that are left out; the next set reaches no further.
LEMMA FilterParts ==
    ASSUME Types, ZeroInv, PartsInv, NEW p \in Procs, Filter(p)
    PROVE  PartsInv'
<1> DEFINE at == idx[p]
           f == conf.order[p][at]
           coeff == Copy(p).coeff[f]
           prev == prevcoeff[f]
           pb == Processed(f)
           ev == Evaluate(p, f)
           q == Enqueue(p, f, ev)
           slot == Slot(p, 0)
           active == ~conf.powersave \/ slot \notin q.zeros
           fading == conf.filters[f].crossfade /\ prev # coeff
           n == Reach(f, coeff)
           m == Reach(f, prev)
           out0 == IF active THEN Convolve(q.ring[slot], f, coeff)
                   ELSE IF f \in ozero THEN ocbuf[f] ELSE {}
           old0 == IF active THEN Convolve(q.ring[slot], f, prev)
                   ELSE ev.win[1] \cup ev.win[2]
           out == SumAdds(p, f, q, coeff, n, pb, out0)
           old == SumAdds(p, f, q, prev, m, pb, old0)
           iszero == /\ ~active /\ AddSlots(p, q, n, pb) = {}
                     /\ ~(fading /\ Behind(m, pb) # {})
           faded == fading /\ ~iszero
           result == IF faded THEN Crossfade(f, out, old) ELSE out
           N == Runs(p, at)
<1>1. /\ cbuf' = [cbuf EXCEPT ![f] = Aliased(q.ring, result)]
      /\ procblocks' = [procblocks EXCEPT ![f] = IF iszero THEN 0 ELSE pb]
      /\ idx' = [idx EXCEPT ![p] = @ + 1]
      /\ pc[p] = "filter" /\ at <= Len(conf.order[p])
      /\ UNCHANGED <<conf, pc, blk, copies>>
  BY Zenon DEF Filter
<1>2. iszero => /\ conf.powersave /\ slot \in q.zeros /\ AddSlots(p, q, n, pb) = {}
  OBVIOUS
<1> HIDE DEF q, iszero, result, ev
<1>3. at \in DOMAIN conf.order[p] /\ f \in Filters /\ idx \in [Procs -> Nat \ {0}] /\ at \in Nat
  <2>1. conf.order[p] \in Seq(Filters)
    BY ConfOK DEF Types
  <2> QED BY <1>1, <2>1 DEF Types
<1>4. /\ conf' = conf /\ Procs' = Procs /\ Filters' = Filters /\ FlagsApply' = FlagsApply
      /\ NeverLonger' = NeverLonger
      /\ \A h, c : Reach(h, c)' = Reach(h, c)
      /\ \A h : DelayBlocks(h)' = DelayBlocks(h)
      /\ \A x : Ring(x)' = Ring(x)
  BY <1>1 DEF Procs, Filters, FlagsApply, InCh, Shared, FiltersOf, Reach, Partitions, DelayBlocks, Blocks, Ring, NeverLonger
<1>5. /\ conf.nblocks \in Nat \ {0} /\ procblocks \in [Filters -> 0..conf.nblocks]
      /\ pb \in 0..conf.nblocks /\ (procblocks[f] < conf.nblocks => pb = procblocks[f] + 1)
      /\ (procblocks[f] >= conf.nblocks => pb = procblocks[f]) /\ procblocks[f] \in 0..conf.nblocks
  <2>1. conf.nblocks \in Nat \ {0} /\ procblocks \in [Filters -> 0..conf.nblocks] /\ procblocks[f] \in 0..conf.nblocks
    BY <1>3, ConfOK DEF Types, PartsInv
  <2> QED BY <2>1, SMT DEF Processed
<1> HIDE DEF pb
<1>6. procblocks' \in [Filters -> 0..conf.nblocks]
  BY <1>1, <1>3, <1>5
<1>7. SUFFICES ASSUME PartsApply, NEW p2 \in Procs, NEW n2 \in DOMAIN conf.order[p2]
               PROVE  LeftOut(p2, n2)'
  BY <1>4, <1>6 DEF PartsInv, PartsApply
<1>8. LeftOut(p2, n2) /\ FlagsApply /\ NeverLonger /\ CounterMod % conf.nblocks = 0
  BY <1>7 DEF PartsInv, PartsApply
<1>9. Shapes /\ FlagsOff /\ ZeroFlagsTrue
  BY <1>8 DEF ZeroInv
<1> HIDE DEF f, at
<1>10. CASE ~(p2 = p /\ n2 = at)
  <2>1. conf.order[p2][n2] # f
    <3>1. conf \in Confs
      BY DEF Types
    <3> QED BY <1>3, <1>10, <3>1, ConfOK, Zenon DEF f
  <2>2. conf.order[p2][n2] \in Filters /\ n2 \in Nat
    BY RunsOK
  <2>3. cbuf'[conf.order[p2][n2]] = cbuf[conf.order[p2][n2]] /\ procblocks'[conf.order[p2][n2]] = procblocks[conf.order[p2][n2]]
    BY <1>1, <1>5, <1>9, <2>1, <2>2 DEF Shapes
  <2>4. Runs(p2, n2)' = Runs(p2, n2)
    <3>1. n2 < idx'[p2] <=> n2 < idx[p2]
      <4>1. CASE p2 = p
        <5>1. idx'[p2] = idx[p2] + 1 /\ n2 # idx[p2] /\ idx[p2] \in Nat
          BY <1>1, <1>3, <1>10, <4>1 DEF at
        <5> QED BY <2>2, <5>1, SMT
      <4>2. CASE p2 # p
        BY <1>1, <1>3, <4>2
      <4> QED BY <4>1, <4>2
    <3> QED BY <1>1, <3>1 DEF Runs
  <2>5. Heard(p2, n2)' = Heard(p2, n2)
    BY <1>1, <1>4, <2>4 DEF Heard
  <2> QED BY <1>1, <1>4, <1>8, <2>3, <2>4, <2>5 DEF LeftOut
<1>11. CASE p2 = p /\ n2 = at
  <2>0. n2 = at /\ f = conf.order[p][n2] /\ N = Runs(p, n2)
    BY <1>11 DEF f
  <2>1. at >= idx[p]
    BY <1>3, SMT DEF at
  <2>2. N = blk[p] - 1 /\ n \in Int /\ n <= Heard(p, n2)
    BY <1>1, <1>3, <1>8, <2>0, <2>1, NextReach DEF f
  <2> HIDE DEF n
  <2>3. /\ N \in Nat /\ Heard(p, n2) \in Int /\ Heard(p, n2) <= conf.nblocks - DelayBlocks(f)
        /\ DelayBlocks(f) \in Nat
    BY <1>3, <2>0, RunsOK DEF f
  <2>4. blk[p] \in Nat
    BY DEF Types
  <2>5. Runs(p, n2)' = N + 1
    <3>1. idx'[p] = idx[p] + 1 /\ idx[p] \in Nat
      BY <1>1, <1>3
    <3>2. at < idx'[p] /\ (blk[p] - 1) + 1 = N + 1
      BY <2>2, <2>4, <3>1, SMT DEF at
    <3> QED BY <1>1, <2>0, <3>2 DEF Runs
  <2> HIDE DEF N
  <2>6. Heard(p, n2)' \in Int /\ Heard(p, n2)' <= Heard(p, n2) /\ (conf.powersave => Heard(p, n2)' = n)
    <3>1. CASE conf.powersave
      <4>1. N + 1 > 0 /\ N + 1 = blk[p]
        BY <2>2, <2>3, <2>4, SMT
      <4>2. Heard(p, n2)' = Reach(f, copies[p][blk[p]].coeff[f])
        BY <1>1, <1>4, <2>0, <2>5, <3>1, <4>1 DEF Heard
      <4> QED BY <2>2, <4>2 DEF n, Copy
    <3>2. CASE ~conf.powersave
      BY <1>1, <1>4, <2>0, <2>3, <3>2 DEF Heard
    <3> QED BY <3>1, <3>2
  <2> DEFINE h == Heard(p, n2)'
  <2>e1. ASSUME \A i \in 1..h - 1 : i > procblocks'[f] => cbuf'[f][Ring((N + 1) - i)] = Silence
         PROVE  LeftOut(p, n2)'
    <3>1. ASSUME NEW i \in 1..h - 1, i > procblocks'[f]
          PROVE  cbuf'[f][Ring(Runs(p, n2) - i)'] = Silence
      <4>1. cbuf'[f][Ring((N + 1) - i)] = Silence
        BY <2>e1, <3>1
      <4>2. Ring(Runs(p, n2) - i)' = Ring((N + 1) - i)
        <5>1. ((Runs(p, n2)' - i) + CounterMod) % CounterMod = (((N + 1) - i) + CounterMod) % CounterMod
          BY <2>5, Zenon
        <5> QED BY <1>4, <5>1, Zenon DEF Ring
      <4> QED BY <4>1, <4>2
    <3>2. conf'.order[p][n2] = f
      BY <1>4, <2>0
    <3> QED BY <3>1, <3>2 DEF LeftOut, Silence
  <2>7. SUFFICES ASSUME NEW i \in 1..h - 1, i > procblocks'[f]
                 PROVE  cbuf'[f][Ring((N + 1) - i)] = Silence
    BY <1>11, <2>e1
  <2> DEFINE k == i - 1
  <2>8. /\ k \in Nat /\ (N + 1) - i = N - k /\ N - k \in Int /\ conf.nblocks # 1
        /\ k <= Heard(p, n2) - 1 /\ k + DelayBlocks(f) < conf.nblocks - 1 /\ k < conf.nblocks
        /\ i = k + 1 /\ k < Heard(p, n2)' /\ (k # 0 => k \in 1..Heard(p, n2)' - 1 /\ k \in 1..Heard(p, n2) - 1)
    BY <1>5, <2>3, <2>6, SMT
  <2>9. cbuf'[f] = q.ring
    BY <1>1, <1>3, <1>9, <2>8 DEF Aliased, Shapes
  <2> HIDE DEF k
  <2>10. Ring(N - k) \in DOMAIN cbuf[f]
    <3>1. Ring(N - k) \in 0..conf.nblocks - 1
      BY <2>8, RingOK DEF Types
    <3> QED BY <1>3, <1>9, <2>8, <3>1 DEF Shapes
  <2>11. \A x \in Int : Slot(p, x) = Ring(N + x)
    BY <2>2 DEF Slot, Ring
  <2>12. Slot(p, 0) = Ring(N) /\ Slot(p, -k) = Ring(N - k) /\ Slot(p, DelayBlocks(f)) = Ring(N + DelayBlocks(f))
    <3>1. 0 \in Int /\ -k \in Int /\ DelayBlocks(f) \in Int /\ N + 0 = N /\ N + (-k) = N - k
      BY <2>3, <2>8, SMT
    <3> QED BY <2>11, <3>1
  <2>13. \A s \in q.zeros : q.ring[s] = Silence
    BY <1>3, <1>9, EnqueueZero DEF q
  <2>14. q.zeros \subseteq 0..conf.nblocks - 1 /\ (~conf.powersave => q.zeros = {})
    BY <1>3, <1>9, EnqueueZero DEF q
  <2>15. CASE k > procblocks[f]
    <3>1. k \in 1..Heard(p, n2) - 1
      BY <1>5, <2>8, <2>15, SMT
    <3>2. cbuf[f][Ring(N - k)] = Silence
      BY <1>8, <1>11, <2>0, <2>15, <3>1 DEF LeftOut
    <3>3. Ring(N + DelayBlocks(f)) # Ring(N - k)
      <4>1. /\ N + DelayBlocks(f) \in Int /\ N - k \in Int
            /\ 0 < (N + DelayBlocks(f)) - (N - k) /\ (N + DelayBlocks(f)) - (N - k) < conf.nblocks
        BY <1>5, <2>3, <2>8, <3>1, SMT
      <4> QED BY <1>5, <1>8, <4>1, RingApart
    <3>4. q.ring[Ring(N - k)] = cbuf[f][Ring(N - k)]
      BY <2>10, <2>12, <3>3, EnqueueOther DEF q
    <3> QED BY <2>8, <2>9, <3>2, <3>4
  <2>16. CASE ~(k > procblocks[f])
    <3>1. procblocks'[f] = IF iszero THEN 0 ELSE pb
      BY <1>1, <1>3, <1>5
    <3>2. iszero
      BY <1>5, <2>7, <2>8, <2>16, <3>1, SMT
    <3>3. CASE k = 0
      BY <1>2, <2>8, <2>9, <2>12, <2>13, <3>2, <3>3
    <3>4. CASE k # 0
      <4>1. k \in Behind(n, pb)
        BY <1>2, <1>5, <2>6, <2>8, <2>16, <3>2, <3>4, SMT DEF Behind
      <4>2. Slot(p, -k) \in q.zeros
        BY <1>2, <3>2, <4>1 DEF AddSlots
      <4> QED BY <2>8, <2>9, <2>12, <2>13, <4>2
    <3> QED BY <3>3, <3>4
  <2> QED BY <2>15, <2>16
<1> QED BY <1>10, <1>11

\* Before the first block everything is silent.
LEMMA InitParts ==
    ASSUME Init, Types
    PROVE  PartsInv
<1>1. /\ procblocks = [f \in Filters |-> 0]
      /\ cbuf = [f \in Filters |-> [s \in 0..conf.nblocks - 1 |-> Silence]]
      /\ pc = [p \in Procs |-> "start"] /\ blk = [p \in Procs |-> 1] /\ conf \in Confs
  BY DEF Init
<1>2. conf.nblocks \in Nat \ {0}
  BY <1>1, ConfOK
<1>3. procblocks \in [Filters -> 0..conf.nblocks]
  BY <1>1, <1>2
<1>4. ASSUME NEW p \in Procs, NEW n \in DOMAIN conf.order[p]
      PROVE  LeftOut(p, n)
  <2>1. /\ conf.order[p][n] \in Filters /\ Runs(p, n) \in Nat /\ Heard(p, n) \in Int
    BY RunsOK
  <2>2. ASSUME NEW i \in 1..Heard(p, n) - 1
        PROVE  cbuf[conf.order[p][n]][Ring(Runs(p, n) - i)] = Silence
    <3>1. Runs(p, n) - i \in Int
      BY <2>1, SMT
    <3>2. Ring(Runs(p, n) - i) \in 0..conf.nblocks - 1
      BY <1>1, <3>1, RingOK
    <3> QED BY <1>1, <2>1, <3>2
  <2> QED BY <2>2 DEF LeftOut
<1> QED BY <1>3, <1>4 DEF PartsInv

LEMMA GotoRuns ==
    ASSUME Types, NEW p \in Procs, NEW stage \in Before \cup Working, Goto(p, stage), UNCHANGED <<conf, blk>>,
           \A n \in DOMAIN conf.order[p] :
               stage \in AfterFilter <=> pc[p] \in AfterFilter \/ (pc[p] = "filter" /\ n < idx[p])
    PROVE  \A q \in Procs : \A n \in DOMAIN conf.order[q] : Runs(q, n)' = Runs(q, n)
<1> SUFFICES ASSUME NEW q \in Procs, NEW n \in DOMAIN conf.order[q]
             PROVE  Runs(q, n)' = Runs(q, n)
  OBVIOUS
<1>1. pc' = [pc EXCEPT ![p] = stage] /\ idx' = [idx EXCEPT ![p] = 1]
  BY DEF Goto
<1>2. pc \in [Procs -> Before \cup Working] /\ idx \in [Procs -> Nat \ {0}]
  BY DEF Types
<1>3. CASE q = p
  <2>1. pc'[q] = stage /\ idx'[q] = 1 /\ n \in Nat /\ n >= 1
    <3>1. n \in 1..Len(conf.order[p])
      BY <1>3, ConfOK DEF Types
    <3> QED BY <1>1, <1>2, <1>3, <3>1
  <2>2. ~(n < idx'[q])
    BY <2>1, SMT
  <2> QED BY <1>3, <2>1, <2>2 DEF Runs
<1>4. CASE q # p
  BY <1>1, <1>2, <1>4 DEF Runs
<1> QED BY <1>3, <1>4

\* Only a filter's end counts as a run; that the block ends changes nothing.
LEMMA RunsNext ==
    ASSUME Types, [Next]_vars, \A p \in Procs : ~Filter(p)
    PROVE  \A q \in Procs : \A n \in DOMAIN conf.order[q] : Runs(q, n)' = Runs(q, n)
<1> DEFINE Same == \A q \in Procs : \A n \in DOMAIN conf.order[q] : Runs(q, n)' = Runs(q, n)
<1> SUFFICES Same
  OBVIOUS
<1>0. /\ pc \in [Procs -> Before \cup Working] /\ idx \in [Procs -> Nat \ {0}]
      /\ blk \in [Procs -> Nat \ {0}] /\ conf \in Confs
  BY DEF Types
<1>1. CASE UNCHANGED vars \/ NewInput \/ ChangeControl
  <2>1. UNCHANGED <<pc, idx, blk>>
    BY <1>1 DEF vars, NewInput, ChangeControl
  <2> QED BY <2>1 DEF Runs
<1>2. ASSUME NEW p \in Procs, BlockStart(p) \/ HooksDone(p) \/ CopyControl(p) \/ InputsRead(p) \/ InputsSynched(p)
      PROVE  Same
  <2>1. /\ UNCHANGED <<conf, blk>> /\ pc[p] \in {"start", "hooked", "copy", "read", "synch"}
        /\ \E stage \in {"hooked", "copy", "read", "synch", "filter"} : Goto(p, stage)
    BY <1>2 DEF BlockStart, HooksDone, CopyControl, InputsRead, InputsSynched, bufs
  <2> QED BY <2>1, GotoRuns DEF AfterFilter, Before, Working
<1>3. ASSUME NEW p \in Procs, ReadInput(p) \/ WriteOutput(p)
      PROVE  Same
  <2>1. UNCHANGED <<pc, blk>> /\ pc[p] # "filter" /\ idx' = [idx EXCEPT ![p] = @ + 1]
    BY <1>3 DEF ReadInput, WriteOutput
  <2> SUFFICES ASSUME NEW q \in Procs, NEW n \in DOMAIN conf.order[q]
               PROVE  Runs(q, n)' = Runs(q, n)
    OBVIOUS
  <2>2. CASE q = p
    BY <2>1, <2>2 DEF Runs
  <2>3. CASE q # p
    BY <1>0, <2>1, <2>3 DEF Runs
  <2> QED BY <2>2, <2>3
<1>4. ASSUME NEW p \in Procs, MixOutputs(p)
      PROVE  Same
  <2>1. /\ UNCHANGED <<conf, blk>> /\ Goto(p, "mixed")
        /\ pc[p] = "filter" /\ idx[p] > Len(conf.order[p])
    BY <1>4, Zenon DEF MixOutputs
  <2>2. \A n \in DOMAIN conf.order[p] : n < idx[p]
    <3>1. conf.order[p] \in Seq(Filters) /\ idx[p] \in Nat
      BY <1>0, ConfOK
    <3> QED BY <2>1, <3>1, SMT
  <2> QED BY <2>1, <2>2, GotoRuns DEF AfterFilter, Working
<1>5. ASSUME NEW p \in Procs, OutputsSynched(p)
      PROVE  Same
  <2>1. UNCHANGED <<conf, blk>> /\ Goto(p, "write") /\ pc[p] = "mixed"
    BY <1>5 DEF OutputsSynched
  <2> QED BY <2>1, GotoRuns DEF AfterFilter, Working
<1>6. ASSUME NEW p \in Procs, EndBlock(p)
      PROVE  Same
  <2>1. /\ pc[p] = "write" /\ blk' = [blk EXCEPT ![p] = @ + 1]
        /\ \E stage \in {"done", "start"} : Goto(p, stage)
    BY <1>6 DEF EndBlock
  <2> SUFFICES ASSUME NEW q \in Procs, NEW n \in DOMAIN conf.order[q]
               PROVE  Runs(q, n)' = Runs(q, n)
    OBVIOUS
  <2>2. CASE q = p
    <3>1. pc'[p] \in {"done", "start"} /\ blk'[p] = blk[p] + 1 /\ blk[p] \in Nat
      BY <1>0, <2>1 DEF Goto
    <3>2. Runs(p, n) = blk[p] - 1 + 1 /\ Runs(p, n)' = blk[p] + 1 - 1 + 0
      BY <2>1, <3>1 DEF Runs, AfterFilter
    <3> QED BY <2>2, <3>1, <3>2, SMT
  <2>3. CASE q # p
    BY <1>0, <2>1, <2>3 DEF Runs, Goto
  <2> QED BY <2>2, <2>3
<1> QED
  BY <1>1, <1>2, <1>3, <1>4, <1>5, <1>6 DEF Next

\* Only filters disturb the windows a filter reaches.
LEMMA PartsNext ==
    ASSUME Types, ZeroInv, PartsInv, [Next]_vars
    PROVE  PartsInv'
<1>1. ASSUME NEW p \in Procs, Filter(p)
      PROVE  PartsInv'
  BY <1>1, FilterParts
<1> SUFFICES ASSUME \A p \in Procs : ~Filter(p) PROVE PartsInv'
  BY <1>1
<1>2. \A q \in Procs : \A n \in DOMAIN conf.order[q] : Runs(q, n)' = Runs(q, n)
  BY RunsNext
<1>3. ASSUME UNCHANGED <<conf, procblocks, copies>>,
             FlagsApply /\ conf.nblocks # 1 => \A f \in Filters : cbuf'[f] = cbuf[f]
      PROVE  PartsInv'
  BY <1>2, <1>3, QuietParts
<1>4. CASE \/ UNCHANGED vars \/ NewInput \/ ChangeControl
           \/ \E p \in Procs : \/ BlockStart(p) \/ HooksDone(p) \/ InputsRead(p) \/ InputsSynched(p)
                               \/ MixOutputs(p) \/ OutputsSynched(p) \/ EndBlock(p)
  <2>1. UNCHANGED <<conf, procblocks, copies, cbuf>>
    BY <1>4, Zenon DEF vars, bufs, NewInput, ChangeControl, BlockStart, HooksDone, InputsRead, InputsSynched,
                       MixOutputs, OutputsSynched, EndBlock
  <2> QED BY <1>3, <2>1
<1>5. ASSUME NEW p \in Procs, CopyControl(p)
      PROVE  PartsInv'
  <2>1. UNCHANGED <<conf, cbuf, procblocks>> /\ copies' = [copies EXCEPT ![p] = Append(copies[p], ctl)]
    BY <1>5 DEF CopyControl, bufs
  <2>2. ASSUME NEW q \in Procs, NEW b \in DOMAIN copies[q]
        PROVE  b \in DOMAIN copies'[q] /\ copies'[q][b] = copies[q][b]
    <3>1. DOMAIN copies = Procs /\ copies[q] \in Seq(Controls) /\ b \in 1..Len(copies[q]) /\ Len(copies[q]) \in Nat
      BY DEF Types
    <3>2. CASE q = p
      <4>1. copies'[q] = Append(copies[q], ctl)
        BY <2>1, <3>1, <3>2
      <4>2. b \in 1..Len(copies[q]) + 1
        BY <3>1, SMT
      <4> QED BY <3>1, <4>1, <4>2
    <3>3. CASE q # p
      BY <2>1, <3>1, <3>3
    <3> QED BY <3>2, <3>3
  <2> QED BY <1>2, <2>1, <2>2, QuietParts
<1>6. ASSUME NEW p \in Procs, ReadInput(p) \/ WriteOutput(p)
      PROVE  PartsInv'
  <2>1. UNCHANGED <<conf, copies, procblocks>>
    BY <1>6 DEF ReadInput, WriteOutput
  <2>2. UNCHANGED cbuf \/ \E block : cbuf' = [cbuf EXCEPT ![First(p)] = Aliased(@, block)]
    BY <1>6, Zenon DEF ReadInput, WriteOutput
  <2>3. ASSUME FlagsApply, conf.nblocks # 1, NEW f \in Filters
        PROVE  cbuf'[f] = cbuf[f]
    <3>1. DOMAIN cbuf = Filters
      BY <2>3 DEF ZeroInv, Shapes
    <3> QED BY <2>2, <2>3, <3>1 DEF Aliased
  <2> QED BY <1>3, <2>1, <2>3
<1> QED
  BY <1>4, <1>5, <1>6 DEF Next

\* The slots a filter leaves out since it has not run that many blocks since it was last silent hold
\* nothing its set reaches (procblocks, bfrun.c:1498), for any network of filters, lengths of sets,
\* delays, inputs and changes of sets, as long as a set is not followed by a longer one.
THEOREM NothingMissed == Spec => [](PartsApply => PartialSumsComplete)
<1>1. Init => (Types /\ Meetings) /\ ZeroInv /\ PartsInv
  BY InitTypes, InitMeetings, InitZero, InitParts
<1>2. (Types /\ Meetings) /\ ZeroInv /\ PartsInv /\ [Next]_vars => (ZeroInv /\ PartsInv)'
  BY ZeroNext, PartsNext
<1>3. ASSUME Types, PartsInv, PartsApply
      PROVE  PartialSumsComplete
  <2> SUFFICES ASSUME NEW p \in Procs, pc[p] = "filter", NEW n \in idx[p]..Len(conf.order[p])
               PROVE  LET f == conf.order[p][n]
                      IN  \A i \in 1..Reach(f, Copy(p).coeff[f]) - 1 :
                              i > procblocks[f] => cbuf[f][Slot(p, -i)] = Silence
    BY DEF PartialSumsComplete
  <2> DEFINE f == conf.order[p][n]
  <2>1. n \in DOMAIN conf.order[p] /\ n >= idx[p] /\ blk[p] \in Nat
    <3>1. conf.order[p] \in Seq(Filters) /\ idx[p] \in Nat \ {0} /\ blk[p] \in Nat
      BY <1>3, ConfOK DEF Types
    <3>2. n \in 1..Len(conf.order[p]) /\ n >= idx[p]
      BY <3>1, SMT
    <3> QED BY <3>1, <3>2
  <2>2. /\ Runs(p, n) = blk[p] - 1
        /\ Reach(f, Copy(p).coeff[f]) \in Int /\ Reach(f, Copy(p).coeff[f]) <= Heard(p, n)
    BY <1>3, <2>1, NextReach DEF PartsApply
  <2>3. LeftOut(p, n) /\ Heard(p, n) \in Int
    BY <1>3, <2>1, RunsOK DEF PartsInv
  <2> SUFFICES ASSUME NEW i \in 1..Reach(f, Copy(p).coeff[f]) - 1, i > procblocks[f]
               PROVE  cbuf[f][Slot(p, -i)] = Silence
    OBVIOUS
  <2> HIDE DEF f
  <2>4. i \in 1..Heard(p, n) - 1
    BY <2>2, <2>3, SMT
  <2>5. cbuf[f][Ring(Runs(p, n) - i)] = Silence
    BY <2>3, <2>4 DEF LeftOut, f
  <2>6. Slot(p, -i) = Ring(Runs(p, n) - i)
    <3>1. (blk[p] - 1) + (-i) = Runs(p, n) - i
      <4>1. blk[p] - 1 \in Int /\ i \in Int
        BY <2>1, <2>3, <2>4, SMT
      <4>2. (blk[p] - 1) + (-i) = (blk[p] - 1) - i
        BY <4>1, SMT
      <4> QED BY <2>2, <4>2
    <3> QED BY <3>1 DEF Slot, Ring
  <2> QED BY <2>5, <2>6
<1> QED BY <1>1, <1>2, <1>3, Meets, PTL DEF Spec

-----------------------------------------------------------------------------
(* The order of the filters and the recursion of Ideal *)

\* The virtual channels of ph are the K outputs of process p from the ith on.
Together(p, i, K, ph) ==
    /\ K = Cardinality(Virt(ph)) /\ i..i + K - 1 \subseteq DOMAIN conf.procout[p]
    /\ Virt(ph) = {conf.procout[p][k] : k \in i..i + K - 1}

\* The order of the filters, and to whom the channels belong.
LEMMA ConfDealt ==
    ASSUME conf \in Confs
    PROVE  /\ conf.last \in Nat /\ \A c \in DOMAIN conf.coeffs : conf.coeffs[c] > 0
           /\ \A p \in Procs : \A n \in DOMAIN conf.order[p] :
                /\ conf.filters[conf.order[p][n]].src \subseteq {conf.order[p][m] : m \in 1..n - 1}
                /\ conf.filters[conf.order[p][n]].in \subseteq InCh
           /\ Procs # {} => \A f \in Filters : \E p \in Procs : \E n \in DOMAIN conf.order[p] : f = conf.order[p][n]
           /\ \A ch \in InCh : \E p \in Procs : \E i \in DOMAIN conf.procin[p] : ch = conf.procin[p][i]
           /\ \A p, q \in Procs : \A i \in DOMAIN conf.procin[p], j \in DOMAIN conf.procin[q] :
                conf.procin[p][i] = conf.procin[q][j] => p = q /\ i = j
           /\ \A p, q \in Procs : \A i \in DOMAIN conf.procout[p], j \in DOMAIN conf.procout[q] :
                conf.procout[p][i] = conf.procout[q][j] => p = q /\ i = j
           /\ \A ph \in Phys(conf.physOut) : \E p \in Procs : \E i, K \in Nat \ {0} : Together(p, i, K, ph)
           /\ \A o \in conf.delayed : Shared(conf.physOut, o)
<1>1. Dealt(conf) /\ Settings(conf)
  BY FilterProcessAssumption
<1>2. \A p \in Procs : Once(conf.procin[p]) /\ Once(conf.procout[p])
  BY <1>1 DEF Dealt, Procs
<1>3. /\ Apart([p \in Procs |-> Listed(conf.procin[p])])
      /\ Apart([p \in Procs |-> Listed(conf.procout[p])])
  BY <1>1 DEF Dealt, Procs
<1>4. \A p, q \in Procs : p # q =>
        /\ Listed(conf.procin[p]) \cap Listed(conf.procin[q]) = {}
        /\ Listed(conf.procout[p]) \cap Listed(conf.procout[q]) = {}
  BY <1>3 DEF Apart
<1>5. \A p, q \in Procs : \A i \in DOMAIN conf.procin[p], j \in DOMAIN conf.procin[q] :
        conf.procin[p][i] = conf.procin[q][j] => p = q /\ i = j
  BY <1>2, <1>4 DEF Once, Listed
<1>6. \A p, q \in Procs : \A i \in DOMAIN conf.procout[p], j \in DOMAIN conf.procout[q] :
        conf.procout[p][i] = conf.procout[q][j] => p = q /\ i = j
  BY <1>2, <1>4 DEF Once, Listed
<1>7. conf.last \in Nat /\ (\A c \in DOMAIN conf.coeffs : conf.coeffs[c] > 0)
      /\ \A o \in conf.delayed : Shared(conf.physOut, o)
  BY <1>1 DEF Settings
<1>8. /\ \A p \in Procs : \A n \in DOMAIN conf.order[p] :
           /\ conf.filters[conf.order[p][n]].src \subseteq {conf.order[p][m] : m \in 1..n - 1}
           /\ conf.filters[conf.order[p][n]].in \subseteq InCh
      /\ \A ph \in Phys(conf.physOut) : \E p \in Procs : \E i \in DOMAIN conf.procout[p] :
           SideBySide(conf.procout[p], i, Virt(ph))
  BY <1>1 DEF Dealt, Procs, InCh, Virt
<1>9. /\ Procs # {} => Filters = UNION {Listed(conf.order[p]) : p \in Procs}
      /\ InCh = UNION {Listed(conf.procin[p]) : p \in Procs}
  BY <1>1 DEF Dealt, Procs, InCh, Filters
<1>10. Procs # {} => \A f \in Filters : \E p \in Procs : \E n \in DOMAIN conf.order[p] : f = conf.order[p][n]
  BY <1>9 DEF Listed
<1>11. \A ch \in InCh : \E p \in Procs : \E i \in DOMAIN conf.procin[p] : ch = conf.procin[p][i]
  BY <1>9 DEF Listed
<1>12. \A p \in Procs : conf.procout[p] \in Seq(OutCh)
  BY ConfOK
<1>13. ASSUME NEW ph \in Phys(conf.physOut)
       PROVE  \E p \in Procs : \E i, K \in Nat \ {0} : Together(p, i, K, ph)
  <2>1. PICK p \in Procs : \E i \in DOMAIN conf.procout[p] : SideBySide(conf.procout[p], i, Virt(ph))
    BY <1>8
  <2>2. PICK i \in DOMAIN conf.procout[p] : SideBySide(conf.procout[p], i, Virt(ph))
    BY <2>1
  <2> DEFINE K == Cardinality(Virt(ph))
             span == i..i + K - 1
             n == Len(conf.procout[p])
  <2>3. span \subseteq DOMAIN conf.procout[p] /\ Virt(ph) = {conf.procout[p][k] : k \in span}
    BY <2>2 DEF SideBySide
  <2>4. DOMAIN conf.procout[p] = 1..n /\ n \in Nat /\ i \in Nat \ {0}
    BY <1>12
  <2> HIDE DEF span, n
  <2>5. IsFiniteSet(span)
    <3>1. IsFiniteSet(1..n)
      BY <2>4, FS_Interval
    <3>2. span \in SUBSET (1..n)
      BY <2>3, <2>4
    <3> QED BY <3>1, <3>2, FS_Subset
  <2>6. IsFiniteSet(Virt(ph))
    <3> DEFINE channel == [k \in span |-> conf.procout[p][k]]
    <3>1. channel \in Surjection(span, Virt(ph))
      BY <2>3 DEF Surjection
    <3> HIDE DEF channel
    <3> QED BY <2>5, <3>1, FS_Surjection
  <2>7. K \in Nat
    BY <2>6, FS_CardinalityType
  <2>8. \E o : o \in Virt(ph)
    BY DEF Phys, Virt, MappedTo
  <2>9. K # 0
    <3> SUFFICES ASSUME K = 0 PROVE FALSE
      OBVIOUS
    <3>1. K = 0
      OBVIOUS
    <3> HIDE DEF K
    <3>2. span = {}
      BY <2>4, <3>1 DEF span
    <3> QED BY <2>3, <2>8, <3>2
  <2>10. Together(p, i, K, ph)
    BY <2>3 DEF Together, span
  <2> QED BY <2>4, <2>7, <2>9, <2>10
<1> QED BY <1>5, <1>6, <1>7, <1>8, <1>10, <1>11, <1>13

\* Where the channels of a physical output are, and whether there are several.
LEMMA TogetherOK ==
    ASSUME conf \in Confs, NEW p \in Procs, NEW ph \in Phys(conf.physOut), NEW i \in Nat \ {0}, NEW K \in Nat \ {0},
           Together(p, i, K, ph), NEW k \in DOMAIN conf.procout[p]
    PROVE  /\ k \in i..i + K - 1 <=> conf.physOut[conf.procout[p][k]] = ph
           /\ k \in i..i + K - 1 => (Shared(conf.physOut, conf.procout[p][k]) <=> K > 1)
<1> DEFINE seq == conf.procout[p]
           span == i..i + K - 1
<1>1. span \subseteq DOMAIN seq /\ Virt(ph) = {seq[m] : m \in span} /\ k \in DOMAIN seq
  BY DEF Together
<1>2. \A o : o \in Virt(ph) <=> o \in OutCh /\ conf.physOut[o] = ph
  BY DEF Virt, MappedTo, OutCh
<1>3. \A m, n \in DOMAIN seq : seq[m] = seq[n] => m = n
  BY ConfDealt
<1>4. \A m \in DOMAIN seq : seq[m] \in OutCh
  <2>1. seq \in Seq(OutCh)
    BY ConfOK
  <2> QED BY <2>1
<1> HIDE DEF seq, span
<1>5. k \in span <=> conf.physOut[seq[k]] = ph
  BY <1>1, <1>2, <1>3, <1>4
<1>6. ASSUME k \in span PROVE Shared(conf.physOut, seq[k]) <=> \E m \in span : m # k
  BY <1>1, <1>2, <1>3, <1>4, <1>6 DEF Shared, OutCh
<1>7. k \in span => ((\E m \in span : m # k) <=> K > 1)
  <2> SUFFICES ASSUME k \in span PROVE (\E m \in span : m # k) <=> K > 1
    OBVIOUS
  <2>1. i \in span
    BY DEF span
  <2>2. K > 1 => i + 1 \in span
    BY DEF span
  <2>3. i # k \/ i + 1 # k
    BY DEF span
  <2>4. K = 1 => \A m \in span : m = i
    BY DEF span
  <2> QED BY <2>1, <2>2, <2>3, <2>4
<1> QED BY <1>5, <1>6, <1>7 DEF seq, span

\* A set of numbers has a least one.
LEMMA Least ==
    ASSUME NEW T \in SUBSET Nat, T # {}
    PROVE  \E x \in T : \A y \in T : y >= x
<1> DEFINE less == {pair \in Nat \X Nat : pair[1] < pair[2]}
<1>1. \A x, y \in Nat : x < y => <<x, y>> \in less
  OBVIOUS
<1>2. IsWellFoundedOn(less, Nat)
  BY NatLessThanWellFounded DEF OpToRel
<1> HIDE DEF less
<1>3. \E x \in T : \A y \in T : ~(<<y, x>> \in less)
  BY <1>2, WFMin
<1>4. \A x, y \in Nat : ~(y < x) => y >= x
  OBVIOUS
<1> QED BY <1>1, <1>3, <1>4

\* The recursion of Ideal ends: a filter comes behind its sources.
Recursive == \A f \in Filters, b \in 1..conf.last : Ideal[<<f, b>>] = Output(Ideal, f, b)

\* It computes what Output says of its own results.
LEMMA IdealDefined == conf \in Confs /\ Procs # {} => Recursive
<1> SUFFICES ASSUME conf \in Confs, Procs # {}
             PROVE  \A f \in Filters, b \in 1..conf.last : Ideal[<<f, b>>] = Output(Ideal, f, b)
  BY DEF Recursive
<1> DEFINE blocks == 1..conf.last
           Right(G, p, n) == \A m \in DOMAIN conf.order[p], b \in blocks :
              m <= n => G[<<conf.order[p][m], b>>] = Output(G, conf.order[p][m], b)
<1>1. ASSUME NEW f \in Filters, NEW b \in blocks, NEW g, NEW h,
             \A s \in conf.filters[f].src : \A m \in 1..b : g[<<s, m>>] = h[<<s, m>>]
      PROVE  Output(g, f, b) = Output(h, f, b)
  <2>1. ASSUME NEW n \in Int, n <= b PROVE Source(g, f, n) = Source(h, f, n)
    <3>0. CASE n < 1
      BY <3>0 DEF Source
    <3> SUFFICES ASSUME n >= 1 PROVE Source(g, f, n) = Source(h, f, n)
      BY <3>0
    <3>1. \A s \in conf.filters[f].src : g[<<s, n>>] = h[<<s, n>>]
      BY <1>1, <2>1
    <3>2. {g[<<s, n>>] : s \in conf.filters[f].src} = {h[<<s, n>>] : s \in conf.filters[f].src}
      BY <3>1
    <3> QED BY <3>2 DEF Source
  <2>2. ASSUME NEW n \in Int, n <= b PROVE Window(g, f, n) = Window(h, f, n)
    <3>1. Source(g, f, n) = Source(h, f, n) /\ Source(g, f, n - 1) = Source(h, f, n - 1)
      BY <2>1, <2>2
    <3> QED BY <3>1 DEF Window
  <2>3. \A k \in Nat : Window(g, f, b - k - DelayBlocks(f)) = Window(h, f, b - k - DelayBlocks(f))
    BY <2>2, DelayOK
  <2>4. ASSUME NEW c PROVE Sum(g, f, c, b) = Sum(h, f, c, b)
    <3>1. \A k \in 0..Partitions(f, c) - 1 :
            Filtered(Window(g, f, b - k - DelayBlocks(f)), f, c, k) = Filtered(Window(h, f, b - k - DelayBlocks(f)), f, c, k)
      BY <2>3
    <3>2. {Filtered(Window(g, f, b - k - DelayBlocks(f)), f, c, k) : k \in 0..Partitions(f, c) - 1}
           = {Filtered(Window(h, f, b - k - DelayBlocks(f)), f, c, k) : k \in 0..Partitions(f, c) - 1}
      BY <3>1
    <3>3. DiracConvolve(Window(g, f, b - 0 - DelayBlocks(f)), f) = DiracConvolve(Window(h, f, b - 0 - DelayBlocks(f)), f)
      BY <2>3
    <3> QED BY <3>2, <3>3 DEF Sum
  <2>5. \A c : Sum(g, f, c, b) = Sum(h, f, c, b)
    BY <2>4
  <2>6. /\ Sum(g, f, UsedCoeff(f, b), b) = Sum(h, f, UsedCoeff(f, b), b)
        /\ Sum(g, f, UsedCoeff(f, b - 1), b) = Sum(h, f, UsedCoeff(f, b - 1), b)
    BY <2>5
  <2> QED BY ONLY <2>6 DEF Output
<1>2. ASSUME NEW p \in Procs
      PROVE  /\ Len(conf.order[p]) \in Nat /\ DOMAIN conf.order[p] = 1..Len(conf.order[p])
             /\ \A m \in DOMAIN conf.order[p] : m \in Nat \ {0} /\ conf.order[p][m] \in Filters
             /\ \A m, n \in DOMAIN conf.order[p] : conf.order[p][m] = conf.order[p][n] => m = n
  <2>1. conf.order[p] \in Seq(Filters)
    BY ConfOK
  <2> QED BY <2>1, ConfOK
<1> HIDE DEF Right
<1>3. ASSUME NEW p \in Procs PROVE \E G : Right(G, p, Len(conf.order[p]))
  <2> DEFINE bad == {n \in Nat : ~\E G : Right(G, p, n)}
  <2>1. SUFFICES bad = {}
    BY <1>2
  <2>2. SUFFICES ASSUME NEW x \in bad, \A y \in bad : y >= x PROVE FALSE
    <3>1. bad \in SUBSET Nat
      OBVIOUS
    <3> QED BY <3>1, Least
  <2>3. x # 0
    <3>1. \A m \in DOMAIN conf.order[p] : ~(m <= 0)
      BY <1>2
    <3>2. Right(<<>>, p, 0)
      BY <3>1 DEF Right
    <3> QED BY <3>2
  <2>4. x - 1 \in Nat /\ x - 1 \notin bad
    BY <2>2, <2>3
  <2>5. PICK G : Right(G, p, x - 1)
    BY <2>4
  <2> DEFINE known == {conf.order[p][m] : m \in {k \in DOMAIN conf.order[p] : k <= x - 1}}
             more == [fb \in Filters \X blocks |-> IF fb[1] \in known THEN G[fb] ELSE Output(G, fb[1], fb[2])]
  <2>6. \A f \in Filters, b \in blocks : more[<<f, b>>] = IF f \in known THEN G[<<f, b>>] ELSE Output(G, f, b)
    OBVIOUS
  <2> HIDE DEF more
  <2>7. ASSUME NEW m \in DOMAIN conf.order[p], NEW b \in blocks, m <= x
        PROVE  Output(more, conf.order[p][m], b) = Output(G, conf.order[p][m], b)
    <3>1. ASSUME NEW s \in conf.filters[conf.order[p][m]].src, NEW j \in 1..b
          PROVE  more[<<s, j>>] = G[<<s, j>>]
      <4>1. PICK k \in 1..m - 1 : s = conf.order[p][k]
        BY <3>1, ConfDealt
      <4>2. k \in DOMAIN conf.order[p] /\ k <= x - 1
        BY <2>7, <1>2
      <4>3. s \in known /\ s \in Filters /\ j \in blocks
        BY <4>1, <4>2, <1>2, ConfDealt
      <4> QED BY <4>3, <2>6
    <3> QED BY <3>1, <1>1, <1>2
  <2>8. Right(more, p, x)
    <3> SUFFICES ASSUME NEW m \in DOMAIN conf.order[p], NEW b \in blocks, m <= x
                 PROVE  more[<<conf.order[p][m], b>>] = Output(more, conf.order[p][m], b)
      BY DEF Right
    <3>1. CASE m <= x - 1
      <4>1. G[<<conf.order[p][m], b>>] = Output(G, conf.order[p][m], b)
        BY <3>1, <2>5 DEF Right
      <4>2. conf.order[p][m] \in known
        BY <3>1
      <4> QED BY <4>1, <4>2, <2>6, <2>7, <1>2
    <3>2. CASE ~(m <= x - 1)
      <4>1. conf.order[p][m] \notin known
        BY <3>2, <1>2
      <4> QED BY <4>1, <2>6, <2>7, <1>2
    <3> QED BY <3>1, <3>2
  <2> QED BY <2>8
<1> DEFINE part == [p \in Procs |-> CHOOSE G : Right(G, p, Len(conf.order[p]))]
           whole == [fb \in Filters \X blocks |-> part[ProcOf(fb[1])][fb]]
<1>4. ASSUME NEW p \in Procs, NEW m \in DOMAIN conf.order[p]
      PROVE  ProcOf(conf.order[p][m]) = p
  <2>1. conf.order[p][m] \in FiltersOf(p)
    BY DEF FiltersOf
  <2>2. \A q \in Procs : conf.order[p][m] \in FiltersOf(q) => q = p
    BY ConfOK DEF FiltersOf
  <2> QED BY <2>1, <2>2 DEF ProcOf
<1>5. \A p \in Procs : Right(part[p], p, Len(conf.order[p]))
  BY <1>3
<1>6. \A p \in Procs : \A m \in DOMAIN conf.order[p], b \in blocks :
        whole[<<conf.order[p][m], b>>] = part[p][<<conf.order[p][m], b>>]
  BY <1>2, <1>4
<1> HIDE DEF part, whole
<1>7. ASSUME NEW f \in Filters, NEW b \in blocks PROVE whole[<<f, b>>] = Output(whole, f, b)
  <2>1. PICK p \in Procs : \E m \in DOMAIN conf.order[p] : f = conf.order[p][m]
    BY ConfDealt
  <2>2. PICK m \in DOMAIN conf.order[p] : f = conf.order[p][m]
    BY <2>1
  <2>3. m <= Len(conf.order[p])
    BY <1>2
  <2>4. part[p][<<f, b>>] = Output(part[p], f, b)
    BY <1>5, <2>2, <2>3 DEF Right
  <2>5. ASSUME NEW s \in conf.filters[f].src, NEW j \in 1..b
        PROVE  whole[<<s, j>>] = part[p][<<s, j>>]
    <3>1. PICK k \in 1..m - 1 : s = conf.order[p][k]
      BY <2>2, ConfDealt
    <3>2. k \in DOMAIN conf.order[p] /\ j \in blocks
      BY <1>2, ConfDealt
    <3> QED BY <3>1, <3>2, <1>6
  <2>6. Output(whole, f, b) = Output(part[p], f, b)
    BY <2>5, <1>1
  <2> QED BY <2>2, <2>4, <2>6, <1>6
<1>8. whole = [fb \in Filters \X blocks |-> Output(whole, fb[1], fb[2])]
  <2>1. DOMAIN whole = Filters \X blocks /\ whole = [fb \in DOMAIN whole |-> whole[fb]]
    BY DEF whole
  <2>2. \A fb \in Filters \X blocks : whole[fb] = Output(whole, fb[1], fb[2])
    BY <1>7
  <2> QED BY <2>1, <2>2
<1>9. Ideal = [fb \in Filters \X blocks |-> Output(Ideal, fb[1], fb[2])]
  BY <1>8 DEF Ideal
<1> HIDE DEF blocks
<1> QED BY <1>9 DEF blocks

\* The history up to block b is there: nothing of it will change.
Settled(b) == b \in DOMAIN inputs /\ \A p \in Procs : b \in DOMAIN copies[p]

\* A step adds to the history and changes nothing in it.
HistoryGrows ==
    /\ UNCHANGED conf
    /\ \A b \in DOMAIN inputs : b \in DOMAIN inputs' /\ inputs'[b] = inputs[b]
    /\ \A p \in Procs : \A b \in DOMAIN copies[p] : b \in DOMAIN copies'[p] /\ copies'[p][b] = copies[p][b]

\* Signals and results of settled blocks stay.
LEMMA IdealStable ==
    ASSUME conf \in Confs, HistoryGrows
    PROVE  /\ \A p \in Procs : \A i \in DOMAIN conf.procin[p] : \A b \in DOMAIN inputs \cap DOMAIN copies[p] :
                 Signal(conf.procin[p][i], b)' = Signal(conf.procin[p][i], b)
           /\ \A p \in Procs : \A n \in DOMAIN conf.order[p] : \A b \in 1..conf.last :
                 (\A m \in 1..b : Settled(m)) => Ideal'[<<conf.order[p][n], b>>] = Ideal[<<conf.order[p][n], b>>]
<1>1. ASSUME NEW p \in Procs, NEW i \in DOMAIN conf.procin[p], NEW b \in DOMAIN inputs \cap DOMAIN copies[p]
      PROVE  Signal(conf.procin[p][i], b)' = Signal(conf.procin[p][i], b)
  <2> DEFINE ch == conf.procin[p][i]
             reader == CHOOSE q \in Procs : \E j \in DOMAIN conf.procin[q] : conf.procin[q][j] = ch
  <2>1. reader = p
    BY ConfDealt
  <2>2. conf' = conf /\ inputs'[b] = inputs[b] /\ copies'[p][b] = copies[p][b]
    BY DEF HistoryGrows
  <2>3. reader' = reader
    BY <2>2 DEF Procs
  <2> HIDE DEF reader, ch
  <2>4. Signal(ch, b) = LET muted == Shared(conf.physIn, ch) /\ ch \in copies[reader][b].mute
                        IN  IF conf.physIn[ch] \in inputs[b] /\ ~muted THEN {<<ch, b, <<>> >>} ELSE {}
    BY DEF Signal, reader
  <2>5. Signal(ch, b)' = LET muted == Shared(conf'.physIn, ch') /\ ch' \in copies'[reader'][b].mute
                         IN  IF conf'.physIn[ch'] \in inputs'[b] /\ ~muted THEN {<<ch', b, <<>> >>} ELSE {}
    BY DEF Signal, reader
  <2>6. ch' = ch
    BY <2>2 DEF ch
  <2>7. Signal(ch, b)' = Signal(ch, b)
    BY <2>1, <2>2, <2>3, <2>4, <2>5, <2>6
  <2> QED BY <2>6, <2>7 DEF ch
<1>2. ASSUME NEW p \in Procs
      PROVE  \A n \in DOMAIN conf.order[p] : \A b \in 1..conf.last :
                (\A m \in 1..b : Settled(m)) => Ideal'[<<conf.order[p][n], b>>] = Ideal[<<conf.order[p][n], b>>]
  <2> DEFINE Same(n) == \A b \in 1..conf.last :
                (\A m \in 1..b : Settled(m)) => Ideal'[<<conf.order[p][n], b>>] = Ideal[<<conf.order[p][n], b>>]
             bad == {n \in Nat : n \in DOMAIN conf.order[p] /\ ~Same(n)}
  <2>1. /\ DOMAIN conf.order[p] = 1..Len(conf.order[p]) /\ Len(conf.order[p]) \in Nat
        /\ \A n \in DOMAIN conf.order[p] : n \in Nat /\ conf.order[p][n] \in Filters
        /\ conf.last \in Nat
    <3>1. conf.order[p] \in Seq(Filters)
      BY ConfOK
    <3> QED BY <3>1, ConfDealt
  <2> SUFFICES bad = {}
    BY <2>1
  <2> HIDE DEF Same
  <2>2. SUFFICES ASSUME NEW x \in bad, \A y \in bad : y >= x PROVE FALSE
    <3>1. bad \in SUBSET Nat
      OBVIOUS
    <3> QED BY <3>1, Least
  <2> DEFINE f == conf.order[p][x]
  <2>3. x \in DOMAIN conf.order[p] /\ x \in Nat /\ f \in Filters
    BY <2>1
  <2>4. PICK b \in 1..conf.last : /\ \A m \in 1..b : Settled(m)
                                  /\ Ideal'[<<f, b>>] # Ideal[<<f, b>>]
    BY DEF Same
  <2>5. conf' = conf
    BY DEF HistoryGrows
  <2>6. \A s \in conf.filters[f].src : \A j \in 1..b : Ideal'[<<s, j>>] = Ideal[<<s, j>>]
    <3> SUFFICES ASSUME NEW s \in conf.filters[f].src, NEW j \in 1..b PROVE Ideal'[<<s, j>>] = Ideal[<<s, j>>]
      OBVIOUS
    <3>1. PICK k \in 1..x - 1 : s = conf.order[p][k]
      BY <2>3, ConfDealt
    <3>2. k \in DOMAIN conf.order[p] /\ k \notin bad /\ k \in Nat
      BY <2>1, <2>2, <2>3
    <3>3. Same(k) /\ j \in 1..conf.last /\ \A m \in 1..j : Settled(m)
      BY <3>2, <2>1, <2>4
    <3> QED BY <3>1, <3>3 DEF Same
  <2>7. \A ch \in conf.filters[f].in : \A j \in 1..b : Signal(ch, j)' = Signal(ch, j)
    <3> SUFFICES ASSUME NEW ch \in conf.filters[f].in, NEW j \in 1..b PROVE Signal(ch, j)' = Signal(ch, j)
      OBVIOUS
    <3>1. ch \in InCh
      BY <2>3, ConfDealt
    <3>2. PICK q \in Procs : \E i \in DOMAIN conf.procin[q] : ch = conf.procin[q][i]
      BY <3>1, ConfDealt
    <3>3. j \in DOMAIN inputs \cap DOMAIN copies[q]
      BY <2>4 DEF Settled
    <3>4. PICK i \in DOMAIN conf.procin[q] : ch = conf.procin[q][i]
      BY <3>2
    <3>5. Signal(conf.procin[q][i], j)' = Signal(conf.procin[q][i], j)
      BY <1>1, <3>3
    <3> QED BY <3>4, <3>5, <2>5
  <2> HIDE DEF f, bad
  <2>8. ASSUME NEW n \in Int, n <= b PROVE Source(Ideal, f, n)' = Source(Ideal, f, n)
    <3>0. CASE n < 1
      BY <3>0 DEF Source
    <3> SUFFICES ASSUME n >= 1 PROVE Source(Ideal, f, n)' = Source(Ideal, f, n)
      BY <3>0
    <3>1. n \in 1..b /\ f' = f
      BY <2>8, <2>5 DEF f
    <3>2. {Ideal'[<<s, n>>] : s \in conf.filters[f].src} = {Ideal[<<s, n>>] : s \in conf.filters[f].src}
      BY <3>1, <2>6
    <3>3. {Signal(ch, n)' : ch \in conf.filters[f].in} = {Signal(ch, n) : ch \in conf.filters[f].in}
      BY <3>1, <2>7
    <3> QED BY <3>1, <3>2, <3>3, <2>5 DEF Source
  <2>9. ASSUME NEW n \in Int, n <= b PROVE Window(Ideal, f, n)' = Window(Ideal, f, n)
    <3>1. Source(Ideal, f, n)' = Source(Ideal, f, n) /\ Source(Ideal, f, n - 1)' = Source(Ideal, f, n - 1)
      BY <2>8, <2>9
    <3> QED BY <3>1 DEF Window
  <2>10. DelayBlocks(f) \in Nat /\ DelayBlocks(f)' = DelayBlocks(f) /\ f' = f
    BY <2>3, <2>5, DelayOK DEF DelayBlocks, f
  <2>11. \A k \in Nat : Window(Ideal, f, b - k - DelayBlocks(f))' = Window(Ideal, f, b - k - DelayBlocks(f))
    BY <2>9, <2>10
  <2>12. ASSUME NEW c PROVE Sum(Ideal, f, c, b)' = Sum(Ideal, f, c, b)
    <3>1. Partitions(f, c)' = Partitions(f, c)
      BY <2>5, <2>10 DEF Partitions, Blocks
    <3>2. \A k \in 0..Partitions(f, c) - 1 :
            Filtered(Window(Ideal, f, b - k - DelayBlocks(f)), f, c, k)' = Filtered(Window(Ideal, f, b - k - DelayBlocks(f)), f, c, k)
      BY <2>10, <2>11
    <3>3. {Filtered(Window(Ideal, f, b - k - DelayBlocks(f)), f, c, k)' : k \in 0..Partitions(f, c) - 1}
           = {Filtered(Window(Ideal, f, b - k - DelayBlocks(f)), f, c, k) : k \in 0..Partitions(f, c) - 1}
      BY <3>2
    <3>4. DiracConvolve(Window(Ideal, f, b - 0 - DelayBlocks(f)), f)' = DiracConvolve(Window(Ideal, f, b - 0 - DelayBlocks(f)), f)
      BY <2>10, <2>11 DEF DiracConvolve, Hop
    <3> QED BY <3>1, <3>3, <3>4, <2>10 DEF Sum
  <2>13. UsedCoeff(f, b)' = UsedCoeff(f, b) /\ UsedCoeff(f, b - 1)' = UsedCoeff(f, b - 1)
    <3>1. f \in FiltersOf(p) /\ \A q \in Procs : f \in FiltersOf(q) => q = p
      BY <2>3, ConfOK DEF FiltersOf, f
    <3>2. ProcOf(f) = p
      BY <3>1 DEF ProcOf
    <3>3. ProcOf(f)' = ProcOf(f)
      BY <2>5, <2>10 DEF ProcOf, Procs, FiltersOf
    <3>4. \A j \in 1..b : copies'[p][j] = copies[p][j]
      BY <2>4 DEF Settled, HistoryGrows
    <3>5. b \in 1..b /\ (b - 1 = 0 \/ b - 1 \in 1..b) /\ b # 0
      BY <2>1
    <3> QED BY <3>2, <3>3, <3>4, <3>5, <2>5, <2>10 DEF UsedCoeff
  <2>14. Output(Ideal, f, b)' = Output(Ideal, f, b)
    <3>1. \A c : Sum(Ideal, f, c, b)' = Sum(Ideal, f, c, b)
      BY <2>12
    <3> QED BY <3>1, <2>5, <2>10, <2>13 DEF Output, FadeIn, FadeOut
  <2>15. Procs' = Procs /\ Filters' = Filters /\ conf.last' = conf.last
    BY <2>5 DEF Procs, Filters
  <2>16. (conf \in Confs /\ Procs # {} => Recursive)'
    BY IdealDefined, PTL
  <2>17. Ideal[<<f, b>>] = Output(Ideal, f, b)
    BY <2>3, IdealDefined DEF Recursive
  <2>18. Ideal'[<<f, b>>] = Output(Ideal, f, b)'
    <3>1. Recursive'
      BY <2>5, <2>15, <2>16
    <3>2. f \in Filters' /\ b \in 1..conf'.last
      BY <2>3, <2>5, <2>15
    <3> QED BY <3>1, <3>2, <2>10 DEF Recursive
  <2> QED BY <2>4, <2>14, <2>17, <2>18
<1> QED BY <1>1, <1>2

\* Every process works on a block delivered, or waits for the next one.
Delivered ==
    /\ inputs \in Seq(SUBSET Phys(conf.physIn)) /\ Len(inputs) <= conf.last
    /\ \A p \in Procs :
          /\ blk[p] - 1 <= Len(inputs)
          /\ pc[p] \notin {"start", "done"} => blk[p] <= Len(inputs)

\* A block is delivered where all processes meet, and nothing else adds to the inputs.
LEMMA DeliveredNext ==
    ASSUME Types, Delivered, [Next]_vars
    PROVE  Delivered' /\ HistoryGrows
<1>0. /\ pc \in [Procs -> Before \cup Working] /\ idx \in [Procs -> Nat \ {0}]
      /\ blk \in [Procs -> Nat \ {0}] /\ conf \in Confs /\ DOMAIN copies = Procs
      /\ \A p \in Procs : copies[p] \in Seq(Controls)
  BY DEF Types
<1>1. ASSUME UNCHANGED <<conf, inputs, copies>> PROVE HistoryGrows
  BY <1>1 DEF HistoryGrows
<1>2. ASSUME UNCHANGED <<conf, inputs>>,
             \A p \in Procs : /\ blk'[p] - 1 <= Len(inputs)
                              /\ pc'[p] \notin {"start", "done"} => blk'[p] <= Len(inputs)
      PROVE  Delivered'
  <2>1. Procs' = Procs /\ conf' = conf /\ inputs' = inputs
    BY <1>2 DEF Procs
  <2>2. inputs \in Seq(SUBSET Phys(conf.physIn)) /\ Len(inputs) <= conf.last
    BY DEF Delivered
  <2>3. inputs' \in Seq(SUBSET Phys(conf'.physIn)) /\ Len(inputs') <= conf'.last
    BY <2>1, <2>2
  <2>4. \A p \in Procs : /\ blk'[p] - 1 <= Len(inputs')
                         /\ pc'[p] \notin {"start", "done"} => blk'[p] <= Len(inputs')
    BY <1>2, <2>1
  <2>5. (inputs \in Seq(SUBSET Phys(conf.physIn)))'
    BY <2>1, <2>2
  <2>6. (Len(inputs) <= conf.last)'
    BY <2>1, <2>2
  <2>7. (\A p \in Procs : /\ blk[p] - 1 <= Len(inputs)
                          /\ pc[p] \notin {"start", "done"} => blk[p] <= Len(inputs))'
    BY <2>1, <2>4
  <2> QED BY <2>5, <2>6, <2>7 DEF Delivered
<1>3. ASSUME UNCHANGED <<conf, inputs, copies, blk>>,
             \A p \in Procs : pc'[p] = pc[p] \/ blk[p] <= Len(inputs)
      PROVE  Delivered' /\ HistoryGrows
  BY <1>1, <1>2, <1>3 DEF Delivered
<1>4. CASE UNCHANGED vars \/ ChangeControl
  BY <1>3, <1>4 DEF vars, ChangeControl
<1>5. CASE NewInput
  <2>1. /\ UNCHANGED <<conf, pc, blk, copies>> /\ Len(inputs) < conf.last
        /\ \E S \in SUBSET Phys(conf.physIn) : inputs' = Append(inputs, S)
    BY <1>5 DEF NewInput
  <2>2. /\ inputs' \in Seq(SUBSET Phys(conf.physIn)) /\ Len(inputs') = Len(inputs) + 1 /\ Len(inputs) \in Nat
        /\ \A b \in DOMAIN inputs : b \in DOMAIN inputs' /\ inputs'[b] = inputs[b]
    BY <2>1 DEF Delivered
  <2>3. HistoryGrows
    BY <2>1, <2>2 DEF HistoryGrows
  <2>4. conf.last \in Nat
    BY <1>0, ConfDealt
  <2> QED BY <1>0, <2>1, <2>2, <2>3, <2>4 DEF Delivered, Procs
<1>6. ASSUME NEW p \in Procs, BlockStart(p)
      PROVE  Delivered' /\ HistoryGrows
  <2>1. /\ UNCHANGED <<conf, inputs, copies, blk>> /\ blk[p] <= Len(inputs)
        /\ \E stage : pc' = [pc EXCEPT ![p] = stage]
    BY <1>6 DEF BlockStart, Goto
  <2> QED BY <1>0, <1>3, <2>1
<1>7. ASSUME NEW p \in Procs, \/ HooksDone(p) \/ InputsRead(p) \/ InputsSynched(p) \/ ReadInput(p) \/ Filter(p)
                              \/ MixOutputs(p) \/ OutputsSynched(p) \/ WriteOutput(p)
      PROVE  Delivered' /\ HistoryGrows
  <2>1. /\ UNCHANGED <<conf, inputs, copies, blk>> /\ pc[p] \notin {"start", "done"}
        /\ pc' = pc \/ \E stage : pc' = [pc EXCEPT ![p] = stage]
    BY <1>7, Zenon DEF HooksDone, InputsRead, InputsSynched, ReadInput, Filter, MixOutputs, OutputsSynched, WriteOutput, Goto
  <2>2. blk[p] <= Len(inputs)
    BY <2>1 DEF Delivered
  <2> QED BY <1>0, <1>3, <2>1, <2>2
<1>8. ASSUME NEW p \in Procs, CopyControl(p)
      PROVE  Delivered' /\ HistoryGrows
  <2>1. /\ UNCHANGED <<conf, inputs, blk>> /\ pc[p] = "copy" /\ pc' = [pc EXCEPT ![p] = "read"]
        /\ copies' = [copies EXCEPT ![p] = Append(copies[p], ctl)]
    BY <1>8 DEF CopyControl, Goto
  <2>2. ASSUME NEW q \in Procs, NEW b \in DOMAIN copies[q]
        PROVE  b \in DOMAIN copies'[q] /\ copies'[q][b] = copies[q][b]
    <3>1. copies[q] \in Seq(Controls) /\ b \in 1..Len(copies[q]) /\ Len(copies[q]) \in Nat
      BY <1>0
    <3>2. CASE q = p
      <4>1. copies'[q] = Append(copies[q], ctl)
        BY <1>0, <2>1, <3>2
      <4>2. b \in 1..Len(copies[q]) + 1
        BY <3>1, SMT
      <4> QED BY <3>1, <4>1, <4>2
    <3>3. CASE q # p
      BY <1>0, <2>1, <3>1, <3>3
    <3> QED BY <3>2, <3>3
  <2>3. HistoryGrows
    BY <2>1, <2>2 DEF HistoryGrows
  <2>4. blk[p] <= Len(inputs)
    BY <2>1 DEF Delivered
  <2>5. Delivered'
    BY <1>0, <1>2, <2>1, <2>4 DEF Delivered
  <2> QED BY <2>3, <2>5
<1>9. ASSUME NEW p \in Procs, EndBlock(p)
      PROVE  Delivered' /\ HistoryGrows
  <2>1. /\ UNCHANGED <<conf, inputs, copies>> /\ pc[p] = "write"
        /\ blk' = [blk EXCEPT ![p] = @ + 1]
        /\ \E stage \in {"done", "start"} : pc' = [pc EXCEPT ![p] = stage]
    BY <1>9 DEF EndBlock, Goto
  <2>2. blk[p] <= Len(inputs) /\ blk[p] \in Nat
    BY <1>0, <2>1 DEF Delivered
  <2>3. \A q \in Procs : /\ blk'[q] - 1 <= Len(inputs)
                         /\ pc'[q] \notin {"start", "done"} => blk'[q] <= Len(inputs)
    <3> SUFFICES ASSUME NEW q \in Procs
                 PROVE  /\ blk'[q] - 1 <= Len(inputs)
                        /\ pc'[q] \notin {"start", "done"} => blk'[q] <= Len(inputs)
      OBVIOUS
    <3>1. CASE q = p
      <4>1. blk'[q] = blk[p] + 1 /\ pc'[q] \in {"done", "start"}
        BY <1>0, <2>1, <3>1
      <4> QED BY <4>1, <2>2
    <3>2. CASE q # p
      <4>1. blk'[q] = blk[q] /\ pc'[q] = pc[q]
        BY <1>0, <2>1, <3>2
      <4> QED BY <4>1 DEF Delivered
    <3> QED BY <3>1, <3>2
  <2> QED BY <1>1, <1>2, <2>1, <2>3
<1> QED
  BY <1>4, <1>5, <1>6, <1>7, <1>8, <1>9 DEF Next

\* All blocks before the one in progress are settled, and from filtering on that one is too.
LEMMA SettledOK ==
    ASSUME Types, Meetings, Delivered, NEW p \in Procs
    PROVE  /\ blk[p] \in Nat \ {0} /\ blk[p] - 1 \in 0..conf.last /\ \A m \in 1..blk[p] - 1 : Settled(m)
           /\ pc[p] \in Working => /\ blk[p] \in DOMAIN inputs \cap DOMAIN copies[p]
                                   /\ blk[p] \in 1..conf.last
           /\ pc[p] \in {"filter", "mixed", "write"} => \A m \in 1..blk[p] : Settled(m)
<1>1. /\ blk \in [Procs -> Nat \ {0}] /\ conf.last \in Nat
      /\ Len(inputs) \in Nat /\ DOMAIN inputs = 1..Len(inputs) /\ Len(inputs) <= conf.last
      /\ \A q \in Procs : Copied(q) \in Nat /\ DOMAIN copies[q] = 1..Copied(q)
  <2>1. conf.last \in Nat
    BY ConfDealt DEF Types
  <2>2. \A q \in Procs : Copied(q) \in Nat /\ DOMAIN copies[q] = 1..Copied(q)
    BY Numbers
  <2> QED BY <2>1, <2>2 DEF Types, Delivered
<1>2. \A q \in Procs : blk[p] - 1 <= Copied(q)
  <2> SUFFICES ASSUME NEW q \in Procs PROVE blk[p] - 1 <= Copied(q)
    OBVIOUS
  <2>1. At(q, blk[p] - 1, AfterFilter)
    BY DEF Meetings
  <2> QED BY <1>1, <2>1 DEF At, Copied, AfterFilter, Working
<1>3. ASSUME pc[p] \in {"filter", "mixed", "write"}, NEW q \in Procs PROVE blk[p] <= Copied(q)
  <2>1. At(q, blk[p], AfterRead)
    BY <1>3 DEF Meetings, AfterRead
  <2> QED BY <1>1, <2>1 DEF At, Copied, AfterRead, Working
<1>4. blk[p] - 1 <= Len(inputs) /\ (pc[p] \notin {"start", "done"} => blk[p] <= Len(inputs))
  BY DEF Delivered
<1>5. pc[p] \in Working => Copied(p) = blk[p] /\ pc[p] \notin {"start", "done"}
  BY DEF Copied, Working
<1>6. pc[p] \in {"filter", "mixed", "write"} => pc[p] \notin {"start", "done"}
  OBVIOUS
<1>7. blk[p] \in Nat \ {0}
  BY <1>1
<1> QED BY <1>1, <1>2, <1>3, <1>4, <1>5, <1>6, <1>7 DEF Settled

-----------------------------------------------------------------------------
(* Inputs *)

\* The last block of its channel number i process p has read.
Reads(p, i) ==
    blk[p] - 1 + (IF pc[p] \in AfterRead \/ (pc[p] = "read" /\ i < idx[p]) THEN 1 ELSE 0)

\* Silence comes before the first block.
SignalAt(ch, n) == IF n < 1 THEN {} ELSE Signal(ch, n)

\* The window of an input channel, and the half of it that stays for the next one.
ReadInv ==
    /\ DOMAIN tbuf = InCh /\ \A ch \in InCh : DOMAIN tbuf[ch] = 0..1
    /\ \A p \in Procs : \A i \in DOMAIN conf.procin[p] :
          LET ch == conf.procin[p][i]
              n == Reads(p, i)
          IN  /\ fbuf[ch] = <<SignalAt(ch, n - 1), SignalAt(ch, n)>>
              /\ tbuf[ch][(n + 1) % 2][1] = SignalAt(ch, n)

\* Each channel moves its last half window to the front and appends the block delivered.
LEMMA ReadNext ==
    ASSUME Types, Meetings, Delivered, ZeroInv, FlagsApply, ReadInv, HistoryGrows, [Next]_vars
    PROVE  ReadInv'
<1>0. /\ pc \in [Procs -> Before \cup Working] /\ idx \in [Procs -> Nat \ {0}]
      /\ blk \in [Procs -> Nat \ {0}] /\ conf \in Confs
  BY DEF Types
<1>a. /\ conf' = conf /\ Procs' = Procs /\ InCh' = InCh
  BY DEF HistoryGrows, Procs, InCh
<1>b. ASSUME NEW p \in Procs
      PROVE  /\ DOMAIN conf.procin[p] = 1..Len(conf.procin[p]) /\ Len(conf.procin[p]) \in Nat
             /\ \A i \in DOMAIN conf.procin[p] : conf.procin[p][i] \in InCh
  <2>1. conf.procin[p] \in Seq(InCh)
    BY <1>0, ConfOK
  <2> QED BY <2>1
<1>c. ASSUME NEW p \in Procs, NEW i \in DOMAIN conf.procin[p], NEW n \in Int, n <= Reads(p, i)
      PROVE  SignalAt(conf.procin[p][i], n)' = SignalAt(conf.procin[p][i], n)
  <2>1. CASE n < 1
    BY <2>1 DEF SignalAt
  <2>2. CASE n >= 1
    <3>1. n \in DOMAIN inputs \cap DOMAIN copies[p]
      <4>1. CASE n <= blk[p] - 1
        BY <4>1, <2>2, <1>0, SettledOK DEF Settled
      <4>2. CASE n > blk[p] - 1
        <5>1. pc[p] \in Working /\ n = blk[p]
          BY <1>c, <4>2, <1>0 DEF Reads, Working, AfterRead
        <5> QED BY <5>1, SettledOK
      <4> QED BY <4>1, <4>2, <1>0
    <3>2. Signal(conf.procin[p][i], n)' = Signal(conf.procin[p][i], n)
      BY <3>1, <1>0, IdealStable
    <3> QED BY <2>2, <3>2 DEF SignalAt
  <2> QED BY <2>1, <2>2
<1>d. ASSUME NEW p \in Procs, NEW i \in DOMAIN conf.procin[p]
      PROVE  Reads(p, i) \in Nat
  BY <1>0 DEF Reads
<1>1. ASSUME UNCHANGED <<tbuf, fbuf>>,
             \A p \in Procs : \A i \in DOMAIN conf.procin[p] : Reads(p, i)' = Reads(p, i)
      PROVE  ReadInv'
  <2> SUFFICES ASSUME NEW p \in Procs, NEW i \in DOMAIN conf.procin[p]
               PROVE  LET ch == conf.procin[p][i]
                          n == Reads(p, i)
                      IN  /\ fbuf[ch] = <<SignalAt(ch, n - 1)', SignalAt(ch, n)'>>
                          /\ tbuf[ch][(n + 1) % 2][1] = SignalAt(ch, n)'
    BY <1>1, <1>a DEF ReadInv
  <2>1. /\ SignalAt(conf.procin[p][i], Reads(p, i))' = SignalAt(conf.procin[p][i], Reads(p, i))
        /\ SignalAt(conf.procin[p][i], Reads(p, i) - 1)' = SignalAt(conf.procin[p][i], Reads(p, i) - 1)
    BY <1>c, <1>d, <1>1
  <2> QED BY <2>1, <1>1, <1>a DEF ReadInv
<1>2. ASSUME UNCHANGED <<tbuf, fbuf>>, NEW p \in Procs,
             \A q \in Procs : q # p => pc'[q] = pc[q] /\ idx'[q] = idx[q] /\ blk'[q] = blk[q],
             \A i \in DOMAIN conf.procin[p] : Reads(p, i)' = Reads(p, i)
      PROVE  ReadInv'
  <2>1. \A q \in Procs : q # p => \A i \in DOMAIN conf.procin[q] : Reads(q, i)' = Reads(q, i)
    BY <1>2 DEF Reads
  <2> QED BY <1>1, <1>2, <2>1
<1>3. CASE UNCHANGED vars \/ NewInput \/ ChangeControl
  <2>1. UNCHANGED <<pc, idx, blk, tbuf, fbuf>>
    BY <1>3 DEF vars, bufs, NewInput, ChangeControl
  <2> QED BY <1>1, <2>1 DEF Reads
<1>4. ASSUME NEW p \in Procs,
             \/ BlockStart(p) \/ HooksDone(p) \/ CopyControl(p) \/ InputsRead(p)
             \/ InputsSynched(p) \/ MixOutputs(p) \/ OutputsSynched(p)
      PROVE  ReadInv'
  <2>1. /\ UNCHANGED <<blk, tbuf, fbuf>>
        /\ idx' = [idx EXCEPT ![p] = 1]
        /\ \/ /\ pc[p] \in {"start", "hooked", "copy"}
              /\ \E stage \in {"hooked", "copy", "read"} : pc' = [pc EXCEPT ![p] = stage]
           \/ pc[p] = "read" /\ idx[p] > Len(conf.procin[p]) /\ pc' = [pc EXCEPT ![p] = "synch"]
           \/ /\ pc[p] \in AfterRead
              /\ \E stage \in AfterRead : pc' = [pc EXCEPT ![p] = stage]
    BY <1>4, Zenon DEF BlockStart, HooksDone, CopyControl, InputsRead, InputsSynched, MixOutputs, OutputsSynched,
                       Goto, bufs, AfterRead
  <2>2. \A q \in Procs : q # p => pc'[q] = pc[q] /\ idx'[q] = idx[q] /\ blk'[q] = blk[q]
    BY <1>0, <2>1
  <2>3. ASSUME NEW i \in DOMAIN conf.procin[p] PROVE Reads(p, i)' = Reads(p, i)
    <3>1. idx'[p] = 1 /\ i \in 1..Len(conf.procin[p]) /\ Len(conf.procin[p]) \in Nat /\ blk'[p] = blk[p]
      BY <1>0, <1>b, <2>1
    <3>2. CASE pc[p] \in {"start", "hooked", "copy"} /\ pc'[p] \in {"hooked", "copy", "read"}
      <4>1. ~(i < 1)
        BY <3>1
      <4> QED BY <3>1, <3>2, <4>1 DEF Reads, AfterRead
    <3>3. CASE pc[p] = "read" /\ idx[p] > Len(conf.procin[p]) /\ pc'[p] = "synch"
      <4>1. i < idx[p]
        BY <1>0, <3>1, <3>3
      <4> QED BY <3>1, <3>3, <4>1 DEF Reads, AfterRead
    <3>4. CASE pc[p] \in AfterRead /\ pc'[p] \in AfterRead
      BY <3>1, <3>4 DEF Reads
    <3> QED BY <1>0, <2>1, <3>2, <3>3, <3>4
  <2> QED BY <1>2, <2>1, <2>2, <2>3
<1>5. ASSUME NEW p \in Procs, Filter(p) \/ WriteOutput(p)
      PROVE  ReadInv'
  <2>1. /\ UNCHANGED <<pc, blk, tbuf, fbuf>> /\ pc[p] \in AfterRead
        /\ idx' = [idx EXCEPT ![p] = @ + 1]
    BY <1>5, Zenon DEF Filter, WriteOutput, AfterRead
  <2>2. \A q \in Procs : q # p => idx'[q] = idx[q]
    BY <1>0, <2>1
  <2>3. ASSUME NEW i \in DOMAIN conf.procin[p] PROVE Reads(p, i)' = Reads(p, i)
    BY <2>1 DEF Reads
  <2> QED BY <1>2, <2>1, <2>2, <2>3
<1>6. ASSUME NEW p \in Procs, EndBlock(p)
      PROVE  ReadInv'
  <2>1. /\ UNCHANGED <<tbuf, fbuf>> /\ pc[p] = "write" /\ idx' = [idx EXCEPT ![p] = 1]
        /\ blk' = [blk EXCEPT ![p] = @ + 1]
        /\ \E stage \in {"done", "start"} : pc' = [pc EXCEPT ![p] = stage]
    BY <1>6 DEF EndBlock, Goto, bufs
  <2>2. \A q \in Procs : q # p => pc'[q] = pc[q] /\ idx'[q] = idx[q] /\ blk'[q] = blk[q]
    BY <1>0, <2>1
  <2>3. blk'[p] = blk[p] + 1 /\ pc'[p] \in {"done", "start"} /\ blk[p] \in Nat
    BY <1>0, <2>1
  <2>4. ASSUME NEW i \in DOMAIN conf.procin[p] PROVE Reads(p, i)' = Reads(p, i)
    <3>1. Reads(p, i) = blk[p] - 1 + 1 /\ Reads(p, i)' = blk[p] + 1 - 1 + 0
      BY <2>1, <2>3 DEF Reads, AfterRead
    <3> QED BY <2>3, <3>1, SMT
  <2> QED BY <1>2, <2>1, <2>2, <2>4
<1>7. ASSUME NEW p \in Procs, ReadInput(p)
      PROVE  ReadInv'
  <2>0. \E k \in DOMAIN conf.procin[p] : k = idx[p]
    <3>1. idx[p] <= Len(conf.procin[p])
      BY <1>7, Zenon DEF ReadInput
    <3> QED BY <3>1, <1>0, <1>b
  <2> PICK k \in DOMAIN conf.procin[p] : k = idx[p]
    BY <2>0
  <2> PICK b \in Nat \ {0} : b = blk[p]
    BY <1>0
  <2> DEFINE ch == conf.procin[p][k]
             cur == b % 2
             shared == Shared(conf.physIn, ch)
             block == IF conf.physIn[ch] \in inputs[b] /\ ~(shared /\ ch \in Copy(p).mute)
                      THEN {<<ch, b, <<>> >>} ELSE {}
             window == Raw2Cbuf(tbuf[ch][cur], block)
             transform == Transform(window)
  <2>1. /\ pc[p] = "read" /\ idx[p] <= Len(conf.procin[p])
        /\ tbuf' = [tbuf EXCEPT ![ch][cur] = window, ![ch][1 - cur] = Raw2Next(@, block)]
        /\ fbuf' = [fbuf EXCEPT ![ch] = IF transform THEN window ELSE IF ch \in fzero[p] THEN @ ELSE Silence]
        /\ UNCHANGED <<conf, pc, blk, inputs, copies>>
        /\ idx' = [idx EXCEPT ![p] = @ + 1]
    BY <1>7, Zenon DEF ReadInput
  <2>2. ch \in InCh
    BY <1>b
  <2>3. block = SignalAt(ch, b)
    <3>1. \A q \in Procs : \A i \in DOMAIN conf.procin[q] : conf.procin[q][i] = ch => q = p
      BY <2>2, <1>0, ConfDealt
    <3> DEFINE reader == CHOOSE q \in Procs : \E i \in DOMAIN conf.procin[q] : conf.procin[q][i] = ch
    <3>2. reader = p
      BY <3>1
    <3>3. Signal(ch, b) = IF conf.physIn[ch] \in inputs[b] /\ ~(shared /\ ch \in copies[reader][b].mute)
                          THEN {<<ch, b, <<>> >>} ELSE {}
      BY DEF Signal
    <3> HIDE DEF reader
    <3>4. Signal(ch, b) = block
      BY <3>2, <3>3 DEF Copy
    <3> QED BY <3>4 DEF SignalAt
  <2> HIDE DEF block, shared
  <2>4. cur \in 0..1 /\ 1 - cur \in 0..1 /\ 1 - cur # cur /\ (b + 1) % 2 = 1 - cur /\ b \in Nat
    BY <1>0
  <2>5. Reads(p, k) = b - 1 /\ Reads(p, k)' = b
    <3>1. idx'[p] = k + 1 /\ k \in Nat /\ idx[p] = k /\ blk[p] = b /\ blk'[p] = b /\ pc[p] = "read" /\ pc'[p] = "read"
      BY <1>0, <2>1
    <3>2. ~(k < k) /\ k < k + 1 /\ b - 1 + 0 = b - 1 /\ b - 1 + 1 = b
      BY <3>1
    <3> QED BY <3>1, <3>2 DEF Reads, AfterRead
  <2>6. window = <<SignalAt(ch, b - 1), SignalAt(ch, b)>>
    <3>1. tbuf[ch][(b - 1 + 1) % 2][1] = SignalAt(ch, b - 1)
      BY <2>2, <2>5 DEF ReadInv
    <3>2. b - 1 + 1 = b
      BY <2>4
    <3> QED BY <2>3, <3>1, <3>2 DEF Raw2Cbuf
  <2> HIDE DEF ch, cur, window, transform
  <2>7. /\ \A c \in InCh : c # ch => tbuf'[c] = tbuf[c] /\ fbuf'[c] = fbuf[c]
        /\ DOMAIN tbuf' = InCh /\ DOMAIN tbuf'[ch] = 0..1
        /\ tbuf'[ch][1 - cur] = Raw2Next(tbuf[ch][1 - cur], block)
        /\ fbuf'[ch] = IF transform THEN window ELSE IF ch \in fzero[p] THEN fbuf[ch] ELSE Silence
    BY <2>1, <2>2, <2>4 DEF ReadInv, ZeroInv, Shapes
  <2>8. fbuf'[ch] = window
    <3>1. CASE transform
      BY <2>7, <3>1
    <3>2. CASE ~transform
      <4>1. window = Silence
        BY <3>2 DEF transform, Transform
      <4> QED BY <2>7, <3>2, <4>1 DEF ZeroInv, ZeroFlagsTrue
    <3> QED BY <3>1, <3>2
  <2>9. \A c \in InCh : DOMAIN tbuf'[c] = 0..1
    BY <2>7 DEF ReadInv
  <2> SUFFICES ASSUME NEW q \in Procs, NEW i \in DOMAIN conf.procin[q]
               PROVE  LET c == conf.procin[q][i]
                      IN  /\ fbuf'[c] = <<SignalAt(c, Reads(q, i) - 1)', SignalAt(c, Reads(q, i))'>>
                          /\ tbuf'[c][((Reads(q, i) + 1) % 2)'][1] = SignalAt(c, Reads(q, i))'
    BY <2>7, <2>9, <1>a DEF ReadInv
  <2> DEFINE c == conf.procin[q][i]
  <2>10. CASE q = p /\ i = k
    <3>1. c = ch /\ b \in Nat /\ Reads(q, i)' = b /\ Reads(q, i) = b - 1
      BY <2>5, <2>10 DEF ch
    <3>2. /\ fbuf'[c] = <<SignalAt(c, b - 1), SignalAt(c, b)>>
          /\ tbuf'[c][1 - cur][1] = SignalAt(c, b)
      BY <2>3, <2>6, <2>7, <2>8, <3>1 DEF Raw2Next
    <3>3. /\ SignalAt(c, b - 1)' = SignalAt(c, b - 1)
          /\ SignalAt(c, b)' = SignalAt(c, b)
      <4>1. SignalAt(c, b - 1)' = SignalAt(c, b - 1)
        BY <1>c, <3>1
      <4>2. b \in DOMAIN inputs \cap DOMAIN copies[p]
        BY <2>1, SettledOK DEF Working
      <4>3. Signal(c, b)' = Signal(c, b)
        BY <4>2, <1>0, <2>10, IdealStable
      <4> QED BY <4>1, <4>3 DEF SignalAt
    <3>4. ((Reads(q, i) + 1) % 2)' = 1 - cur
      BY <2>4, <3>1
    <3>5. /\ SignalAt(c, Reads(q, i) - 1)' = SignalAt(c, b - 1)
          /\ SignalAt(c, Reads(q, i))' = SignalAt(c, b)
      BY <3>1, <3>3
    <3> QED BY <3>2, <3>4, <3>5
  <2>11. CASE ~(q = p /\ i = k)
    <3>1. c # ch /\ c \in InCh
      BY <2>2, <2>11, <1>0, <1>b, ConfDealt DEF ch
    <3>2. Reads(q, i)' = Reads(q, i)
      <4>1. CASE q = p
        <5>1. i \in Nat /\ idx[p] \in Nat /\ i # idx[p] /\ idx'[p] = idx[p] + 1
          BY <1>0, <1>b, <2>1, <2>11, <4>1
        <5>2. (i < idx'[p]) <=> (i < idx[p])
          BY <5>1
        <5> QED BY <4>1, <5>2, <2>1 DEF Reads
      <4>2. CASE q # p
        BY <1>0, <2>1, <4>2 DEF Reads
      <4> QED BY <4>1, <4>2
    <3>3. /\ SignalAt(c, Reads(q, i))' = SignalAt(c, Reads(q, i))
          /\ SignalAt(c, Reads(q, i) - 1)' = SignalAt(c, Reads(q, i) - 1)
      <4>1. PICK n \in Int : n = Reads(q, i)
        BY <1>d
      <4>2. SignalAt(conf.procin[q][i], n)' = SignalAt(conf.procin[q][i], n)
            /\ SignalAt(conf.procin[q][i], n - 1)' = SignalAt(conf.procin[q][i], n - 1)
        <5>1. n <= Reads(q, i) /\ n - 1 <= Reads(q, i) /\ n - 1 \in Int
          BY <4>1
        <5> QED BY <1>c, <4>1, <5>1
      <4> QED BY <3>2, <4>1, <4>2
    <3>4. fbuf'[c] = fbuf[c] /\ tbuf'[c] = tbuf[c]
      BY <2>7, <3>1
    <3> QED BY <3>2, <3>3, <3>4 DEF ReadInv
  <2> QED BY <2>10, <2>11
<1> QED BY <1>3, <1>4, <1>5, <1>6, <1>7 DEF Next

-----------------------------------------------------------------------------
(* Filters *)

\* What other filters give to f in block n.
FromFilters(f, n) == IF n < 1 THEN {} ELSE UNION {Ideal[<<g, n>>] : g \in conf.filters[f].src}

\* What the history up to block B determines stays.
LEMMA HistoryStable ==
    ASSUME conf \in Confs, Procs # {}, HistoryGrows, NEW B \in Nat, B <= conf.last, \A m \in 1..B : Settled(m),
           NEW m \in Int, m <= B
    PROVE  /\ \A p \in Procs : \A n \in DOMAIN conf.order[p] :
                /\ Window(Ideal, conf.order[p][n], m)' = Window(Ideal, conf.order[p][n], m)
                /\ FromFilters(conf.order[p][n], m)' = FromFilters(conf.order[p][n], m)
                /\ m >= 0 => UsedCoeff(conf.order[p][n], m)' = UsedCoeff(conf.order[p][n], m)
                /\ m >= 1 => Ideal'[<<conf.order[p][n], m>>] = Ideal[<<conf.order[p][n], m>>]
           /\ \A o : IdealChannel(o, m)' = IdealChannel(o, m) /\ Due(o, m)' = Due(o, m)
           /\ m >= 1 => \A ph \in Phys(conf.physOut) : IdealOutput(ph, m)' = IdealOutput(ph, m)
<1>0. /\ conf' = conf /\ Procs' = Procs /\ Filters' = Filters /\ conf.last \in Nat
      /\ \A p \in Procs : DOMAIN conf.order[p] = 1..Len(conf.order[p]) /\ conf.order[p] \in Seq(Filters)
  <2>1. \A p \in Procs : conf.order[p] \in Seq(Filters)
    BY ConfOK
  <2> QED BY <2>1, ConfDealt DEF HistoryGrows, Procs, Filters
<1>1. ASSUME NEW f \in Filters, NEW j \in 1..B PROVE Ideal'[<<f, j>>] = Ideal[<<f, j>>]
  <2>1. PICK p \in Procs : \E n \in DOMAIN conf.order[p] : f = conf.order[p][n]
    BY ConfDealt
  <2>2. j \in 1..conf.last /\ \A i \in 1..j : Settled(i)
    BY <1>0
  <2> QED BY <2>1, <2>2, IdealStable
<1>2. ASSUME NEW ch \in InCh, NEW j \in 1..B PROVE Signal(ch, j)' = Signal(ch, j)
  <2>1. PICK q \in Procs : \E i \in DOMAIN conf.procin[q] : ch = conf.procin[q][i]
    BY ConfDealt
  <2>2. PICK i \in DOMAIN conf.procin[q] : ch = conf.procin[q][i]
    BY <2>1
  <2>3. j \in DOMAIN inputs \cap DOMAIN copies[q]
    BY DEF Settled
  <2>4. Signal(conf.procin[q][i], j)' = Signal(conf.procin[q][i], j)
    BY <2>3, IdealStable
  <2> QED BY <2>2, <2>4, <1>0
<1>3. ASSUME NEW j \in Int, j <= B, NEW o PROVE IdealChannel(o, j)' = IdealChannel(o, j)
  <2>0. CASE j < 1
    BY <2>0 DEF IdealChannel
  <2>1. CASE j >= 1
    <3>1. j \in 1..B
      BY <1>3, <2>1
    <3> DEFINE feeds == {g \in Filters : o \in conf.filters[g].out}
    <3>2. {Ideal'[<<f, j>>] : f \in feeds} = {Ideal[<<f, j>>] : f \in feeds}
      BY <1>1, <3>1
    <3>3. feeds' = feeds
      BY <1>0
    <3> HIDE DEF feeds
    <3>4. IdealChannel(o, j) = UNION {Ideal[<<f, j>>] : f \in feeds} /\ IdealChannel(o, j)' = UNION {Ideal'[<<f, j>>] : f \in feeds'}
      BY <2>1 DEF IdealChannel, feeds
    <3> QED BY <3>2, <3>3, <3>4
  <2> QED BY <1>3, <2>0, <2>1
<1>4. ASSUME NEW j \in Int, j <= B, NEW o PROVE Due(o, j)' = Due(o, j)
  <2>1. IdealChannel(o, j)' = IdealChannel(o, j) /\ IdealChannel(o, j - 1)' = IdealChannel(o, j - 1)
    BY <1>3, <1>4
  <2> QED BY <2>1, <1>0 DEF Due
<1>5. ASSUME NEW p \in Procs, NEW n \in DOMAIN conf.order[p]
      PROVE  /\ Window(Ideal, conf.order[p][n], m)' = Window(Ideal, conf.order[p][n], m)
             /\ FromFilters(conf.order[p][n], m)' = FromFilters(conf.order[p][n], m)
             /\ m >= 0 => UsedCoeff(conf.order[p][n], m)' = UsedCoeff(conf.order[p][n], m)
             /\ m >= 1 => Ideal'[<<conf.order[p][n], m>>] = Ideal[<<conf.order[p][n], m>>]
  <2> DEFINE f == conf.order[p][n]
  <2>1. f \in Filters /\ f' = f
    BY <1>0
  <2>2. \A g \in conf.filters[f].src : g \in Filters
    <3> SUFFICES ASSUME NEW g \in conf.filters[f].src PROVE g \in Filters
      OBVIOUS
    <3>1. PICK i \in 1..n - 1 : g = conf.order[p][i]
      BY ConfDealt
    <3> QED BY <1>0, <3>1
  <2>3. \A ch \in conf.filters[f].in : ch \in InCh
    BY ConfDealt
  <2> HIDE DEF f
  <2>4. ASSUME NEW j \in Int, j <= B
        PROVE  Source(Ideal, f, j)' = Source(Ideal, f, j) /\ FromFilters(f, j)' = FromFilters(f, j)
    <3>0. CASE j < 1
      BY <3>0 DEF Source, FromFilters
    <3>1. CASE j >= 1
      <4>1. j \in 1..B
        BY <2>4, <3>1
      <4>2. {Ideal'[<<g, j>>] : g \in conf.filters[f].src} = {Ideal[<<g, j>>] : g \in conf.filters[f].src}
        BY <1>1, <2>2, <4>1
      <4>3. {Signal(ch, j)' : ch \in conf.filters[f].in} = {Signal(ch, j) : ch \in conf.filters[f].in}
        BY <1>2, <2>3, <4>1
      <4> QED BY <1>0, <2>1, <4>2, <4>3 DEF Source, FromFilters
    <3> QED BY <2>4, <3>0, <3>1
  <2>5. Window(Ideal, f, m)' = Window(Ideal, f, m)
    <3>1. Source(Ideal, f, m)' = Source(Ideal, f, m) /\ Source(Ideal, f, m - 1)' = Source(Ideal, f, m - 1)
      BY <2>4
    <3> QED BY <3>1 DEF Window
  <2>6. m >= 0 => UsedCoeff(f, m)' = UsedCoeff(f, m)
    <3> SUFFICES ASSUME m >= 0 PROVE UsedCoeff(f, m)' = UsedCoeff(f, m)
      OBVIOUS
    <3>1. f \in FiltersOf(p) /\ \A q \in Procs : f \in FiltersOf(q) => q = p
      BY ConfOK DEF FiltersOf, f
    <3>2. ProcOf(f) = p
      BY <3>1 DEF ProcOf
    <3>3. ProcOf(f)' = ProcOf(f)
      BY <1>0, <2>1 DEF ProcOf, FiltersOf
    <3>4. m = 0 \/ m \in 1..B
      OBVIOUS
    <3>5. m # 0 => copies'[p][m] = copies[p][m]
      BY <3>4 DEF Settled, HistoryGrows
    <3> QED BY <1>0, <2>1, <3>2, <3>3, <3>5 DEF UsedCoeff
  <2>7. m >= 1 => Ideal'[<<f, m>>] = Ideal[<<f, m>>]
    BY <1>1, <2>1
  <2> QED BY <2>4, <2>5, <2>6, <2>7 DEF f
<1>6. ASSUME m >= 1, NEW ph \in Phys(conf.physOut) PROVE IdealOutput(ph, m)' = IdealOutput(ph, m)
  <2> DEFINE writer(o) == CHOOSE p \in Procs : \E i \in DOMAIN conf.procout[p] : conf.procout[p][i] = o
             heard(o) == Shared(conf.physOut, o) => o \notin copies[writer(o)][m].mute
             some == {v \in Virt(ph) : heard(v)}
  <2>1. \A o \in Virt(ph) : writer(o) \in Procs
    <3>1. PICK p \in Procs : \E i, K \in Nat \ {0} : Together(p, i, K, ph)
      BY ConfDealt
    <3>2. \A o \in Virt(ph) : \E i \in DOMAIN conf.procout[p] : conf.procout[p][i] = o
      BY <3>1 DEF Together
    <3> QED BY <3>2
  <2>2. \A o : writer(o)' = writer(o)
    BY <1>0
  <2> HIDE DEF writer
  <2>3. \A o \in Virt(ph) : copies'[writer(o)][m] = copies[writer(o)][m]
    <3>1. m \in 1..B
      BY <1>6
    <3> QED BY <2>1, <3>1 DEF Settled, HistoryGrows
  <2>4. Virt(ph)' = Virt(ph)
    BY <1>0 DEF Virt
  <2>5. \A o \in Virt(ph) : heard(o)' = heard(o)
    BY <1>0, <2>2, <2>3 DEF Shared
  <2>6. some' = some
    BY <2>4, <2>5
  <2> HIDE DEF heard
  <2>7. \A o : Due(o, m)' = Due(o, m)
    BY <1>4
  <2>8. {Due(o, m)' : o \in some} = {Due(o, m) : o \in some}
    BY <2>7
  <2>9. IdealOutput(ph, m) = UNION {Due(o, m) : o \in some} /\ IdealOutput(ph, m)' = UNION {Due(o, m)' : o \in some'}
    BY DEF IdealOutput, some, heard, writer
  <2> QED BY <2>6, <2>8, <2>9
<1> QED BY <1>3, <1>4, <1>5, <1>6

\* A cross-fade is computed in single precision, and with powersave the previous set has one partition.
SettingsApply ==
    /\ PartsApply
    /\ \A f \in Filters : conf.filters[f].crossfade =>
           conf.realsize = 4 /\ (conf.powersave => conf.nblocks = 1)

\* The ring holds the windows of the last blocks, and of those that the delay holds back.
Filled(p, n) ==
    LET f == conf.order[p][n]
        N == Runs(p, n)
        D == DelayBlocks(f)
    IN  /\ \A y \in N - (conf.nblocks - 1 - D)..N - 1 + D : cbuf[f][Ring(y)] = Window(Ideal, f, y - D + 1)
        /\ conf.filters[f].src # {} => ebuf[f] = FromFilters(f, N)
        /\ prevcoeff[f] = UsedCoeff(f, N)
        /\ pc[p] = "filter" /\ n < idx[p] => ocbuf[f] = Ideal[<<f, N>>]

FilterInv == \A p \in Procs : \A n \in DOMAIN conf.order[p] : Filled(p, n)

\* One filter: what enters the ring, and what is summed up from it.
LEMMA Filtering ==
    ASSUME Types, Meetings, Delivered, ZeroInv, PartsInv, ReadInv, FilterInv, SettingsApply,
           NEW p \in Procs, Filter(p), NEW k \in DOMAIN conf.order[p], k = idx[p],
           NEW f \in Filters, f = conf.order[p][k], NEW b \in 1..conf.last, b = blk[p],
           NEW D \in Nat, D = DelayBlocks(f)
    PROVE  /\ conf.nblocks # 1 =>
                \A y \in b - (conf.nblocks - 1 - D)..b - 1 + D : cbuf'[f][Ring(y)] = Window(Ideal, f, y - D + 1)
           /\ conf.filters[f].src # {} => ebuf'[f] = FromFilters(f, b)
           /\ prevcoeff'[f] = UsedCoeff(f, b)
           /\ ocbuf'[f] = Ideal[<<f, b>>]
<1> DEFINE coeff == Copy(p).coeff[f]
           prev == prevcoeff[f]
           pb == Processed(f)
           ev == Evaluate(p, f)
           q == Enqueue(p, f, ev)
           slot == Slot(p, 0)
           active == ~conf.powersave \/ slot \notin q.zeros
           fading == conf.filters[f].crossfade /\ prev # coeff
           n == Reach(f, coeff)
           m == Reach(f, prev)
           out0 == IF active THEN Convolve(q.ring[slot], f, coeff)
                   ELSE IF f \in ozero THEN ocbuf[f] ELSE {}
           old0 == IF active THEN Convolve(q.ring[slot], f, prev)
                   ELSE ev.win[1] \cup ev.win[2]
           out == SumAdds(p, f, q, coeff, n, pb, out0)
           old == SumAdds(p, f, q, prev, m, pb, old0)
           iszero == /\ ~active /\ AddSlots(p, q, n, pb) = {}
                     /\ ~(fading /\ Behind(m, pb) # {})
           faded == fading /\ ~iszero
           result == IF faded THEN Crossfade(f, out, old) ELSE out
<1>1. /\ cbuf' = [cbuf EXCEPT ![f] = Aliased(q.ring, result)]
      /\ ebuf' = [ebuf EXCEPT ![f] = ev.kept]
      /\ ocbuf' = [ocbuf EXCEPT ![f] = result]
      /\ prevcoeff' = [prevcoeff EXCEPT ![f] = coeff]
      /\ pc[p] = "filter"
  BY Zenon DEF Filter
<1> HIDE DEF coeff, prev, pb, ev, q, active, fading, n, m, out0, old0, out, old, iszero, faded, result
<1>2. /\ conf \in Confs /\ PartsApply /\ FlagsApply /\ Shapes /\ FlagsOff /\ ZeroFlagsTrue
      /\ CounterMod % conf.nblocks = 0 /\ conf.nblocks \in Nat \ {0} /\ b \in Nat \ {0} /\ k \in Nat
      /\ conf.last \in Nat
  BY ConfOK, ConfDealt, RunsOK DEF Types, SettingsApply, PartsApply, ZeroInv
<1>3. /\ Runs(p, k) = b - 1 /\ b - 1 + 0 = b - 1
      /\ \A y \in b - 1 - (conf.nblocks - 1 - D)..b - 1 - 1 + D : cbuf[f][Ring(y)] = Window(Ideal, f, y - D + 1)
      /\ conf.filters[f].src # {} => ebuf[f] = FromFilters(f, b - 1)
      /\ prev = UsedCoeff(f, b - 1)
  <2>1. ~(k < k)
    BY <1>2
  <2>2. Runs(p, k) = b - 1
    BY <1>1, <1>2, <2>1 DEF Runs, AfterFilter
  <2>3. b - 1 \in Int /\ b - 1 + 0 = b - 1
    BY <1>2
  <2>4. /\ \A y \in b - 1 - (conf.nblocks - 1 - DelayBlocks(f))..b - 1 - 1 + DelayBlocks(f) :
             cbuf[f][Ring(y)] = Window(Ideal, f, y - DelayBlocks(f) + 1)
        /\ conf.filters[f].src # {} => ebuf[f] = FromFilters(f, b - 1)
        /\ prevcoeff[f] = UsedCoeff(f, b - 1)
    <3> DEFINE Good(g, N) ==
                 /\ \A y \in N - (conf.nblocks - 1 - DelayBlocks(g))..N - 1 + DelayBlocks(g) :
                      cbuf[g][Ring(y)] = Window(Ideal, g, y - DelayBlocks(g) + 1)
                 /\ conf.filters[g].src # {} => ebuf[g] = FromFilters(g, N)
                 /\ prevcoeff[g] = UsedCoeff(g, N)
    <3>1. \A i \in DOMAIN conf.order[p] : Good(conf.order[p][i], Runs(p, i))
      BY DEF FilterInv, Filled
    <3> HIDE DEF Good
    <3>2. Good(f, b - 1)
      BY <2>2, <3>1
    <3> QED BY <3>2 DEF Good
  <2> QED BY <2>2, <2>3, <2>4 DEF prev
<1>4. ASSUME NEW g \in conf.filters[f].src PROVE ocbuf[g] = Ideal[<<g, b>>] /\ g \in Filters
  <2>0. conf.filters[conf.order[p][k]].src \subseteq {conf.order[p][i] : i \in 1..k - 1}
    BY <1>2, ConfDealt
  <2>1. PICK i \in 1..k - 1 : g = conf.order[p][i]
    BY <2>0
  <2>2. conf.order[p] \in Seq(Filters)
    BY <1>2, ConfOK
  <2>3. i \in DOMAIN conf.order[p] /\ i < idx[p]
    BY <1>2, <2>1, <2>2
  <2>4. Runs(p, i) = b
    BY <1>1, <1>2, <2>3 DEF Runs
  <2>5. ocbuf[g] = Ideal[<<g, b>>]
    <3>1. pc[p] = "filter" /\ i < idx[p] => ocbuf[conf.order[p][i]] = Ideal[<<conf.order[p][i], Runs(p, i)>>]
      BY <2>3 DEF FilterInv, Filled
    <3> QED BY <1>1, <2>1, <2>3, <2>4, <3>1
  <2> QED BY <2>1, <2>2, <2>3, <2>5
<1>5. ASSUME NEW ch \in conf.filters[f].in PROVE fbuf[ch] = <<SignalAt(ch, b - 1), SignalAt(ch, b)>>
  <2>1. ch \in InCh
    BY <1>2, ConfDealt
  <2>2. PICK r \in Procs : \E i \in DOMAIN conf.procin[r] : ch = conf.procin[r][i]
    BY <1>2, <2>1, ConfDealt
  <2>3. PICK i \in DOMAIN conf.procin[r] : ch = conf.procin[r][i]
    BY <2>2
  <2>4. blk[r] = b /\ pc[r] \in AfterRead
    <3>1. At(r, b, AfterRead)
      BY <1>1 DEF Meetings, AfterRead
    <3>2. At(p, blk[r] - 1, AfterFilter)
      BY DEF Meetings
    <3>3. blk[r] \in Nat /\ "filter" \notin AfterFilter
      BY DEF Types, AfterFilter
    <3> QED BY <1>1, <1>2, <3>1, <3>2, <3>3 DEF At
  <2>5. Reads(r, i) = b
    BY <1>2, <2>4 DEF Reads
  <2> QED BY <2>3, <2>5 DEF ReadInv
<1>6. /\ conf.filters[f].src # {} => /\ ev.win = <<FromFilters(f, b - 1), FromFilters(f, b)>>
                                     /\ ev.kept = FromFilters(f, b)
      /\ ev.zero => ev.win = Silence
  <2> DEFINE src == conf.filters[f].src
             zero == conf.powersave /\ src \subseteq ozero
             mixed == IF ~zero THEN <<{}, UNION {ocbuf[g] : g \in src}>>
                      ELSE IF p \in szero THEN scratch[p] ELSE Silence
             run == RunEvaluation(f, zero)
  <2>1. ev.zero => ev.win = Silence
    BY <1>2, EvaluateZero DEF ev
  <2> SUFFICES ASSUME src # {} PROVE /\ ev.win = <<FromFilters(f, b - 1), FromFilters(f, b)>>
                                     /\ ev.kept = FromFilters(f, b)
    BY <2>1
  <2>2. ev = IF run THEN [win |-> ConvolveEval(ebuf[f], mixed[2]), zero |-> FALSE, kept |-> mixed[2], ez |-> zero]
             ELSE [win |-> mixed, zero |-> TRUE, kept |-> ebuf[f], ez |-> TRUE]
    BY Zenon DEF Evaluate, ev
  <2>3. FromFilters(f, b) = UNION {ocbuf[g] : g \in src}
    <3>0. \A g \in src : ocbuf[g] = Ideal[<<g, b>>]
      BY <1>4
    <3> HIDE DEF src
    <3>1. {ocbuf[g] : g \in src} = {Ideal[<<g, b>>] : g \in src}
      BY <3>0
    <3>2. ~(b < 1)
      BY <1>2
    <3> QED BY <3>1, <3>2 DEF FromFilters, src
  <2>4. zero => mixed = Silence /\ FromFilters(f, b) = {}
    <3>1. zero => \A g \in src : ocbuf[g] = {}
      BY <1>2, <1>4 DEF ZeroFlagsTrue
    <3>2. p \in szero => scratch[p] = Silence
      BY <1>2 DEF ZeroFlagsTrue
    <3> HIDE DEF src, zero
    <3>3. zero => FromFilters(f, b) = {}
      BY <2>3, <3>1
    <3> QED BY <3>2, <3>3
  <2>5. mixed = <<{}, FromFilters(f, b)>>
    BY <2>3, <2>4 DEF Silence
  <2>6. ebuf[f] = FromFilters(f, b - 1)
    BY <1>3
  <2>7. ~run => zero /\ ebuf[f] = {}
    BY <1>2 DEF RunEvaluation, ZeroFlagsTrue
  <2> HIDE DEF src, zero, mixed, run
  <2>8. CASE run
    BY <2>2, <2>5, <2>6, <2>8 DEF ConvolveEval
  <2>9. CASE ~run
    BY <2>2, <2>4, <2>5, <2>6, <2>7, <2>9
  <2> QED BY <2>8, <2>9
<1>7. Slot(p, D) = Ring(b - 1 + D) /\ Slot(p, 0) = Ring(b - 1) /\ \A i \in Nat : Slot(p, -i) = Ring(b - 1 - i)
  <2>1. \A i \in Int : Slot(p, i) = Ring(b - 1 + i)
    BY DEF Slot, Ring
  <2>2. \A i \in Nat : -i \in Int /\ b - 1 + (-i) = b - 1 - i
    BY <1>2
  <2> QED BY <1>3, <2>1, <2>2
<1>8. \A y \in Int : Ring(y) \in DOMAIN cbuf[f]
  BY <1>2, RingOK DEF Shapes
<1>9. q.ring[Ring(b - 1 + D)] = Window(Ideal, f, b)
  <2> DEFINE flt == conf.filters[f]
             quiet == (flt.src = {} \/ ev.zero) /\ flt.in \subseteq fzero[p]
             W == {fbuf[ch] : ch \in flt.in} \cup (IF flt.src = {} THEN {} ELSE {ev.win})
             mixed == MixWindows(W)
             last == Slot(p, D)
  <2>1. q = IF ~quiet \/ ~conf.powersave
            THEN [ring |-> [cbuf[f] EXCEPT ![last] = mixed], zeros |-> czero[f] \ {last}]
            ELSE [ring |-> [cbuf[f] EXCEPT ![last] = IF last \in czero[f] THEN @ ELSE Silence],
                  zeros |-> czero[f] \cup {last}]
    BY Zenon DEF Enqueue, q
  <2>2. last \in DOMAIN cbuf[f]
    BY <1>2, <1>7, <1>8
  <2>3. last \in czero[f] => cbuf[f][last] = Silence
    BY <1>2 DEF ZeroFlagsTrue
  <2>4. quiet => mixed = Silence
    <3>0. \A ch \in fzero[p] : fbuf[ch] = Silence
      BY <1>2 DEF ZeroFlagsTrue
    <3>1. quiet => \A w \in W : w = Silence
      BY <1>6, <3>0
    <3> HIDE DEF W
    <3> HIDE DEF quiet
    <3>2. quiet => \A w \in W : w[1] = {} /\ w[2] = {}
      BY <3>1 DEF Silence
    <3>3. quiet => UNION {w[1] : w \in W} = {} /\ UNION {w[2] : w \in W} = {}
      BY <3>2
    <3> QED BY <3>3 DEF MixWindows, Silence
  <2>5. \A h \in 1..2, w \in {b - 1, b} : (h = 1 /\ w = b - 1) \/ (h = 2 /\ w = b) =>
          UNION {v[h] : v \in W} = Source(Ideal, f, w)
    <3> SUFFICES ASSUME NEW h \in 1..2, NEW w \in {b - 1, b}, (h = 1 /\ w = b - 1) \/ (h = 2 /\ w = b)
                 PROVE  UNION {v[h] : v \in W} = Source(Ideal, f, w)
      OBVIOUS
    <3>1. \A ch \in flt.in : fbuf[ch][h] = SignalAt(ch, w)
      BY <1>2, <1>5
    <3>2. flt.src # {} => ev.win[h] = FromFilters(f, w)
      BY <1>2, <1>6
    <3>3. UNION {v[h] : v \in W} = (UNION {fbuf[ch][h] : ch \in flt.in}) \cup (IF flt.src = {} THEN {} ELSE ev.win[h])
      OBVIOUS
    <3>4. {fbuf[ch][h] : ch \in flt.in} = {SignalAt(ch, w) : ch \in flt.in}
      BY <3>1
    <3>5. UNION {v[h] : v \in W} = (UNION {SignalAt(ch, w) : ch \in flt.in}) \cup FromFilters(f, w)
      <4>1. flt.src = {} => FromFilters(f, w) = {}
        BY DEF FromFilters
      <4> HIDE DEF W
      <4> QED BY <3>2, <3>3, <3>4, <4>1
    <3> HIDE DEF W, flt
    <3>6. CASE w < 1
      BY <3>5, <3>6 DEF Source, SignalAt, FromFilters
    <3>7. CASE ~(w < 1)
      <4>1. {SignalAt(ch, w) : ch \in flt.in} = {Signal(ch, w) : ch \in flt.in}
        BY <3>7 DEF SignalAt
      <4>2. Source(Ideal, f, w) = UNION ({Signal(ch, w) : ch \in flt.in} \cup {Ideal[<<g, w>>] : g \in flt.src})
        BY <3>7 DEF Source, flt
      <4> QED BY <3>5, <3>7, <4>1, <4>2 DEF FromFilters, flt
    <3> QED BY <3>6, <3>7
  <2>6. mixed = Window(Ideal, f, b)
    <3>1. UNION {v[1] : v \in W} = Source(Ideal, f, b - 1) /\ UNION {v[2] : v \in W} = Source(Ideal, f, b)
      <4>1. 1 \in 1..2 /\ 2 \in 1..2 /\ b - 1 \in {b - 1, b} /\ b \in {b - 1, b}
        OBVIOUS
      <4> HIDE DEF W
      <4> QED BY <2>5, <4>1
    <3> QED BY <3>1 DEF MixWindows, Window
  <2> HIDE DEF quiet, mixed, W
  <2>7. q.ring[last] = mixed
    <3>1. CASE ~quiet \/ ~conf.powersave
      <4>1. q = [ring |-> [cbuf[f] EXCEPT ![last] = mixed], zeros |-> czero[f] \ {last}]
        BY <2>1, <3>1
      <4> HIDE DEF last
      <4> QED BY <2>2, <4>1
    <3>2. CASE quiet /\ conf.powersave
      <4>1. q = [ring |-> [cbuf[f] EXCEPT ![last] = IF last \in czero[f] THEN @ ELSE Silence],
                  zeros |-> czero[f] \cup {last}]
        BY <2>1, <3>2
      <4> HIDE DEF last
      <4>2. q.ring[last] = Silence
        BY <2>2, <2>3, <4>1
      <4> QED BY <2>4, <3>2, <4>2
    <3> QED BY <3>1, <3>2
  <2> QED BY <1>7, <2>6, <2>7
<1>10. ASSUME NEW y \in b - 1 - (conf.nblocks - 1 - D)..b - 1 - 1 + D
       PROVE  q.ring[Ring(y)] = cbuf[f][Ring(y)] /\ q.ring[Ring(y)] = Window(Ideal, f, y - D + 1)
  <2>1. /\ y \in Int /\ b - 1 + D \in Int /\ 0 < (b - 1 + D) - y /\ (b - 1 + D) - y < conf.nblocks
    BY <1>2
  <2>2. Ring(b - 1 + D) # Ring(y)
    BY <1>2, <2>1, RingApart
  <2>3. Ring(y) \in DOMAIN cbuf[f] /\ Ring(y) # Slot(p, DelayBlocks(f))
    BY <1>7, <1>8, <2>1, <2>2
  <2>4. q.ring[Ring(y)] = cbuf[f][Ring(y)]
    BY <2>3, EnqueueOther DEF q
  <2> QED BY <1>3, <2>4
<1>11. /\ DOMAIN q.ring = 0..conf.nblocks - 1
       /\ \A s \in q.zeros : q.ring[s] = Silence
  BY <1>2, EnqueueZero DEF q
<1>12. \A y \in b - 1 - (conf.nblocks - 1 - D)..b - 1 + D : q.ring[Ring(y)] = Window(Ideal, f, y - D + 1)
  <2> SUFFICES ASSUME NEW y \in b - 1 - (conf.nblocks - 1 - D)..b - 1 + D
               PROVE  q.ring[Ring(y)] = Window(Ideal, f, y - D + 1)
    OBVIOUS
  <2>1. CASE y = b - 1 + D
    <3>1. y - D + 1 = b
      BY <1>2, <2>1
    <3> QED BY <1>9, <2>1, <3>1
  <2>2. CASE y # b - 1 + D
    <3>1. y \in b - 1 - (conf.nblocks - 1 - D)..b - 1 - 1 + D
      BY <1>2, <2>2
    <3> QED BY <1>10, <3>1
  <2> QED BY <2>1, <2>2
<1>13. D <= conf.nblocks - 1 /\ coeff \in Coefficient /\ prev \in Coefficient
  <2>1. -1 \in Coefficient /\ Reach(f, -1) = 1
    BY DEF Coefficient, Reach
  <2>2. Reach(f, -1) <= conf.nblocks - DelayBlocks(f)
    BY <1>2, <2>1, ReachOK
  <2>3. coeff \in Coefficient
    BY FilterTypes DEF coeff
  <2> QED BY <1>2, <2>1, <2>2, <2>3 DEF Types, prev
<1>14. LeftOut(p, k) /\ Heard(p, k) \in Int /\ Heard(p, k) <= conf.nblocks
  BY <1>2, RunsOK DEF PartsInv
<1>15. ASSUME NEW c \in Coefficient, Reach(f, c) <= Heard(p, k)
       PROVE  SumAdds(p, f, q, c, Reach(f, c), pb, Convolve(q.ring[slot], f, c)) = Sum(Ideal, f, c, b)
  <2> DEFINE F(i) == Filtered(q.ring[Ring(b - 1 - i)], f, c, i)
             adds == AddSlots(p, q, Reach(f, c), pb)
             more == {Filtered(q.ring[Slot(p, -i)], f, c, i) : i \in adds}
             all == {F(i) : i \in 0..Reach(f, c) - 1}
  <2>1. SumAdds(p, f, q, c, Reach(f, c), pb, Convolve(q.ring[slot], f, c))
          = Convolve(q.ring[slot], f, c) \cup UNION more
    BY DEF SumAdds, ConvolveAdd
  <2>2. Reach(f, c) \in Int /\ Reach(f, c) <= conf.nblocks - D
    BY <1>2, ReachOK
  <2>3. adds \subseteq 1..Reach(f, c) - 1
    BY DEF AddSlots, Behind
  <2>4. CASE c < 0
    <3>1. Reach(f, c) = 1
      BY <2>4 DEF Reach
    <3>2. adds = {}
      BY <2>3, <3>1
    <3> HIDE DEF adds
    <3>3. b - 1 \in b - 1 - (conf.nblocks - 1 - D)..b - 1 + D /\ b - 1 - D + 1 = b - 0 - D
      BY <1>2, <1>13
    <3>4. q.ring[slot] = Window(Ideal, f, b - 0 - D)
      BY <1>7, <1>12, <3>3
    <3>5. Sum(Ideal, f, c, b) = DiracConvolve(Window(Ideal, f, b - 0 - D), f)
      BY <2>4 DEF Sum
    <3>6. Convolve(q.ring[slot], f, c) = DiracConvolve(q.ring[slot], f)
      BY <2>4 DEF Convolve
    <3>7. more = {}
      BY <3>2
    <3> HIDE DEF more
    <3> QED BY <2>1, <3>4, <3>5, <3>6, <3>7
  <2>5. CASE ~(c < 0)
    <3>1. Reach(f, c) = Partitions(f, c) /\ Reach(f, c) >= 1
      <4>1. c \in DOMAIN conf.coeffs
        BY <2>5 DEF Coefficient
      <4>2. Blocks(c) >= 1 /\ Blocks(c) \in Nat
        BY <1>2, <4>1, ConfDealt, ConfOK DEF Blocks
      <4> QED BY <1>2, <1>13, <2>5, <4>2 DEF Reach, Partitions
    <3>2. ASSUME NEW i \in 0..Reach(f, c) - 1
          PROVE  q.ring[Ring(b - 1 - i)] = Window(Ideal, f, b - i - D)
      <4>1. b - 1 - i \in b - 1 - (conf.nblocks - 1 - D)..b - 1 + D /\ b - 1 - i - D + 1 = b - i - D
        BY <1>2, <1>13, <2>2
      <4> QED BY <1>12, <4>1
    <3>3. ASSUME NEW i \in 1..Reach(f, c) - 1, i \notin adds PROVE F(i) = {}
      <4>1. q.ring[Ring(b - 1 - i)] = Silence
        <5>1. CASE i < pb
          <6>1. conf.powersave /\ Slot(p, -i) \in q.zeros
            BY <3>3, <5>1 DEF AddSlots, Behind
          <6> QED BY <1>7, <1>11, <6>1
        <5>2. CASE ~(i < pb)
          <6>1. i > procblocks[f] /\ i \in 1..Heard(p, k) - 1
            <7>1. procblocks[f] \in 0..conf.nblocks
              BY DEF PartsInv
            <7> QED BY <1>2, <1>14, <1>15, <2>2, <5>2, <7>1 DEF Processed, pb
          <6>2. cbuf[f][Ring(b - 1 - i)] = Silence
            BY <1>3, <1>14, <6>1 DEF LeftOut
          <6>3. b - 1 - i \in b - 1 - (conf.nblocks - 1 - D)..b - 1 - 1 + D
            BY <1>2, <2>2
          <6> QED BY <1>10, <6>2, <6>3
        <5> QED BY <5>1, <5>2
      <4> QED BY <4>1 DEF Filtered, Hop, Silence
    <3>4. \A i \in adds : Filtered(q.ring[Slot(p, -i)], f, c, i) = F(i)
      BY <1>7, <2>3
    <3>5. Convolve(q.ring[slot], f, c) = F(0)
      BY <1>2, <1>3, <1>7, <2>5 DEF Convolve
    <3>6. Sum(Ideal, f, c, b) = UNION all
      <4>1. all = {Filtered(Window(Ideal, f, b - i - D), f, c, i) : i \in 0..Reach(f, c) - 1}
        BY <3>2
      <4>2. Sum(Ideal, f, c, b) = UNION {Filtered(Window(Ideal, f, b - i - DelayBlocks(f)), f, c, i) : i \in 0..Partitions(f, c) - 1}
        BY <2>5 DEF Sum
      <4> HIDE DEF all
      <4> QED BY <3>1, <4>1, <4>2
    <3> HIDE DEF F
    <3>7. \A i \in 0..Reach(f, c) - 1 : i = 0 \/ i \in 1..Reach(f, c) - 1
      BY <2>2
    <3>8. 0 \in 0..Reach(f, c) - 1 /\ \A i \in adds : i \in 0..Reach(f, c) - 1
      BY <2>2, <2>3, <3>1
    <3>9. more = {F(i) : i \in adds}
      BY <3>4
    <3> HIDE DEF adds, more
    <3>10. F(0) \cup UNION more = UNION all
      BY <3>3, <3>7, <3>8, <3>9
    <3> HIDE DEF all
    <3> QED BY <2>1, <3>5, <3>6, <3>10
  <2> QED BY <2>4, <2>5
<1>16. n <= Heard(p, k)
  <2>1. k >= idx[p]
    BY <1>2
  <2> QED BY <1>1, <1>2, <2>1, NextReach DEF PartsApply, n, coeff
<1>17. m <= Heard(p, k) \/ ~fading
  <2>1. m \in Int /\ m <= conf.nblocks - D
    BY <1>2, <1>13, ReachOK DEF m
  <2>2. CASE ~conf.powersave
    BY <2>1, <2>2 DEF Heard
  <2>3. CASE conf.powersave /\ fading
    <3>1. conf.nblocks = 1
      BY <2>3 DEF SettingsApply, fading
    <3>2. m = 1 /\ n = 1
      <4>1. \A c \in Coefficient : Reach(f, c) >= 1 /\ Reach(f, c) <= 1 /\ Reach(f, c) \in Int
        <5> SUFFICES ASSUME NEW c \in Coefficient PROVE Reach(f, c) >= 1 /\ Reach(f, c) <= 1 /\ Reach(f, c) \in Int
          OBVIOUS
        <5>1. c \in DOMAIN conf.coeffs => Blocks(c) >= 1 /\ Blocks(c) \in Nat
          BY <1>2, ConfDealt, ConfOK DEF Blocks
        <5>2. Reach(f, c) \in Int /\ Reach(f, c) <= 1
          BY <1>2, <3>1, ReachOK
        <5> QED BY <1>13, <3>1, <5>1, <5>2 DEF Coefficient, Reach, Partitions
      <4> QED BY <1>13, <4>1 DEF n, m
    <3> QED BY <1>16, <3>2
  <2> QED BY <2>2, <2>3
<1>18. active \/ q.ring[slot] = Silence
  BY <1>11 DEF active
<1>19. \A c : Convolve(Silence, f, c) = {}
  BY DEF Convolve, DiracConvolve, Filtered, Hop, Silence
<1>20. out = Sum(Ideal, f, coeff, b)
  <2>1. out0 = Convolve(q.ring[slot], f, coeff)
    BY <1>2, <1>18, <1>19 DEF ZeroFlagsTrue, out0
  <2> HIDE DEF slot
  <2> QED BY <1>13, <1>15, <1>16, <2>1 DEF out, n
<1>21. fading /\ active => old = Sum(Ideal, f, prev, b)
  <2> SUFFICES ASSUME fading, active PROVE old = Sum(Ideal, f, prev, b)
    OBVIOUS
  <2>1. old0 = Convolve(q.ring[slot], f, prev)
    BY DEF old0
  <2> HIDE DEF slot
  <2> QED BY <1>13, <1>15, <1>17, <2>1 DEF old, m
<1>22. fading /\ ~active => iszero /\ Sum(Ideal, f, coeff, b) = {} /\ Sum(Ideal, f, prev, b) = {}
  <2> SUFFICES ASSUME fading, ~active PROVE iszero /\ Sum(Ideal, f, coeff, b) = {} /\ Sum(Ideal, f, prev, b) = {}
    OBVIOUS
  <2>1. conf.nblocks = 1
    BY DEF SettingsApply, fading, active
  <2>2. \A c \in Coefficient : Reach(f, c) \in Int /\ Reach(f, c) <= 1
    BY <1>2, <2>1, ReachOK
  <2>3. \A c \in Coefficient : Behind(Reach(f, c), pb) = {} /\ AddSlots(p, q, Reach(f, c), pb) = {}
    BY <2>2 DEF Behind, AddSlots
  <2>4. iszero
    BY <1>13, <2>3 DEF iszero, n, m
  <2>5. \A c \in Coefficient : SumAdds(p, f, q, c, Reach(f, c), pb, Convolve(q.ring[slot], f, c)) = {}
    <3> SUFFICES ASSUME NEW c \in Coefficient
                 PROVE  SumAdds(p, f, q, c, Reach(f, c), pb, Convolve(q.ring[slot], f, c)) = {}
      OBVIOUS
    <3>1. Convolve(q.ring[slot], f, c) = {}
      BY <1>18, <1>19
    <3>2. AddSlots(p, q, Reach(f, c), pb) = {}
      BY <2>3
    <3> HIDE DEF slot
    <3> QED BY <3>1, <3>2 DEF SumAdds, ConvolveAdd
  <2>6. Sum(Ideal, f, coeff, b) = {}
    BY <1>13, <1>15, <1>16, <2>5 DEF n
  <2>7. Sum(Ideal, f, prev, b) = {}
    BY <1>13, <1>15, <1>17, <2>5 DEF m
  <2> QED BY <2>4, <2>6, <2>7
<1>23. coeff = UsedCoeff(f, b)
  <2>1. f \in FiltersOf(p) /\ \A r \in Procs : f \in FiltersOf(r) => r = p
    BY <1>2, ConfOK DEF FiltersOf
  <2>2. ProcOf(f) = p
    BY <2>1 DEF ProcOf
  <2> QED BY <1>2, <2>2 DEF UsedCoeff, Copy, coeff
<1>24. Output(Ideal, f, b) = IF fading THEN Hop(Sum(Ideal, f, coeff, b), f, FadeIn, 0, 0) \cup Hop(Sum(Ideal, f, prev, b), f, FadeOut, 0, 0)
                             ELSE Sum(Ideal, f, coeff, b)
  BY <1>3, <1>23 DEF Output, fading
<1>25. fading => conf.realsize = 4
  BY DEF SettingsApply, fading
<1>26. result = Output(Ideal, f, b)
  <2>1. faded <=> fading /\ active
    BY <1>22 DEF faded, iszero
  <2>2. result = IF fading /\ active THEN Crossfade(f, out, old) ELSE out
    BY <2>1 DEF result
  <2>3. CASE fading /\ active
    <3>1. Crossfade(f, out, old) = Hop(out, f, FadeIn, 0, 0) \cup Hop(old, f, FadeOut, 0, 0)
      BY <1>25, <2>3 DEF Crossfade
    <3> QED BY <1>20, <1>21, <1>24, <2>2, <2>3, <3>1
  <2>4. CASE fading /\ ~active
    <3>1. \A h : Hop({}, f, h, 0, 0) = {}
      BY DEF Hop
    <3> QED BY <1>20, <1>22, <1>24, <2>2, <2>4, <3>1
  <2>5. CASE ~fading
    BY <1>20, <1>24, <2>2, <2>5
  <2> QED BY <2>3, <2>4, <2>5
<1>27. Ideal[<<f, b>>] = Output(Ideal, f, b)
  BY <1>2, IdealDefined DEF Recursive
<1>28. /\ ocbuf'[f] = result /\ prevcoeff'[f] = coeff /\ ebuf'[f] = ev.kept
       /\ cbuf'[f] = Aliased(q.ring, result)
  BY <1>1, <1>2 DEF Shapes, Types
<1>29. conf.nblocks # 1 =>
         \A y \in b - (conf.nblocks - 1 - D)..b - 1 + D : cbuf'[f][Ring(y)] = Window(Ideal, f, y - D + 1)
  <2>1. \A y \in b - (conf.nblocks - 1 - D)..b - 1 + D : y \in b - 1 - (conf.nblocks - 1 - D)..b - 1 + D
    BY <1>2
  <2> QED BY <1>12, <1>28, <2>1 DEF Aliased
<1> QED BY <1>6, <1>23, <1>26, <1>27, <1>28, <1>29

\* What is in the ring stays until the filter runs again; its output, until all filters have run.
LEMMA FilterNext ==
    ASSUME Types, Meetings, Delivered, ZeroInv, PartsInv, ReadInv, FilterInv, SettingsApply, HistoryGrows, [Next]_vars
    PROVE  FilterInv'
<1>0. /\ pc \in [Procs -> Before \cup Working] /\ idx \in [Procs -> Nat \ {0}]
      /\ blk \in [Procs -> Nat \ {0}] /\ conf \in Confs /\ conf.nblocks \in Nat \ {0} /\ conf.last \in Nat
      /\ Shapes
  BY ConfOK, ConfDealt DEF Types, SettingsApply, PartsApply, ZeroInv
<1>a. /\ conf' = conf /\ Procs' = Procs
      /\ \A f : DelayBlocks(f)' = DelayBlocks(f)
      /\ \A y : Ring(y)' = Ring(y)
  BY DEF HistoryGrows, Procs, DelayBlocks, Ring
<1>b. ASSUME NEW f \in Filters PROVE DelayBlocks(f) \in Nat /\ DelayBlocks(f) <= conf.nblocks - 1
  <2>1. -1 \in Coefficient /\ Reach(f, -1) = 1
    BY DEF Coefficient, Reach
  <2>2. Reach(f, -1) <= conf.nblocks - DelayBlocks(f) /\ DelayBlocks(f) \in Nat
    BY <1>0, <2>1, ReachOK, DelayOK
  <2> QED BY <1>0, <2>1, <2>2
<1>c. ASSUME NEW p \in Procs, NEW n \in DOMAIN conf.order[p]
      PROVE  /\ n \in Nat \ {0} /\ conf.order[p][n] \in Filters /\ Runs(p, n) \in Nat /\ Runs(p, n) <= conf.last
             /\ \A m \in 1..Runs(p, n) : Settled(m)
  <2>1. conf.order[p] \in Seq(Filters)
    BY <1>0, ConfOK
  <2>2. n \in Nat \ {0} /\ conf.order[p][n] \in Filters /\ Runs(p, n) \in Nat
    BY <2>1, RunsOK
  <2>3. Runs(p, n) = blk[p] - 1 \/ (Runs(p, n) = blk[p] /\ pc[p] \in {"filter", "mixed", "write"})
    BY <1>0 DEF Runs, AfterFilter
  <2> QED BY <1>0, <2>2, <2>3, SettledOK DEF Working
<1>1. ASSUME NEW p \in Procs, NEW n \in DOMAIN conf.order[p], NEW f \in Filters, f = conf.order[p][n],
             Runs(p, n)' = Runs(p, n), ebuf'[f] = ebuf[f], prevcoeff'[f] = prevcoeff[f],
             conf.nblocks # 1 => cbuf'[f] = cbuf[f],
             pc'[p] = "filter" /\ n < idx'[p] => pc[p] = "filter" /\ n < idx[p] /\ ocbuf'[f] = ocbuf[f]
      PROVE  Filled(p, n)'
  <2>1. PICK N \in Nat : N = Runs(p, n)
    BY <1>c
  <2>2. PICK D \in Nat : D = DelayBlocks(f) /\ D <= conf.nblocks - 1
    BY <1>b
  <2>3. \A m \in Int : m <= N =>
          /\ Window(Ideal, f, m)' = Window(Ideal, f, m)
          /\ FromFilters(f, m)' = FromFilters(f, m)
          /\ m >= 0 => UsedCoeff(f, m)' = UsedCoeff(f, m)
          /\ m >= 1 => Ideal'[<<f, m>>] = Ideal[<<f, m>>]
    <3> SUFFICES ASSUME NEW m \in Int, m <= N
                 PROVE  /\ Window(Ideal, f, m)' = Window(Ideal, f, m)
                        /\ FromFilters(f, m)' = FromFilters(f, m)
                        /\ m >= 0 => UsedCoeff(f, m)' = UsedCoeff(f, m)
                        /\ m >= 1 => Ideal'[<<f, m>>] = Ideal[<<f, m>>]
      OBVIOUS
    <3>1. N <= conf.last /\ \A j \in 1..N : Settled(j)
      BY <1>c, <2>1
    <3>2. /\ Window(Ideal, conf.order[p][n], m)' = Window(Ideal, conf.order[p][n], m)
          /\ FromFilters(conf.order[p][n], m)' = FromFilters(conf.order[p][n], m)
          /\ m >= 0 => UsedCoeff(conf.order[p][n], m)' = UsedCoeff(conf.order[p][n], m)
          /\ m >= 1 => Ideal'[<<conf.order[p][n], m>>] = Ideal[<<conf.order[p][n], m>>]
      BY <1>0, <3>1, HistoryStable
    <3> QED BY <1>1, <1>a, <3>2
  <2>4. /\ \A y \in N - (conf.nblocks - 1 - D)..N - 1 + D : cbuf[f][Ring(y)] = Window(Ideal, f, y - D + 1)
        /\ conf.filters[f].src # {} => ebuf[f] = FromFilters(f, N)
        /\ prevcoeff[f] = UsedCoeff(f, N)
        /\ pc[p] = "filter" /\ n < idx[p] => ocbuf[f] = Ideal[<<f, N>>]
    BY <1>1, <2>1, <2>2 DEF FilterInv, Filled
  <2>5. \A y \in N - (conf.nblocks - 1 - D)..N - 1 + D : cbuf'[f][Ring(y)] = Window(Ideal, f, y - D + 1)'
    <3> SUFFICES ASSUME NEW y \in N - (conf.nblocks - 1 - D)..N - 1 + D
                 PROVE  cbuf'[f][Ring(y)] = Window(Ideal, f, y - D + 1)'
      OBVIOUS
    <3>1. conf.nblocks # 1 /\ y - D + 1 \in Int /\ y - D + 1 <= N
      BY <1>0, <2>2
    <3>2. Window(Ideal, f, y - D + 1)' = Window(Ideal, f, y - D + 1)
      BY <2>3, <3>1
    <3> QED BY <1>1, <2>4, <3>1, <3>2
  <2>6. conf.filters[f].src # {} => ebuf'[f] = FromFilters(f, N)'
    BY <1>1, <2>3, <2>4
  <2>7. prevcoeff'[f] = UsedCoeff(f, N)'
    BY <1>1, <2>3, <2>4
  <2>8. pc'[p] = "filter" /\ n < idx'[p] => ocbuf'[f] = Ideal'[<<f, N>>]
    <3> SUFFICES ASSUME pc'[p] = "filter", n < idx'[p] PROVE ocbuf'[f] = Ideal'[<<f, N>>]
      OBVIOUS
    <3>1. pc[p] = "filter" /\ n < idx[p]
      BY <1>1
    <3>2. N >= 1
      BY <1>0, <2>1, <3>1 DEF Runs
    <3> QED BY <1>1, <2>3, <2>4, <3>1, <3>2
  <2>9. /\ conf'.order[p][n] = f /\ Runs(p, n)' = N /\ DelayBlocks(f)' = D /\ conf'.nblocks = conf.nblocks
        /\ conf'.filters[f] = conf.filters[f]
    BY <1>1, <1>a, <2>1, <2>2
  <2> QED BY <1>a, <2>5, <2>6, <2>7, <2>8, <2>9 DEF Filled
<1>2. ASSUME NEW p \in Procs, Filter(p)
      PROVE  FilterInv'
  <2>1. /\ UNCHANGED <<conf, pc, blk>> /\ pc[p] = "filter" /\ idx[p] <= Len(conf.order[p])
        /\ idx' = [idx EXCEPT ![p] = @ + 1]
        /\ \E f \in Filters : f = conf.order[p][idx[p]]
        /\ \E new, kept, out, set :
              /\ cbuf' = [cbuf EXCEPT ![conf.order[p][idx[p]]] = new]
              /\ ebuf' = [ebuf EXCEPT ![conf.order[p][idx[p]]] = kept]
              /\ ocbuf' = [ocbuf EXCEPT ![conf.order[p][idx[p]]] = out]
              /\ prevcoeff' = [prevcoeff EXCEPT ![conf.order[p][idx[p]]] = set]
    <3>1. /\ UNCHANGED <<conf, pc, blk>> /\ pc[p] = "filter" /\ idx[p] <= Len(conf.order[p])
          /\ idx' = [idx EXCEPT ![p] = @ + 1]
          /\ \E new, kept, out, set :
                /\ cbuf' = [cbuf EXCEPT ![conf.order[p][idx[p]]] = new]
                /\ ebuf' = [ebuf EXCEPT ![conf.order[p][idx[p]]] = kept]
                /\ ocbuf' = [ocbuf EXCEPT ![conf.order[p][idx[p]]] = out]
                /\ prevcoeff' = [prevcoeff EXCEPT ![conf.order[p][idx[p]]] = set]
      BY <1>2, Zenon DEF Filter
    <3>2. \E f \in Filters : f = conf.order[p][idx[p]]
      BY <1>2, FilterTypes
    <3> QED BY <3>1, <3>2
  <2>2. PICK k \in DOMAIN conf.order[p] : k = idx[p]
    <3>1. conf.order[p] \in Seq(Filters)
      BY <1>0, ConfOK
    <3> QED BY <1>0, <2>1, <3>1
  <2>3. PICK f \in Filters : f = conf.order[p][k]
    BY <2>1, <2>2
  <2>4. PICK b \in 1..conf.last : b = blk[p] /\ \A m \in 1..b : Settled(m)
    BY <2>1, SettledOK DEF Working
  <2>5. PICK D \in Nat : D = DelayBlocks(f) /\ D <= conf.nblocks - 1
    BY <1>b
  <2>6. /\ conf.nblocks # 1 =>
             \A y \in b - (conf.nblocks - 1 - D)..b - 1 + D : cbuf'[f][Ring(y)] = Window(Ideal, f, y - D + 1)
        /\ conf.filters[f].src # {} => ebuf'[f] = FromFilters(f, b)
        /\ prevcoeff'[f] = UsedCoeff(f, b)
        /\ ocbuf'[f] = Ideal[<<f, b>>]
    BY <1>2, <2>2, <2>3, <2>4, <2>5, Filtering
  <2>7. \A g \in Filters : g # f => /\ cbuf'[g] = cbuf[g] /\ ebuf'[g] = ebuf[g]
                                    /\ ocbuf'[g] = ocbuf[g] /\ prevcoeff'[g] = prevcoeff[g]
    <3>1. DOMAIN cbuf = Filters /\ DOMAIN ebuf = Filters /\ DOMAIN ocbuf = Filters /\ DOMAIN prevcoeff = Filters
      BY <1>0 DEF Shapes, Types
    <3> QED BY <2>1, <2>2, <2>3, <3>1
  <2> SUFFICES ASSUME NEW q \in Procs, NEW n \in DOMAIN conf.order[q]
               PROVE  Filled(q, n)'
    BY <1>a DEF FilterInv
  <2>8. CASE ~(q = p /\ n = k)
    <3>1. PICK g \in Filters : g = conf.order[q][n]
      BY <1>c
    <3>2. g # f
      <4>1. conf.order[p][k] = conf.order[q][n] => p = q /\ k = n
        BY <1>0, <2>2, ConfOK
      <4> QED BY <2>3, <2>8, <3>1, <4>1
    <3>3. n < idx'[q] <=> n < idx[q]
      <4>1. CASE q = p
        <5>1. idx'[q] = idx[q] + 1 /\ n # idx[q] /\ idx[q] \in Nat /\ n \in Nat
          BY <1>0, <1>c, <2>1, <2>2, <2>8, <4>1
        <5> QED BY <5>1
      <4>2. CASE q # p
        BY <1>0, <2>1, <4>2
      <4> QED BY <4>1, <4>2
    <3>4. Runs(q, n)' = Runs(q, n)
      BY <2>1, <3>3 DEF Runs
    <3> QED BY <1>1, <2>1, <2>7, <3>1, <3>2, <3>3, <3>4
  <2>9. CASE q = p /\ n = k
    <3>1. idx'[p] = k + 1 /\ k \in Nat /\ pc'[p] = "filter" /\ blk'[p] = b
      BY <1>0, <1>c, <2>1, <2>2, <2>4
    <3>2. k < idx'[p] /\ b - 1 + 1 = b /\ b \in Nat
      BY <3>1
    <3>3. Runs(p, k)' = b
      BY <3>1, <3>2 DEF Runs
    <3>4. \A m \in Int : m <= b =>
            /\ Window(Ideal, f, m)' = Window(Ideal, f, m)
            /\ FromFilters(f, m)' = FromFilters(f, m)
            /\ m >= 0 => UsedCoeff(f, m)' = UsedCoeff(f, m)
            /\ m >= 1 => Ideal'[<<f, m>>] = Ideal[<<f, m>>]
      <4> SUFFICES ASSUME NEW m \in Int, m <= b
                   PROVE  /\ Window(Ideal, f, m)' = Window(Ideal, f, m)
                          /\ FromFilters(f, m)' = FromFilters(f, m)
                          /\ m >= 0 => UsedCoeff(f, m)' = UsedCoeff(f, m)
                          /\ m >= 1 => Ideal'[<<f, m>>] = Ideal[<<f, m>>]
        OBVIOUS
      <4>1. /\ Window(Ideal, conf.order[p][k], m)' = Window(Ideal, conf.order[p][k], m)
            /\ FromFilters(conf.order[p][k], m)' = FromFilters(conf.order[p][k], m)
            /\ m >= 0 => UsedCoeff(conf.order[p][k], m)' = UsedCoeff(conf.order[p][k], m)
            /\ m >= 1 => Ideal'[<<conf.order[p][k], m>>] = Ideal[<<conf.order[p][k], m>>]
        <5>1. b <= conf.last /\ b \in Nat
          BY <1>0
        <5> QED BY <1>0, <2>4, <5>1, HistoryStable
      <4> QED BY <2>3, <1>a, <4>1
    <3>5. \A y \in b - (conf.nblocks - 1 - D)..b - 1 + D : cbuf'[f][Ring(y)] = Window(Ideal, f, y - D + 1)'
      <4> SUFFICES ASSUME NEW y \in b - (conf.nblocks - 1 - D)..b - 1 + D
                   PROVE  cbuf'[f][Ring(y)] = Window(Ideal, f, y - D + 1)'
        OBVIOUS
      <4>1. conf.nblocks # 1 /\ y - D + 1 \in Int /\ y - D + 1 <= b
        BY <1>0, <2>5
      <4>2. Window(Ideal, f, y - D + 1)' = Window(Ideal, f, y - D + 1)
        BY <3>4, <4>1
      <4> QED BY <2>6, <4>1, <4>2
    <3>6. conf.filters[f].src # {} => ebuf'[f] = FromFilters(f, b)'
      BY <2>6, <3>2, <3>4
    <3>7. prevcoeff'[f] = UsedCoeff(f, b)' /\ ocbuf'[f] = Ideal'[<<f, b>>]
      BY <2>6, <3>2, <3>4
    <3>8. /\ conf'.order[p][k] = f /\ DelayBlocks(f)' = D /\ conf'.nblocks = conf.nblocks
          /\ conf'.filters[f] = conf.filters[f]
      BY <1>a, <2>3, <2>5
    <3>9. Filled(p, k)'
      BY <1>a, <3>3, <3>5, <3>6, <3>7, <3>8 DEF Filled
    <3> QED BY <2>9, <3>9
  <2> QED BY <2>8, <2>9
<1> SUFFICES ASSUME \A p \in Procs : ~Filter(p) PROVE FilterInv'
  BY <1>2
<1>3. ASSUME UNCHANGED <<ebuf, prevcoeff>>,
             conf.nblocks # 1 => \A f \in Filters : cbuf'[f] = cbuf[f],
             \A p \in Procs : \A n \in DOMAIN conf.order[p] : pc'[p] = "filter" /\ n < idx'[p] =>
                 pc[p] = "filter" /\ n < idx[p] /\ ocbuf'[conf.order[p][n]] = ocbuf[conf.order[p][n]]
      PROVE  FilterInv'
  <2> SUFFICES ASSUME NEW p \in Procs, NEW n \in DOMAIN conf.order[p]
               PROVE  Filled(p, n)'
    BY <1>a DEF FilterInv
  <2>1. PICK f \in Filters : f = conf.order[p][n]
    BY <1>c
  <2>2. Runs(p, n)' = Runs(p, n)
    BY RunsNext
  <2> QED BY <1>1, <1>3, <2>1, <2>2
<1>4. CASE UNCHANGED vars \/ NewInput \/ ChangeControl
  <2>1. UNCHANGED <<pc, idx, ebuf, prevcoeff, cbuf, ocbuf>>
    BY <1>4 DEF vars, bufs, NewInput, ChangeControl
  <2> QED BY <1>3, <2>1
<1>5. ASSUME NEW p \in Procs,
             \/ BlockStart(p) \/ HooksDone(p) \/ CopyControl(p) \/ InputsRead(p)
             \/ InputsSynched(p) \/ MixOutputs(p) \/ OutputsSynched(p) \/ EndBlock(p)
      PROVE  FilterInv'
  <2>1. /\ UNCHANGED <<ebuf, prevcoeff, cbuf, ocbuf>> /\ idx' = [idx EXCEPT ![p] = 1]
        /\ \E stage : pc' = [pc EXCEPT ![p] = stage]
    BY <1>5, Zenon DEF BlockStart, HooksDone, CopyControl, InputsRead, InputsSynched, MixOutputs, OutputsSynched,
                       EndBlock, bufs, Goto
  <2>2. \A q \in Procs : q # p => pc'[q] = pc[q] /\ idx'[q] = idx[q]
    BY <1>0, <2>1
  <2>3. \A n \in DOMAIN conf.order[p] : ~(n < idx'[p])
    BY <1>0, <1>c, <2>1
  <2> QED BY <1>3, <2>1, <2>2, <2>3
<1>6. ASSUME NEW p \in Procs, ReadInput(p) \/ WriteOutput(p)
      PROVE  FilterInv'
  <2>1. /\ UNCHANGED <<pc, ebuf, prevcoeff>> /\ pc[p] # "filter" /\ idx' = [idx EXCEPT ![p] = @ + 1]
        /\ UNCHANGED cbuf \/ \E block : cbuf' = [cbuf EXCEPT ![First(p)] = Aliased(@, block)]
        /\ UNCHANGED ocbuf \/ \E block : ocbuf' = [ocbuf EXCEPT ![First(p)] = block]
    BY <1>6, Zenon DEF ReadInput, WriteOutput
  <2>2. ASSUME conf.nblocks # 1, NEW f \in Filters PROVE cbuf'[f] = cbuf[f]
    BY <1>0, <2>1, <2>2 DEF Shapes, Aliased
  <2>3. ASSUME NEW q \in Procs, NEW n \in DOMAIN conf.order[q], pc'[q] = "filter", n < idx'[q]
        PROVE  pc[q] = "filter" /\ n < idx[q] /\ ocbuf'[conf.order[q][n]] = ocbuf[conf.order[q][n]]
    <3>1. q # p /\ pc[q] = "filter" /\ n < idx[q]
      BY <1>0, <2>1, <2>3
    <3>2. conf.order[q][n] # First(p) /\ conf.order[q][n] \in Filters
      <4>1. conf.order[p] \in Seq(Filters) /\ conf.order[p] # <<>>
        BY <1>0, ConfOK
      <4>2. 1 \in DOMAIN conf.order[p]
        BY <4>1
      <4> QED BY <1>0, <1>c, <3>1, <4>2, ConfOK DEF First
    <3> QED BY <1>0, <2>1, <3>1, <3>2 DEF Shapes
  <2> QED BY <1>3, <2>1, <2>2, <2>3
<1> QED
  BY <1>4, <1>5, <1>6 DEF Next

-----------------------------------------------------------------------------
(* Outputs *)

\* The last block mixed for the outputs of process p.
Mixed(p) == IF pc[p] \in AfterFilter THEN blk[p] ELSE blk[p] - 1

MixInv == \A p \in Procs : \A o \in ProcOutputs(p) : outf[o] = IdealChannel(o, Mixed(p))

\* The outputs are mixed at once, from what all filters of the process put out.
LEMMA MixNext ==
    ASSUME Types, Meetings, Delivered, ZeroInv, FilterInv, FlagsApply, MixInv, HistoryGrows, [Next]_vars
    PROVE  MixInv'
<1>0. /\ pc \in [Procs -> Before \cup Working] /\ idx \in [Procs -> Nat \ {0}]
      /\ blk \in [Procs -> Nat \ {0}] /\ conf \in Confs /\ conf.last \in Nat
      /\ Shapes /\ ZeroFlagsTrue
  BY ConfDealt DEF Types, ZeroInv
<1>a. /\ conf' = conf /\ Procs' = Procs /\ Filters' = Filters /\ \A p : ProcOutputs(p)' = ProcOutputs(p)
  BY DEF HistoryGrows, Procs, Filters, ProcOutputs, FiltersOf
<1>b. ASSUME NEW p \in Procs PROVE Mixed(p) \in Nat /\ Mixed(p) <= conf.last /\ \A m \in 1..Mixed(p) : Settled(m)
  <2>1. CASE pc[p] \in AfterFilter
    <3>1. pc[p] \in {"filter", "mixed", "write"} /\ pc[p] \in Working
      BY <2>1 DEF AfterFilter, Working
    <3> QED BY <1>0, <2>1, <3>1, SettledOK DEF Mixed
  <2>2. CASE pc[p] \notin AfterFilter
    BY <1>0, <2>2, SettledOK DEF Mixed
  <2> QED BY <2>1, <2>2
<1>1. ASSUME NEW p \in Procs, Mixed(p)' = Mixed(p), \A o \in ProcOutputs(p) : outf'[o] = outf[o]
      PROVE  \A o \in ProcOutputs(p) : outf'[o] = IdealChannel(o, Mixed(p))'
  <2> SUFFICES ASSUME NEW o \in ProcOutputs(p) PROVE outf'[o] = IdealChannel(o, Mixed(p))'
    OBVIOUS
  <2>1. PICK N \in Nat : N = Mixed(p) /\ N <= conf.last /\ \A m \in 1..N : Settled(m)
    BY <1>b
  <2>2. IdealChannel(o, N)' = IdealChannel(o, N)
    BY <1>0, <2>1, HistoryStable
  <2>3. outf[o] = IdealChannel(o, N)
    BY <2>1 DEF MixInv
  <2> QED BY <1>1, <2>1, <2>2, <2>3
<1>2. ASSUME NEW p \in Procs, MixOutputs(p)
      PROVE  MixInv'
  <2> DEFINE feeds(o) == {f \in FiltersOf(p) : o \in conf.filters[f].out}
             run(o) == ~conf.powersave \/ ~(feeds(o) \subseteq ozero)
             outs == ProcOutputs(p)
  <2>1. /\ pc[p] = "filter" /\ idx[p] > Len(conf.order[p]) /\ UNCHANGED blk
        /\ pc' = [pc EXCEPT ![p] = "mixed"]
        /\ outf' = [o \in OutCh |->
                      IF o \notin outs THEN outf[o]
                      ELSE IF run(o) THEN UNION {ocbuf[f] : f \in feeds(o)}
                      ELSE IF o \in outzero[p] THEN outf[o] ELSE {}]
    BY <1>2, Zenon DEF MixOutputs, Goto
  <2>2. \A o : feeds(o) = {f \in FiltersOf(p) : o \in conf.filters[f].out} /\ run(o) = (~conf.powersave \/ ~(feeds(o) \subseteq ozero))
    OBVIOUS
  <2> HIDE DEF feeds, run, outs
  <2>3. PICK b \in 1..conf.last : b = blk[p] /\ \A m \in 1..b : Settled(m)
    BY <2>1, SettledOK DEF Working
  <2>4. ASSUME NEW f \in FiltersOf(p) PROVE f \in Filters /\ ocbuf[f] = Ideal[<<f, b>>]
    <3>1. PICK n \in DOMAIN conf.order[p] : f = conf.order[p][n]
      BY <2>4 DEF FiltersOf
    <3>2. conf.order[p] \in Seq(Filters)
      BY <1>0, ConfOK
    <3>3. n \in Nat /\ n < idx[p] /\ b - 1 + 1 = b
      BY <1>0, <2>1, <3>2
    <3>4. Runs(p, n) = b
      BY <2>1, <2>3, <3>3 DEF Runs
    <3>5. pc[p] = "filter" /\ n < idx[p] => ocbuf[conf.order[p][n]] = Ideal[<<conf.order[p][n], Runs(p, n)>>]
      BY DEF FilterInv, Filled
    <3> QED BY <2>1, <3>1, <3>2, <3>3, <3>4, <3>5
  <2>5. ASSUME NEW o \in outs PROVE feeds(o) = {g \in Filters : o \in conf.filters[g].out}
    <3>1. ASSUME NEW g \in Filters, o \in conf.filters[g].out PROVE g \in FiltersOf(p)
      <4>1. PICK q \in Procs : \E n \in DOMAIN conf.order[q] : g = conf.order[q][n]
        BY <1>0, ConfDealt
      <4>2. g \in FiltersOf(q)
        BY <4>1 DEF FiltersOf
      <4>3. o \in ProcOutputs(q) /\ o \in ProcOutputs(p)
        BY <2>5, <3>1, <4>2 DEF ProcOutputs, outs
      <4>4. q = p
        BY <1>0, <4>3, ConfOK
      <4> QED BY <4>2, <4>4
    <3> QED BY <2>2, <2>4, <3>1
  <2>6. ASSUME NEW o \in outs PROVE outf'[o] = IdealChannel(o, b)
    <3> DEFINE sent == {ocbuf[f] : f \in feeds(o)}
    <3>1. o \in OutCh
      BY <1>0, ConfOK DEF outs
    <3>2. sent = {Ideal[<<f, b>>] : f \in feeds(o)}
      BY <2>2, <2>4
    <3>3. ~run(o) => \A x \in sent : x = {}
      BY <1>0, <2>2, <2>4 DEF ZeroFlagsTrue
    <3>4. o \in outzero[p] => outf[o] = {}
      BY <1>0 DEF ZeroFlagsTrue
    <3>5. ~(b < 1)
      OBVIOUS
    <3>6. IdealChannel(o, b) = UNION {Ideal[<<f, b>>] : f \in feeds(o)}
      BY <2>5, <3>5 DEF IdealChannel
    <3>7. outf'[o] = IF run(o) THEN UNION sent ELSE IF o \in outzero[p] THEN outf[o] ELSE {}
      BY <2>1, <3>1
    <3> HIDE DEF sent
    <3>8. ~run(o) => UNION sent = {}
      BY <3>3
    <3> QED BY <3>2, <3>4, <3>6, <3>7, <3>8
  <2> SUFFICES ASSUME NEW q \in Procs
               PROVE  \A o \in ProcOutputs(q) : outf'[o] = IdealChannel(o, Mixed(q))'
    BY <1>a DEF MixInv
  <2>7. CASE q = p
    <3>1. Mixed(q)' = b
      BY <1>0, <2>1, <2>3, <2>7 DEF Mixed, AfterFilter
    <3>2. b \in Nat /\ b <= conf.last /\ b <= b
      BY <1>0
    <3>3. \A o : IdealChannel(o, b)' = IdealChannel(o, b)
      BY <1>0, <2>3, <3>2, HistoryStable
    <3> QED BY <2>6, <2>7, <3>1, <3>3 DEF outs
  <2>8. CASE q # p
    <3>1. Mixed(q)' = Mixed(q)
      BY <1>0, <2>1, <2>8 DEF Mixed
    <3>2. \A o \in ProcOutputs(q) : o \in OutCh /\ o \notin outs
      BY <1>0, <2>8, ConfOK DEF outs
    <3>3. \A o \in ProcOutputs(q) : outf'[o] = outf[o]
      BY <2>1, <3>2
    <3> QED BY <1>1, <3>1, <3>3
  <2> QED BY <2>7, <2>8
<1>3. ASSUME UNCHANGED outf, \A p \in Procs : Mixed(p)' = Mixed(p)
      PROVE  MixInv'
  BY <1>1, <1>3, <1>a DEF MixInv
<1>4. CASE UNCHANGED vars \/ NewInput \/ ChangeControl
  <2>1. UNCHANGED <<pc, blk, outf>>
    BY <1>4 DEF vars, bufs, NewInput, ChangeControl
  <2> QED BY <1>3, <2>1 DEF Mixed
<1>5. ASSUME NEW p \in Procs,
             \/ BlockStart(p) \/ HooksDone(p) \/ CopyControl(p) \/ InputsRead(p) \/ InputsSynched(p)
             \/ ReadInput(p) \/ Filter(p) \/ WriteOutput(p) \/ OutputsSynched(p)
      PROVE  MixInv'
  <2>1. /\ UNCHANGED <<outf, blk>>
        /\ \E stage : pc' = [pc EXCEPT ![p] = stage] /\ (stage \in AfterFilter <=> pc[p] \in AfterFilter)
    <3>1. CASE ReadInput(p) \/ Filter(p) \/ WriteOutput(p)
      <4>1. UNCHANGED <<pc, blk, outf>>
        BY <3>1, Zenon DEF ReadInput, Filter, WriteOutput
      <4>2. pc' = [pc EXCEPT ![p] = pc[p]]
        BY <1>0, <4>1
      <4> QED BY <4>1, <4>2
    <3>2. CASE \/ BlockStart(p) \/ HooksDone(p) \/ CopyControl(p) \/ InputsRead(p) \/ InputsSynched(p)
               \/ OutputsSynched(p)
      BY <3>2, Zenon DEF BlockStart, HooksDone, CopyControl, InputsRead, InputsSynched, OutputsSynched, bufs, Goto, AfterFilter
    <3> QED BY <1>5, <3>1, <3>2
  <2> QED BY <1>0, <1>3, <2>1 DEF Mixed
<1>6. ASSUME NEW p \in Procs, EndBlock(p)
      PROVE  MixInv'
  <2>1. /\ UNCHANGED outf /\ blk' = [blk EXCEPT ![p] = @ + 1] /\ pc[p] = "write"
        /\ \E stage \in {"done", "start"} : pc' = [pc EXCEPT ![p] = stage]
    BY <1>6 DEF EndBlock, bufs, Goto
  <2>2. blk[p] + 1 - 1 = blk[p]
    BY <1>0
  <2>3. \A q \in Procs : Mixed(q)' = Mixed(q)
    BY <1>0, <2>1, <2>2 DEF Mixed, AfterFilter
  <2> QED BY <1>3, <2>1, <2>3
<1> QED
  BY <1>2, <1>4, <1>5, <1>6 DEF Next

\* The next output that process p writes, and the last block it has written for its output number k.
Written(p) == IF pc[p] = "write" THEN idx[p] ELSE 1
Sent(p, k) == blk[p] - 1 + (IF k < Written(p) THEN 1 ELSE 0)

\* The virtual channels of ph are being added up in mixbuf: those heard so far.
Summing(p, i, K, ph) ==
    LET heard == {k \in i..Written(p) - 1 : conf.procout[p][k] \notin Copy(p).mute}
    IN  Written(p) \in i..i + K - 1 =>
          /\ mix[p] = [filled |-> heard # {}, j |-> Written(p) - i]
          /\ heard # {} /\ (\A o \in Virt(ph) : Fed(o)) =>
                scratch[p][2] = UNION {Due(conf.procout[p][k], blk[p]) : k \in heard}

\* What has left on ph.
OnOutput(p, i, K, ph) ==
    LET b == Sent(p, i + K - 1)
    IN  /\ raw[ph] \in Seq(Listed(raw[ph])) /\ Len(raw[ph]) = b
        /\ b > 0 /\ (\A o \in Virt(ph) : Fed(o)) => raw[ph][b] = IdealOutput(ph, b)

\* The delay lines hold the block before; what is shared is written with the last channel.
WriteInv ==
    /\ DOMAIN odelay = OutCh /\ DOMAIN mix = Procs /\ DOMAIN raw = Phys(conf.physOut)
    /\ \A p \in Procs :
          /\ Written(p) > Len(conf.procout[p]) => mix[p] = [filled |-> FALSE, j |-> 0]
          /\ \A k \in DOMAIN conf.procout[p] :
                LET o == conf.procout[p][k]
                IN  o \in conf.delayed /\ Fed(o) => odelay[o] = IdealChannel(o, Sent(p, k))
          /\ \A ph \in Phys(conf.physOut), i, K \in Nat \ {0} :
                Together(p, i, K, ph) => Summing(p, i, K, ph) /\ OnOutput(p, i, K, ph)

\* One output is written: it joins the sum of its physical channel, or completes it.
LEMMA WriteNext ==
    ASSUME Types, Meetings, Delivered, ZeroInv, FlagsApply, MixInv, WriteInv, HistoryGrows, [Next]_vars
    PROVE  WriteInv'
<1>0. /\ pc \in [Procs -> Before \cup Working] /\ idx \in [Procs -> Nat \ {0}]
      /\ blk \in [Procs -> Nat \ {0}] /\ conf \in Confs /\ conf.last \in Nat
      /\ Shapes /\ ZeroFlagsTrue /\ FlagsOff
      /\ DOMAIN odelay = OutCh /\ DOMAIN mix = Procs /\ DOMAIN raw = Phys(conf.physOut)
  BY ConfDealt DEF Types, ZeroInv, WriteInv
<1>a. /\ conf' = conf /\ Procs' = Procs /\ OutCh' = OutCh /\ Phys(conf.physOut)' = Phys(conf.physOut)
      /\ \A ph : Virt(ph)' = Virt(ph)
      /\ \A o : Fed(o)' <=> Fed(o)
      /\ \A p, i, K, ph : Together(p, i, K, ph)' <=> Together(p, i, K, ph)
  BY DEF HistoryGrows, Procs, OutCh, Virt, Fed, Filters, Together
<1>b. ASSUME NEW p \in Procs
      PROVE  /\ DOMAIN conf.procout[p] = 1..Len(conf.procout[p]) /\ Len(conf.procout[p]) \in Nat
             /\ \A k \in DOMAIN conf.procout[p] : k \in Nat \ {0} /\ conf.procout[p][k] \in OutCh
  <2>1. conf.procout[p] \in Seq(OutCh)
    BY <1>0, ConfOK
  <2> QED BY <2>1
<1>c. ASSUME NEW p \in Procs, NEW k \in Nat \ {0}
      PROVE  /\ Written(p) \in Nat \ {0} /\ Sent(p, k) \in Nat /\ Sent(p, k) <= conf.last
             /\ \A m \in 1..Sent(p, k) : Settled(m)
  <2>1. CASE pc[p] = "write" /\ k < Written(p)
    <3>1. pc[p] \in {"filter", "mixed", "write"} /\ pc[p] \in Working
      BY <2>1 DEF Working
    <3>2. blk[p] - 1 + 1 = blk[p]
      BY <1>0
    <3> QED BY <1>0, <2>1, <3>1, <3>2, SettledOK DEF Written, Sent
  <2>2. CASE ~(pc[p] = "write" /\ k < Written(p))
    <3>1. ~(k < Written(p))
      BY <2>2 DEF Written
    <3>2. blk[p] - 1 + 0 = blk[p] - 1
      BY <1>0
    <3> QED BY <1>0, <3>1, <3>2, SettledOK DEF Written, Sent
  <2> QED BY <2>1, <2>2
<1>1. ASSUME NEW p \in Procs, NEW k \in DOMAIN conf.procout[p], NEW o, o = conf.procout[p][k],
             Sent(p, k)' = Sent(p, k), odelay'[o] = odelay[o]
      PROVE  o \in conf.delayed /\ Fed(o) => odelay'[o] = IdealChannel(o, Sent(p, k))'
  <2> SUFFICES ASSUME o \in conf.delayed, Fed(o) PROVE odelay'[o] = IdealChannel(o, Sent(p, k))'
    OBVIOUS
  <2>1. PICK N \in Nat : N = Sent(p, k) /\ N <= conf.last /\ \A m \in 1..N : Settled(m)
    BY <1>b, <1>c
  <2>2. IdealChannel(o, N)' = IdealChannel(o, N)
    BY <1>0, <2>1, HistoryStable
  <2>3. odelay[o] = IdealChannel(o, N)
    BY <1>1, <2>1 DEF WriteInv
  <2> QED BY <1>1, <2>1, <2>2, <2>3
<1>2. ASSUME NEW p \in Procs, NEW ph \in Phys(conf.physOut), NEW i \in Nat \ {0}, NEW K \in Nat \ {0},
             Together(p, i, K, ph), Sent(p, i + K - 1)' = Sent(p, i + K - 1), raw'[ph] = raw[ph]
      PROVE  OnOutput(p, i, K, ph)'
  <2>1. PICK N \in Nat : N = Sent(p, i + K - 1) /\ N <= conf.last /\ \A m \in 1..N : Settled(m)
    BY <1>c
  <2>2. N >= 1 => IdealOutput(ph, N)' = IdealOutput(ph, N)
    BY <1>0, <2>1, HistoryStable
  <2>3. /\ raw[ph] \in Seq(Listed(raw[ph])) /\ Len(raw[ph]) = N
        /\ N > 0 /\ (\A o \in Virt(ph) : Fed(o)) => raw[ph][N] = IdealOutput(ph, N)
    BY <1>2, <2>1 DEF WriteInv, OnOutput
  <2>4. /\ raw'[ph] \in Seq(Listed(raw'[ph])) /\ Len(raw'[ph]) = N
        /\ N > 0 /\ (\A o \in Virt(ph)' : Fed(o)') => raw'[ph][N] = IdealOutput(ph, N)'
    BY <1>2, <1>a, <2>2, <2>3
  <2> QED BY <1>2, <2>1, <2>4 DEF OnOutput, Listed
<1>3. ASSUME NEW p \in Procs, mix'[p] = mix[p], blk'[p] = blk[p], Written(p)' = Written(p),
             pc[p] = "write" => scratch'[p] = scratch[p]
      PROVE  /\ Written(p)' > Len(conf.procout[p]) => mix'[p] = [filled |-> FALSE, j |-> 0]
             /\ \A ph \in Phys(conf.physOut), i, K \in Nat \ {0} : Together(p, i, K, ph) => Summing(p, i, K, ph)'
  <2>1. Written(p)' > Len(conf.procout[p]) => mix'[p] = [filled |-> FALSE, j |-> 0]
    BY <1>3 DEF WriteInv
  <2> SUFFICES ASSUME NEW ph \in Phys(conf.physOut), NEW i \in Nat \ {0}, NEW K \in Nat \ {0}, Together(p, i, K, ph)
               PROVE  Summing(p, i, K, ph)'
    BY <2>1
  <2> DEFINE heard == {k \in i..Written(p) - 1 : conf.procout[p][k] \notin Copy(p).mute}
  <2>2. PICK w \in Nat \ {0} : w = Written(p)
    BY <1>c
  <2>3. Written(p)' = w
    BY <1>3, <2>2
  <2>4. w \in i..i + K - 1 =>
          /\ mix[p] = [filled |-> heard # {}, j |-> w - i]
          /\ heard # {} /\ (\A o \in Virt(ph) : Fed(o)) =>
                scratch[p][2] = UNION {Due(conf.procout[p][k], blk[p]) : k \in heard}
    BY <2>2 DEF WriteInv, Summing
  <2>5. CASE pc[p] # "write"
    <3>1. w = 1 /\ i..w - 1 = {}
      BY <2>2, <2>5 DEF Written
    <3>2. heard = {} /\ heard' = {}
      BY <2>2, <2>3, <3>1
    <3> HIDE DEF heard
    <3>3. w \in i..i + K - 1 => /\ mix'[p] = [filled |-> heard' # {}, j |-> w - i] /\ heard' = {}
      BY <1>3, <2>4, <3>2
    <3> QED BY <2>3, <3>3 DEF Summing, heard
  <2>6. CASE pc[p] = "write"
    <3>1. PICK b \in 1..conf.last : b = blk[p] /\ b \in DOMAIN copies[p] /\ \A m \in 1..b : Settled(m)
      BY <2>6, SettledOK DEF Working
    <3>2. Copy(p)' = Copy(p)
      BY <1>3, <3>1 DEF Copy, HistoryGrows
    <3>3. heard' = heard
      BY <1>a, <2>2, <2>3, <3>2
    <3>4. b \in Nat /\ b <= conf.last
      BY <1>0
    <3>5. \A o : Due(o, b)' = Due(o, b)
      BY <1>0, <3>1, <3>4, HistoryStable
    <3> DEFINE terms == {Due(conf.procout[p][k], blk[p]) : k \in heard}
    <3> HIDE DEF heard
    <3>6. terms = {Due(conf.procout[p][k], b) : k \in heard} /\ terms' = {Due(conf.procout[p][k], b)' : k \in heard}
      BY <1>3, <1>a, <3>1, <3>3
    <3>7. terms' = terms
      BY <3>5, <3>6, <1>a
    <3>8. w \in i..i + K - 1 =>
            /\ mix'[p] = [filled |-> heard' # {}, j |-> w - i]
            /\ heard' # {} /\ (\A o \in Virt(ph)' : Fed(o)') => scratch'[p][2] = UNION terms'
      <4> HIDE DEF terms
      <4>1. w \in i..i + K - 1 =>
              /\ mix[p] = [filled |-> heard # {}, j |-> w - i]
              /\ heard # {} /\ (\A o \in Virt(ph) : Fed(o)) => scratch[p][2] = UNION terms
        BY <2>4 DEF terms
      <4> QED BY <1>3, <1>a, <2>6, <3>3, <3>7, <4>1
    <3> QED BY <2>3, <3>8 DEF Summing, heard, terms
  <2> QED BY <2>5, <2>6
<1>4. ASSUME DOMAIN odelay' = OutCh, DOMAIN mix' = Procs, DOMAIN raw' = Phys(conf.physOut),
             \A p \in Procs :
               /\ Written(p)' > Len(conf.procout[p]) => mix'[p] = [filled |-> FALSE, j |-> 0]
               /\ \A k \in DOMAIN conf.procout[p] :
                    conf.procout[p][k] \in conf.delayed /\ Fed(conf.procout[p][k]) =>
                      odelay'[conf.procout[p][k]] = IdealChannel(conf.procout[p][k], Sent(p, k))'
               /\ \A ph \in Phys(conf.physOut), i, K \in Nat \ {0} :
                    Together(p, i, K, ph) => Summing(p, i, K, ph)' /\ OnOutput(p, i, K, ph)'
      PROVE  WriteInv'
  BY <1>4, <1>a DEF WriteInv
<1>5. ASSUME NEW p \in Procs, WriteOutput(p)
      PROVE  WriteInv'
  <2> DEFINE o == conf.procout[p][idx[p]]
             f0 == First(p)
             ph == conf.physOut[o]
             run == ~conf.powersave \/ o \notin outzero[p]
             time == IF run THEN outf[o] ELSE IF f0 \in ozero THEN ocbuf[f0] ELSE {}
             held == conf.delayed \cap {o} # {}
             delayed == IF held THEN odelay[o] ELSE time
             heard == o \notin Copy(p).mute
             filled == mix[p].filled \/ heard
             sum == IF heard THEN (IF mix[p].filled THEN scratch[p][2] \cup delayed ELSE delayed)
                    ELSE scratch[p][2]
             last == mix[p].j + 1 = Cardinality(Virt(ph))
             shared == Shared(conf.physOut, o)
  <2>1. /\ UNCHANGED <<conf, pc, blk, copies>> /\ pc[p] = "write" /\ idx[p] <= Len(conf.procout[p])
        /\ idx' = [idx EXCEPT ![p] = @ + 1]
    BY <1>5, Zenon DEF WriteOutput
  <2>2. ~shared => /\ raw' = [raw EXCEPT ![ph] = Append(@, time)]
                   /\ UNCHANGED <<odelay, mix, scratch>>
    BY <1>5, Zenon DEF WriteOutput
  <2>3. shared =>
          /\ odelay' = [odelay EXCEPT ![o] = IF held THEN time ELSE @]
          /\ scratch' = [scratch EXCEPT ![p] = IF heard THEN <<{}, sum>>
                                               ELSE IF last /\ ~filled THEN <<@[1], {}>> ELSE @]
          /\ mix' = [mix EXCEPT ![p] = IF last THEN [filled |-> FALSE, j |-> 0]
                                       ELSE [filled |-> filled, j |-> @.j + 1]]
          /\ raw' = IF last THEN [raw EXCEPT ![ph] = Append(@, IF filled THEN sum ELSE {})] ELSE raw
    BY <1>5, Zenon DEF WriteOutput
  <2> HIDE DEF o, f0, ph, run, time, held, delayed, heard, filled, sum, last, shared
  <2>4. PICK k \in DOMAIN conf.procout[p] : k = idx[p]
    BY <1>0, <1>b, <2>1
  <2>5. /\ k \in Nat \ {0} /\ o = conf.procout[p][k] /\ o \in OutCh /\ ph \in Phys(conf.physOut) /\ o \in Virt(ph)
        /\ ph = conf.physOut[o]
    <3>1. o = conf.procout[p][k] /\ ph = conf.physOut[o]
      BY <2>4 DEF o, ph
    <3> QED BY <1>b, <3>1 DEF Phys, Virt, MappedTo, OutCh
  <2>6. PICK b \in 1..conf.last : b = blk[p] /\ b \in DOMAIN copies[p] /\ \A m \in 1..b : Settled(m)
    BY <2>1, SettledOK DEF Working
  <2>7. b \in Nat \ {0} /\ b <= conf.last /\ b - 1 \in Nat /\ b - 1 + 1 = b /\ b - 1 + 0 = b - 1
    BY <1>0
  <2>8. PICK i \in Nat \ {0}, K \in Nat \ {0} : Together(p, i, K, ph) /\ k \in i..i + K - 1 /\ (shared <=> K > 1)
    <3>1. PICK q \in Procs : \E i, K \in Nat \ {0} : Together(q, i, K, ph)
      BY <1>0, <2>5, ConfDealt
    <3>2. PICK i \in Nat \ {0}, K \in Nat \ {0} : Together(q, i, K, ph)
      BY <3>1
    <3>3. \E m \in DOMAIN conf.procout[q] : conf.procout[q][m] = o
      BY <2>5, <3>2 DEF Together
    <3>4. q = p
      BY <1>0, <2>5, <3>3, ConfDealt
    <3>5. k \in i..i + K - 1 /\ (Shared(conf.physOut, conf.procout[p][k]) <=> K > 1)
      BY <1>0, <2>5, <3>2, <3>4, TogetherOK
    <3> QED BY <2>5, <3>2, <3>4, <3>5 DEF shared
  <2>9. Fed(o) => time = IdealChannel(o, b)
    <3> SUFFICES ASSUME Fed(o) PROVE time = IdealChannel(o, b)
      OBVIOUS
    <3>1. PICK q \in Procs : o \in ProcOutputs(q)
      <4>1. PICK f \in Filters : o \in conf.filters[f].out
        BY DEF Fed
      <4>2. PICK q \in Procs : \E n \in DOMAIN conf.order[q] : f = conf.order[q][n]
        BY <1>0, ConfDealt
      <4>3. f \in FiltersOf(q)
        BY <4>2 DEF FiltersOf
      <4> QED BY <4>1, <4>3 DEF ProcOutputs
    <3>2. Mixed(q) = b
      <4>1. blk[q] > b \/ (blk[q] = b /\ pc[q] \in AfterFilter)
        BY <2>1, <2>6 DEF Meetings, At
      <4>2. blk[q] \in Nat /\ blk[p] \in Nat
        BY <1>0
      <4>3. blk[p] >= blk[q] - 1
        BY <4>2 DEF Meetings, At
      <4>4. pc[q] \in AfterFilter => blk[p] >= blk[q]
        <5>1. pc[q] \in AfterFilter => At(p, blk[q], AfterRead)
          BY DEF Meetings, AfterFilter, AfterRead
        <5> QED BY <4>2, <5>1 DEF At
      <4> QED BY <2>6, <2>7, <4>1, <4>2, <4>3, <4>4 DEF Mixed
    <3>3. outf[o] = IdealChannel(o, b)
      BY <3>1, <3>2 DEF MixInv
    <3>4. time = outf[o]
      <4>1. f0 \in Filters
        <5>1. conf.order[p] \in Seq(Filters) /\ conf.order[p] # <<>>
          BY <1>0, ConfOK
        <5> QED BY <5>1 DEF f0, First
      <4>2. ~run => o \in outzero[p]
        BY DEF run
      <4>3. ~run => outf[o] = {} /\ (f0 \in ozero => ocbuf[f0] = {})
        BY <1>0, <4>1, <4>2 DEF ZeroFlagsTrue
      <4> QED BY <4>3 DEF time
    <3> QED BY <3>3, <3>4
  <2>10. Sent(p, k) = b - 1 /\ Written(p) = k /\ Written(p)' = k + 1
    <3>1. Written(p) = k /\ ~(k < k)
      BY <2>1, <2>4, <2>5 DEF Written
    <3>2. Written(p)' = k + 1
      BY <1>0, <2>1, <2>4 DEF Written
    <3> QED BY <2>6, <2>7, <3>1, <3>2 DEF Sent
  <2>11. \A m \in Nat : m # k => Sent(p, m)' = Sent(p, m)
    <3>1. \A m \in Nat : m # k => (m < k + 1 <=> m < k)
      BY <2>5
    <3> QED BY <2>1, <2>10, <3>1 DEF Sent
  <2>12. Sent(p, k)' = b
    <3>1. k < k + 1
      BY <2>5
    <3> QED BY <2>1, <2>6, <2>7, <2>10, <3>1 DEF Sent
  <2>13. Fed(o) => IF shared THEN delayed = Due(o, b) ELSE time = Due(o, b)
    <3>1. held <=> o \in conf.delayed
      BY DEF held
    <3>2. o \in conf.delayed => shared
      BY <1>0, ConfDealt DEF shared
    <3>3. o \in conf.delayed /\ Fed(o) => odelay[o] = IdealChannel(o, b - 1)
      BY <2>5, <2>10 DEF WriteInv
    <3> QED BY <2>9, <3>1, <3>2, <3>3 DEF Due, delayed
  <2> DEFINE hs(n) == {m \in i..n : conf.procout[p][m] \notin Copy(p).mute}
             fed == \A c \in Virt(ph) : Fed(c)
             due(n) == UNION {Due(conf.procout[p][m], b) : m \in hs(n)}
  <2>14. /\ mix[p] = [filled |-> hs(k - 1) # {}, j |-> k - i]
         /\ hs(k - 1) # {} /\ fed => scratch[p][2] = due(k - 1)
    <3>1. Summing(p, i, K, ph)
      BY <2>5, <2>8 DEF WriteInv
    <3> QED BY <2>6, <2>8, <2>10, <3>1 DEF Summing
  <2>15. mix[p].filled = (hs(k - 1) # {}) /\ mix[p].j = k - i
    <3> HIDE DEF hs
    <3>1. PICK some \in BOOLEAN : some = (hs(k - 1) # {})
      OBVIOUS
    <3>2. mix[p] = [filled |-> some, j |-> k - i]
      BY <2>14, <3>1
    <3> QED BY <3>1, <3>2
  <2>16. /\ hs(k) = IF heard THEN hs(k - 1) \cup {k} ELSE hs(k - 1)
         /\ filled <=> hs(k) # {}
         /\ last <=> k = i + K - 1
         /\ due(k) = IF heard THEN due(k - 1) \cup Due(o, b) ELSE due(k - 1)
    <3>1. hs(k) = IF heard THEN hs(k - 1) \cup {k} ELSE hs(k - 1)
      <4>1. \A m \in Int : m \in i..k <=> m \in i..k - 1 \/ m = k
        BY <2>5, <2>8
      <4> QED BY <2>5, <4>1 DEF heard
    <3>2. filled <=> hs(k) # {}
      <4> HIDE DEF hs
      <4>1. heard \in BOOLEAN
        BY DEF heard
      <4> QED BY <2>15, <3>1, <4>1 DEF filled
    <3>3. last <=> k = i + K - 1
      <4>2. Cardinality(Virt(ph)) = K
        BY <2>8 DEF Together
      <4> QED BY <2>5, <2>15, <4>2 DEF last
    <3>4. due(k) = IF heard THEN due(k - 1) \cup Due(o, b) ELSE due(k - 1)
      <4> HIDE DEF hs
      <4> QED BY <2>5, <3>1
    <3> QED BY <3>1, <3>2, <3>3, <3>4
  <2>17. fed => Fed(o)
    BY <2>5
  <2> HIDE DEF hs, due, fed
  <2>18. fed /\ shared /\ filled => sum = due(k)
    <3>1. due(k - 1) = {} \/ hs(k - 1) # {}
      BY DEF due
    <3>3. fed /\ mix[p].filled => scratch[p][2] = due(k - 1)
      BY <2>14, <2>15
    <3>4. fed /\ shared => delayed = Due(o, b)
      BY <2>13, <2>17
    <3>5. ~mix[p].filled => due(k - 1) = {}
      BY <2>15, <3>1
    <3> QED BY <2>16, <3>3, <3>4, <3>5 DEF sum, filled
  <2>19. /\ Copy(p)' = Copy(p)
         /\ \A c : Due(c, b)' = Due(c, b) /\ IdealChannel(c, b)' = IdealChannel(c, b)
         /\ \A phy \in Phys(conf.physOut) : IdealOutput(phy, b)' = IdealOutput(phy, b)
         /\ blk'[p] = b /\ conf' = conf
    <3>1. Copy(p)' = Copy(p)
      BY <2>1, <2>6 DEF Copy
    <3>2. b \in Nat /\ b \in Int /\ b <= conf.last /\ b <= b /\ b >= 1
      BY <1>0
    <3>3. \A c : Due(c, b)' = Due(c, b) /\ IdealChannel(c, b)' = IdealChannel(c, b)
      BY <1>0, <2>6, <3>2, HistoryStable
    <3>4. \A phy \in Phys(conf.physOut) : IdealOutput(phy, b)' = IdealOutput(phy, b)
      BY <1>0, <2>6, <3>2, HistoryStable
    <3> QED BY <2>1, <2>5, <2>6, <3>1, <3>3, <3>4
  <2>20. k = i + K - 1 => IdealOutput(ph, b) = IF shared THEN due(k) ELSE Due(o, b)
    <3> SUFFICES ASSUME k = i + K - 1 PROVE IdealOutput(ph, b) = IF shared THEN due(k) ELSE Due(o, b)
      OBVIOUS
    <3> DEFINE writer(c) == CHOOSE q \in Procs : \E n \in DOMAIN conf.procout[q] : conf.procout[q][n] = c
               loud(c) == Shared(conf.physOut, c) => c \notin copies[writer(c)][b].mute
               some == {v \in Virt(ph) : loud(v)}
    <3>1. \A m \in i..k : m \in DOMAIN conf.procout[p] /\ (Shared(conf.physOut, conf.procout[p][m]) <=> K > 1)
      <4>1. \A m \in i..k : m \in DOMAIN conf.procout[p] /\ m \in i..i + K - 1
        BY <2>8 DEF Together
      <4> QED BY <1>0, <2>5, <2>8, <4>1, TogetherOK
    <3>2. Virt(ph) = {conf.procout[p][m] : m \in i..k}
      BY <2>8 DEF Together
    <3>3. ASSUME NEW m \in i..k PROVE writer(conf.procout[p][m]) = p
      BY <1>0, <3>1, ConfDealt
    <3>4. IdealOutput(ph, b) = UNION {Due(v, b) : v \in some}
      BY DEF IdealOutput
    <3> HIDE DEF writer
    <3>5. \A m \in i..k : loud(conf.procout[p][m]) <=> (K > 1 => conf.procout[p][m] \notin Copy(p).mute)
      BY <2>6, <3>1, <3>3 DEF Copy
    <3> HIDE DEF loud
    <3>6. CASE shared
      <4>1. some = {conf.procout[p][m] : m \in hs(k)}
        BY <2>8, <3>2, <3>5, <3>6 DEF hs
      <4>2. {Due(v, b) : v \in some} = {Due(conf.procout[p][m], b) : m \in hs(k)}
        BY <4>1
      <4> QED BY <3>4, <3>6, <4>2 DEF due
    <3>7. CASE ~shared
      <4>1. K = 1 /\ k = i
        BY <2>8, <3>7
      <4>2. \A m \in i..k : m = k
        BY <4>1, <2>5
      <4>3. k \in i..k
        BY <4>1, <2>5
      <4>4. some = {o}
        BY <2>5, <3>2, <3>5, <4>1, <4>2, <4>3
      <4> QED BY <3>4, <3>7, <4>4
    <3> QED BY <3>6, <3>7
  <2>21. shared /\ ~last =>
           /\ mix'[p] = [filled |-> (hs(k) # {}), j |-> k + 1 - i] /\ raw' = raw
           /\ hs(k) # {} /\ fed => scratch'[p][2] = due(k)
    <3> SUFFICES ASSUME shared, ~last
                 PROVE  /\ mix'[p] = [filled |-> (hs(k) # {}), j |-> k + 1 - i] /\ raw' = raw
                        /\ hs(k) # {} /\ fed => scratch'[p][2] = due(k)
      OBVIOUS
    <3>1. mix'[p] = [filled |-> filled, j |-> mix[p].j + 1]
      BY <1>0, <2>3
    <3>2. mix[p].j + 1 = k + 1 - i
      BY <2>5, <2>15
    <3>3. PICK some \in BOOLEAN : some = (hs(k) # {})
      OBVIOUS
    <3>4. filled = some
      BY <2>15, <2>16, <3>3 DEF filled, heard
    <3>5. mix'[p] = [filled |-> (hs(k) # {}), j |-> k + 1 - i]
      BY <3>1, <3>2, <3>3, <3>4
    <3>6. scratch'[p] = IF heard THEN <<{}, sum>> ELSE scratch[p]
      BY <1>0, <2>3 DEF Shapes
    <3>7. scratch'[p][2] = sum
      BY <3>6 DEF sum
    <3> QED BY <2>3, <2>16, <2>18, <3>5, <3>7
  <2>22. ~(shared /\ ~last) =>
           /\ k = i + K - 1 /\ mix'[p] = [filled |-> FALSE, j |-> 0]
           /\ \E x : raw' = [raw EXCEPT ![ph] = Append(@, x)] /\ (fed => x = IdealOutput(ph, b))
    <3>1. CASE ~shared
      <4>1. k = i /\ K = 1 /\ k = i + K - 1 /\ k - i = 0 /\ i..k - 1 = {}
        BY <2>5, <2>8, <3>1
      <4>2. hs(k - 1) = {}
        BY <4>1 DEF hs
      <4>3. PICK some \in BOOLEAN : some = (hs(k - 1) # {})
        OBVIOUS
      <4>4. mix[p] = [filled |-> some, j |-> 0] /\ some = FALSE
        BY <2>14, <4>1, <4>2, <4>3
      <4>5. mix'[p] = [filled |-> FALSE, j |-> 0]
        BY <2>2, <3>1, <4>4
      <4> QED BY <2>2, <2>13, <2>17, <2>20, <3>1, <4>1, <4>5
    <3>2. CASE shared /\ last
      <4>1. k = i + K - 1 /\ mix'[p] = [filled |-> FALSE, j |-> 0]
        BY <1>0, <2>3, <2>16, <3>2
      <4>2. ~filled => due(k) = {}
        BY <2>16 DEF due
      <4>3. fed => (IF filled THEN sum ELSE {}) = IdealOutput(ph, b)
        BY <2>18, <2>20, <3>2, <4>1, <4>2
      <4> QED BY <2>3, <3>2, <4>1, <4>3
    <3> QED BY <3>1, <3>2
  <2>23. PICK c \in OutCh, h \in Phys(conf.physOut) :
           c = o /\ h = ph /\ h = conf.physOut[c] /\ c = conf.procout[p][k] /\ Together(p, i, K, h)
    BY <2>5, <2>8
  <2>24. \A q \in Procs : \A m \in DOMAIN conf.procout[q] : conf.procout[q][m] = c => q = p /\ m = k
    BY <1>0, <2>23, ConfDealt
  <2>25. ASSUME NEW q \in Procs, NEW m \in DOMAIN conf.procout[q], ~(q = p /\ m = k)
         PROVE  conf.procout[q][m] \in conf.delayed /\ Fed(conf.procout[q][m]) =>
                  odelay'[conf.procout[q][m]] = IdealChannel(conf.procout[q][m], Sent(q, m))'
    <3>1. conf.procout[q][m] # c /\ conf.procout[q][m] \in OutCh /\ m \in Nat
      BY <1>b, <2>24, <2>25
    <3>2. odelay'[conf.procout[q][m]] = odelay[conf.procout[q][m]]
      BY <1>0, <2>2, <2>3, <2>23, <3>1
    <3>3. Sent(q, m)' = Sent(q, m)
      <4>1. CASE q = p
        BY <2>11, <2>25, <3>1, <4>1
      <4>2. CASE q # p
        BY <1>0, <2>1, <4>2 DEF Sent, Written
      <4> QED BY <4>1, <4>2
    <3>4. PICK r : r = conf.procout[q][m]
      OBVIOUS
    <3>5. r \in conf.delayed /\ Fed(r) => odelay'[r] = IdealChannel(r, Sent(q, m))'
      BY <1>1, <3>2, <3>3, <3>4
    <3> QED BY <1>a, <3>4, <3>5
  <2>26. c \in conf.delayed /\ Fed(c) => odelay'[c] = IdealChannel(c, Sent(p, k))'
    <3> SUFFICES ASSUME c \in conf.delayed, Fed(c) PROVE odelay'[c] = IdealChannel(c, Sent(p, k))'
      OBVIOUS
    <3>1. shared /\ held
      BY <1>0, <2>23, ConfDealt DEF shared, held
    <3>2. odelay'[c] = time
      BY <1>0, <2>3, <2>23, <3>1
    <3>3. time = IdealChannel(c, b)
      BY <2>9, <2>23
    <3> QED BY <2>12, <2>19, <3>2, <3>3
  <2>27. \A q \in Procs : q # p => /\ mix'[q] = mix[q] /\ scratch'[q] = scratch[q] /\ blk'[q] = blk[q]
                                   /\ Written(q)' = Written(q) /\ \A m : Sent(q, m)' = Sent(q, m)
    <3>1. \A q \in Procs : q # p => mix'[q] = mix[q] /\ scratch'[q] = scratch[q]
      BY <1>0, <2>2, <2>3 DEF Shapes
    <3>2. \A q \in Procs : q # p => Written(q)' = Written(q)
      BY <1>0, <2>1 DEF Written
    <3> QED BY <2>1, <3>1, <3>2 DEF Sent
  <2>28. ASSUME NEW q \in Procs, NEW g \in Phys(conf.physOut), NEW j \in Nat \ {0}, NEW L \in Nat \ {0},
                Together(q, j, L, g), g # h
         PROVE  OnOutput(q, j, L, g)'
    <3>1. raw'[g] = raw[g]
      BY <1>0, <2>2, <2>3, <2>23, <2>28
    <3>2. j + L - 1 \in DOMAIN conf.procout[q] /\ j + L - 1 \in j..j + L - 1
      <4>1. j + L - 1 \in j..j + L - 1
        OBVIOUS
      <4> QED BY <2>28, <4>1 DEF Together
    <3>3. ~(q = p /\ j + L - 1 = k)
      <4>1. conf.physOut[conf.procout[q][j + L - 1]] = g
        <5>1. conf.procout[q][j + L - 1] \in Virt(g)
          BY <2>28, <3>2 DEF Together
        <5> QED BY <5>1 DEF Virt, MappedTo
      <4> QED BY <2>23, <2>28, <4>1
    <3>4. Sent(q, j + L - 1)' = Sent(q, j + L - 1)
      BY <2>11, <2>27, <3>3
    <3> QED BY <1>2, <2>28, <3>1, <3>4
  <2>29. ASSUME NEW q \in Procs, NEW j \in Nat \ {0}, NEW L \in Nat \ {0}, Together(q, j, L, h)
         PROVE  q = p /\ j = i /\ L = K
    <3>1. q = p
      <4>1. c \in Virt(h)
        BY <2>5, <2>23
      <4>2. \E m \in DOMAIN conf.procout[q] : conf.procout[q][m] = c
        BY <2>29, <4>1 DEF Together
      <4> QED BY <2>24, <4>2
    <3>2. L = K
      BY <2>23, <2>29 DEF Together
    <3>3. i \in i..i + K - 1 /\ j \in j..j + L - 1
      OBVIOUS
    <3>4. i \in DOMAIN conf.procout[p] /\ j \in DOMAIN conf.procout[p]
      BY <2>23, <2>29, <3>1, <3>3 DEF Together
    <3>5. conf.physOut[conf.procout[p][i]] = h
      <4>1. conf.procout[p][i] \in Virt(h)
        BY <2>23, <3>3 DEF Together
      <4> QED BY <4>1 DEF Virt, MappedTo
    <3>6. conf.physOut[conf.procout[p][j]] = h
      <4>1. conf.procout[p][j] \in Virt(h)
        BY <2>29, <3>1, <3>3 DEF Together
      <4> QED BY <4>1 DEF Virt, MappedTo
    <3>7. i \in j..j + L - 1
      BY <1>0, <2>29, <3>1, <3>4, <3>5, TogetherOK
    <3>8. j \in i..i + K - 1
      BY <1>0, <2>23, <3>4, <3>6, TogetherOK
    <3> QED BY <3>1, <3>2, <3>7, <3>8
  <2>30. OnOutput(p, i, K, h)'
    <3>1. CASE shared /\ ~last
      <4>1. i + K - 1 # k /\ i + K - 1 \in Nat
        BY <2>16, <3>1
      <4> QED BY <1>2, <2>11, <2>21, <2>23, <3>1, <4>1
    <3>2. CASE ~(shared /\ ~last)
      <4>1. PICK x : raw' = [raw EXCEPT ![h] = Append(@, x)] /\ (fed => x = IdealOutput(h, b))
        BY <2>22, <2>23, <3>2
      <4>2. k = i + K - 1 /\ Sent(p, i + K - 1) = b - 1 /\ Sent(p, i + K - 1)' = b
        BY <2>10, <2>12, <2>22, <3>2
      <4>3. raw[h] \in Seq(Listed(raw[h])) /\ Len(raw[h]) = b - 1
        BY <2>23, <4>2 DEF WriteInv, OnOutput
      <4>4. raw'[h] = Append(raw[h], x)
        BY <1>0, <4>1
      <4>5. raw'[h] \in Seq(Listed(raw'[h])) /\ Len(raw'[h]) = b /\ raw'[h][b] = x
        <5> DEFINE s == raw[h]
                   S == Listed(raw[h]) \cup {x}
        <5>1. s \in Seq(S)
          BY <4>3
        <5>2. Append(s, x) \in Seq(S) /\ Len(Append(s, x)) = b /\ Append(s, x)[b] = x
          <6> HIDE DEF s, S
          <6>1. x \in S
            BY DEF S
          <6>2. Len(s) = b - 1
            BY <4>3 DEF s
          <6> QED BY <2>7, <5>1, <6>1, <6>2
        <5>3. \A m \in 1..b : Append(s, x)[m] \in Listed(Append(s, x))
          BY <2>7, <5>2 DEF Listed
        <5>4. Append(s, x) \in Seq(Listed(Append(s, x)))
          <6> DEFINE a == Append(s, x)
          <6>1. a \in Seq(S) /\ Len(a) = b /\ b \in Nat /\ \A m \in 1..b : a[m] \in Listed(a)
            BY <2>7, <5>2, <5>3
          <6> HIDE DEF a
          <6>2. a \in Seq(Listed(a))
            BY <6>1
          <6> QED BY <6>2 DEF a
        <5> QED BY <4>4, <5>2, <5>4
      <4>6. (\A d \in Virt(h)' : Fed(d)') => x = IdealOutput(h, b)'
        BY <1>a, <2>19, <2>23, <4>1 DEF fed
      <4>7. Listed(raw[h])' = Listed(raw'[h])
        BY DEF Listed
      <4> QED BY <4>2, <4>5, <4>6, <4>7 DEF OnOutput
    <3> QED BY <3>1, <3>2
  <2>31. Written(p)' > Len(conf.procout[p]) => mix'[p] = [filled |-> FALSE, j |-> 0]
    <3> SUFFICES ASSUME Written(p)' > Len(conf.procout[p]) PROVE mix'[p] = [filled |-> FALSE, j |-> 0]
      OBVIOUS
    <3>1. i + K - 1 \in DOMAIN conf.procout[p]
      <4>1. i + K - 1 \in i..i + K - 1
        OBVIOUS
      <4> QED BY <2>23, <4>1 DEF Together
    <3>2. k = i + K - 1
      BY <1>b, <2>8, <2>10, <3>1
    <3> QED BY <2>16, <2>22, <3>2
  <2>32. ASSUME NEW g \in Phys(conf.physOut), NEW j \in Nat \ {0}, NEW L \in Nat \ {0}, Together(p, j, L, g)
         PROVE  Summing(p, j, L, g)'
    <3> DEFINE now == {m \in j..Written(p) - 1 : conf.procout[p][m] \notin Copy(p).mute}
               terms == {Due(conf.procout[p][m], blk[p]) : m \in now}
    <3>1. now' = {m \in j..k : conf.procout[p][m] \notin Copy(p).mute}
      <4>1. Written(p)' - 1 = k
        BY <2>5, <2>10
      <4> QED BY <1>a, <2>19, <4>1
    <3>2. terms' = {Due(conf.procout[p][m], b) : m \in now'}
      <4> HIDE DEF now
      <4>1. terms' = {Due(conf.procout[p][m], b)' : m \in now'}
        BY <2>19
      <4> QED BY <2>19, <4>1
    <3>3. Summing(p, j, L, g)' <=> (Written(p)' \in j..j + L - 1 =>
            /\ mix'[p] = [filled |-> now' # {}, j |-> Written(p)' - j]
            /\ now' # {} /\ (\A d \in Virt(g)' : Fed(d)') => scratch'[p][2] = UNION terms')
      BY DEF Summing
    <3>4. k + 1 \in j..j + L - 1 =>
            /\ mix'[p] = [filled |-> now' # {}, j |-> k + 1 - j]
            /\ now' # {} /\ (\A d \in Virt(g)' : Fed(d)') => scratch'[p][2] = UNION terms'
      <4> SUFFICES ASSUME k + 1 \in j..j + L - 1
                   PROVE  /\ mix'[p] = [filled |-> now' # {}, j |-> k + 1 - j]
                          /\ now' # {} /\ (\A d \in Virt(g)' : Fed(d)') => scratch'[p][2] = UNION terms'
        OBVIOUS
      <4>3. CASE g = h
        <5>1. j = i /\ L = K
          BY <2>29, <4>3, <2>32
        <5>2. shared /\ ~last
          <6>1. k # i + K - 1
            BY <2>5, <5>1
          <6> QED BY <2>22, <6>1
        <5>3. now' = hs(k)
          BY <3>1, <5>1 DEF hs
        <5>4. UNION terms' = due(k)
          <6> HIDE DEF now, terms
          <6> QED BY <3>2, <5>3 DEF due
        <5>5. (\A d \in Virt(g)' : Fed(d)') => fed
          BY <1>a, <2>23, <4>3 DEF fed
        <5> HIDE DEF now, terms
        <5> QED BY <2>21, <5>1, <5>2, <5>3, <5>4, <5>5
      <4>4. CASE g # h
        <5>0. /\ k + 1 \in DOMAIN conf.procout[p]
              /\ k \in j..j + L - 1 => k \in DOMAIN conf.procout[p]
          BY <2>32 DEF Together
        <5>1. k \notin j..j + L - 1
          BY <1>0, <2>23, <2>32, <4>4, <5>0, TogetherOK
        <5>2. conf.physOut[conf.procout[p][k + 1]] = g
          BY <1>0, <2>32, <5>0, TogetherOK
        <5>3. k + 1 \notin i..i + K - 1
          BY <1>0, <2>23, <4>4, <5>0, <5>2, TogetherOK
        <5>4. j = k + 1 /\ k = i + K - 1
          BY <2>5, <2>8, <5>1, <5>3
        <5>5. now' = {} /\ k + 1 - j = 0
          <6>1. j..k = {}
            BY <2>5, <5>4
          <6> QED BY <2>5, <3>1, <5>4, <6>1
        <5>6. mix'[p] = [filled |-> FALSE, j |-> 0]
          BY <2>16, <2>22, <5>4
        <5> HIDE DEF now, terms
        <5>7. PICK some \in BOOLEAN : some = (now' # {})
          OBVIOUS
        <5>8. some = FALSE
          BY <5>5, <5>7
        <5> QED BY <5>5, <5>6, <5>7, <5>8
      <4> QED BY <4>3, <4>4
    <3> HIDE DEF now, terms
    <3>5. Written(p)' = k + 1
      BY <2>10
    <3>6. Written(p)' \in j..j + L - 1 =>
            /\ mix'[p] = [filled |-> now' # {}, j |-> Written(p)' - j]
            /\ now' # {} /\ (\A d \in Virt(g)' : Fed(d)') => scratch'[p][2] = UNION terms'
      <4>1. Written(p)' - j = k + 1 - j
        BY <2>5, <3>5
      <4> QED BY <3>4, <3>5, <4>1
    <3> QED BY <3>3, <3>6
  <2>33. /\ DOMAIN odelay' = OutCh /\ DOMAIN mix' = Procs /\ DOMAIN raw' = Phys(conf.physOut)
    BY <1>0, <2>2, <2>3
  <2>34. ASSUME NEW q \in Procs
         PROVE  /\ Written(q)' > Len(conf.procout[q]) => mix'[q] = [filled |-> FALSE, j |-> 0]
                /\ \A ph2 \in Phys(conf.physOut), i2, K2 \in Nat \ {0} : Together(q, i2, K2, ph2) => Summing(q, i2, K2, ph2)'
    <3>1. CASE q = p
      BY <2>31, <2>32, <3>1
    <3>2. CASE q # p
      BY <1>3, <2>27, <3>2
    <3> QED BY <3>1, <3>2
  <2>35. ASSUME NEW q \in Procs, NEW m \in DOMAIN conf.procout[q]
         PROVE  conf.procout[q][m] \in conf.delayed /\ Fed(conf.procout[q][m]) =>
                  odelay'[conf.procout[q][m]] = IdealChannel(conf.procout[q][m], Sent(q, m))'
    <3>1. CASE q = p /\ m = k
      BY <1>a, <2>23, <2>26, <3>1
    <3>2. CASE ~(q = p /\ m = k)
      BY <2>25, <3>2
    <3> QED BY <3>1, <3>2
  <2>36. ASSUME NEW q \in Procs, NEW ph2 \in Phys(conf.physOut), NEW i2 \in Nat \ {0}, NEW K2 \in Nat \ {0},
                Together(q, i2, K2, ph2)
         PROVE  OnOutput(q, i2, K2, ph2)'
    <3>1. CASE ph2 = h
      BY <2>29, <2>30, <2>36, <3>1
    <3>2. CASE ph2 # h
      BY <2>28, <2>36, <3>2
    <3> QED BY <3>1, <3>2
  <2> QED BY <1>4, <2>33, <2>34, <2>35, <2>36
<1> SUFFICES ASSUME \A p \in Procs : ~WriteOutput(p) PROVE WriteInv'
  BY <1>5
<1>6. ASSUME UNCHANGED <<odelay, raw, mix>>, \A p \in Procs : \A k \in DOMAIN conf.procout[p] : Sent(p, k)' = Sent(p, k),
             \A p \in Procs :
               /\ Written(p)' > Len(conf.procout[p]) => mix'[p] = [filled |-> FALSE, j |-> 0]
               /\ \A ph \in Phys(conf.physOut), i, K \in Nat \ {0} : Together(p, i, K, ph) => Summing(p, i, K, ph)'
      PROVE  WriteInv'
  <2>1. ASSUME NEW p \in Procs, NEW k \in DOMAIN conf.procout[p]
        PROVE  conf.procout[p][k] \in conf.delayed /\ Fed(conf.procout[p][k]) =>
                 odelay'[conf.procout[p][k]] = IdealChannel(conf.procout[p][k], Sent(p, k))'
    <3>1. PICK o : o = conf.procout[p][k]
      OBVIOUS
    <3>2. o \in conf.delayed /\ Fed(o) => odelay'[o] = IdealChannel(o, Sent(p, k))'
      BY <1>1, <1>6, <3>1
    <3> QED BY <1>a, <3>1, <3>2
  <2>2. ASSUME NEW p \in Procs, NEW ph \in Phys(conf.physOut), NEW i \in Nat \ {0}, NEW K \in Nat \ {0},
               Together(p, i, K, ph)
        PROVE  OnOutput(p, i, K, ph)'
    <3>1. i + K - 1 \in i..i + K - 1
      OBVIOUS
    <3>2. i + K - 1 \in DOMAIN conf.procout[p]
      BY <2>2, <3>1 DEF Together
    <3> QED BY <1>2, <1>6, <2>2, <3>2
  <2>3. DOMAIN odelay' = OutCh /\ DOMAIN mix' = Procs /\ DOMAIN raw' = Phys(conf.physOut)
    BY <1>0, <1>6
  <2> QED BY <1>4, <1>6, <2>1, <2>2, <2>3
<1>7. ASSUME NEW p \in Procs, EndBlock(p)
      PROVE  WriteInv'
  <2>1. /\ UNCHANGED <<odelay, raw, mix, scratch>> /\ blk' = [blk EXCEPT ![p] = @ + 1]
        /\ pc[p] = "write" /\ idx[p] > Len(conf.procout[p]) /\ idx' = [idx EXCEPT ![p] = 1]
        /\ \E stage \in {"done", "start"} : pc' = [pc EXCEPT ![p] = stage]
    BY <1>7 DEF EndBlock, bufs, Goto
  <2>2. /\ Written(p)' = 1 /\ mix'[p] = [filled |-> FALSE, j |-> 0]
        /\ \A q \in Procs : q # p => Written(q)' = Written(q) /\ blk'[q] = blk[q]
    <3>1. Written(p)' = 1
      BY <1>0, <2>1 DEF Written
    <3>2. Written(p) > Len(conf.procout[p])
      BY <2>1 DEF Written
    <3>3. mix'[p] = [filled |-> FALSE, j |-> 0]
      BY <2>1, <3>2 DEF WriteInv
    <3>4. \A q \in Procs : q # p => Written(q)' = Written(q) /\ blk'[q] = blk[q]
      BY <1>0, <2>1 DEF Written
    <3> QED BY <3>1, <3>3, <3>4
  <2>3. ASSUME NEW q \in Procs, NEW k \in DOMAIN conf.procout[q] PROVE Sent(q, k)' = Sent(q, k)
    <3>1. CASE q = p
      <4>1. k \in Nat \ {0} /\ k < idx[p] /\ ~(k < 1)
        BY <1>0, <1>b, <2>1, <3>1
      <4>2. Sent(p, k) = blk[p] - 1 + 1
        BY <2>1, <4>1 DEF Sent, Written
      <4>3. Sent(p, k)' = blk[p] + 1 - 1 + 0
        BY <1>0, <2>1, <2>2, <4>1 DEF Sent
      <4>4. blk[p] \in Nat
        BY <1>0
      <4> QED BY <3>1, <4>2, <4>3, <4>4
    <3>2. CASE q # p
      BY <2>2, <3>2 DEF Sent
    <3> QED BY <3>1, <3>2
  <2>4. ASSUME NEW ph \in Phys(conf.physOut), NEW i \in Nat \ {0}, NEW K \in Nat \ {0}, Together(p, i, K, ph)
        PROVE  Summing(p, i, K, ph)'
    <3> DEFINE now == {m \in i..Written(p) - 1 : conf.procout[p][m] \notin Copy(p).mute}
               terms == {Due(conf.procout[p][m], blk[p]) : m \in now}
    <3>1. now' = {}
      <4>1. i..1 - 1 = {}
        OBVIOUS
      <4> QED BY <2>2, <4>1
    <3> HIDE DEF now
    <3>2. 1 \in i..i + K - 1 => 1 - i = 0
      OBVIOUS
    <3>3. PICK some \in BOOLEAN : some = (now' # {})
      OBVIOUS
    <3>4. 1 \in i..i + K - 1 => /\ mix'[p] = [filled |-> now' # {}, j |-> 1 - i]
                                /\ now' # {} /\ (\A d \in Virt(ph)' : Fed(d)') => scratch'[p][2] = UNION terms'
      <4>1. some = FALSE
        BY <3>1, <3>3
      <4> QED BY <2>2, <3>1, <3>2, <3>3, <4>1
    <3> QED BY <2>2, <3>4 DEF Summing, now
  <2>5. ASSUME NEW q \in Procs
        PROVE  /\ Written(q)' > Len(conf.procout[q]) => mix'[q] = [filled |-> FALSE, j |-> 0]
               /\ \A ph \in Phys(conf.physOut), i, K \in Nat \ {0} : Together(q, i, K, ph) => Summing(q, i, K, ph)'
    <3>1. CASE q = p
      BY <2>2, <2>4, <3>1
    <3>2. CASE q # p
      BY <1>3, <2>1, <2>2, <3>2
    <3> QED BY <3>1, <3>2
  <2> QED BY <1>6, <2>1, <2>3, <2>5
<1>8. ASSUME UNCHANGED <<odelay, raw, mix, blk>>,
             \A p \in Procs : Written(p)' = Written(p) /\ (pc[p] = "write" => scratch'[p] = scratch[p])
      PROVE  WriteInv'
  <2>1. \A p \in Procs : \A k \in DOMAIN conf.procout[p] : Sent(p, k)' = Sent(p, k)
    BY <1>8 DEF Sent
  <2>2. ASSUME NEW p \in Procs
        PROVE  /\ Written(p)' > Len(conf.procout[p]) => mix'[p] = [filled |-> FALSE, j |-> 0]
               /\ \A ph \in Phys(conf.physOut), i, K \in Nat \ {0} : Together(p, i, K, ph) => Summing(p, i, K, ph)'
    BY <1>3, <1>8
  <2> QED BY <1>6, <1>8, <2>1, <2>2
<1>9. CASE UNCHANGED vars \/ NewInput \/ ChangeControl
  <2>1. UNCHANGED <<pc, idx, blk, odelay, raw, mix, scratch>>
    BY <1>9 DEF vars, bufs, NewInput, ChangeControl
  <2> QED BY <1>8, <2>1 DEF Written
<1>10. ASSUME NEW p \in Procs, \/ BlockStart(p) \/ HooksDone(p) \/ CopyControl(p) \/ InputsRead(p) \/ InputsSynched(p)
                               \/ MixOutputs(p) \/ OutputsSynched(p)
       PROVE  WriteInv'
  <2>1. /\ UNCHANGED <<odelay, raw, mix, scratch, blk>> /\ pc[p] # "write" /\ idx' = [idx EXCEPT ![p] = 1]
        /\ \E stage : pc' = [pc EXCEPT ![p] = stage]
    BY <1>10, Zenon DEF BlockStart, HooksDone, CopyControl, InputsRead, InputsSynched, MixOutputs, OutputsSynched, bufs, Goto
  <2>2. ASSUME NEW q \in Procs PROVE Written(q)' = Written(q)
    <3>1. CASE q = p
      BY <1>0, <2>1, <3>1 DEF Written
    <3>2. CASE q # p
      BY <1>0, <2>1, <3>2 DEF Written
    <3> QED BY <3>1, <3>2
  <2> QED BY <1>8, <2>1, <2>2
<1>11. ASSUME NEW p \in Procs, ReadInput(p) \/ Filter(p)
       PROVE  WriteInv'
  <2>1. /\ UNCHANGED <<odelay, raw, mix, blk, pc>> /\ pc[p] # "write"
        /\ UNCHANGED scratch \/ \E win : scratch' = [scratch EXCEPT ![p] = win]
        /\ idx' = [idx EXCEPT ![p] = @ + 1]
    BY <1>11, Zenon DEF ReadInput, Filter
  <2>2. \A q \in Procs : q # p => scratch'[q] = scratch[q] /\ idx'[q] = idx[q]
    BY <1>0, <2>1 DEF Shapes
  <2>3. \A q \in Procs : Written(q)' = Written(q)
    BY <2>1, <2>2 DEF Written
  <2> QED BY <1>8, <2>1, <2>2, <2>3
<1> QED
  BY <1>7, <1>9, <1>10, <1>11 DEF Next

\* The inductive invariant of the data: what each buffer holds, in terms of Ideal.
IdealInv == SettingsApply => ReadInv /\ FilterInv /\ MixInv /\ WriteInv

\* Every block that leaves on a physical output is the partitioned convolution of the history of the
\* inputs and of the copied control (filter_process(), bfrun.c): powersave, the partial sums, the
\* cross-fade, the ring with its delay, the delay lines and the buffers that several stages share leave
\* no trace in it.  For any network of filters, channels and processes, any inputs and any changes of
\* the control; with powersave, where no stage uses a buffer without its flag and no set is followed by
\* a longer one, and with a cross-fade, where it is computed in single precision.
THEOREM Convolves == Spec => [](SettingsApply => OutputIsIdeal)
<1>1. Init => (Types /\ Meetings) /\ ZeroInv /\ PartsInv /\ Delivered /\ IdealInv
  <2> SUFFICES ASSUME Init PROVE Delivered /\ ReadInv /\ FilterInv /\ MixInv /\ WriteInv
    BY InitTypes, InitMeetings, InitZero, InitParts DEF IdealInv
  <2>1. /\ conf \in Confs /\ conf.last \in Nat /\ conf.nblocks \in Nat \ {0}
        /\ \A p \in Procs : pc[p] = "start" /\ idx[p] = 1 /\ blk[p] = 1
        /\ inputs = <<>> /\ prevcoeff = conf.initcoeff
        /\ tbuf = [ch \in InCh |-> [i \in 0..1 |-> Silence]] /\ fbuf = [ch \in InCh |-> Silence]
        /\ cbuf = [f \in Filters |-> [s \in 0..conf.nblocks - 1 |-> Silence]]
        /\ ebuf = [f \in Filters |-> {}] /\ odelay = [o \in OutCh |-> {}]
        /\ mix = [p \in Procs |-> [filled |-> FALSE, j |-> 0]]
        /\ raw = [ph \in Phys(conf.physOut) |-> <<>>]
        /\ \E U \in SUBSET (OutCh \ UNION {ProcOutputs(p) : p \in Procs}) :
             outf = [o \in OutCh |-> IF o \in U THEN Uninitialised ELSE {}]
    <3>1. conf \in Confs
      BY DEF Init
    <3>2. conf.last \in Nat /\ conf.nblocks \in Nat \ {0}
      BY <3>1, ConfOK, ConfDealt
    <3> QED BY <3>1, <3>2 DEF Init
  <2>2. Delivered
    BY <2>1 DEF Delivered
  <2>3. ReadInv
    <3> SUFFICES ASSUME NEW p \in Procs, NEW i \in DOMAIN conf.procin[p]
                 PROVE  LET ch == conf.procin[p][i]
                            n == Reads(p, i)
                        IN  /\ fbuf[ch] = <<SignalAt(ch, n - 1), SignalAt(ch, n)>>
                            /\ tbuf[ch][(n + 1) % 2][1] = SignalAt(ch, n)
      BY <2>1 DEF ReadInv
    <3>1. Reads(p, i) = 0 /\ 0 - 1 < 1 /\ 0 < 1 /\ (0 + 1) % 2 \in 0..1
      BY <2>1 DEF Reads, AfterRead
    <3>2. conf.procin[p][i] \in InCh
      BY <2>1, ConfOK
    <3>3. \A ch : SignalAt(ch, 0 - 1) = {} /\ SignalAt(ch, 0) = {}
      BY <3>1 DEF SignalAt
    <3> QED BY <2>1, <3>1, <3>2, <3>3 DEF Silence
  <2>4. FilterInv
    <3> SUFFICES ASSUME NEW p \in Procs, NEW n \in DOMAIN conf.order[p] PROVE Filled(p, n)
      BY DEF FilterInv
    <3>1. PICK f \in Filters : f = conf.order[p][n]
      BY <2>1, ConfOK
    <3>2. PICK D \in Nat : D = DelayBlocks(f)
      BY <2>1, DelayOK
    <3>3. Runs(p, n) = 0
      BY <2>1 DEF Runs, AfterFilter
    <3>4. \A y \in 0 - (conf.nblocks - 1 - D)..0 - 1 + D : cbuf[f][Ring(y)] = Window(Ideal, f, y - D + 1)
      <4> SUFFICES ASSUME NEW y \in 0 - (conf.nblocks - 1 - D)..0 - 1 + D
                   PROVE  cbuf[f][Ring(y)] = Window(Ideal, f, y - D + 1)
        OBVIOUS
      <4>1. y \in Int /\ y - D + 1 < 1 /\ y - D + 1 - 1 < 1
        BY <2>1
      <4>2. Ring(y) \in 0..conf.nblocks - 1
        BY <2>1, <4>1, RingOK
      <4>3. Window(Ideal, f, y - D + 1) = <<{}, {}>>
        BY <4>1 DEF Window, Source
      <4> QED BY <2>1, <4>2, <4>3 DEF Silence
    <3>5. ebuf[f] = FromFilters(f, 0) /\ prevcoeff[f] = UsedCoeff(f, 0) /\ pc[p] # "filter"
      BY <2>1 DEF FromFilters, UsedCoeff
    <3> QED BY <3>1, <3>2, <3>3, <3>4, <3>5 DEF Filled
  <2>5. MixInv
    <3> SUFFICES ASSUME NEW p \in Procs, NEW o \in ProcOutputs(p) PROVE outf[o] = IdealChannel(o, Mixed(p))
      BY DEF MixInv
    <3>1. Mixed(p) = 0
      BY <2>1 DEF Mixed, AfterFilter
    <3>2. o \in OutCh /\ o \in UNION {ProcOutputs(q) : q \in Procs}
      BY <2>1, ConfOK
    <3> QED BY <2>1, <3>1, <3>2 DEF IdealChannel
  <2>6. WriteInv
    <3>1. ASSUME NEW p \in Procs PROVE Written(p) = 1 /\ \A k \in Nat \ {0} : Sent(p, k) = 0
      <4>1. Written(p) = 1
        BY <2>1 DEF Written
      <4>2. \A k \in Nat \ {0} : ~(k < 1)
        OBVIOUS
      <4> QED BY <2>1, <4>1, <4>2 DEF Sent
    <3>2. ASSUME NEW p \in Procs, NEW k \in DOMAIN conf.procout[p], Fed(conf.procout[p][k])
          PROVE  odelay[conf.procout[p][k]] = IdealChannel(conf.procout[p][k], Sent(p, k))
      <4>1. conf.procout[p] \in Seq(OutCh)
        BY <2>1, ConfOK
      <4>2. k \in Nat \ {0} /\ conf.procout[p][k] \in OutCh
        BY <4>1
      <4> QED BY <2>1, <3>1, <4>2 DEF IdealChannel
    <3>3. ASSUME NEW p \in Procs, NEW ph \in Phys(conf.physOut), NEW i \in Nat \ {0}, NEW K \in Nat \ {0}
          PROVE  Summing(p, i, K, ph) /\ OnOutput(p, i, K, ph)
      <4> DEFINE heard == {k \in i..Written(p) - 1 : conf.procout[p][k] \notin Copy(p).mute}
      <4>1. i + K - 1 \in Nat \ {0}
        OBVIOUS
      <4>2. raw[ph] = <<>> /\ Sent(p, i + K - 1) = 0
        BY <2>1, <3>1, <4>1
      <4>3. OnOutput(p, i, K, ph)
        BY <4>2 DEF OnOutput
      <4>4. heard = {}
        BY <3>1
      <4>5. PICK some \in BOOLEAN : some = (heard # {})
        OBVIOUS
      <4>6. some = FALSE
        BY <4>4, <4>5
      <4>7. 1 \in i..i + K - 1 => 1 - i = 0
        OBVIOUS
      <4> HIDE DEF heard
      <4>8. 1 \in i..i + K - 1 => mix[p] = [filled |-> heard # {}, j |-> 1 - i]
        BY <2>1, <4>5, <4>6, <4>7
      <4>9. Summing(p, i, K, ph)
        BY <3>1, <4>4, <4>8 DEF Summing, heard
      <4> QED BY <4>3, <4>9
    <3> QED BY <2>1, <3>2, <3>3 DEF WriteInv
  <2> QED BY <2>2, <2>3, <2>4, <2>5, <2>6
<1>2. ASSUME Types, HistoryGrows, SettingsApply'
      PROVE  SettingsApply
  <2>1. /\ conf' = conf /\ Procs' = Procs /\ Filters' = Filters
        /\ FlagsApply' = FlagsApply /\ \A p : FiltersOf(p)' = FiltersOf(p)
        /\ \A f, c : Reach(f, c)' = Reach(f, c)
    BY <1>2 DEF HistoryGrows, Procs, Filters, FlagsApply, InCh, Shared, FiltersOf, Reach, Partitions, DelayBlocks, Blocks
  <2>2. NeverLonger
    <3> SUFFICES ASSUME conf.powersave, NEW q \in Procs, NEW b \in DOMAIN copies[q], NEW f \in FiltersOf(q), b > 1
                 PROVE  Reach(f, copies[q][b].coeff[f]) <= Reach(f, copies[q][b - 1].coeff[f])
      BY DEF NeverLonger
    <3>1. b - 1 \in DOMAIN copies[q]
      <4>1. copies[q] \in Seq(Controls)
        BY <1>2 DEF Types
      <4> QED BY <4>1, SMT
    <3>2. b \in DOMAIN copies'[q] /\ copies'[q][b] = copies[q][b] /\ copies'[q][b - 1] = copies[q][b - 1]
      BY <1>2, <3>1 DEF HistoryGrows
    <3>3. NeverLonger'
      BY <1>2 DEF SettingsApply, PartsApply
    <3>4. Reach(f, copies'[q][b].coeff[f]) <= Reach(f, copies'[q][b - 1].coeff[f])
      BY <2>1, <3>2, <3>3 DEF NeverLonger
    <3> QED BY <3>2, <3>4
  <2> QED BY <1>2, <2>1, <2>2 DEF SettingsApply, PartsApply
<1>3. (Types /\ Meetings) /\ ZeroInv /\ PartsInv /\ Delivered /\ IdealInv /\ [Next]_vars
        => (ZeroInv /\ PartsInv /\ Delivered /\ IdealInv)'
  <2> SUFFICES ASSUME Types, Meetings, ZeroInv, PartsInv, Delivered, IdealInv, [Next]_vars
               PROVE  ZeroInv' /\ PartsInv' /\ Delivered' /\ IdealInv'
    OBVIOUS
  <2>1. ZeroInv' /\ PartsInv' /\ Delivered' /\ HistoryGrows
    BY ZeroNext, PartsNext, DeliveredNext
  <2>2. ASSUME SettingsApply, ReadInv, FilterInv, MixInv, WriteInv
        PROVE  ReadInv' /\ FilterInv' /\ MixInv' /\ WriteInv'
    <3>1. FlagsApply
      BY <2>2 DEF SettingsApply, PartsApply
    <3> QED BY <2>1, <2>2, <3>1, ReadNext, FilterNext, MixNext, WriteNext
  <2> QED BY <1>2, <2>1, <2>2 DEF IdealInv
<1>4. ASSUME Types, IdealInv, SettingsApply
      PROVE  OutputIsIdeal
  <2>1. WriteInv /\ conf \in Confs
    BY <1>4 DEF IdealInv, Types
  <2> SUFFICES ASSUME NEW ph \in DOMAIN raw, Len(raw[ph]) > 0, \A o \in Virt(ph) : Fed(o)
               PROVE  raw[ph][Len(raw[ph])] = IdealOutput(ph, Len(raw[ph]))
    BY DEF OutputIsIdeal
  <2>2. ph \in Phys(conf.physOut)
    BY <2>1 DEF WriteInv
  <2>3. PICK p \in Procs : \E i, K \in Nat \ {0} : Together(p, i, K, ph)
    BY <2>1, <2>2, ConfDealt
  <2>4. PICK i \in Nat \ {0}, K \in Nat \ {0} : Together(p, i, K, ph)
    BY <2>3
  <2>5. OnOutput(p, i, K, ph)
    BY <2>1, <2>2, <2>4 DEF WriteInv
  <2> QED BY <2>5 DEF OnOutput
<1> QED BY <1>1, <1>3, <1>4, Meets, PTL DEF Spec
=============================================================================
