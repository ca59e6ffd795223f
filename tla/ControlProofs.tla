---------------------------- MODULE ControlProofs ----------------------------
(***************************************************************************)
(* Control, for every configuration: a filter process takes over whole     *)
(* sets of statements only, and no filter convolves with a set of an       *)
(* equaliser that is being rendered.                                       *)
(*                                                                         *)
(* Three invariants on each other.  The barriers keep the filter processes *)
(* in one block, so that who answers for an equaliser does not change      *)
(* while somebody convolves (BarrierInv).  newstate, committed, is what    *)
(* the statements so far ask for (CommitInv).  A rendering is handed over  *)
(* from the equaliser to the filter and back by not_changed (HandOverInv). *)
(***************************************************************************)
EXTENDS Control, SequenceTheorems, FiniteSetTheorems, TLAPS

-----------------------------------------------------------------------------
(* The filter processes *)

Pcs == {"start", "hook", "hooked", "copy", "synch", "choose", "seen", "convolve", "mix"}
FilterRecord(r) == DOMAIN r = {"pc", "odd", "n", "coeff", "stale", "used", "prev"}
FilterType ==
    \A p \in Procs :
       /\ FilterRecord(filt[p])
       /\ filt[p].pc \in Pcs /\ filt[p].odd \in BOOLEAN
       /\ filt[p].pc \in {"start", "hook", "hooked"} => Mode = "script"
       /\ filt[p].pc \in {"hook", "hooked"} => p = 0
       /\ filt[p].pc \in {"choose", "seen", "convolve"} => filt[p].n \in 1 .. Len(Owner(p))
FiltersOk == IsFcn(filt, Procs) /\ FilterType

\* How far a process can be that has begun a block which another has not.
FirstRank == IF Mode = "script" THEN 1 ELSE 3

\* The barriers: two processes are in one block and neither is past a barrier that the
\* other is not at, or one is at the last barrier of a block and the other before the
\* first one of the next.
BarrierInv ==
    \A p, q \in Procs :
        IF filt[p].odd = filt[q].odd
        THEN /\ Rank(p) >= 4 => Rank(q) >= 3
             /\ Rank(p) >= 2 => Rank(q) >= 1
        ELSE \/ Rank(p) = 5 /\ Rank(q) <= FirstRank
             \/ Rank(q) = 5 /\ Rank(p) <= FirstRank

\* The interface runs a set of statements of a script inside the first process's hook.
HookInv ==
    /\ DOMAIN cli = {"pc", "text", "ns", "quit", "sleep"}
    /\ Mode = "script" => /\ cli.pc \in {"idle", "stmt", "reply", "lock", "filters"}
                          /\ cli.pc # "idle" => filt[0].pc = "hook"

-----------------------------------------------------------------------------
(* The equalisers *)

EqPcs == {"read", "poll", "write", "swap", "mark"}
EqualiserOk(e) ==
    /\ DOMAIN equalisers[e] = {"coeff", "values", "active", "not_changed"}
    /\ equalisers[e].coeff = SetsOf(conf.eq.entries[e])
    /\ equalisers[e].active \in 1 .. 2 /\ equalisers[e].not_changed \in BOOLEAN
    /\ ToSet(equalisers[e].coeff) \subseteq DOMAIN sets
EqInv ==
    /\ IsFcn(equalisers, DOMAIN conf.eq.entries) /\ \A e \in Equals : EqualiserOk(e)
    /\ DOMAIN eq = {"pc", "renders", "postponed"} /\ eq.pc \in EqPcs
    /\ eq.renders \in Seq(Equals) /\ eq.postponed \in Equals \cup {None}
    /\ eq.pc # "read" => eq.renders # <<>>
    /\ \A c \in DOMAIN sets : DOMAIN sets[c] = {"whole", "is"}
    /\ \E S : pipe \in Seq(S) /\ \A x \in S : x.e \in Equals

\* Only the set that is being rendered is not whole, and the last change of its
\* equaliser has been seen.
RenderInv ==
    /\ eq.pc \in {"write", "swap", "mark"} => ~equalisers[Now].not_changed
    /\ \A c \in DOMAIN sets : ~sets[c].whole => eq.pc = "write" /\ c = Target

\* A process that has chosen a set of an equaliser answers for the equaliser.
Answers(q, e) ==
    filt[q].used # <<>> /\ \E f \in ToSet(Owner(q)) : Controls(equalisers[e].coeff, filt[q].used.fctrl[f].coeff)
SeenInv ==
    \A q \in Procs :
        /\ filt[q].pc \in {"synch", "choose", "seen", "convolve", "mix"} => filt[q].used # <<>>
        /\ filt[q].pc = "seen" => \E e \in Equals : Controls(equalisers[e].coeff, filt[q].coeff) /\ Answers(q, e)

\* While the only process that answers for an equaliser convolves with one of its
\* sets, that set is active, or the equaliser waits for its next change to be seen.
HandOver(p, e) ==
    \/ filt[p].coeff = equalisers[e].coeff[equalisers[e].active]
    \/ equalisers[e].not_changed
    \/ eq.pc = "mark" /\ Now = e
OnlyOneAnswers(p, e) ==
    /\ filt[p].pc = "convolve" /\ ~filt[p].stale
    /\ Controls(equalisers[e].coeff, filt[p].coeff)
    /\ \A q \in Procs \ {p} : ~Answers(q, e)
HandOverInv == \A p \in Procs, e \in Equals : OnlyOneAnswers(p, e) => HandOver(p, e)

-----------------------------------------------------------------------------
(* The configuration *)

ConfOk == conf \in Confs /\ Accepted(conf)

LEMMA ProcsOk ==
    ASSUME ConfOk
    PROVE  /\ 0 \in Procs /\ Procs \subseteq Int
           /\ \A p \in Procs : /\ Owner(p) \in Seq(DOMAIN net.of) /\ Owner(p) # <<>>
                               /\ Len(Owner(p)) \in Nat \ {0}
           /\ net.slots \in Int
<1> DEFINE O == Seq(DOMAIN net.of) \ {<<>>}
<1>1. net.owner \in Seq(O) /\ net.owner # <<>> /\ net.slots \in Int
  BY ControlAssumption DEF ConfOk, net
<1>2. Len(net.owner) \in Nat \ {0}
  BY <1>1, EmptySeq
<1>3. \A p \in Procs : p + 1 \in 1 .. Len(net.owner)
  BY <1>2 DEF Procs
<1>4. \A p \in Procs : net.owner[p + 1] \in O
  BY <1>1, <1>3, ElementOfSeq
<1>5. \A p \in Procs : Owner(p) \in Seq(DOMAIN net.of) /\ Owner(p) # <<>>
  BY <1>4 DEF Owner
<1>6. \A p \in Procs : Len(Owner(p)) \in Nat \ {0}
  BY <1>5, EmptySeq
<1>7. 0 \in Procs /\ Procs \subseteq Int
  BY <1>2 DEF Procs
<1> QED
  BY <1>1, <1>5, <1>6, <1>7

\* The places of a process, by how far it is in its block.
LEMMA Ranks ==
    ASSUME FiltersOk, ConfOk, NEW p \in Procs
    PROVE  /\ filt[p].pc \in Pcs /\ Rank(p) \in 0 .. 5
           /\ Rank(p) = 0 <=> filt[p].pc \in {"start", "hook"} /\ p = 0
           /\ Rank(p) = 1 <=> filt[p].pc = "hooked" \/ (filt[p].pc \in {"start", "hook"} /\ p # 0)
           /\ Rank(p) = 2 <=> filt[p].pc = "copy"
           /\ Rank(p) = 3 <=> filt[p].pc = "synch"
           /\ Rank(p) = 4 <=> filt[p].pc \in {"choose", "seen", "convolve"}
           /\ Rank(p) = 5 <=> filt[p].pc = "mix"
           /\ Rank(p) <= 1 => Mode = "script"
<1>1. filt[p].pc \in Pcs /\ (filt[p].pc \in {"start", "hook", "hooked"} => Mode = "script")
  BY DEF FiltersOk, FilterType
<1>2. Rank(p) = IF filt[p].pc \in {"start", "hook"} THEN IF p = 0 THEN 0 ELSE 1
                ELSE IF filt[p].pc = "hooked" THEN 1
                ELSE IF filt[p].pc = "copy" THEN 2
                ELSE IF filt[p].pc = "synch" THEN 3
                ELSE IF filt[p].pc = "mix" THEN 5 ELSE 4
  BY DEF Rank
<1> HIDE DEF Rank
<1> QED
  BY <1>1, <1>2 DEF Pcs

\* One process moves; the others do not.
OthersStay(p) == \A q \in Procs \ {p} : filt'[q] = filt[q]

LEMMA BarrierMove ==
    ASSUME ConfOk, FiltersOk, BarrierInv, UNCHANGED conf, NEW p \in Procs, OthersStay(p),
           \/ filt'[p].odd = filt[p].odd /\
                 \/ Rank(p)' = Rank(p)
                 \/ Rank(p) = 0 /\ Rank(p)' = 1
                 \/ Rank(p) = 1 /\ Rank(p)' = 2 /\ AllAt(p, 1)
                 \/ Rank(p) = 2 /\ Rank(p)' = 3
                 \/ Rank(p) = 3 /\ Rank(p)' = 4 /\ AllAt(p, 3)
                 \/ Rank(p) = 4 /\ Rank(p)' = 5
           \/ /\ filt'[p].odd = ~filt[p].odd /\ Rank(p) = 5 /\ AllAt(p, 5)
              /\ Rank(p)' = IF Mode = "script" THEN IF p = 0 THEN 0 ELSE 1 ELSE 2
    PROVE  BarrierInv'
<1>1. Procs' = Procs /\ Mode' = Mode /\ FirstRank' = FirstRank /\ ConfOk'
  BY DEF Procs, net, Mode, FirstRank, ConfOk
<1>2. \A q \in Procs \ {p} : Rank(q)' = Rank(q) /\ filt'[q].odd = filt[q].odd
  BY DEF OthersStay, Rank
<1>3. \A q \in Procs : /\ filt[q].odd \in BOOLEAN /\ Rank(q) \in 0 .. 5
                       /\ Rank(q) <= 1 => Mode = "script"
  <2> SUFFICES ASSUME NEW q \in Procs
               PROVE  filt[q].odd \in BOOLEAN /\ Rank(q) \in 0 .. 5 /\ (Rank(q) <= 1 => Mode = "script")
    OBVIOUS
  <2> QED
    BY Ranks DEF FiltersOk, FilterType
<1>4. FirstRank = IF Mode = "script" THEN 1 ELSE 3
  BY DEF FirstRank
<1> SUFFICES ASSUME NEW q \in Procs, q # p
             PROVE  /\ IF filt'[p].odd = filt[q].odd
                       THEN /\ Rank(p)' >= 4 => Rank(q) >= 3
                            /\ Rank(p)' >= 2 => Rank(q) >= 1
                            /\ Rank(q) >= 4 => Rank(p)' >= 3
                            /\ Rank(q) >= 2 => Rank(p)' >= 1
                       ELSE \/ Rank(p)' = 5 /\ Rank(q) <= FirstRank
                            \/ Rank(q) = 5 /\ Rank(p)' <= FirstRank
  <2>1. \A q \in Procs \ {p} :
            /\ filt'[p].odd = filt'[q].odd => /\ Rank(p)' >= 4 => Rank(q)' >= 3
                                              /\ Rank(p)' >= 2 => Rank(q)' >= 1
                                              /\ Rank(q)' >= 4 => Rank(p)' >= 3
                                              /\ Rank(q)' >= 2 => Rank(p)' >= 1
            /\ filt'[p].odd # filt'[q].odd => \/ Rank(p)' = 5 /\ Rank(q)' <= FirstRank
                                              \/ Rank(q)' = 5 /\ Rank(p)' <= FirstRank
    BY <1>2
  <2>2. \A q, r \in Procs \ {p} :
            IF filt'[q].odd = filt'[r].odd
            THEN (Rank(q)' >= 4 => Rank(r)' >= 3) /\ (Rank(q)' >= 2 => Rank(r)' >= 1)
            ELSE (Rank(q)' = 5 /\ Rank(r)' <= FirstRank) \/ (Rank(r)' = 5 /\ Rank(q)' <= FirstRank)
    <3> SUFFICES ASSUME NEW q \in Procs \ {p}, NEW r \in Procs \ {p}
                 PROVE  IF filt'[q].odd = filt'[r].odd
                        THEN (Rank(q)' >= 4 => Rank(r)' >= 3) /\ (Rank(q)' >= 2 => Rank(r)' >= 1)
                        ELSE (Rank(q)' = 5 /\ Rank(r)' <= FirstRank) \/ (Rank(r)' = 5 /\ Rank(q)' <= FirstRank)
      OBVIOUS
    <3>1. Rank(q)' = Rank(q) /\ filt'[q].odd = filt[q].odd /\ Rank(r)' = Rank(r) /\ filt'[r].odd = filt[r].odd
      BY <1>2
    <3>2. IF filt[q].odd = filt[r].odd
          THEN (Rank(q) >= 4 => Rank(r) >= 3) /\ (Rank(q) >= 2 => Rank(r) >= 1)
          ELSE (Rank(q) = 5 /\ Rank(r) <= FirstRank) \/ (Rank(r) = 5 /\ Rank(q) <= FirstRank)
      BY DEF BarrierInv
    <3> QED
      BY <3>1, <3>2
  <2>3. Rank(p)' \in 0 .. 5
    BY <1>3
  <2> SUFFICES ASSUME NEW q \in Procs, NEW r \in Procs
               PROVE  IF filt'[q].odd = filt'[r].odd
                      THEN (Rank(q)' >= 4 => Rank(r)' >= 3) /\ (Rank(q)' >= 2 => Rank(r)' >= 1)
                      ELSE (Rank(q)' = 5 /\ Rank(r)' <= FirstRank) \/ (Rank(r)' = 5 /\ Rank(q)' <= FirstRank)
    BY <1>1 DEF BarrierInv
  <2>4. CASE q = p /\ r = p
    BY <2>3, <2>4
  <2>5. CASE q = p /\ r # p
    BY <2>1, <2>5
  <2>6. CASE q # p /\ r = p
    BY <2>1, <2>6
  <2> QED
    BY <2>2, <2>4, <2>5, <2>6
<1>5. IF filt[p].odd = filt[q].odd
      THEN /\ Rank(p) >= 4 => Rank(q) >= 3
           /\ Rank(p) >= 2 => Rank(q) >= 1
           /\ Rank(q) >= 4 => Rank(p) >= 3
           /\ Rank(q) >= 2 => Rank(p) >= 1
      ELSE (Rank(p) = 5 /\ Rank(q) <= FirstRank) \/ (Rank(q) = 5 /\ Rank(p) <= FirstRank)
  <2>1. \A r, s \in Procs :
            IF filt[r].odd = filt[s].odd
            THEN (Rank(r) >= 4 => Rank(s) >= 3) /\ (Rank(r) >= 2 => Rank(s) >= 1)
            ELSE (Rank(r) = 5 /\ Rank(s) <= FirstRank) \/ (Rank(s) = 5 /\ Rank(r) <= FirstRank)
    BY DEF BarrierInv
  <2> QED
    BY <2>1
<1>6. \A b : AllAt(p, b) => IF filt[q].odd = filt[p].odd THEN Rank(q) >= b ELSE b = 5
  BY DEF AllAt
<1>7. CASE Mode = "script"
  BY <1>3, <1>4, <1>5, <1>6, <1>7
<1>8. CASE Mode # "script"
  BY <1>3, <1>4, <1>5, <1>6, <1>8
<1> QED
  BY <1>7, <1>8

LEMMA RankNext ==
    ASSUME NEW p, filt'[p].pc \in Pcs
    PROVE  /\ filt'[p].pc \in {"start", "hook"} => Rank(p)' = IF p = 0 THEN 0 ELSE 1
           /\ filt'[p].pc = "hooked" => Rank(p)' = 1
           /\ filt'[p].pc = "copy" => Rank(p)' = 2
           /\ filt'[p].pc = "synch" => Rank(p)' = 3
           /\ filt'[p].pc \in {"choose", "seen", "convolve"} => Rank(p)' = 4
           /\ filt'[p].pc = "mix" => Rank(p)' = 5
<1>1. Rank(p)' = IF filt'[p].pc \in {"start", "hook"} THEN IF p = 0 THEN 0 ELSE 1
                 ELSE IF filt'[p].pc = "hooked" THEN 1
                 ELSE IF filt'[p].pc = "copy" THEN 2
                 ELSE IF filt'[p].pc = "synch" THEN 3
                 ELSE IF filt'[p].pc = "mix" THEN 5 ELSE 4
  BY DEF Rank
<1> QED
  BY <1>1


LEMMA ExceptProc ==
    ASSUME FiltersOk, UNCHANGED conf, NEW p \in Procs, NEW r, FilterRecord(r),
           filt' = [filt EXCEPT ![p] = r], r.pc \in Pcs, r.odd \in BOOLEAN,
           r.pc \in {"start", "hook", "hooked"} => Mode = "script",
           r.pc \in {"hook", "hooked"} => p = 0,
           r.pc \in {"choose", "seen", "convolve"} => r.n \in 1 .. Len(Owner(p))
    PROVE  FiltersOk' /\ OthersStay(p) /\ filt'[p] = r
<1>1. Procs' = Procs /\ Mode' = Mode /\ \A q : Owner(q)' = Owner(q)
  BY DEF Procs, Mode, Owner, net
<1>2. filt = [q \in Procs |-> filt[q]]
  BY DEF FiltersOk, IsFcn
<1>3. filt' = [q \in Procs |-> IF q = p THEN r ELSE filt[q]]
  BY <1>2
<1>4. IsFcn(filt, Procs)' /\ OthersStay(p) /\ filt'[p] = r
  BY <1>1, <1>3 DEF IsFcn, OthersStay
<1>5. FilterType'
  <2> SUFFICES ASSUME NEW q \in Procs
               PROVE  /\ FilterRecord(filt'[q])
                      /\ filt'[q].pc \in Pcs /\ filt'[q].odd \in BOOLEAN
                      /\ filt'[q].pc \in {"start", "hook", "hooked"} => Mode = "script"
                      /\ filt'[q].pc \in {"hook", "hooked"} => q = 0
                      /\ filt'[q].pc \in {"choose", "seen", "convolve"} => filt'[q].n \in 1 .. Len(Owner(q))
    BY <1>1 DEF FilterType, FilterRecord
  <2>1. CASE q = p
    BY <1>4, <2>1
  <2>2. CASE q # p
    <3>1. filt'[q] = filt[q]
      BY <1>4, <2>2 DEF OthersStay
    <3> QED
      BY <3>1 DEF FiltersOk, FilterType
  <2> QED
    BY <2>1, <2>2
<1> QED
  BY <1>4, <1>5 DEF FiltersOk

LEMMA ProcType ==
    ASSUME FiltersOk, NEW p \in Procs
    PROVE  /\ FilterRecord(filt[p]) /\ filt[p].pc \in Pcs /\ filt[p].odd \in BOOLEAN
           /\ filt[p].pc \in {"start", "hook", "hooked"} => Mode = "script"
           /\ filt[p].pc \in {"hook", "hooked"} => p = 0
           /\ filt[p].pc \in {"choose", "seen", "convolve"} => filt[p].n \in 1 .. Len(Owner(p))
BY DEF FiltersOk, FilterType

LEMMA FilterMoves ==
    ASSUME ConfOk, FiltersOk, BarrierInv, NEW p \in Procs, FilterStep(p)
    PROVE  FiltersOk' /\ BarrierInv' /\ OthersStay(p) /\ UNCHANGED <<conf, cli, script, goal>>
<1>1. UNCHANGED <<conf, cli, script, goal>>
  BY DEF FilterStep, AfterHook, Copy, Synch, Choose, Seen, Convolved, EndBlock
<1> DEFINE f == filt[p]
           M(r) == FiltersOk' /\ OthersStay(p) /\ filt'[p] = r
           T(r) == /\ FilterRecord(r) /\ r.pc \in Pcs /\ r.odd \in BOOLEAN
                   /\ r.pc \in {"start", "hook", "hooked"} => Mode = "script"
                   /\ r.pc \in {"hook", "hooked"} => p = 0
                   /\ r.pc \in {"choose", "seen", "convolve"} => r.n \in 1 .. Len(Owner(p))
<1>2. T(f)
  BY ProcType
<1>3. ASSUME NEW r, filt' = [filt EXCEPT ![p] = r], T(r) PROVE M(r)
  BY <1>1, <1>3, ExceptProc
<1> HIDE DEF M
<1>4. CASE AfterHook(p)
  <2> DEFINE r == [f EXCEPT !.pc = "copy"]
  <2>1. filt' = [filt EXCEPT ![p] = r]
    BY <1>2, <1>4 DEF AfterHook, FilterRecord
  <2>2. T(r)
    BY <1>2 DEF Pcs, FilterRecord
  <2>3. M(r)
    BY <1>3, <2>1, <2>2
  <2>3a. filt'[p].pc = "copy" /\ filt'[p].odd = f.odd
    BY <1>2, <2>3 DEF M, FilterRecord
  <2>4. Rank(p) = 1 /\ AllAt(p, 1) /\ Rank(p)' = 2
    BY <1>4, <2>3, <2>3a, RankNext DEF AfterHook, Pcs
  <2>5. BarrierInv'
    BY <1>1, <2>3, <2>3a, <2>4, BarrierMove DEF M
  <2> QED
    BY <1>1, <2>3, <2>3a, <2>5 DEF M
<1>5. CASE Copy(p)
  <2> DEFINE r == [f EXCEPT !.pc = "synch", !.used = View(icomm, p)]
  <2>1. filt' = [filt EXCEPT ![p] = r] /\ f.pc = "copy"
    BY <1>2, <1>5 DEF Copy, FilterRecord
  <2>2. T(r)
    BY <1>2 DEF Pcs, FilterRecord
  <2>3. M(r)
    BY <1>3, <2>1, <2>2
  <2>3a. filt'[p].pc = "synch" /\ filt'[p].odd = f.odd
    BY <1>2, <2>3 DEF M, FilterRecord
  <2>4. Rank(p) = 2 /\ Rank(p)' = 3
    BY <2>1, <2>3a, Ranks, RankNext DEF Pcs
  <2>5. BarrierInv'
    BY <1>1, <2>3, <2>3a, <2>4, BarrierMove DEF M
  <2> QED
    BY <1>1, <2>3, <2>3a, <2>5 DEF M
<1>6. CASE Synch(p)
  <2> DEFINE r == [f EXCEPT !.pc = "choose", !.n = 1]
  <2>1. filt' = [filt EXCEPT ![p] = r] /\ f.pc = "synch" /\ AllAt(p, 3)
    BY <1>2, <1>6 DEF Synch, FilterRecord
  <2>2. T(r)
    BY <1>2, ProcsOk DEF Pcs, FilterRecord
  <2>3. M(r)
    BY <1>3, <2>1, <2>2
  <2>3a. filt'[p].pc = "choose" /\ filt'[p].odd = f.odd
    BY <1>2, <2>3 DEF M, FilterRecord
  <2>4. Rank(p) = 3 /\ Rank(p)' = 4 /\ AllAt(p, 3)
    BY <2>1, <2>3a, Ranks, RankNext DEF Pcs
  <2>5. BarrierInv'
    BY <1>1, <2>3, <2>3a, <2>4, BarrierMove DEF M
  <2> QED
    BY <1>1, <2>3, <2>3a, <2>5 DEF M
<1>7. ASSUME NEW c, NEW s, NEW x \in {"seen", "convolve"}, f.pc \in {"choose", "seen"},
             filt' = [filt EXCEPT ![p].coeff = c, ![p].pc = x, ![p].stale = s]
      PROVE  FiltersOk' /\ BarrierInv' /\ OthersStay(p)
  <2> DEFINE r == [f EXCEPT !.pc = x, !.coeff = c, !.stale = s]
  <2>1. filt' = [filt EXCEPT ![p] = r]
    BY <1>2, <1>7 DEF FilterRecord
  <2>2. T(r)
    BY <1>2, <1>7 DEF Pcs, FilterRecord
  <2>3. M(r)
    BY <1>3, <2>1, <2>2
  <2>3a. filt'[p].pc = x /\ filt'[p].odd = f.odd
    BY <1>2, <2>3 DEF M, FilterRecord
  <2>4. Rank(p) = 4 /\ Rank(p)' = 4
    <3>1. filt'[p].pc \in {"choose", "seen", "convolve"} /\ filt[p].pc \in {"choose", "seen", "convolve"}
      BY <1>7, <2>3a
    <3> QED
      BY <3>1, Ranks, RankNext DEF Pcs
  <2>5. BarrierInv'
    BY <1>1, <2>3, <2>3a, <2>4, BarrierMove DEF M
  <2> QED
    BY <2>3, <2>3a, <2>5 DEF M
<1>8. CASE Choose(p)
  BY <1>1, <1>7, <1>8 DEF Choose
<1>9. CASE Seen(p)
  <2>1. PICK e \in Equals :
            filt' = [filt EXCEPT ![p].pc = "convolve",
                                 ![p].stale = f.coeff # equalisers[e].coeff[equalisers[e].active]]
    BY <1>9 DEF Seen
  <2> DEFINE r == [f EXCEPT !.pc = "convolve", !.stale = f.coeff # equalisers[e].coeff[equalisers[e].active]]
  <2>2. filt' = [filt EXCEPT ![p] = r] /\ f.pc = "seen"
    BY <1>2, <1>9, <2>1 DEF Seen, FilterRecord
  <2>3. T(r)
    BY <1>2, <2>2 DEF Pcs, FilterRecord
  <2>4. M(r)
    BY <1>3, <2>2, <2>3
  <2>4a. filt'[p].pc = "convolve" /\ filt'[p].odd = f.odd
    BY <1>2, <2>4 DEF M, FilterRecord
  <2>5. Rank(p) = 4 /\ Rank(p)' = 4
    BY <2>2, <2>4, <2>4a, Ranks, RankNext DEF Pcs
  <2>6. BarrierInv'
    BY <1>1, <2>4, <2>4a, <2>5, BarrierMove DEF M
  <2> QED
    BY <1>1, <2>4, <2>4a, <2>6 DEF M
<1>10. CASE Convolved(p)
  <2> DEFINE x == IF f.n = Len(Owner(p)) THEN "mix" ELSE "choose"
             r == [f EXCEPT !.pc = x, !.n = f.n + 1, !.prev = [f.prev EXCEPT ![Filter(p)] = f.coeff]]
  <2>1. filt' = [filt EXCEPT ![p] = r] /\ f.pc = "convolve"
    BY <1>2, <1>10 DEF Convolved, FilterRecord
  <2>2. f.n \in 1 .. Len(Owner(p)) /\ Len(Owner(p)) \in Nat
    BY <1>2, <2>1, ProcsOk
  <2>3. T(r)
    BY <1>2, <2>2 DEF Pcs, FilterRecord
  <2>4. M(r)
    BY <1>3, <2>1, <2>3
  <2>4a. filt'[p].pc = x /\ filt'[p].odd = f.odd
    BY <1>2, <2>4 DEF M, FilterRecord
  <2>5. Rank(p) = 4 /\ Rank(p)' \in {4, 5}
    BY <2>1, <2>4, <2>4a, Ranks, RankNext DEF Pcs
  <2>6. BarrierInv'
    BY <1>1, <2>4, <2>4a, <2>5, BarrierMove DEF M
  <2> QED
    BY <1>1, <2>4, <2>4a, <2>6 DEF M
<1>11. CASE EndBlock(p)
  <2> DEFINE r == [f EXCEPT !.pc = FirstPc(conf), !.odd = ~f.odd, !.n = 1]
  <2>1. filt' = [filt EXCEPT ![p] = r] /\ f.pc = "mix" /\ AllAt(p, 5)
    BY <1>2, <1>11 DEF EndBlock, FilterRecord
  <2>2. FirstPc(conf) = IF Mode = "script" THEN "start" ELSE "copy"
    BY DEF FirstPc, Mode
  <2>3. T(r)
    BY <1>2, <2>2 DEF Pcs, FilterRecord
  <2>4. M(r)
    BY <1>3, <2>1, <2>3
  <2>4a. filt'[p].pc = FirstPc(conf) /\ filt'[p].odd = ~f.odd
    BY <1>2, <2>4 DEF M, FilterRecord
  <2>5. Rank(p) = 5 /\ Rank(p)' = IF Mode = "script" THEN IF p = 0 THEN 0 ELSE 1 ELSE 2
    BY <2>1, <2>2, <2>4, <2>4a, Ranks, RankNext DEF Pcs
  <2>6. BarrierInv'
    BY <1>1, <2>1, <2>4, <2>4a, <2>5, BarrierMove DEF M
  <2> QED
    BY <1>1, <2>4, <2>4a, <2>6 DEF M
<1> QED
  BY <1>4, <1>5, <1>6, <1>8, <1>9, <1>10, <1>11 DEF FilterStep

LEMMA FiltersStay ==
    ASSUME FiltersOk, BarrierInv, UNCHANGED <<conf, filt>>
    PROVE  FiltersOk' /\ BarrierInv'
<1>1. Procs' = Procs /\ Mode' = Mode /\ FirstRank' = FirstRank /\ \A p : Owner(p)' = Owner(p) /\ Rank(p)' = Rank(p)
  BY DEF Procs, net, Mode, Owner, FirstRank, Rank
<1>2. FiltersOk'
  BY <1>1 DEF FiltersOk, FilterType, IsFcn, FilterRecord
<1>3. BarrierInv'
  BY <1>1 DEF BarrierInv
<1> QED
  BY <1>2, <1>3

\* A statement of the interface, outside of the hook of filter process 0.
LEMMA CliPc ==
    ASSUME HookInv, Statement \/ Command \/ Answer \/ CommitChannels \/ CommitFilters
    PROVE  DOMAIN cli' = DOMAIN cli /\ cli'.pc \in {"stmt", "reply", "lock", "filters"}
<1>1. CASE Statement
  BY <1>1 DEF Statement, HookInv
<1>2. CASE Command
  <2>1. cli.pc = "stmt" /\ DOMAIN cli' = DOMAIN cli
    BY <1>2 DEF Command
  <2>2. cli'.pc \in {cli.pc, "reply"}
    BY <1>2 DEF Command, HookInv
  <2> QED
    BY <2>1, <2>2
<1>3. CASE Answer
  BY <1>3 DEF Answer, HookInv
<1>4. CASE CommitChannels
  BY <1>4 DEF CommitChannels, HookInv
<1>5. CASE CommitFilters
  BY <1>5 DEF CommitFilters, HookInv
<1> QED
  BY <1>1, <1>2, <1>3, <1>4, <1>5

\* The first process enters or leaves its hook.
LEMMA FirstMoves ==
    ASSUME ConfOk, FiltersOk, BarrierInv, UNCHANGED conf, Mode = "script", filt[0].pc \in {"start", "hook"},
           NEW x \in {"hook", "hooked"}, filt' = [filt EXCEPT ![0].pc = x]
    PROVE  FiltersOk' /\ BarrierInv' /\ OthersStay(0) /\ filt'[0].pc = x
<1> DEFINE r == [filt[0] EXCEPT !.pc = x]
<1>1. 0 \in Procs
  BY ProcsOk
<1>2. filt' = [filt EXCEPT ![0] = r] /\ FilterRecord(r) /\ r.pc = x /\ r.odd = filt[0].odd /\ r.odd \in BOOLEAN
  BY <1>1, ProcType DEF FilterRecord
<1> HIDE DEF r
<1>3. FiltersOk' /\ OthersStay(0) /\ filt'[0] = r
  BY <1>1, <1>2, ExceptProc DEF Pcs
<1>4. Rank(0) = 0 /\ Rank(0)' \in {0, 1}
  BY <1>1, <1>2, <1>3, Ranks, RankNext DEF Pcs
<1>5. BarrierInv'
  BY <1>1, <1>2, <1>3, <1>4, BarrierMove
<1> QED
  BY <1>2, <1>3, <1>5

LEMMA HookStays ==
    ASSUME ConfOk, FiltersOk, NEW p \in Procs, FilterStep(p)
    PROVE  filt[p].pc # "hook" \/ p # 0
<1>1. Rank(p) = 1 => filt[p].pc # "hook" \/ p # 0
  BY Ranks
<1> QED
  BY <1>1 DEF FilterStep, AfterHook, Copy, Synch, Choose, Seen, Convolved, EndBlock

LEMMA NextBarrier ==
    ASSUME ConfOk, FiltersOk, BarrierInv, HookInv, Next
    PROVE  FiltersOk' /\ BarrierInv' /\ HookInv' /\ ConfOk'
<1>1. UNCHANGED conf
  BY DEF Next, Send, HangUp, Cli, Accept, GetLine, Disconnect, Statement, Command, Answer, CommitChannels,
         CommitFilters, EndOfText, Filters, BlockStart, FilterStep, AfterHook, Copy, Synch, Choose, Seen,
         Convolved, EndBlock, Eq, ReadCommand, Render, Rendered, Swap, Mark
<1>2. ConfOk' /\ Mode' = Mode
  BY <1>1 DEF ConfOk, Accepted, Mode
<1>3. 0 \in Procs
  BY ProcsOk
<1>4. CASE UNCHANGED <<filt, cli>>
  BY <1>1, <1>2, <1>4, FiltersStay DEF HookInv
<1>5. CASE Accept \/ GetLine \/ Disconnect
  <2>1. UNCHANGED filt /\ Mode # "script" /\ DOMAIN cli' = DOMAIN cli
    BY <1>5 DEF Accept, GetLine, Disconnect, HookInv, Parsing
  <2> QED
    BY <1>1, <1>2, <2>1, FiltersStay DEF HookInv
<1>6. CASE Statement \/ Command \/ Answer \/ CommitChannels \/ CommitFilters
  <2>1. UNCHANGED filt /\ cli.pc \in {"stmt", "reply", "lock", "filters"}
    BY <1>6 DEF Statement, Command, Answer, CommitChannels, CommitFilters
  <2>2. DOMAIN cli' = DOMAIN cli /\ cli'.pc \in {"stmt", "reply", "lock", "filters"}
    BY <1>6, CliPc
  <2> QED
    BY <1>1, <1>2, <2>1, <2>2, FiltersStay DEF HookInv
<1>7. CASE EndOfText
  <2>1. CASE AreChanges(net, cli.ns) \/ Mode # "script"
    <3>1. UNCHANGED filt /\ DOMAIN cli' = DOMAIN cli
      BY <1>7, <2>1 DEF EndOfText, HookInv
    <3>2. Mode = "script" => cli'.pc = "lock" /\ cli.pc = "stmt"
      BY <1>7, <2>1 DEF EndOfText, HookInv
    <3> QED
      BY <1>1, <1>2, <3>1, <3>2, FiltersStay DEF HookInv
  <2>2. CASE ~AreChanges(net, cli.ns) /\ Mode = "script"
    <3>1. filt[0].pc = "hook" /\ DOMAIN cli' = DOMAIN cli /\ cli'.pc = "idle"
      BY <1>7, <2>2 DEF EndOfText, HookInv
    <3>2. filt' = [filt EXCEPT ![0].pc = "hooked"]
      BY <1>7, <2>2 DEF EndOfText
    <3> QED
      BY <1>1, <1>2, <2>2, <3>1, <3>2, FirstMoves DEF HookInv
  <2> QED
    BY <2>1, <2>2
<1>8. CASE BlockStart
  <2>1. Mode = "script" /\ filt[0].pc = "start" /\ cli.pc = "idle"
    BY <1>8 DEF BlockStart, HookInv
  <2>2. CASE script.quit \/ script.sleep > 0
    <3>1. filt' = [filt EXCEPT ![0].pc = "hooked"] /\ UNCHANGED cli
      BY <1>8, <2>2 DEF BlockStart
    <3> QED
      BY <1>1, <1>2, <2>1, <3>1, FirstMoves DEF HookInv
  <2>3. CASE ~(script.quit \/ script.sleep > 0)
    <3>1. filt' = [filt EXCEPT ![0].pc = "hook"] /\ cli' = Parsing(Sets(conf.script)[script.next])
      BY <1>8, <2>3 DEF BlockStart
    <3>2. DOMAIN cli' = DOMAIN cli /\ cli'.pc = "stmt"
      BY <3>1 DEF Parsing, HookInv
    <3> QED
      BY <1>1, <1>2, <2>1, <3>1, <3>2, FirstMoves DEF HookInv
  <2> QED
    BY <2>2, <2>3
<1>9. ASSUME NEW p \in Procs, FilterStep(p)
      PROVE  FiltersOk' /\ BarrierInv' /\ HookInv'
  <2>1. FiltersOk' /\ BarrierInv' /\ OthersStay(p) /\ UNCHANGED cli
    BY <1>9, FilterMoves
  <2>2. filt[0].pc = "hook" => filt'[0].pc = "hook"
    BY <1>3, <1>9, <2>1, HookStays DEF OthersStay
  <2> QED
    BY <1>2, <2>1, <2>2 DEF HookInv
<1>10. CASE Send \/ HangUp \/ Eq
  BY <1>4, <1>10 DEF Send, HangUp, Eq, ReadCommand, Render, Rendered, Swap, Mark
<1> QED
  BY <1>2, <1>5, <1>6, <1>7, <1>8, <1>9, <1>10 DEF Next, Cli, Filters

-----------------------------------------------------------------------------
(* Committing what was entered *)

\* What newstate holds: filters that are not marked as changed are as they are, and
\* channels are toggled that are there.
NewStateOk(w, c, ns) ==
    /\ IsFcn(ns, {"fctrl", "fchanged", "toggle", "delay", "subdelay"})
    /\ IsFcn(ns.fctrl, DOMAIN w.of) /\ \A f \in DOMAIN w.of \ ns.fchanged : ns.fctrl[f] = c.fctrl[f]
    /\ \A part \in {"toggle", "delay", "subdelay"} : IsFcn(ns[part], IOs)
    /\ \A io \in IOs : /\ ns.toggle[io] \subseteq w.channels[io]
                       /\ IsFcn(ns.delay[io], w.channels[io]) /\ IsFcn(ns.subdelay[io], w.channels[io])

\* The controls when newstate is committed to them, part by part.
Committed(w, c, ns) == FiltersCommitted(ChannelsCommitted(w, c, ns), ns)
Asked(w, ns, io) == {ch \in w.channels[io] : ns.delay[io][ch] # Unchanged}
DelayOf(w, c, ns, io, ch) ==
    IF ns.delay[io][ch] # Unchanged THEN DelaySet(w, io, ch, ns.delay[io][ch], c.delay[io][ch]) ELSE c.delay[io][ch]
SubdelayOf(w, c, ns, io, ch) == SubdelaySet(w, io, ch, ns.subdelay[io][ch], c.subdelay[io][ch])
IsDaiDelay(w, c, ns, io, d) ==
    /\ IsFcn(d, DOMAIN c.dai_delay[io])
    /\ \A ch \in w.channels[io] : OnlyOne(w, io, ch) =>
          d[w.phys[io][ch]] = DelayOf(w, c, ns, io, ch)
    /\ \A p \in DOMAIN c.dai_delay[io] \ Alone(w, io, w.channels[io]) : d[p] = c.dai_delay[io][p]
\* What committing gives: the delay of a channel that is alone is the delay of its
\* physical channel, whether it was asked for or not.
IsCommitted(w, c, ns, r) ==
    /\ IsFcn(r, DOMAIN c) /\ r.fctrl = ns.fctrl
    /\ \A part \in DOMAIN c \ {"fctrl"} : IsFcn(r[part], IOs)
    /\ \A io \in IOs :
          /\ r.delay[io] = [ch \in w.channels[io] |-> DelayOf(w, c, ns, io, ch)]
          /\ r.subdelay[io] = [ch \in w.channels[io] |-> SubdelayOf(w, c, ns, io, ch)]
          /\ r.ismuted[io] = SymDiff(c.ismuted[io], ns.toggle[io])
          /\ IsDaiDelay(w, c, ns, io, r.dai_delay[io])
          /\ r.dai_muted[io] = SymDiff(c.dai_muted[io], Alone(w, io, ns.toggle[io]))

\* A physical channel of a channel that is alone.
LEMMA AloneIs ==
    ASSUME NEW w, NEW io, NEW S \in SUBSET w.channels[io], NEW ch \in w.channels[io], OnlyOne(w, io, ch)
    PROVE  /\ w.phys[io][ch] \in Alone(w, io, S) <=> ch \in S
           /\ (CHOOSE x \in w.channels[io] : w.phys[io][x] = w.phys[io][ch]) = ch
<1>1. \A x \in w.channels[io] : w.phys[io][x] = w.phys[io][ch] => x = ch
  BY DEF OnlyOne
<1>2. \A x \in S : x \in w.channels[io]
  OBVIOUS
<1>3. w.phys[io][ch] \in Alone(w, io, S) <=> ch \in S
  BY <1>1, <1>2 DEF Alone
<1> QED
  BY <1>1, <1>3

\* The parts that the two halves of a commit set.
LEMMA Halves ==
    ASSUME NEW w, NEW c, NEW ns, ControlsOk(w, c), NewStateOk(w, c, ns)
    PROVE  /\ IsCommitted(w, c, ns, Committed(w, c, ns))
           /\ ControlsOk(w, Committed(w, c, ns))
           /\ ControlsOk(w, ChannelsCommitted(w, c, ns)) /\ ChannelsCommitted(w, c, ns).fctrl = c.fctrl
<1> DEFINE h == ChannelsCommitted(w, c, ns)
           g == Committed(w, c, ns)
           Parts == {"fctrl", "delay", "subdelay", "ismuted", "dai_delay", "dai_muted"}
           delay(io) == [ch \in w.channels[io] |-> DelayOf(w, c, ns, io, ch)]
           dai(io) == [p \in DOMAIN c.dai_delay[io] |->
                         IF p \in Alone(w, io, Asked(w, ns, io))
                         THEN delay(io)[CHOOSE ch \in w.channels[io] : w.phys[io][ch] = p] ELSE c.dai_delay[io][p]]
<1>1. IsFcn(c, Parts) /\ DOMAIN c = Parts
  BY DEF ControlsOk, IsFcn
<1>2. /\ IsFcn(h, Parts) /\ h.fctrl = c.fctrl
      /\ h.delay = [io \in IOs |-> delay(io)]
      /\ h.subdelay = [io \in IOs |-> [ch \in w.channels[io] |-> SubdelayOf(w, c, ns, io, ch)]]
      /\ h.ismuted = [io \in IOs |-> SymDiff(c.ismuted[io], ns.toggle[io])]
      /\ h.dai_delay = [io \in IOs |-> dai(io)]
      /\ h.dai_muted = [io \in IOs |-> SymDiff(c.dai_muted[io], Alone(w, io, ns.toggle[io]))]
  <2>1. IsFcn(h, Parts)
    BY <1>1 DEF ChannelsCommitted, IsFcn
  <2>2. h.fctrl = c.fctrl
    BY <1>1 DEF ChannelsCommitted
  <2>3. h.delay = [io \in IOs |-> delay(io)]
    BY <1>1 DEF ChannelsCommitted, DelayOf
  <2>4. h.subdelay = [io \in IOs |-> [ch \in w.channels[io] |-> SubdelayOf(w, c, ns, io, ch)]]
    BY <1>1 DEF ChannelsCommitted, SubdelayOf
  <2>5. IsFcn(c.dai_delay, IOs) /\ IsFcn(c.ismuted, IOs) /\ IsFcn(c.dai_muted, IOs)
    BY <1>1 DEF ControlsOk
  <2>6. DOMAIN c.dai_delay = IOs /\ DOMAIN c.ismuted = IOs /\ DOMAIN c.dai_muted = IOs
    BY <2>5 DEF IsFcn
  <2>7. h.ismuted = [io \in IOs |-> SymDiff(c.ismuted[io], ns.toggle[io])]
    BY <1>1, <2>6 DEF ChannelsCommitted
  <2>8. h.dai_muted = [io \in IOs |-> SymDiff(c.dai_muted[io], Alone(w, io, ns.toggle[io]))]
    BY <1>1, <2>6 DEF ChannelsCommitted
  <2>9. h.dai_delay = [io \in IOs |-> dai(io)]
    <3> DEFINE wanting(io) == {ch \in w.channels[io] : ns.delay[io][ch] # Unchanged}
               given(io) == [ch \in w.channels[io] |->
                               IF ch \in wanting(io) THEN DelaySet(w, io, ch, ns.delay[io][ch], c.delay[io][ch])
                               ELSE c.delay[io][ch]]
               mine(io, p) == CHOOSE ch \in w.channels[io] : w.phys[io][ch] = p
    <3>1. \A io : wanting(io) = Asked(w, ns, io) /\ given(io) = delay(io)
      BY DEF Asked, DelayOf
    <3>2. h.dai_delay = [io \in DOMAIN c.dai_delay |-> [p \in DOMAIN c.dai_delay[io] |->
                IF p \in Alone(w, io, wanting(io)) THEN given(io)[mine(io, p)] ELSE c.dai_delay[io][p]]]
      BY <1>1, <2>6 DEF ChannelsCommitted
    <3> HIDE DEF wanting, given, mine, delay, h
    <3>3. h.dai_delay = [io \in IOs |-> [p \in DOMAIN c.dai_delay[io] |->
                IF p \in Alone(w, io, Asked(w, ns, io)) THEN delay(io)[mine(io, p)] ELSE c.dai_delay[io][p]]]
      BY <2>6, <3>1, <3>2
    <3> QED
      BY <3>3 DEF mine
  <2> QED
    BY <2>1, <2>2, <2>3, <2>4, <2>7, <2>8, <2>9
<1> HIDE DEF h
<1>3. /\ IsFcn(g, Parts) /\ g.fctrl = [f \in DOMAIN c.fctrl |-> IF f \in ns.fchanged THEN ns.fctrl[f] ELSE c.fctrl[f]]
      /\ \A part \in Parts \ {"fctrl"} : g[part] = h[part]
  BY <1>2 DEF Committed, FiltersCommitted, IsFcn, h
<1> HIDE DEF g
<1>4. g.fctrl = ns.fctrl /\ IsFcn(g.fctrl, DOMAIN w.of)
  BY <1>3 DEF NewStateOk, ControlsOk, IsFcn
<1>5. ASSUME NEW io \in IOs PROVE IsDaiDelay(w, c, ns, io, dai(io))
  <2> DEFINE d == dai(io)
  <2>1. IsFcn(d, DOMAIN c.dai_delay[io])
    BY DEF IsFcn
  <2>2. Asked(w, ns, io) \in SUBSET w.channels[io]
    BY DEF Asked
  <2>3. ASSUME NEW ch \in w.channels[io], OnlyOne(w, io, ch)
        PROVE  d[w.phys[io][ch]] = DelayOf(w, c, ns, io, ch)
    <3>1. w.phys[io][ch] \in DOMAIN c.dai_delay[io] /\ c.dai_delay[io][w.phys[io][ch]] = c.delay[io][ch]
      BY <2>3 DEF ControlsOk
    <3>2. /\ w.phys[io][ch] \in Alone(w, io, Asked(w, ns, io)) <=> ch \in Asked(w, ns, io)
          /\ (CHOOSE x \in w.channels[io] : w.phys[io][x] = w.phys[io][ch]) = ch
      BY <2>2, <2>3, AloneIs
    <3>3. d[w.phys[io][ch]] = IF ch \in Asked(w, ns, io) THEN DelayOf(w, c, ns, io, ch) ELSE c.delay[io][ch]
      BY <3>1, <3>2
    <3> QED
      BY <3>3 DEF Asked, DelayOf
  <2>4. Alone(w, io, Asked(w, ns, io)) \subseteq Alone(w, io, w.channels[io])
    BY DEF Alone, Asked
  <2> QED
    BY <2>1, <2>3, <2>4 DEF IsDaiDelay
<1> HIDE DEF dai
<1>6. IsCommitted(w, c, ns, g)
  <2>1. g.delay = h.delay /\ g.subdelay = h.subdelay /\ g.ismuted = h.ismuted /\ g.dai_delay = h.dai_delay
        /\ g.dai_muted = h.dai_muted
    BY <1>3
  <2>2. \A part \in Parts \ {"fctrl"} : IsFcn(g[part], IOs)
    BY <1>2, <2>1 DEF IsFcn
  <2> QED
    BY <1>1, <1>2, <1>3, <1>4, <1>5, <2>1, <2>2 DEF IsCommitted
<1>7. ASSUME NEW r, IsFcn(r, Parts), IsFcn(r.fctrl, DOMAIN w.of), \A part \in Parts \ {"fctrl"} : r[part] = h[part]
      PROVE  ControlsOk(w, r)
  <2>1. r.delay = h.delay /\ r.subdelay = h.subdelay /\ r.ismuted = h.ismuted /\ r.dai_delay = h.dai_delay
        /\ r.dai_muted = h.dai_muted /\ DOMAIN r = Parts
    BY <1>7 DEF IsFcn
  <2>2. \A part \in DOMAIN r \ {"fctrl"} : IsFcn(r[part], IOs)
    BY <1>2, <2>1 DEF IsFcn
  <2>3. ASSUME NEW io \in IOs
        PROVE  /\ IsFcn(r.delay[io], w.channels[io]) /\ IsFcn(r.subdelay[io], w.channels[io])
               /\ IsFcn(r.dai_delay[io], DOMAIN r.dai_delay[io])
               /\ \A ch \in w.channels[io] : OnlyOne(w, io, ch) =>
                     /\ w.phys[io][ch] \in DOMAIN r.dai_delay[io]
                     /\ r.dai_delay[io][w.phys[io][ch]] = r.delay[io][ch]
    <3>1. r.delay[io] = delay(io) /\ r.dai_delay[io] = dai(io)
          /\ r.subdelay[io] = [ch \in w.channels[io] |-> SubdelayOf(w, c, ns, io, ch)]
      BY <1>2, <2>1
    <3>2. IsFcn(dai(io), DOMAIN c.dai_delay[io]) /\ DOMAIN dai(io) = DOMAIN c.dai_delay[io]
      BY <1>5 DEF IsDaiDelay, IsFcn
    <3>3. \A ch \in w.channels[io] : OnlyOne(w, io, ch) =>
             w.phys[io][ch] \in DOMAIN dai(io) /\ dai(io)[w.phys[io][ch]] = delay(io)[ch]
      BY <1>5, <3>2 DEF IsDaiDelay, ControlsOk
    <3> QED
      BY <3>1, <3>2, <3>3 DEF IsFcn
  <2> QED
    BY <1>7, <2>2, <2>3 DEF ControlsOk
<1>8. ControlsOk(w, g)
  BY <1>3, <1>4, <1>7
<1>9. ControlsOk(w, h)
  BY <1>2, <1>7 DEF ControlsOk
<1> QED
  BY <1>2, <1>6, <1>8, <1>9 DEF g, h

\* The parts say what was committed.
LEMMA OneCommitted ==
    ASSUME NEW w, NEW c, NEW ns, ControlsOk(w, c), NEW r, NEW s, IsCommitted(w, c, ns, r), IsCommitted(w, c, ns, s)
    PROVE  r = s
<1> DEFINE Parts == {"fctrl", "delay", "subdelay", "ismuted", "dai_delay", "dai_muted"}
<1>1. DOMAIN c = Parts
  BY DEF ControlsOk, IsFcn
<1>2. ASSUME NEW io \in IOs PROVE r.dai_delay[io] = s.dai_delay[io]
  <2> DEFINE d == r.dai_delay[io]
             e == s.dai_delay[io]
  <2>1. IsDaiDelay(w, c, ns, io, d) /\ IsDaiDelay(w, c, ns, io, e)
    BY DEF IsCommitted
  <2> HIDE DEF d, e
  <2>2. ASSUME NEW p \in DOMAIN c.dai_delay[io] PROVE d[p] = e[p]
    <3>1. CASE p \in Alone(w, io, w.channels[io])
      BY <2>1, <3>1 DEF IsDaiDelay, Alone
    <3>2. CASE p \notin Alone(w, io, w.channels[io])
      BY <2>1, <3>2 DEF IsDaiDelay
    <3> QED
      BY <3>1, <3>2
  <2>3. d = e
    BY <2>1, <2>2 DEF IsDaiDelay, IsFcn
  <2> QED
    BY <2>3 DEF d, e
<1>3. ASSUME NEW part \in Parts \ {"fctrl"} PROVE r[part] = s[part]
  <2>1. IsFcn(r[part], IOs) /\ IsFcn(s[part], IOs)
    BY <1>1 DEF IsCommitted
  <2>2. \A io \in IOs : /\ r.delay[io] = s.delay[io] /\ r.subdelay[io] = s.subdelay[io]
                         /\ r.ismuted[io] = s.ismuted[io] /\ r.dai_muted[io] = s.dai_muted[io]
    BY DEF IsCommitted
  <2>3. \A io \in IOs : r[part][io] = s[part][io]
    BY <1>2, <1>3, <2>2
  <2> QED
    BY <2>1, <2>3 DEF IsFcn
<1>4. r.fctrl = s.fctrl /\ IsFcn(r, Parts) /\ IsFcn(s, Parts)
  BY <1>1 DEF IsCommitted
<1>5. \A part \in Parts : r[part] = s[part]
  BY <1>3, <1>4
<1> QED
  BY <1>4, <1>5 DEF IsFcn

\* The statement asks for a delay that is within the maximum of the channel, or nothing
\* that was asked for before is.
Agreed(w, ns, st) ==
    \A io \in IOs : \A ch \in w.channels[io] :
        st.op = "delay" /\ st.io = io /\ st.ch = ch /\ ~(st.delay < 0) =>
            st.delay \in 0 .. w.maxdelay[io][ch] \/ ns.delay[io][ch] \notin 0 .. w.maxdelay[io][ch]

WithFilters(c, F) == [c EXCEPT !.fctrl = F]
WithFilter(ns, f, F) == [ns EXCEPT !.fctrl = F, !.fchanged = @ \union {f}]

\* A statement about filter f: the same is done to the control entered and to the control.
LEMMA FilterEntered ==
    ASSUME NEW w, NEW c, NEW ns, ControlsOk(w, c), NewStateOk(w, c, ns), NEW f, NEW F, IsFcn(F, DOMAIN w.of),
           \A g \in DOMAIN w.of \ {f} : F[g] = ns.fctrl[g]
    PROVE  /\ NewStateOk(w, c, WithFilter(ns, f, F))
           /\ WithFilters(Committed(w, c, ns), F) = Committed(w, c, WithFilter(ns, f, F))
<1> DEFINE C == Committed(w, c, ns)
           r == WithFilters(C, F)
           n == WithFilter(ns, f, F)
           Parts == {"fctrl", "delay", "subdelay", "ismuted", "dai_delay", "dai_muted"}
<1>1. IsCommitted(w, c, ns, C) /\ DOMAIN c = Parts
  BY Halves DEF ControlsOk, IsFcn
<1>0. r = [C EXCEPT !.fctrl = F]
  BY DEF WithFilters
<1> HIDE DEF C, r
<1>2. IsFcn(ns, {"fctrl", "fchanged", "toggle", "delay", "subdelay"})
  BY DEF NewStateOk
<1>3. /\ IsFcn(n, {"fctrl", "fchanged", "toggle", "delay", "subdelay"})
      /\ n.fctrl = F /\ n.fchanged = ns.fchanged \union {f}
      /\ n.toggle = ns.toggle /\ n.delay = ns.delay /\ n.subdelay = ns.subdelay
  BY <1>2 DEF IsFcn, WithFilter
<1> HIDE DEF n
<1>4. \A part \in {"toggle", "delay", "subdelay"} : IsFcn(n[part], IOs)
  <2>1. IsFcn(ns.toggle, IOs) /\ IsFcn(ns.delay, IOs) /\ IsFcn(ns.subdelay, IOs)
    BY DEF NewStateOk
  <2> QED
    BY <1>3, <2>1
<1>5. NewStateOk(w, c, n)
  BY <1>3, <1>4 DEF NewStateOk
<1>6. IsFcn(r, Parts) /\ r.fctrl = n.fctrl /\ \A part \in Parts \ {"fctrl"} : r[part] = C[part]
  BY <1>0, <1>1, <1>3 DEF IsCommitted, IsFcn
<1>7. r.delay = C.delay /\ r.subdelay = C.subdelay /\ r.ismuted = C.ismuted /\ r.dai_delay = C.dai_delay
      /\ r.dai_muted = C.dai_muted
  BY <1>6
<1>8. \A part \in Parts \ {"fctrl"} : IsFcn(r[part], IOs)
  BY <1>1, <1>6 DEF IsCommitted
<1>9. \A io, ch, d : /\ DelayOf(w, c, n, io, ch) = DelayOf(w, c, ns, io, ch)
                     /\ SubdelayOf(w, c, n, io, ch) = SubdelayOf(w, c, ns, io, ch)
                     /\ IsDaiDelay(w, c, n, io, d) <=> IsDaiDelay(w, c, ns, io, d)
  BY <1>3 DEF DelayOf, SubdelayOf, IsDaiDelay
<1>10. IsCommitted(w, c, n, r)
  BY <1>1, <1>3, <1>6, <1>7, <1>8, <1>9 DEF IsCommitted
<1>11. r = Committed(w, c, n)
  BY <1>5, <1>10, Halves, OneCommitted
<1> QED
  BY <1>5, <1>11 DEF C, r, n

LEMMA DelayEntered ==
    ASSUME NEW w, NEW c, NEW ns, ControlsOk(w, c), NewStateOk(w, c, ns), w.slots \in Int, NEW st,
           st.op = "delay", IdsExist(w, st), Agreed(w, ns, st)
    PROVE  /\ NewStateOk(w, c, EnterDelay(w, st, ns))
           /\ Changed(w, st, Committed(w, c, ns)) = Committed(w, c, EnterDelay(w, st, ns))
<1> DEFINE C == Committed(w, c, ns)
           n == EnterDelay(w, st, ns)
           Parts == {"fctrl", "delay", "subdelay", "ismuted", "dai_delay", "dai_muted"}
           NParts == {"fctrl", "fchanged", "toggle", "delay", "subdelay"}
           i == st.io
           h == st.ch
           D == IF st.delay < 0 THEN ns.delay[i][h] ELSE st.delay
           S == IF SubdelayFits(w, st.sub) THEN st.sub ELSE ns.subdelay[i][h]
           d == DelaySet(w, i, h, st.delay, C.delay[i][h])
           s == SubdelaySet(w, i, h, st.sub, C.subdelay[i][h])
           r == Changed(w, st, C)
<1>1. IsCommitted(w, c, ns, C) /\ ControlsOk(w, C) /\ DOMAIN c = Parts /\ IsFcn(C, Parts)
  <2>1. IsCommitted(w, c, ns, C) /\ ControlsOk(w, C)
    BY Halves
  <2>2. DOMAIN c = Parts
    BY DEF ControlsOk, IsFcn
  <2> QED
    BY <2>1, <2>2 DEF IsCommitted
<1>2. /\ IsFcn(ns, NParts) /\ IsFcn(ns.delay, IOs) /\ IsFcn(ns.subdelay, IOs) /\ IsFcn(ns.toggle, IOs)
      /\ \A io \in IOs : IsFcn(ns.delay[io], w.channels[io]) /\ IsFcn(ns.subdelay[io], w.channels[io])
  BY DEF NewStateOk
<1> HIDE DEF C
<1>3. h \in w.channels[i]
  BY DEF IdsExist, ChannelId
<1>4. n = [ns EXCEPT !.delay = [ns.delay EXCEPT ![i] = [ns.delay[i] EXCEPT ![h] = D]],
                     !.subdelay = [ns.subdelay EXCEPT ![i] = [ns.subdelay[i] EXCEPT ![h] = S]]]
  BY <1>2 DEF EnterDelay, IsFcn
<1>5. r = [C EXCEPT !.delay = [C.delay EXCEPT ![i] = [C.delay[i] EXCEPT ![h] = d]],
                    !.subdelay = [C.subdelay EXCEPT ![i] = [C.subdelay[i] EXCEPT ![h] = s]],
                    !.dai_delay = [C.dai_delay EXCEPT ![i] = [C.dai_delay[i] EXCEPT ![w.phys[i][h]] =
                                      IF OnlyOne(w, i, h) THEN d ELSE @]]]
  BY <1>1 DEF Changed, IsFcn
<1> HIDE DEF n, r
<1>6. /\ IsFcn(n, NParts) /\ n.fctrl = ns.fctrl /\ n.fchanged = ns.fchanged /\ n.toggle = ns.toggle
      /\ IsFcn(n.delay, IOs) /\ IsFcn(n.subdelay, IOs)
      /\ \A io \in IOs : /\ n.delay[io] = IF io = i THEN [ns.delay[i] EXCEPT ![h] = D] ELSE ns.delay[io]
                         /\ n.subdelay[io] = IF io = i THEN [ns.subdelay[i] EXCEPT ![h] = S] ELSE ns.subdelay[io]
  BY <1>2, <1>4 DEF IsFcn
<1>7. \A io \in IOs : /\ IsFcn(n.delay[io], w.channels[io]) /\ IsFcn(n.subdelay[io], w.channels[io])
                      /\ \A ch \in w.channels[io] :
                            /\ n.delay[io][ch] = IF io = i /\ ch = h THEN D ELSE ns.delay[io][ch]
                            /\ n.subdelay[io][ch] = IF io = i /\ ch = h THEN S ELSE ns.subdelay[io][ch]
  <2> HIDE DEF D, S
  <2> SUFFICES ASSUME NEW io \in IOs
               PROVE  /\ IsFcn(n.delay[io], w.channels[io]) /\ IsFcn(n.subdelay[io], w.channels[io])
                      /\ \A ch \in w.channels[io] :
                            /\ n.delay[io][ch] = IF io = i /\ ch = h THEN D ELSE ns.delay[io][ch]
                            /\ n.subdelay[io][ch] = IF io = i /\ ch = h THEN S ELSE ns.subdelay[io][ch]
    OBVIOUS
  <2>1. IsFcn(ns.delay[io], w.channels[io]) /\ IsFcn(ns.subdelay[io], w.channels[io])
    BY <1>2
  <2>2. CASE io = i
    <3>1. n.delay[io] = [ns.delay[io] EXCEPT ![h] = D] /\ n.subdelay[io] = [ns.subdelay[io] EXCEPT ![h] = S]
      BY <1>6, <2>2
    <3> QED
      BY <2>1, <2>2, <3>1 DEF IsFcn
  <2>3. CASE io # i
    <3>1. n.delay[io] = ns.delay[io] /\ n.subdelay[io] = ns.subdelay[io]
      BY <1>6, <2>3
    <3> QED
      BY <2>1, <2>3, <3>1
  <2> QED
    BY <2>2, <2>3
<1>8. NewStateOk(w, c, n)
  <2>1. \A part \in {"toggle", "delay", "subdelay"} : IsFcn(n[part], IOs)
    BY <1>2, <1>6
  <2> QED
    BY <1>6, <1>7, <2>1 DEF NewStateOk
<1>9. /\ IsFcn(r, Parts) /\ r.fctrl = C.fctrl /\ r.ismuted = C.ismuted /\ r.dai_muted = C.dai_muted
      /\ IsFcn(r.delay, IOs) /\ IsFcn(r.subdelay, IOs) /\ IsFcn(r.dai_delay, IOs)
      /\ \A io \in IOs : /\ r.delay[io] = IF io = i THEN [C.delay[i] EXCEPT ![h] = d] ELSE C.delay[io]
                         /\ r.subdelay[io] = IF io = i THEN [C.subdelay[i] EXCEPT ![h] = s] ELSE C.subdelay[io]
                         /\ r.dai_delay[io] = IF io = i THEN [C.dai_delay[i] EXCEPT ![w.phys[i][h]] =
                                                                 IF OnlyOne(w, i, h) THEN d ELSE @]
                                              ELSE C.dai_delay[io]
  <2>1. IsFcn(C.delay, IOs) /\ IsFcn(C.subdelay, IOs) /\ IsFcn(C.dai_delay, IOs)
    <3>1. \A part \in Parts \ {"fctrl"} : IsFcn(C[part], IOs)
      BY <1>1 DEF IsCommitted
    <3> QED
      BY <3>1
  <2> QED
    BY <1>1, <1>5, <2>1 DEF IsFcn
<1>10. /\ \A io \in IOs : \A ch \in w.channels[io] : C.delay[io][ch] = DelayOf(w, c, ns, io, ch)
       /\ \A io \in IOs : \A ch \in w.channels[io] : C.subdelay[io][ch] = SubdelayOf(w, c, ns, io, ch)
  <2>1. \A io \in IOs : /\ C.delay[io] = [ch \in w.channels[io] |-> DelayOf(w, c, ns, io, ch)]
                         /\ C.subdelay[io] = [ch \in w.channels[io] |-> SubdelayOf(w, c, ns, io, ch)]
    BY <1>1 DEF IsCommitted
  <2> QED
    BY <2>1
<1>11. ASSUME i \in IOs PROVE d = DelayOf(w, c, n, i, h)
  <2>1. n.delay[i][h] = D /\ C.delay[i][h] = DelayOf(w, c, ns, i, h)
    BY <1>3, <1>7, <1>10, <1>11
  <2>2. CASE st.delay < 0
    <3>1. st.delay \notin 0 .. w.maxdelay[i][h]
      BY <2>2
    <3> QED
      BY <2>1, <2>2, <3>1 DEF DelaySet, DelayOf
  <2>3. CASE ~(st.delay < 0)
    <3>1. st.delay # Unchanged
      BY <2>3 DEF Unchanged
    <3>2. DelayOf(w, c, n, i, h) = DelaySet(w, i, h, st.delay, c.delay[i][h])
      BY <2>1, <2>3, <3>1 DEF DelayOf
    <3>3. st.delay \in 0 .. w.maxdelay[i][h] \/ ns.delay[i][h] \notin 0 .. w.maxdelay[i][h]
      BY <1>3, <1>11, <2>3 DEF Agreed
    <3> QED
      BY <2>1, <3>2, <3>3 DEF DelaySet, DelayOf
  <2> QED
    BY <2>2, <2>3
<1>12. ASSUME i \in IOs PROVE s = SubdelayOf(w, c, n, i, h)
  BY <1>3, <1>7, <1>10, <1>12 DEF SubdelayOf, SubdelaySet
<1>13. \A io \in IOs : \A ch \in w.channels[io] : io # i \/ ch # h =>
          /\ DelayOf(w, c, n, io, ch) = DelayOf(w, c, ns, io, ch)
          /\ SubdelayOf(w, c, n, io, ch) = SubdelayOf(w, c, ns, io, ch)
  BY <1>7 DEF DelayOf, SubdelayOf
<1> HIDE DEF d, s, D, S
<1>14. ASSUME NEW io \in IOs
       PROVE  /\ r.delay[io] = [ch \in w.channels[io] |-> DelayOf(w, c, n, io, ch)]
              /\ r.subdelay[io] = [ch \in w.channels[io] |-> SubdelayOf(w, c, n, io, ch)]
  <2>1. C.delay[io] = [ch \in w.channels[io] |-> DelayOf(w, c, ns, io, ch)]
        /\ C.subdelay[io] = [ch \in w.channels[io] |-> SubdelayOf(w, c, ns, io, ch)]
    BY <1>1 DEF IsCommitted
  <2>2. CASE io # i
    BY <1>9, <1>13, <2>1, <2>2
  <2>3. CASE io = i
    <3>1. r.delay[io] = [ch \in w.channels[io] |-> IF ch = h THEN d ELSE DelayOf(w, c, ns, io, ch)]
          /\ r.subdelay[io] = [ch \in w.channels[io] |-> IF ch = h THEN s ELSE SubdelayOf(w, c, ns, io, ch)]
      BY <1>9, <2>1, <2>3
    <3> QED
      BY <1>11, <1>12, <1>13, <2>3, <3>1
  <2> QED
    BY <2>2, <2>3
<1>15. ASSUME NEW io \in IOs PROVE IsDaiDelay(w, c, n, io, r.dai_delay[io])
  <2>1. IsDaiDelay(w, c, ns, io, C.dai_delay[io])
    BY <1>1 DEF IsCommitted
  <2>2. CASE io # i
    BY <1>9, <1>13, <2>1, <2>2 DEF IsDaiDelay
  <2>3. CASE io = i /\ ~OnlyOne(w, i, h)
    <3>1. r.dai_delay[io] = C.dai_delay[io]
      BY <1>9, <2>1, <2>3 DEF IsDaiDelay, IsFcn
    <3> QED
      BY <1>13, <2>1, <2>3, <3>1 DEF IsDaiDelay
  <2>4. CASE io = i /\ OnlyOne(w, i, h)
    <3> DEFINE e == r.dai_delay[io]
               p == w.phys[i][h]
    <3>1. p \in DOMAIN c.dai_delay[i] /\ \A ch \in w.channels[i] : w.phys[i][ch] = p => ch = h
      BY <1>3, <2>4 DEF ControlsOk, OnlyOne
    <3>2. IsFcn(e, DOMAIN c.dai_delay[i]) /\ \A q \in DOMAIN c.dai_delay[i] :
              e[q] = IF q = p THEN d ELSE C.dai_delay[i][q]
      BY <1>9, <2>1, <2>4, <3>1 DEF IsDaiDelay, IsFcn
    <3> HIDE DEF e
    <3>3. \A ch \in w.channels[i] : OnlyOne(w, i, ch) => e[w.phys[i][ch]] = DelayOf(w, c, n, i, ch)
      <4> SUFFICES ASSUME NEW ch \in w.channels[i], OnlyOne(w, i, ch) PROVE e[w.phys[i][ch]] = DelayOf(w, c, n, i, ch)
        OBVIOUS
      <4>1. w.phys[i][ch] \in DOMAIN c.dai_delay[i] /\ C.dai_delay[i][w.phys[i][ch]] = DelayOf(w, c, ns, i, ch)
        BY <2>1, <2>4 DEF ControlsOk, IsDaiDelay
      <4>2. CASE ch = h
        BY <1>11, <2>4, <3>2, <4>1, <4>2
      <4>3. CASE ch # h
        BY <1>13, <2>4, <3>1, <3>2, <4>1, <4>3
      <4> QED
        BY <4>2, <4>3
    <3>4. p \in Alone(w, i, w.channels[i])
      BY <1>3, <2>4 DEF Alone
    <3>5. \A q \in DOMAIN c.dai_delay[i] \ Alone(w, i, w.channels[i]) : e[q] = c.dai_delay[i][q]
      BY <2>1, <2>4, <3>2, <3>4 DEF IsDaiDelay
    <3>6. IsDaiDelay(w, c, n, i, e)
      BY <3>2, <3>3, <3>5 DEF IsDaiDelay
    <3> QED
      BY <2>4, <3>6 DEF e
  <2> QED
    BY <2>2, <2>3, <2>4
<1>16. \A part \in DOMAIN c \ {"fctrl"} : IsFcn(r[part], IOs)
  <2>1. IsFcn(C.ismuted, IOs) /\ IsFcn(C.dai_muted, IOs)
    BY <1>1 DEF IsCommitted
  <2> QED
    BY <1>1, <1>9, <2>1
<1>17. IsCommitted(w, c, n, r)
  BY <1>1, <1>6, <1>9, <1>14, <1>15, <1>16 DEF IsCommitted
<1>18. r = Committed(w, c, n)
  BY <1>8, <1>17, Halves, OneCommitted
<1> QED
  BY <1>8, <1>18 DEF r, n, C

LEMMA Toggling ==
    ASSUME NEW w, NEW io, NEW T \in SUBSET w.channels[io], NEW ch \in w.channels[io]
    PROVE  /\ \A A : SymDiff(A, Toggled(T, ch)) = Toggled(SymDiff(A, T), ch)
           /\ OnlyOne(w, io, ch) => \A A : SymDiff(A, Alone(w, io, Toggled(T, ch)))
                                            = Toggled(SymDiff(A, Alone(w, io, T)), w.phys[io][ch])
           /\ ~OnlyOne(w, io, ch) => Alone(w, io, Toggled(T, ch)) = Alone(w, io, T)
<1>1. \A S, x, A : SymDiff(A, Toggled(S, x)) = Toggled(SymDiff(A, S), x)
  BY DEF SymDiff, Toggled
<1>2. ASSUME OnlyOne(w, io, ch) PROVE Alone(w, io, Toggled(T, ch)) = Toggled(Alone(w, io, T), w.phys[io][ch])
  <2>1. \A x \in w.channels[io] : w.phys[io][x] = w.phys[io][ch] => x = ch
    BY <1>2 DEF OnlyOne
  <2>2. w.phys[io][ch] \in Alone(w, io, T) <=> ch \in T
    BY <1>2, AloneIs
  <2>3. CASE ch \in T
    <3>1. ASSUME NEW p PROVE p \in Alone(w, io, T \ {ch}) <=> p \in Alone(w, io, T) \ {w.phys[io][ch]}
      BY <2>1 DEF Alone
    <3> QED
      BY <2>2, <2>3, <3>1 DEF Toggled
  <2>4. CASE ch \notin T
    <3>1. ASSUME NEW p PROVE p \in Alone(w, io, T \union {ch}) <=> p \in Alone(w, io, T) \union {w.phys[io][ch]}
      BY <1>2 DEF Alone
    <3> QED
      BY <2>2, <2>4, <3>1 DEF Toggled
  <2> QED
    BY <2>3, <2>4
<1>3. ~OnlyOne(w, io, ch) => Alone(w, io, Toggled(T, ch)) = Alone(w, io, T)
  BY DEF Alone, Toggled
<1> QED
  BY <1>1, <1>2, <1>3

LEMMA MuteEntered ==
    ASSUME NEW w, NEW c, NEW ns, ControlsOk(w, c), NewStateOk(w, c, ns), NEW st, st.op = "mute", IdsExist(w, st),
           NEW n, n = [ns EXCEPT !.toggle[st.io] = Toggled(@, st.ch)]
    PROVE  /\ NewStateOk(w, c, n)
           /\ Changed(w, st, Committed(w, c, ns)) = Committed(w, c, n)
           /\ n.delay = ns.delay
<1> DEFINE C == Committed(w, c, ns)
           Parts == {"fctrl", "delay", "subdelay", "ismuted", "dai_delay", "dai_muted"}
           NParts == {"fctrl", "fchanged", "toggle", "delay", "subdelay"}
           i == st.io
           h == st.ch
           r == Changed(w, st, C)
<1>1. IsCommitted(w, c, ns, C) /\ DOMAIN c = Parts
  BY Halves DEF ControlsOk, IsFcn
<1>2. IsFcn(ns, NParts) /\ IsFcn(ns.delay, IOs) /\ IsFcn(ns.subdelay, IOs) /\ IsFcn(ns.toggle, IOs)
  BY DEF NewStateOk
<1> HIDE DEF C
<1>3. h \in w.channels[i]
  BY DEF IdsExist, ChannelId
<1>4. /\ IsFcn(n, NParts) /\ n.fctrl = ns.fctrl /\ n.fchanged = ns.fchanged /\ n.delay = ns.delay
      /\ n.subdelay = ns.subdelay /\ IsFcn(n.toggle, IOs)
      /\ \A io \in IOs : n.toggle[io] = IF io = i THEN Toggled(ns.toggle[io], h) ELSE ns.toggle[io]
  BY <1>2 DEF IsFcn
<1>5. NewStateOk(w, c, n)
  <2>1. \A part \in {"toggle", "delay", "subdelay"} : IsFcn(n[part], IOs)
    BY <1>2, <1>4
  <2>2. \A io \in IOs : n.toggle[io] \subseteq w.channels[io]
    BY <1>3, <1>4 DEF NewStateOk, Toggled
  <2> QED
    BY <1>4, <2>1, <2>2 DEF NewStateOk
<1>6. /\ IsFcn(C.ismuted, IOs) /\ IsFcn(C.dai_muted, IOs) /\ IsFcn(C, Parts)
      /\ IsFcn(C.delay, IOs) /\ IsFcn(C.subdelay, IOs) /\ IsFcn(C.dai_delay, IOs)
  <2>1. \A part \in Parts \ {"fctrl"} : IsFcn(C[part], IOs)
    BY <1>1 DEF IsCommitted
  <2> QED
    BY <1>1, <2>1 DEF IsCommitted
<1>7. r = [C EXCEPT !.ismuted = [C.ismuted EXCEPT ![i] = Toggled(@, h)],
                    !.dai_muted = [C.dai_muted EXCEPT ![i] = IF OnlyOne(w, i, h) THEN Toggled(@, w.phys[i][h]) ELSE @]]
  BY <1>6 DEF Changed, IsFcn
<1> HIDE DEF r
<1>8. /\ IsFcn(r, Parts) /\ r.fctrl = C.fctrl /\ r.delay = C.delay /\ r.subdelay = C.subdelay
      /\ r.dai_delay = C.dai_delay /\ IsFcn(r.ismuted, IOs) /\ IsFcn(r.dai_muted, IOs)
      /\ \A io \in IOs :
            /\ r.ismuted[io] = IF io = i THEN Toggled(C.ismuted[io], h) ELSE C.ismuted[io]
            /\ r.dai_muted[io] = IF io = i /\ OnlyOne(w, io, h) THEN Toggled(C.dai_muted[io], w.phys[io][h])
                                 ELSE C.dai_muted[io]
  BY <1>6, <1>7 DEF IsFcn
<1>9. ASSUME NEW io \in IOs
      PROVE  /\ r.ismuted[io] = SymDiff(c.ismuted[io], n.toggle[io])
             /\ r.dai_muted[io] = SymDiff(c.dai_muted[io], Alone(w, io, n.toggle[io]))
  <2>1. /\ C.ismuted[io] = SymDiff(c.ismuted[io], ns.toggle[io])
        /\ C.dai_muted[io] = SymDiff(c.dai_muted[io], Alone(w, io, ns.toggle[io]))
        /\ ns.toggle[io] \subseteq w.channels[io]
    BY <1>1 DEF IsCommitted, NewStateOk
  <2>2. CASE io # i
    BY <1>4, <1>8, <2>1, <2>2
  <2>3. CASE io = i
    <3>1. h \in w.channels[io] /\ n.toggle[io] = Toggled(ns.toggle[io], h)
      BY <1>3, <1>4, <2>3
    <3> QED
      BY <1>8, <2>1, <2>3, <3>1, Toggling
  <2> QED
    BY <2>2, <2>3
<1>10. \A io, ch, d : /\ DelayOf(w, c, n, io, ch) = DelayOf(w, c, ns, io, ch)
                      /\ SubdelayOf(w, c, n, io, ch) = SubdelayOf(w, c, ns, io, ch)
                      /\ IsDaiDelay(w, c, n, io, d) <=> IsDaiDelay(w, c, ns, io, d)
  BY <1>4 DEF DelayOf, SubdelayOf, IsDaiDelay
<1>11. \A part \in DOMAIN c \ {"fctrl"} : IsFcn(r[part], IOs)
  BY <1>1, <1>6, <1>8
<1>12. IsCommitted(w, c, n, r)
  BY <1>1, <1>4, <1>8, <1>9, <1>10, <1>11 DEF IsCommitted
<1>13. r = Committed(w, c, n)
  BY <1>5, <1>12, Halves, OneCommitted
<1> QED
  BY <1>4, <1>5, <1>13 DEF r, C

\* To enter a statement and to commit is to commit and to change what it says.
LEMMA EnteredIsChanged ==
    ASSUME NEW w, NEW c, NEW ns, ControlsOk(w, c), NewStateOk(w, c, ns), w.slots \in Int, NEW st, Agreed(w, ns, st)
    PROVE  /\ NewStateOk(w, c, Entered(w, st, ns))
           /\ Changed(w, st, Committed(w, c, ns)) = Committed(w, c, Entered(w, st, ns))
<1> DEFINE C == Committed(w, c, ns)
           n == Entered(w, st, ns)
<1>1. IsCommitted(w, c, ns, C) /\ C.fctrl = ns.fctrl /\ IsFcn(ns.fctrl, DOMAIN w.of) /\ IsFcn(C, DOMAIN c)
      /\ "fctrl" \in DOMAIN c
  <2>1. IsCommitted(w, c, ns, C)
    BY Halves
  <2>2. "fctrl" \in DOMAIN c
    BY DEF ControlsOk, IsFcn
  <2> HIDE DEF C
  <2> QED
    BY <2>1, <2>2 DEF IsCommitted, NewStateOk
<1> HIDE DEF C
<1>2. CASE ~IdsExist(w, st) \/ st.op \notin {"scale", "fscale", "coeff", "blocks", "delay", "mute"}
           \/ (st.op = "blocks" /\ ~BlocksFit(w, st.n))
  BY <1>2 DEF Entered, Changed, C
<1>3. ASSUME NEW u, IdsExist(w, st), st.op \in {"scale", "fscale", "coeff", "blocks"},
             n = [ns EXCEPT !.fctrl = [ns.fctrl EXCEPT ![st.f] = u], !.fchanged = @ \union {st.f}],
             Changed(w, st, C) = [C EXCEPT !.fctrl = [C.fctrl EXCEPT ![st.f] = u]]
      PROVE  NewStateOk(w, c, n) /\ Changed(w, st, C) = Committed(w, c, n)
  <2> DEFINE F == [ns.fctrl EXCEPT ![st.f] = u]
  <2>1. IsFcn(F, DOMAIN w.of) /\ \A f \in DOMAIN w.of \ {st.f} : F[f] = ns.fctrl[f]
    BY <1>1 DEF IsFcn
  <2>2. n = WithFilter(ns, st.f, F) /\ Changed(w, st, C) = WithFilters(C, F)
    BY <1>1, <1>3 DEF WithFilter, WithFilters
  <2> HIDE DEF F, n
  <2>3. /\ NewStateOk(w, c, WithFilter(ns, st.f, F))
        /\ WithFilters(Committed(w, c, ns), F) = Committed(w, c, WithFilter(ns, st.f, F))
    BY <2>1, FilterEntered
  <2> QED
    BY <2>2, <2>3 DEF C
<1>4. CASE IdsExist(w, st) /\ st.op = "scale"
  <2> DEFINE u == [ns.fctrl[st.f] EXCEPT !.scale[st.io][st.ch] = Factor(@, st)]
  <2>1. n = [ns EXCEPT !.fctrl = [ns.fctrl EXCEPT ![st.f] = u], !.fchanged = @ \union {st.f}]
    BY <1>4 DEF Entered
  <2>2. Changed(w, st, C) = [C EXCEPT !.fctrl = [C.fctrl EXCEPT ![st.f] = u]]
    BY <1>1, <1>4 DEF Changed
  <2> QED
    BY <1>3, <1>4, <2>1, <2>2 DEF C
<1>5. CASE IdsExist(w, st) /\ st.op = "fscale"
  <2> DEFINE u == [ns.fctrl[st.f] EXCEPT !.fscale[st.g] = Factor(@, st)]
  <2>1. n = [ns EXCEPT !.fctrl = [ns.fctrl EXCEPT ![st.f] = u], !.fchanged = @ \union {st.f}]
    BY <1>5 DEF Entered
  <2>2. Changed(w, st, C) = [C EXCEPT !.fctrl = [C.fctrl EXCEPT ![st.f] = u]]
    BY <1>1, <1>5 DEF Changed
  <2> QED
    BY <1>3, <1>5, <2>1, <2>2 DEF C
<1>6. CASE IdsExist(w, st) /\ st.op = "coeff"
  <2> DEFINE u == [ns.fctrl[st.f] EXCEPT !.coeff = st.coeff]
  <2>1. n = [ns EXCEPT !.fctrl = [ns.fctrl EXCEPT ![st.f] = u], !.fchanged = @ \union {st.f}]
    BY <1>6 DEF Entered
  <2>2. Changed(w, st, C) = [C EXCEPT !.fctrl = [C.fctrl EXCEPT ![st.f] = u]]
    BY <1>1, <1>6 DEF Changed
  <2> QED
    BY <1>3, <1>6, <2>1, <2>2 DEF C
<1>7. CASE IdsExist(w, st) /\ st.op = "blocks" /\ BlocksFit(w, st.n)
  <2> DEFINE u == [ns.fctrl[st.f] EXCEPT !.delayblocks = st.n]
  <2>1. n = [ns EXCEPT !.fctrl = [ns.fctrl EXCEPT ![st.f] = u], !.fchanged = @ \union {st.f}]
    BY <1>7 DEF Entered
  <2>2. Changed(w, st, C) = [C EXCEPT !.fctrl = [C.fctrl EXCEPT ![st.f] = u]]
    BY <1>1, <1>7 DEF Changed
  <2> QED
    BY <1>3, <1>7, <2>1, <2>2 DEF C
<1>8. CASE IdsExist(w, st) /\ st.op = "delay"
  <2>1. n = EnterDelay(w, st, ns)
    BY <1>8 DEF Entered
  <2> QED
    BY <1>8, <2>1, DelayEntered DEF C
<1>9. CASE IdsExist(w, st) /\ st.op = "mute"
  <2>1. n = [ns EXCEPT !.toggle[st.io] = Toggled(@, st.ch)]
    BY <1>9 DEF Entered
  <2> HIDE DEF n
  <2>2. NewStateOk(w, c, n) /\ Changed(w, st, C) = Committed(w, c, n)
    BY <1>9, <2>1, MuteEntered DEF C
  <2> QED
    BY <2>2 DEF n, C
<1> QED
  BY <1>2, <1>4, <1>5, <1>6, <1>7, <1>8, <1>9 DEF C

\* What a statement leaves in the delays that were asked for.
LEMMA EnteredDelays ==
    ASSUME NEW w, NEW c, NEW ns, NewStateOk(w, c, ns), NEW st, NEW io \in IOs, NEW ch \in w.channels[io]
    PROVE  \/ Entered(w, st, ns).delay[io][ch] = ns.delay[io][ch]
           \/ /\ st.op = "delay" /\ st.io = io /\ st.ch = ch /\ ~(st.delay < 0)
              /\ Entered(w, st, ns).delay[io][ch] = st.delay
<1>1. /\ IsFcn(ns, {"fctrl", "fchanged", "toggle", "delay", "subdelay"}) /\ IsFcn(ns.delay, IOs)
      /\ IsFcn(ns.delay[io], w.channels[io])
  BY DEF NewStateOk
<1>2. CASE ~IdsExist(w, st) \/ st.op # "delay"
  <2>1. Entered(w, st, ns).delay = ns.delay
    BY <1>1, <1>2 DEF Entered, IsFcn
  <2> QED
    BY <2>1
<1>3. CASE IdsExist(w, st) /\ st.op = "delay"
  <2>1. Entered(w, st, ns) = EnterDelay(w, st, ns)
    BY <1>3 DEF Entered
  <2>2. EnterDelay(w, st, ns).delay = [ns.delay EXCEPT ![st.io] = [ns.delay[st.io] EXCEPT ![st.ch] =
                                          IF st.delay < 0 THEN @ ELSE st.delay]]
    BY <1>1 DEF EnterDelay, IsFcn
  <2>3. Entered(w, st, ns).delay[io][ch] = IF st.io = io /\ st.ch = ch /\ ~(st.delay < 0) THEN st.delay
                                           ELSE ns.delay[io][ch]
    BY <1>1, <2>1, <2>2 DEF IsFcn
  <2> QED
    BY <1>3, <2>3
<1> QED
  BY <1>2, <1>3

\* Nothing entered, nothing committed.
LEMMA NothingEntered ==
    ASSUME NEW w, NEW c, NEW ns, ControlsOk(w, c), NewStateOk(w, c, ns), w.slots \in Int, ~AreChanges(w, ns)
    PROVE  Committed(w, c, ns) = c
<1>1. /\ ns.fchanged = {} /\ \A io \in IOs : ns.toggle[io] = {}
      /\ \A io \in IOs : \A ch \in w.channels[io] : ns.delay[io][ch] = Unchanged /\ ns.subdelay[io][ch] = Undefined(w)
  BY DEF AreChanges
<1>2. c.fctrl = ns.fctrl
  BY <1>1 DEF NewStateOk, ControlsOk, IsFcn
<1>3. ASSUME NEW io \in IOs
      PROVE  /\ c.delay[io] = [ch \in w.channels[io] |-> DelayOf(w, c, ns, io, ch)]
             /\ c.subdelay[io] = [ch \in w.channels[io] |-> SubdelayOf(w, c, ns, io, ch)]
             /\ c.ismuted[io] = SymDiff(c.ismuted[io], ns.toggle[io])
             /\ IsDaiDelay(w, c, ns, io, c.dai_delay[io])
             /\ c.dai_muted[io] = SymDiff(c.dai_muted[io], Alone(w, io, ns.toggle[io]))
  <2>1. \A ch \in w.channels[io] : DelayOf(w, c, ns, io, ch) = c.delay[io][ch]
    BY <1>1 DEF DelayOf
  <2>2. \A ch \in w.channels[io] : SubdelayOf(w, c, ns, io, ch) = c.subdelay[io][ch]
    BY <1>1 DEF SubdelayOf, SubdelaySet, SubdelayFits, Undefined
  <2>3. c.ismuted[io] = SymDiff(c.ismuted[io], ns.toggle[io])
    BY <1>1 DEF SymDiff
  <2>4. Alone(w, io, ns.toggle[io]) = {}
    BY <1>1 DEF Alone
  <2>5. c.dai_muted[io] = SymDiff(c.dai_muted[io], Alone(w, io, ns.toggle[io]))
    BY <2>4 DEF SymDiff
  <2>6. IsDaiDelay(w, c, ns, io, c.dai_delay[io])
    BY <2>1 DEF IsDaiDelay, ControlsOk
  <2>7. IsFcn(c.delay[io], w.channels[io]) /\ IsFcn(c.subdelay[io], w.channels[io])
    BY DEF ControlsOk
  <2> QED
    BY <2>1, <2>2, <2>3, <2>5, <2>6, <2>7 DEF IsFcn
<1>4. IsFcn(c, DOMAIN c) /\ \A part \in DOMAIN c \ {"fctrl"} : IsFcn(c[part], IOs)
  BY DEF ControlsOk, IsFcn
<1>5. IsCommitted(w, c, ns, c)
  BY <1>2, <1>3, <1>4 DEF IsCommitted
<1> QED
  BY <1>5, Halves, OneCommitted

LEMMA Cleared ==
    ASSUME NEW w, NEW c, ControlsOk(w, c)
    PROVE  /\ NewStateOk(w, c, ClearChanges(w, c)) /\ ~AreChanges(w, ClearChanges(w, c))
           /\ \A io \in IOs : \A ch \in w.channels[io] : ClearChanges(w, c).delay[io][ch] = Unchanged
<1> DEFINE n == ClearChanges(w, c)
<1>1. /\ n.fctrl = c.fctrl /\ n.fchanged = {} /\ n.toggle = [io \in IOs |-> {}]
      /\ n.delay = [io \in IOs |-> [ch \in w.channels[io] |-> Unchanged]]
      /\ n.subdelay = [io \in IOs |-> [ch \in w.channels[io] |-> Undefined(w)]]
      /\ IsFcn(n, {"fctrl", "fchanged", "toggle", "delay", "subdelay"})
  BY DEF ClearChanges, IsFcn
<1> HIDE DEF n
<1>2. IsFcn(n.fctrl, DOMAIN w.of)
  BY <1>1 DEF ControlsOk
<1>3. \A part \in {"toggle", "delay", "subdelay"} : IsFcn(n[part], IOs)
  BY <1>1 DEF IsFcn
<1>4. \A io \in IOs : IsFcn(n.delay[io], w.channels[io]) /\ IsFcn(n.subdelay[io], w.channels[io])
  BY <1>1 DEF IsFcn
<1>5. NewStateOk(w, c, n)
  BY <1>1, <1>2, <1>3, <1>4 DEF NewStateOk
<1>6. ~AreChanges(w, n)
  <2>1. \A io \in IOs : n.toggle[io] = {}
    BY <1>1
  <2>2. \A io \in IOs : \A ch \in w.channels[io] : n.delay[io][ch] = Unchanged /\ n.subdelay[io][ch] = Undefined(w)
    BY <1>1
  <2> QED
    BY <1>1, <2>1, <2>2 DEF AreChanges
<1> QED
  BY <1>1, <1>5, <1>6 DEF n

-----------------------------------------------------------------------------
(* Whole sets of statements *)

\* The delays that a configuration's statements ask for on a channel: all of them are
\* within its maximum, or none is.  (newstate holds the last one only, so that a delay
\* that is refused takes with it what was asked for before in the same set.)
Asks(c, io, ch) ==
    {st.delay : st \in {s \in Statements(c) : s.op = "delay" /\ s.io = io /\ s.ch = ch /\ ~(s.delay < 0)}}
DelaysAgree(c) ==
    \A io \in IOs : \A ch \in c.net.channels[io] :
        \/ Asks(c, io, ch) \subseteq 0 .. c.net.maxdelay[io][ch]
        \/ Asks(c, io, ch) \cap (0 .. c.net.maxdelay[io][ch]) = {}

\* What is to be carried out comes from the configuration.
Text == Seq(Statements(conf))
TermOk == /\ term.left \in Seq(Seq(Text)) /\ term.rx \in Seq(Text) /\ term.buf \in Seq(Text)
          /\ term.sessions \in Seq(Seq(Seq(Text)))
TextInv ==
    /\ cli.text \in Text
    /\ DOMAIN term = {"sessions", "left", "rx", "buf", "eof"} /\ (Mode # "script" => TermOk)
    /\ DOMAIN script = {"next", "sleep", "quit"} /\ (Mode = "script" => script.next \in DOMAIN Sets(conf.script))

LEMMA TypedText ==
    ASSUME NEW S, NEW line \in Seq(S)
    PROVE  Typed(line) \in Seq(S)
BY EmptySeq DEF Typed

LEMMA TextSteps ==
    ASSUME ConfOk, HookInv, TextInv, Next
    PROVE  TextInv'
<1>1. UNCHANGED conf
  BY DEF Next, Send, HangUp, Cli, Accept, GetLine, Disconnect, Statement, Command, Answer, CommitChannels,
         CommitFilters, EndOfText, Filters, BlockStart, FilterStep, AfterHook, Copy, Synch, Choose, Seen,
         Convolved, EndBlock, Eq, ReadCommand, Render, Rendered, Swap, Mark
<1>2. Mode' = Mode /\ Text' = Text /\ Sets(conf.script)' = Sets(conf.script)
  BY <1>1 DEF Mode, Text, Statements, Lines
<1> HIDE DEF Text
<1>3. CASE cli'.text = cli.text /\ UNCHANGED term /\ DOMAIN script' = DOMAIN script /\ script'.next = script.next
  BY <1>2, <1>3 DEF TextInv, TermOk
<1>4. CASE Send
  <2>1. Mode # "script" /\ cli' = cli /\ script' = script /\ term.left # <<>>
        /\ term' = [term EXCEPT !.rx = @ \o Head(term.left), !.left = Tail(@)]
    BY <1>4 DEF Send, Connected
  <2>2. TermOk /\ DOMAIN term = {"sessions", "left", "rx", "buf", "eof"}
    BY <2>1 DEF TextInv
  <2>3. Head(term.left) \in Seq(Text) /\ Tail(term.left) \in Seq(Seq(Text))
    BY <2>1, <2>2, HeadTailProperties DEF TermOk
  <2>4. term.rx \o Head(term.left) \in Seq(Text)
    BY <2>2, <2>3, ConcatProperties DEF TermOk
  <2>5. /\ DOMAIN term' = DOMAIN term /\ term'.rx = term.rx \o Head(term.left) /\ term'.left = Tail(term.left)
        /\ term'.buf = term.buf /\ term'.sessions = term.sessions
    BY <2>1, <2>2
  <2> QED
    BY <1>2, <2>1, <2>2, <2>3, <2>4, <2>5 DEF TextInv, TermOk
<1>5. CASE HangUp
  <2>1. cli' = cli /\ script' = script /\ term' = [term EXCEPT !.eof = TRUE]
    BY <1>5 DEF HangUp
  <2>2. DOMAIN term' = DOMAIN term /\ term'.rx = term.rx /\ term'.left = term.left
        /\ term'.buf = term.buf /\ term'.sessions = term.sessions
    BY <2>1 DEF TextInv
  <2> QED
    BY <1>2, <2>1, <2>2 DEF TextInv, TermOk
<1>6. CASE Accept
  <2>1. /\ Mode # "script" /\ script' = script /\ cli'.text = cli.text /\ term.sessions # <<>>
        /\ term' = [sessions |-> Tail(term.sessions), left |-> Head(term.sessions), rx |-> <<>>,
                    buf |-> <<>>, eof |-> FALSE]
    BY <1>6 DEF Accept, HookInv
  <2>2. term.sessions \in Seq(Seq(Seq(Text)))
    BY <2>1 DEF TextInv, TermOk
  <2>3. Head(term.sessions) \in Seq(Seq(Text)) /\ Tail(term.sessions) \in Seq(Seq(Seq(Text)))
    BY <2>1, <2>2, HeadTailProperties
  <2>4. /\ DOMAIN term' = {"sessions", "left", "rx", "buf", "eof"} /\ term'.sessions = Tail(term.sessions)
        /\ term'.left = Head(term.sessions) /\ term'.rx = <<>> /\ term'.buf = <<>>
    BY <2>1
  <2>5. <<>> \in Seq(Text)
    BY EmptySeq
  <2> QED
    BY <1>2, <2>1, <2>3, <2>4, <2>5 DEF TextInv, TermOk
<1>7. CASE GetLine
  <2>1. /\ Mode # "script" /\ script' = script /\ Source # <<>> /\ cli' = Parsing(Typed(Head(Source)))
        /\ term' = [term EXCEPT !.buf = Tail(Source), !.rx = IF term.buf # <<>> THEN @ ELSE <<>>]
    BY <1>7 DEF GetLine, HookInv
  <2>2. TermOk /\ DOMAIN term = {"sessions", "left", "rx", "buf", "eof"}
    BY <2>1 DEF TextInv
  <2>3. Source \in Seq(Text)
    BY <2>2 DEF Source, TermOk
  <2>4. Head(Source) \in Text /\ Tail(Source) \in Seq(Text)
    BY <2>1, <2>3, HeadTailProperties
  <2>5. Typed(Head(Source)) \in Text
    BY <2>4, TypedText DEF Text
  <2>6. cli'.text = Typed(Head(Source))
    BY <2>1 DEF Parsing, HookInv
  <2>7. /\ DOMAIN term' = DOMAIN term /\ term'.buf = Tail(Source) /\ term'.rx \in {term.rx, <<>>}
        /\ term'.left = term.left /\ term'.sessions = term.sessions
    BY <2>1, <2>2
  <2>8. <<>> \in Seq(Text)
    BY EmptySeq
  <2>9. TermOk'
    BY <1>2, <2>2, <2>4, <2>7, <2>8 DEF TermOk
  <2> QED
    BY <1>2, <2>1, <2>2, <2>5, <2>6, <2>7, <2>9 DEF TextInv
<1>8. CASE Statement \/ Command
  <2>1. cli.text # <<>> /\ cli'.text = Tail(cli.text) /\ UNCHANGED <<term, script>>
    BY <1>8 DEF Statement, Command, HookInv
  <2>2. Tail(cli.text) \in Text
    BY <2>1, HeadTailProperties DEF TextInv, Text
  <2> QED
    BY <1>2, <2>1, <2>2 DEF TextInv, TermOk
<1>9. CASE EndOfText
  <2>1. cli'.text = cli.text /\ UNCHANGED term
    BY <1>9 DEF EndOfText, HookInv
  <2>2. DOMAIN script' = DOMAIN script /\ script'.next = script.next
    BY <1>9 DEF EndOfText, TextInv
  <2> QED
    BY <1>3, <2>1, <2>2
<1>10. CASE Disconnect \/ Answer \/ CommitChannels \/ CommitFilters
  <2>1. cli'.text = cli.text /\ UNCHANGED <<term, script>>
    BY <1>10 DEF Disconnect, Answer, CommitChannels, CommitFilters, HookInv
  <2> QED
    BY <1>3, <2>1
<1>11. CASE BlockStart
  <2> DEFINE all == Sets(conf.script)
  <2>1. Mode = "script" /\ UNCHANGED term
    BY <1>11 DEF BlockStart
  <2>2. CASE script.quit \/ script.sleep > 0
    <3>1. cli' = cli /\ script' = [script EXCEPT !.sleep = IF script.quit THEN @ ELSE @ - 1]
      BY <1>11, <2>2 DEF BlockStart
    <3>2. DOMAIN script' = DOMAIN script /\ script'.next = script.next
      BY <3>1 DEF TextInv
    <3> QED
      BY <1>3, <2>1, <3>1, <3>2
  <2>3. CASE ~(script.quit \/ script.sleep > 0)
    <3>1. all \in Seq(Text) /\ script.next \in DOMAIN all
      BY <2>1, ControlAssumption DEF ConfOk, Mode, Text, TextInv
    <3>2. cli' = Parsing(all[script.next]) /\ script' = [script EXCEPT !.next = IF @ = Len(all) THEN 1 ELSE @ + 1]
      BY <1>11, <2>3 DEF BlockStart
    <3> HIDE DEF all
    <3>3. all[script.next] \in Text /\ DOMAIN all = 1 .. Len(all) /\ Len(all) \in Nat
      BY <3>1, ElementOfSeq, LenProperties
    <3>4. cli'.text = all[script.next]
      BY <3>2 DEF Parsing, HookInv
    <3>5. DOMAIN script' = DOMAIN script /\ script'.next = IF script.next = Len(all) THEN 1 ELSE script.next + 1
      BY <3>2 DEF TextInv
    <3>6. script'.next \in DOMAIN all
      BY <3>1, <3>3, <3>5
    <3> QED
      BY <1>2, <2>1, <3>3, <3>4, <3>5, <3>6 DEF TextInv, all
  <2> QED
    BY <2>2, <2>3
<1>12. ASSUME Eq \/ \E p \in Procs : FilterStep(p) PROVE TextInv'
  <2>1. UNCHANGED <<cli, term, script>>
    BY <1>12 DEF FilterStep, AfterHook, Copy, Synch, Choose, Seen, Convolved, EndBlock, Eq, ReadCommand, Render,
                 Rendered, Swap, Mark
  <2> QED
    BY <1>3, <2>1
<1> QED
  BY <1>4, <1>5, <1>6, <1>7, <1>8, <1>9, <1>10, <1>11, <1>12 DEF Next, Cli, Filters

LEMMA TextStart ==
    ASSUME Init
    PROVE  TextInv
<1>1. ConfOk
  BY DEF Init, ConfOk
<1>2. /\ script = [next |-> 1, sleep |-> 0, quit |-> FALSE]
      /\ cli.text = <<>>
      /\ term = [sessions |-> IF Mode = "stream" THEN <<>> ELSE conf.sessions,
                 left |-> IF Mode = "stream" THEN conf.sessions[1] ELSE <<>>,
                 rx |-> <<>>, buf |-> <<>>, eof |-> FALSE]
  BY DEF Init
<1>3. \A S : <<>> \in Seq(S)
  BY EmptySeq
<1>4. CASE Mode = "script"
  <2>1. Sets(conf.script) \in Seq(Text) /\ Sets(conf.script) # <<>>
    BY <1>1, <1>4, ControlAssumption DEF ConfOk, Mode, Text, Accepted
  <2>2. 1 \in DOMAIN Sets(conf.script)
    BY <2>1, EmptySeq, LenProperties
  <2> QED
    BY <1>2, <1>3, <1>4, <2>2 DEF TextInv, Text
<1>5. CASE Mode # "script"
  <2>1. conf.sessions \in Seq(Seq(Seq(Text)))
    BY <1>1, <1>5, ControlAssumption DEF ConfOk, Mode, Text
  <2>2. Mode = "stream" => conf.sessions[1] \in Seq(Seq(Text))
    <3>1. Mode = "stream" => conf.sessions # <<>>
      BY <1>1, <1>5, ControlAssumption DEF ConfOk, Mode
    <3> QED
      BY <2>1, <3>1, EmptySeq, LenProperties, ElementOfSeq
  <2> QED
    BY <1>2, <1>3, <1>5, <2>1, <2>2 DEF TextInv, TermOk, Text
<1> QED
  BY <1>4, <1>5

\* What newstate asks for, the statements of the set so far asked for.
Pending(ns) == \A io \in IOs : \A ch \in net.channels[io] :
                   ns.delay[io][ch] \in {Unchanged} \cup Asks(conf, io, ch)

\* newstate committed to the controls is what the statements so far ask for; between
\* the sets, and for as long as the controls are not half committed, the controls are
\* what whole sets ask for.
CommitInv ==
    /\ cli.pc \in {"idle", "accept", "data", "stmt", "reply", "lock", "filters"}
    /\ ControlsOk(net, icomm) /\ NewStateOk(net, icomm, cli.ns)
    /\ mutex = IF cli.pc = "filters" THEN "cli" ELSE "free"
    /\ cli.pc # "filters" => goal = icomm
    /\ cli.pc \in {"idle", "data", "accept"} => asked = icomm
    /\ cli.pc \in {"stmt", "reply", "lock"} => asked = Committed(net, icomm, cli.ns)
    /\ cli.pc = "filters" => asked = FiltersCommitted(icomm, cli.ns) /\ ControlsOk(net, asked)
    /\ cli.pc \in {"stmt", "reply"} => Pending(cli.ns)

LEMMA CommitStays ==
    ASSUME CommitInv, UNCHANGED <<conf, icomm, mutex, asked, goal>>, cli'.pc = cli.pc, cli'.ns = cli.ns
    PROVE  CommitInv'
<1>1. UNCHANGED conf /\ net' = net /\ \A ns : Pending(ns)' <=> Pending(ns)
  BY DEF net, Pending, Asks, Statements, Lines
<1> QED
  BY <1>1 DEF CommitInv

\* parse() begins.
LEMMA CommitBegins ==
    ASSUME ConfOk, HookInv, CommitInv, UNCHANGED <<conf, icomm, mutex, asked, goal>>, cli.pc \in {"idle", "data"},
           NEW text, cli' = Parsing(text)
    PROVE  CommitInv'
<1>1. UNCHANGED conf /\ net' = net
  BY DEF net
<1>2. cli'.pc = "stmt" /\ cli'.ns = ClearChanges(net, icomm)
  BY DEF Parsing, HookInv
<1>3. NewStateOk(net, icomm, cli'.ns) /\ ~AreChanges(net, cli'.ns) /\ ControlsOk(net, icomm)
      /\ \A io \in IOs : \A ch \in net.channels[io] : cli'.ns.delay[io][ch] = Unchanged
  BY <1>2, Cleared DEF CommitInv
<1>4. Committed(net, icomm, cli'.ns) = icomm
  BY <1>3, NothingEntered, ProcsOk
<1>5. Pending(cli.ns)'
  BY <1>1, <1>3 DEF Pending
<1> QED
  BY <1>1, <1>2, <1>3, <1>4, <1>5 DEF CommitInv

LEMMA CommitSteps ==
    ASSUME ConfOk, DelaysAgree(conf), FiltersOk, HookInv, TextInv, CommitInv, Next
    PROVE  CommitInv' /\ (UNCHANGED goal \/ CommitFilters)
<1>1. UNCHANGED conf /\ net' = net /\ \A ns : Pending(ns)' <=> Pending(ns)
  <2>1. UNCHANGED conf
    BY DEF Next, Send, HangUp, Cli, Accept, GetLine, Disconnect, Statement, Command, Answer, CommitChannels,
           CommitFilters, EndOfText, Filters, BlockStart, FilterStep, AfterHook, Copy, Synch, Choose, Seen,
           Convolved, EndBlock, Eq, ReadCommand, Render, Rendered, Swap, Mark
  <2> QED
    BY <2>1 DEF net, Pending, Asks, Statements, Lines
<1>2. net.slots \in Int
  BY ProcsOk
<1>3. CASE Send \/ HangUp \/ Eq \/ \E p \in Procs : FilterStep(p)
  <2>1. UNCHANGED <<conf, icomm, mutex, asked, goal, cli>>
    BY <1>3 DEF Send, HangUp, Eq, ReadCommand, Render, Rendered, Swap, Mark, FilterStep, AfterHook, Copy, Synch,
                Choose, Seen, Convolved, EndBlock
  <2> QED
    BY <2>1, CommitStays
<1>4. CASE Accept \/ Disconnect
  <2>1. /\ UNCHANGED <<icomm, mutex, asked, goal>> /\ cli.pc \in {"accept", "data"} /\ cli'.pc \in {"accept", "data"}
        /\ cli'.ns = cli.ns
    BY <1>4 DEF Accept, Disconnect, HookInv
  <2> QED
    BY <1>1, <2>1 DEF CommitInv
<1>5. CASE GetLine
  <2>1. UNCHANGED <<conf, icomm, mutex, asked, goal>> /\ cli.pc = "data" /\ cli' = Parsing(Typed(Head(Source)))
    BY <1>5 DEF GetLine
  <2> QED
    BY <2>1, CommitBegins
<1>6. CASE BlockStart
  <2>1. UNCHANGED <<conf, icomm, mutex, asked, goal>> /\ cli.pc = "idle"
    BY <1>6 DEF BlockStart, HookInv
  <2>2. CASE script.quit \/ script.sleep > 0
    <3>1. UNCHANGED cli
      BY <1>6, <2>2 DEF BlockStart
    <3> QED
      BY <2>1, <3>1, CommitStays
  <2>3. CASE ~(script.quit \/ script.sleep > 0)
    <3>1. cli' = Parsing(Sets(conf.script)[script.next])
      BY <1>6, <2>3 DEF BlockStart
    <3> QED
      BY <2>1, <3>1, CommitBegins
  <2> QED
    BY <2>2, <2>3
<1>7. CASE Statement
  <2> DEFINE st == Head(cli.text)
             n == Entered(net, st, cli.ns)
  <2>1. /\ UNCHANGED <<icomm, mutex, goal>> /\ cli.pc = "stmt" /\ cli.text # <<>>
        /\ cli'.pc \in {"stmt", "lock"} /\ cli'.ns = n /\ asked' = Changed(net, st, asked)
    BY <1>7 DEF Statement, HookInv
  <2>2. st \in Statements(conf)
    BY <2>1, HeadTailProperties DEF TextInv, Text
  <2>3. /\ ControlsOk(net, icomm) /\ NewStateOk(net, icomm, cli.ns) /\ asked = Committed(net, icomm, cli.ns)
        /\ Pending(cli.ns)
    BY <2>1 DEF CommitInv
  <2> HIDE DEF st
  <2>4. Agreed(net, cli.ns, st)
    <3> SUFFICES ASSUME NEW io \in IOs, NEW ch \in net.channels[io],
                        st.op = "delay", st.io = io, st.ch = ch, ~(st.delay < 0)
                 PROVE  \/ st.delay \in 0 .. net.maxdelay[io][ch]
                        \/ cli.ns.delay[io][ch] \notin 0 .. net.maxdelay[io][ch]
      BY DEF Agreed
    <3>1. st.delay \in Asks(conf, io, ch)
      BY <2>2 DEF Asks
    <3>2. cli.ns.delay[io][ch] \in {Unchanged} \cup Asks(conf, io, ch)
      BY <2>3 DEF Pending
    <3>3. \/ Asks(conf, io, ch) \subseteq 0 .. net.maxdelay[io][ch]
          \/ Asks(conf, io, ch) \cap (0 .. net.maxdelay[io][ch]) = {}
      BY DEF DelaysAgree, net
    <3>4. Unchanged \notin 0 .. net.maxdelay[io][ch]
      BY DEF Unchanged
    <3> QED
      BY <3>1, <3>2, <3>3, <3>4
  <2>5. NewStateOk(net, icomm, n) /\ Changed(net, st, asked) = Committed(net, icomm, n)
    BY <1>2, <2>3, <2>4, EnteredIsChanged
  <2>6. Pending(n)
    <3> SUFFICES ASSUME NEW io \in IOs, NEW ch \in net.channels[io]
                 PROVE  n.delay[io][ch] \in {Unchanged} \cup Asks(conf, io, ch)
      BY DEF Pending
    <3>1. \/ n.delay[io][ch] = cli.ns.delay[io][ch]
          \/ st.op = "delay" /\ st.io = io /\ st.ch = ch /\ ~(st.delay < 0) /\ n.delay[io][ch] = st.delay
      BY <2>3, EnteredDelays
    <3> QED
      BY <2>2, <2>3, <3>1 DEF Pending, Asks
  <2> HIDE DEF n
  <2> QED
    BY <1>1, <2>1, <2>3, <2>5, <2>6 DEF CommitInv
<1>8. CASE Command \/ Answer
  <2>1. UNCHANGED <<icomm, mutex, asked, goal>> /\ cli.pc \in {"stmt", "reply"} /\ cli'.ns = cli.ns
    BY <1>8 DEF Command, Answer, HookInv
  <2>2. cli'.pc \in {cli.pc, "stmt", "reply"}
    BY <1>8 DEF Command, Answer, HookInv
  <2> QED
    BY <1>1, <2>1, <2>2 DEF CommitInv
<1>9. CASE CommitChannels
  <2>1. /\ UNCHANGED <<asked, goal>> /\ cli.pc = "lock" /\ cli'.pc = "filters" /\ cli'.ns = cli.ns /\ mutex' = "cli"
        /\ icomm' = ChannelsCommitted(net, icomm, cli.ns)
    BY <1>9 DEF CommitChannels, HookInv
  <2>2. ControlsOk(net, icomm) /\ NewStateOk(net, icomm, cli.ns) /\ asked = Committed(net, icomm, cli.ns)
    BY <2>1 DEF CommitInv
  <2>3. ControlsOk(net, icomm') /\ icomm'.fctrl = icomm.fctrl /\ ControlsOk(net, asked)
    BY <2>1, <2>2, Halves
  <2>4. NewStateOk(net, icomm', cli.ns)
    BY <2>2, <2>3 DEF NewStateOk
  <2>5. asked = FiltersCommitted(icomm', cli.ns)
    BY <2>1, <2>2 DEF Committed
  <2> QED
    BY <1>1, <2>1, <2>3, <2>4, <2>5 DEF CommitInv
<1>10. CASE CommitFilters
  <2>1. /\ UNCHANGED asked /\ cli.pc = "filters" /\ cli'.pc = "stmt" /\ cli'.ns = ClearChanges(net, icomm')
        /\ mutex' = "free" /\ goal' = asked /\ icomm' = FiltersCommitted(icomm, cli.ns)
    BY <1>10 DEF CommitFilters, HookInv
  <2>2. icomm' = asked /\ ControlsOk(net, icomm')
    BY <2>1 DEF CommitInv
  <2>3. NewStateOk(net, icomm', cli'.ns) /\ ~AreChanges(net, cli'.ns)
        /\ \A io \in IOs : \A ch \in net.channels[io] : cli'.ns.delay[io][ch] = Unchanged
    BY <2>1, <2>2, Cleared
  <2>4. Committed(net, icomm', cli'.ns) = icomm'
    BY <1>2, <2>2, <2>3, NothingEntered
  <2>5. Pending(cli.ns)'
    BY <1>1, <2>3 DEF Pending
  <2> QED
    BY <1>1, <1>10, <2>1, <2>2, <2>3, <2>4, <2>5 DEF CommitInv
<1>11. CASE EndOfText
  <2>1. UNCHANGED <<icomm, mutex, asked>> /\ cli.pc = "stmt" /\ cli'.ns = cli.ns
    BY <1>11 DEF EndOfText, HookInv
  <2>2. CASE AreChanges(net, cli.ns)
    <3>1. cli'.pc = "lock" /\ UNCHANGED goal
      BY <1>11, <2>2 DEF EndOfText, HookInv
    <3> QED
      BY <1>1, <2>1, <3>1 DEF CommitInv
  <2>3. CASE ~AreChanges(net, cli.ns)
    <3>1. cli'.pc \in {"idle", "accept", "data"} /\ goal' = asked
      BY <1>11, <2>3 DEF EndOfText, HookInv
    <3>2. asked = icomm /\ goal = icomm
      BY <1>2, <2>1, <2>3, NothingEntered DEF CommitInv
    <3> QED
      BY <1>1, <2>1, <3>1, <3>2 DEF CommitInv
  <2> QED
    BY <2>2, <2>3
<1> QED
  BY <1>3, <1>4, <1>5, <1>6, <1>7, <1>8, <1>9, <1>10, <1>11 DEF Next, Cli, Filters

\* In a script the processes work through a block with the same sets carried out.
UsedInv == Mode = "script" =>
    \A q \in Procs : Rank(q) >= 3 /\ filt[q].odd = filt[0].odd => filt[q].used = View(goal, q)

-----------------------------------------------------------------------------
(* The hand-over of renderings *)

\* No two equalisers have a set in common.
LEMMA Apart ==
    ASSUME ConfOk, EqInv, NEW c, NEW e \in Equals, NEW d \in Equals,
           Controls(equalisers[e].coeff, c), Controls(equalisers[d].coeff, c)
    PROVE  e = d
<1>1. Disjoint(conf.eq.entries)
  BY DEF ConfOk, Accepted, EqualisersOk
<1>2. /\ e \in DOMAIN conf.eq.entries /\ d \in DOMAIN conf.eq.entries
      /\ equalisers[e].coeff = SetsOf(conf.eq.entries[e]) /\ equalisers[d].coeff = SetsOf(conf.eq.entries[d])
  BY DEF EqInv, EqualiserOk, IsFcn, Equals
<1> QED
  BY <1>1, <1>2 DEF Disjoint, Controls

\* The two sets of an equaliser.
LEMMA Pair ==
    ASSUME EqInv, NEW e \in Equals
    PROVE  /\ \A c : Controls(equalisers[e].coeff, c) <=> c \in {equalisers[e].coeff[1], equalisers[e].coeff[2]}
           /\ \A n \in 1 .. 2 : equalisers[e].coeff[n] \in DOMAIN sets
           /\ equalisers[e].active \in 1 .. 2 /\ 3 - equalisers[e].active \in 1 .. 2
           /\ 3 - equalisers[e].active # equalisers[e].active
<1> DEFINE k == equalisers[e].coeff
<1>1. EqualiserOk(e)
  BY DEF EqInv
<1>2. k = <<conf.eq.entries[e].coeff[1], Last(conf.eq.entries[e].coeff)>>
  BY <1>1 DEF EqualiserOk, SetsOf
<1>3. ToSet(k) = {k[1], k[2]}
  BY <1>2 DEF ToSet
<1> QED
  BY <1>1, <1>3 DEF EqualiserOk, Controls

LEMMA EqSame ==
    ASSUME EqInv, RenderInv, UNCHANGED <<conf, equalisers, eq, sets, pipe>>
    PROVE  EqInv' /\ RenderInv'
<1>1. Equals' = Equals /\ Now' = Now /\ Target' = Target /\ \A e : EqualiserOk(e)' <=> EqualiserOk(e)
  BY DEF Equals, Now, Target, EqualiserOk
<1>2. EqInv'
  BY <1>1 DEF EqInv, IsFcn
<1>3. RenderInv'
  BY <1>1 DEF RenderInv
<1> QED
  BY <1>2, <1>3

\* A process moves without having reported a choice.
LEMMA EqWaits ==
    ASSUME ConfOk, FiltersOk, BarrierInv, EqInv, SeenInv, HandOverInv, NEW p \in Procs, OthersStay(p),
           UNCHANGED <<conf, equalisers, eq, sets>>,
           filt'[p].used = filt[p].used \/ (filt[p].pc = "copy" /\ filt'[p].pc = "synch"),
           filt'[p].pc \in {"choose", "convolve", "mix"} => filt[p].pc \in {"synch", "choose", "convolve"},
           filt'[p].pc = "synch" => filt'[p].used # <<>>,
           filt'[p].pc = "convolve" => ~\E e \in Equals : Controls(equalisers[e].coeff, filt'[p].coeff),
           filt'[p].pc = "seen" => \E e \in Equals : /\ Controls(equalisers[e].coeff, filt'[p].coeff)
                                                     /\ Answers(p, e) /\ filt[p].pc = "choose"
    PROVE  SeenInv' /\ HandOverInv'
<1>1. /\ Procs' = Procs /\ Equals' = Equals /\ \A q : Owner(q)' = Owner(q)
  BY DEF Procs, Equals, net, Owner
<1>2. \A q \in Procs \ {p} : filt'[q] = filt[q]
  BY DEF OthersStay
<1>3. ASSUME NEW q \in Procs, NEW e, filt'[q].used = filt[q].used
      PROVE  Answers(q, e)' <=> Answers(q, e)
  BY <1>1, <1>3 DEF Answers
<1>4. SeenInv'
  <2> SUFFICES ASSUME NEW q \in Procs
               PROVE  /\ filt'[q].pc \in {"synch", "choose", "seen", "convolve", "mix"} => filt'[q].used # <<>>
                      /\ filt'[q].pc = "seen" => \E e \in Equals : /\ Controls(equalisers[e].coeff, filt'[q].coeff)
                                                                   /\ Answers(q, e)'
    BY <1>1 DEF SeenInv
  <2>1. CASE q # p
    BY <1>2, <1>3, <2>1 DEF SeenInv
  <2>2. CASE q = p
    <3>1. filt'[p].pc = "seen" => filt[p].pc = "choose" /\ filt'[p].used = filt[p].used
      OBVIOUS
    <3>2. filt'[p].pc \in {"synch", "choose", "seen", "convolve", "mix"} => filt'[p].used # <<>>
      BY <3>1 DEF SeenInv
    <3> QED
      BY <1>3, <2>2, <3>1, <3>2
  <2> QED
    BY <2>1, <2>2
<1>5. HandOverInv'
  <2> SUFFICES ASSUME NEW q \in Procs, NEW e \in Equals, OnlyOneAnswers(q, e)'
               PROVE  HandOver(q, e)'
    BY <1>1 DEF HandOverInv
  <2>1. filt'[q].pc = "convolve" /\ Controls(equalisers[e].coeff, filt'[q].coeff)
    BY DEF OnlyOneAnswers
  <2>2. q # p /\ filt'[q] = filt[q]
    BY <1>2, <2>1
  <2>3. filt[p].pc # "copy"
    <3>1. Rank(q) = 4
      BY <2>1, <2>2, Ranks
    <3>2. Rank(p) >= 3 \/ Rank(p) = 5 \/ Rank(q) = 5
      BY <3>1 DEF BarrierInv
    <3> QED
      BY <3>1, <3>2, Ranks
  <2>4. \A r \in Procs \ {q} : Answers(r, e)' <=> Answers(r, e)
    BY <1>2, <1>3, <2>3
  <2>5. OnlyOneAnswers(q, e)
    BY <1>1, <2>2, <2>4 DEF OnlyOneAnswers
  <2>6. HandOver(q, e)
    BY <2>5 DEF HandOverInv
  <2> QED
    BY <2>2, <2>6 DEF HandOver, Now
<1> QED
  BY <1>4, <1>5

LEMMA ViewIsSomething == \A c, p : View(c, p) # <<>>
<1> TAKE c, p
<1>1. DOMAIN View(c, p) = {"fctrl", "delay", "subdelay", "ismuted"}
  BY DEF View
<1>2. DOMAIN <<>> = {}
  OBVIOUS
<1> QED
  BY <1>1, <1>2

\* A process moves, but for the report of a choice.
LEMMA EqFilter ==
    ASSUME ConfOk, FiltersOk, BarrierInv, EqInv, RenderInv, SeenInv, HandOverInv, NEW p \in Procs,
           FilterStep(p), ~Seen(p)
    PROVE  EqInv' /\ RenderInv' /\ SeenInv' /\ HandOverInv'
<1> DEFINE f == filt[p]
<1>1. OthersStay(p) /\ FilterRecord(f) /\ UNCHANGED <<conf, equalisers, eq, sets, pipe>>
  BY FilterMoves, ProcType DEF FilterStep, AfterHook, Copy, Synch, Choose, Seen, Convolved, EndBlock
<1>2. EqInv' /\ RenderInv'
  BY <1>1, EqSame
<1>3. CASE AfterHook(p)
  <2>1. filt'[p].pc = "copy" /\ filt'[p].used = f.used
    BY <1>1, <1>3 DEF AfterHook, FilterRecord, FiltersOk, IsFcn
  <2> QED
    BY <1>1, <1>2, <2>1, EqWaits
<1>4. CASE Copy(p)
  <2>1. f.pc = "copy" /\ filt'[p].pc = "synch" /\ filt'[p].used # <<>>
    BY <1>1, <1>4, ViewIsSomething DEF Copy, FilterRecord, FiltersOk, IsFcn
  <2> QED
    BY <1>1, <1>2, <2>1, EqWaits
<1>5. CASE Synch(p)
  <2>1. f.pc = "synch" /\ filt'[p].pc = "choose" /\ filt'[p].used = f.used
    BY <1>1, <1>5 DEF Synch, FilterRecord, FiltersOk, IsFcn
  <2> QED
    BY <1>1, <1>2, <2>1, EqWaits
<1>6. CASE Choose(p)
  <2> DEFINE coeff == f.used.fctrl[Filter(p)].coeff
             mine == {e \in Equals : Controls(equalisers[e].coeff, coeff)}
  <2>1. CASE mine = {}
    <3>1. f.pc = "choose" /\ filt'[p].pc = "convolve" /\ filt'[p].used = f.used /\ filt'[p].coeff = coeff
      BY <1>1, <1>6, <2>1 DEF Choose, FilterRecord, FiltersOk, IsFcn
    <3>2. ~\E e \in Equals : Controls(equalisers[e].coeff, coeff)
      BY <2>1
    <3> QED
      BY <1>1, <1>2, <3>1, <3>2, EqWaits
  <2>2. CASE mine # {}
    <3> DEFINE d == CHOOSE x \in mine : TRUE
               c == equalisers[d].coeff[equalisers[d].active]
    <3>1. d \in Equals /\ Controls(equalisers[d].coeff, coeff)
      BY <2>2
    <3>2. f.pc = "choose" /\ filt'[p].pc = "seen" /\ filt'[p].used = f.used /\ filt'[p].coeff = c
      BY <1>1, <1>6, <2>2 DEF Choose, FilterRecord, FiltersOk, IsFcn
    <3> HIDE DEF d
    <3>3. Controls(equalisers[d].coeff, c)
      BY <3>1, Pair
    <3>4. f.used # <<>> /\ Filter(p) \in ToSet(Owner(p))
      <4>1. f.used # <<>> /\ f.n \in 1 .. Len(Owner(p)) /\ Owner(p) \in Seq(DOMAIN net.of)
        BY <3>2, ProcType, ProcsOk DEF SeenInv
      <4> QED
        BY <4>1, LenProperties DEF Filter, ToSet
    <3>5. Answers(p, d)
      BY <3>1, <3>4 DEF Answers
    <3> QED
      BY <1>1, <1>2, <3>1, <3>2, <3>3, <3>5, EqWaits
  <2> QED
    BY <2>1, <2>2
<1>7. CASE Convolved(p)
  <2>1. f.pc = "convolve" /\ filt'[p].pc \in {"choose", "mix"} /\ filt'[p].used = f.used
    BY <1>1, <1>7 DEF Convolved, FilterRecord, FiltersOk, IsFcn
  <2> QED
    BY <1>1, <1>2, <2>1, EqWaits
<1>8. CASE EndBlock(p)
  <2>1. f.pc = "mix" /\ filt'[p].pc \in {"start", "copy"} /\ filt'[p].used = f.used
    BY <1>1, <1>8 DEF EndBlock, FirstPc, FilterRecord, FiltersOk, IsFcn
  <2> QED
    BY <1>1, <1>2, <2>1, EqWaits
<1> QED
  BY <1>3, <1>4, <1>5, <1>6, <1>7, <1>8 DEF FilterStep

\* The report of a choice: the equaliser may render again.
LEMMA EqSeen ==
    ASSUME ConfOk, FiltersOk, BarrierInv, EqInv, RenderInv, SeenInv, HandOverInv, NEW p \in Procs, Seen(p)
    PROVE  EqInv' /\ RenderInv' /\ SeenInv' /\ HandOverInv'
<1>1. OthersStay(p) /\ FilterRecord(filt[p]) /\ UNCHANGED <<conf, eq, sets, pipe>> /\ filt[p].pc = "seen"
  BY FilterMoves, ProcType DEF FilterStep, Seen
<1>2. PICK e \in Equals :
          /\ Controls(equalisers[e].coeff, filt[p].coeff)
          /\ equalisers' = [equalisers EXCEPT ![e].not_changed = FALSE]
          /\ filt' = [filt EXCEPT ![p].pc = "convolve",
                                  ![p].stale = filt[p].coeff # equalisers[e].coeff[equalisers[e].active]]
  BY DEF Seen
<1>3. /\ filt'[p].pc = "convolve" /\ filt'[p].coeff = filt[p].coeff /\ filt'[p].used = filt[p].used
      /\ filt'[p].stale = (filt[p].coeff # equalisers[e].coeff[equalisers[e].active])
  BY <1>1, <1>2 DEF FiltersOk, IsFcn, FilterRecord
<1>4. EqualiserOk(e) /\ IsFcn(equalisers, Equals)
  BY DEF EqInv, IsFcn, Equals
<1>5. /\ DOMAIN equalisers'[e] = DOMAIN equalisers[e] /\ equalisers'[e].coeff = equalisers[e].coeff
      /\ equalisers'[e].active = equalisers[e].active /\ equalisers'[e].not_changed = FALSE
      /\ \A d \in Equals \ {e} : equalisers'[d] = equalisers[d]
      /\ equalisers' = [d \in Equals |-> equalisers'[d]]
  BY <1>2, <1>4 DEF EqualiserOk, IsFcn
<1>6. Equals' = Equals /\ Procs' = Procs /\ Now' = Now /\ \A q : Owner(q)' = Owner(q)
  BY <1>1, <1>5 DEF Equals, Procs, Owner, net, Now
<1>7. \A d \in Equals : equalisers'[d].coeff = equalisers[d].coeff /\ equalisers'[d].active = equalisers[d].active
  BY <1>5
<1>8. EqInv'
  <2>1. \A d \in Equals : EqualiserOk(d)'
    <3> SUFFICES ASSUME NEW d \in Equals PROVE EqualiserOk(d)'
      OBVIOUS
    <3>1. EqualiserOk(d)
      BY DEF EqInv
    <3> QED
      BY <1>1, <1>4, <1>5, <3>1 DEF EqualiserOk
  <2>2. Equals = DOMAIN conf.eq.entries
    BY DEF EqInv, IsFcn, Equals
  <2> QED
    BY <1>1, <1>5, <1>6, <2>1, <2>2 DEF EqInv, IsFcn
<1>9. RenderInv'
  <2>1. eq.pc \in {"write", "swap", "mark"} => Now \in Equals
    BY HeadTailProperties DEF EqInv, Now
  <2>2. eq.pc \in {"write", "swap", "mark"} => Target' = Target /\ ~equalisers'[Now].not_changed
    BY <1>1, <1>5, <1>6, <1>7, <2>1 DEF Target, RenderInv
  <2> QED
    BY <1>1, <1>6, <2>2 DEF RenderInv
<1>10. ASSUME NEW q \in Procs, NEW d \in Equals
       PROVE  /\ Answers(q, d)' <=> Answers(q, d)
              /\ \A c : Controls(equalisers'[d].coeff, c) <=> Controls(equalisers[d].coeff, c)
  <2>1. filt'[q].used = filt[q].used
    BY <1>1, <1>3 DEF OthersStay
  <2> QED
    BY <1>6, <1>7, <2>1 DEF Answers
<1>11. SeenInv'
  <2> SUFFICES ASSUME NEW q \in Procs
               PROVE  /\ filt'[q].pc \in {"synch", "choose", "seen", "convolve", "mix"} => filt'[q].used # <<>>
                      /\ filt'[q].pc = "seen" => \E d \in Equals : /\ Controls(equalisers'[d].coeff, filt'[q].coeff)
                                                                   /\ Answers(q, d)'
    BY <1>6 DEF SeenInv
  <2>1. CASE q = p
    BY <1>1, <1>3, <2>1 DEF SeenInv
  <2>2. CASE q # p
    BY <1>1, <1>10, <2>2 DEF SeenInv, OthersStay
  <2> QED
    BY <2>1, <2>2
<1>12. HandOverInv'
  <2> SUFFICES ASSUME NEW q \in Procs, NEW d \in Equals, OnlyOneAnswers(q, d)'
               PROVE  HandOver(q, d)'
    BY <1>6 DEF HandOverInv
  <2>1. CASE q = p
    <3>1. Controls(equalisers[d].coeff, filt[p].coeff) /\ ~filt'[p].stale
      BY <1>3, <1>10, <2>1 DEF OnlyOneAnswers
    <3>2. d = e
      BY <1>2, <3>1, Apart
    <3> QED
      BY <1>3, <1>5, <2>1, <3>1, <3>2 DEF HandOver
  <2>2. CASE q # p
    <3>1. filt'[q] = filt[q]
      BY <1>1, <2>2 DEF OthersStay
    <3>2. OnlyOneAnswers(q, d)
      BY <1>6, <1>10, <3>1 DEF OnlyOneAnswers
    <3>3. d # e
      <4>1. PICK c \in Equals : Controls(equalisers[c].coeff, filt[p].coeff) /\ Answers(p, c)
        BY <1>1 DEF SeenInv
      <4>2. c = e
        BY <1>2, <4>1, Apart
      <4> QED
        BY <2>2, <3>2, <4>1, <4>2 DEF OnlyOneAnswers
    <3>4. HandOver(q, d) /\ equalisers'[d] = equalisers[d]
      BY <1>5, <3>2, <3>3 DEF HandOverInv
    <3> QED
      BY <1>1, <1>6, <3>1, <3>4 DEF HandOver
  <2> QED
    BY <2>1, <2>2
<1> QED
  BY <1>8, <1>9, <1>11, <1>12

\* What the invariants say of the equaliser that is being rendered.
LEMMA NowOk ==
    ASSUME EqInv, eq.pc # "read"
    PROVE  /\ Now \in Equals /\ Tail(eq.renders) \in Seq(Equals) /\ EqualiserOk(Now)
           /\ Target \in DOMAIN sets /\ Target = equalisers[Now].coeff[3 - equalisers[Now].active]
<1>1. Now \in Equals /\ Tail(eq.renders) \in Seq(Equals)
  BY HeadTailProperties DEF EqInv, Now
<1> QED
  BY <1>1, Pair DEF EqInv, Target

\* A step of the equaliser thread that leaves alone what the filters see of it.
LEMMA EqOthers ==
    ASSUME SeenInv, HandOverInv, UNCHANGED <<conf, filt>>, Equals' = Equals,
           \A e \in Equals : equalisers'[e].coeff = equalisers[e].coeff,
           \A p \in Procs, e \in Equals : OnlyOneAnswers(p, e) /\ HandOver(p, e) => HandOver(p, e)'
    PROVE  SeenInv' /\ HandOverInv'
<1>1. Procs' = Procs /\ \A q : Owner(q)' = Owner(q)
  BY DEF Procs, Owner, net
<1>2. \A q \in Procs, e \in Equals : Answers(q, e)' <=> Answers(q, e)
  BY <1>1 DEF Answers
<1>3. SeenInv'
  BY <1>1, <1>2 DEF SeenInv
<1>4. \A p \in Procs, e \in Equals : OnlyOneAnswers(p, e)' <=> OnlyOneAnswers(p, e)
  BY <1>1, <1>2 DEF OnlyOneAnswers
<1>5. HandOverInv'
  BY <1>1, <1>4 DEF HandOverInv
<1> QED
  BY <1>3, <1>5

\* Rendering(renders, postponed) is a state of the thread between two steps.
LEMMA RenderingOk ==
    ASSUME NEW r \in Seq(Equals), NEW n \in Equals \cup {None}, eq' = Rendering(r, n)
    PROVE  /\ DOMAIN eq' = {"pc", "renders", "postponed"} /\ eq'.pc \in {"read", "poll"}
           /\ eq'.renders \in Seq(Equals) /\ eq'.postponed \in Equals \cup {None}
           /\ eq'.pc # "read" => eq'.renders # <<>>
BY DEF Rendering

LEMMA PostponedOk ==
    ASSUME EqInv, NEW e
    PROVE  PostponedBut(e) \in Seq(Equals)
<1>1. eq.postponed \notin {None, e} => eq.postponed \in Equals
  BY DEF EqInv
<1> QED
  BY <1>1 DEF PostponedBut

LEMMA EqReads ==
    ASSUME ConfOk, EqInv, RenderInv, SeenInv, HandOverInv, ReadCommand
    PROVE  EqInv' /\ RenderInv' /\ SeenInv' /\ HandOverInv'
<1>1. eq.pc = "read" /\ pipe # <<>> /\ pipe' = Tail(pipe) /\ UNCHANGED <<conf, filt, sets>>
  BY DEF ReadCommand
<1> DEFINE e == Head(pipe).e
           cmd == Head(pipe).cmd
<1>2. PICK S : pipe \in Seq(S) /\ \A x \in S : x.e \in Equals
  BY DEF EqInv
<1>3. e \in Equals /\ pipe' \in Seq(S)
  BY <1>1, <1>2, HeadTailProperties
<1>4. equalisers' = [equalisers EXCEPT ![e].values = BandsSet(@, cmd)]
  BY DEF ReadCommand
<1> HIDE DEF e, cmd
<1>5. IsFcn(equalisers, Equals) /\ Equals = DOMAIN conf.eq.entries /\ \A d \in Equals : EqualiserOk(d)
  BY DEF EqInv, IsFcn, Equals
<1>6. /\ equalisers' = [d \in Equals |-> equalisers'[d]]
      /\ \A d \in Equals \ {e} : equalisers'[d] = equalisers[d]
      /\ DOMAIN equalisers'[e] = DOMAIN equalisers[e] /\ equalisers'[e].coeff = equalisers[e].coeff
      /\ equalisers'[e].active = equalisers[e].active
      /\ equalisers'[e].not_changed = equalisers[e].not_changed
  BY <1>3, <1>4, <1>5 DEF IsFcn, EqualiserOk
<1>7. Equals' = Equals
  BY <1>6 DEF Equals
<1>8. \A d \in Equals : /\ equalisers'[d].coeff = equalisers[d].coeff /\ EqualiserOk(d)'
                        /\ equalisers'[d].active = equalisers[d].active
                        /\ equalisers'[d].not_changed = equalisers[d].not_changed
  <2> SUFFICES ASSUME NEW d \in Equals
               PROVE  /\ equalisers'[d].coeff = equalisers[d].coeff /\ EqualiserOk(d)'
                      /\ equalisers'[d].active = equalisers[d].active
                      /\ equalisers'[d].not_changed = equalisers[d].not_changed
    OBVIOUS
  <2>1. EqualiserOk(d)
    BY <1>5
  <2> QED
    BY <1>1, <1>6, <2>1 DEF EqualiserOk
<1>9. \E r \in Seq(Equals), n \in Equals \cup {None} : eq' = Rendering(r, n)
  <2>1. CASE eq' = AfterInfo
    BY <2>1, PostponedOk DEF AfterInfo, Postponed
  <2>2. CASE eq' = AfterChange(e)
    <3>1. PostponedBut(e) \in Seq(Equals) /\ <<e>> \o PostponedBut(e) \in Seq(Equals)
      BY <1>3, PostponedOk, ConcatProperties
    <3> QED
      BY <1>3, <2>2, <3>1 DEF AfterChange
  <2> QED
    BY <2>1, <2>2 DEF ReadCommand, e, cmd
<1>10. PICK r \in Seq(Equals), n \in Equals \cup {None} : eq' = Rendering(r, n)
  BY <1>9
<1>11. EqInv'
  <2>1. /\ DOMAIN eq' = {"pc", "renders", "postponed"} /\ eq'.pc \in {"read", "poll"}
        /\ eq'.renders \in Seq(Equals) /\ eq'.postponed \in Equals \cup {None}
        /\ eq'.pc # "read" => eq'.renders # <<>>
    BY <1>10, RenderingOk
  <2>2. \A c \in DOMAIN sets : DOMAIN sets[c] = {"whole", "is"}
    BY DEF EqInv
  <2> QED
    BY <1>1, <1>2, <1>3, <1>5, <1>6, <1>7, <1>8, <2>1, <2>2 DEF EqInv, IsFcn, EqPcs
<1>12. RenderInv'
  BY <1>1, <1>10, RenderingOk DEF RenderInv
<1>13. \A p \in Procs, d \in Equals : HandOver(p, d) => HandOver(p, d)'
  BY <1>1, <1>8 DEF HandOver
<1>14. SeenInv' /\ HandOverInv'
  BY <1>1, <1>7, <1>8, <1>13, EqOthers
<1> QED
  BY <1>11, <1>12, <1>14

\* The steps of a rendering up to the swap: only sets and the place change.
LEMMA EqRenders ==
    ASSUME ConfOk, EqInv, RenderInv, SeenInv, HandOverInv, Render \/ Rendered
    PROVE  EqInv' /\ RenderInv' /\ SeenInv' /\ HandOverInv'
<1>1. /\ UNCHANGED <<conf, filt, equalisers, pipe>>
      /\ \/ eq.pc = "poll" /\ eq' = [eq EXCEPT !.pc = "write"] /\ ~equalisers[Now].not_changed
            /\ sets' = [sets EXCEPT ![Target].whole = FALSE]
         \/ eq.pc = "write" /\ eq' = [eq EXCEPT !.pc = "swap"]
            /\ sets' = [sets EXCEPT ![Target] = [whole |-> TRUE, is |-> equalisers[Now].values]]
  BY DEF Render, Rendered, MayRender
<1>2. Target \in DOMAIN sets /\ Now \in Equals
  BY <1>1, NowOk
<1>3. DOMAIN eq' = DOMAIN eq /\ eq'.renders = eq.renders /\ eq'.postponed = eq.postponed /\ eq'.pc \in {"write", "swap"}
  BY <1>1 DEF EqInv
<1>4. Equals' = Equals /\ Now' = Now /\ Target' = Target
  BY <1>1, <1>3 DEF Equals, Now, Target
<1>5. /\ DOMAIN sets' = DOMAIN sets /\ \A c \in DOMAIN sets \ {Target} : sets'[c] = sets[c]
      /\ DOMAIN sets'[Target] = {"whole", "is"}
      /\ eq.pc = "write" => sets'[Target].whole
  BY <1>1, <1>2 DEF EqInv
<1>6. EqInv'
  <2>1. \A e \in Equals : EqualiserOk(e)'
    BY <1>1, <1>5 DEF EqInv, EqualiserOk
  <2> QED
    BY <1>1, <1>3, <1>4, <1>5, <2>1 DEF EqInv, IsFcn, EqPcs
<1>7. RenderInv'
  <2>1. ~equalisers'[Now].not_changed
    BY <1>1 DEF RenderInv
  <2>2. \A c \in DOMAIN sets : ~sets'[c].whole => eq'.pc = "write" /\ c = Target
    <3>1. CASE eq.pc = "poll"
      BY <1>1, <1>5, <3>1 DEF RenderInv, EqInv
    <3>2. CASE eq.pc = "write"
      BY <1>1, <1>5, <3>2 DEF RenderInv
    <3> QED
      BY <1>1, <3>1, <3>2
  <2> QED
    BY <1>4, <1>5, <2>1, <2>2 DEF RenderInv
<1>8. \A p \in Procs, e \in Equals : HandOver(p, e) => HandOver(p, e)'
  BY <1>1 DEF HandOver
<1>9. SeenInv' /\ HandOverInv'
  BY <1>1, <1>4, <1>8, EqOthers
<1> QED
  BY <1>6, <1>7, <1>9

\* The other set becomes active: who has chosen the former one waits from now on for the
\* change to be announced.
LEMMA EqSwaps ==
    ASSUME ConfOk, EqInv, RenderInv, SeenInv, HandOverInv, Swap
    PROVE  EqInv' /\ RenderInv' /\ SeenInv' /\ HandOverInv'
<1>1. /\ eq.pc = "swap" /\ eq' = [eq EXCEPT !.pc = "mark"] /\ UNCHANGED <<conf, filt, sets, pipe>>
      /\ equalisers' = [equalisers EXCEPT ![Now].active = 3 - @]
  BY DEF Swap
<1>2. Now \in Equals /\ EqualiserOk(Now)
  BY <1>1, NowOk
<1>3. DOMAIN eq' = DOMAIN eq /\ eq'.renders = eq.renders /\ eq'.postponed = eq.postponed /\ eq'.pc = "mark"
  BY <1>1 DEF EqInv
<1>4. IsFcn(equalisers, Equals) /\ Equals = DOMAIN conf.eq.entries
  BY DEF EqInv, IsFcn, Equals
<1>5. /\ equalisers' = [d \in Equals |-> equalisers'[d]]
      /\ \A d \in Equals \ {Now} : equalisers'[d] = equalisers[d]
      /\ DOMAIN equalisers'[Now] = DOMAIN equalisers[Now] /\ equalisers'[Now].coeff = equalisers[Now].coeff
      /\ equalisers'[Now].active = 3 - equalisers[Now].active
      /\ equalisers'[Now].not_changed = equalisers[Now].not_changed
  BY <1>1, <1>2, <1>4 DEF IsFcn, EqualiserOk
<1>6. Equals' = Equals /\ Now' = Now
  BY <1>3, <1>5 DEF Equals, Now
<1>7. EqInv'
  <2>1. \A d \in Equals : EqualiserOk(d)'
    <3> SUFFICES ASSUME NEW d \in Equals PROVE EqualiserOk(d)'
      OBVIOUS
    <3>1. EqualiserOk(d)
      BY DEF EqInv
    <3> QED
      BY <1>1, <1>2, <1>5, <3>1 DEF EqualiserOk
  <2> QED
    BY <1>1, <1>3, <1>4, <1>5, <1>6, <2>1 DEF EqInv, IsFcn, EqPcs
<1>8. RenderInv'
  <2>1. ~equalisers'[Now].not_changed
    BY <1>1, <1>5 DEF RenderInv
  <2>2. \A c \in DOMAIN sets : sets[c].whole
    BY <1>1 DEF RenderInv
  <2> QED
    BY <1>1, <1>6, <2>1, <2>2 DEF RenderInv
<1>9. \A p \in Procs, e \in Equals : HandOver(p, e) => HandOver(p, e)'
  BY <1>1, <1>3, <1>5, <1>6 DEF HandOver
<1>10. \A e \in Equals : equalisers'[e].coeff = equalisers[e].coeff
  BY <1>5
<1>11. SeenInv' /\ HandOverInv'
  BY <1>1, <1>6, <1>9, <1>10, EqOthers
<1> QED
  BY <1>7, <1>8, <1>11

LEMMA EqMarks ==
    ASSUME ConfOk, EqInv, RenderInv, SeenInv, HandOverInv, Mark
    PROVE  EqInv' /\ RenderInv' /\ SeenInv' /\ HandOverInv'
<1>1. /\ eq.pc = "mark" /\ eq' = Rendering(Tail(eq.renders), eq.postponed)
      /\ UNCHANGED <<conf, filt, sets, pipe>>
      /\ equalisers' = [equalisers EXCEPT ![Now].not_changed = TRUE]
  BY DEF Mark
<1>2. Now \in Equals /\ EqualiserOk(Now) /\ Tail(eq.renders) \in Seq(Equals)
  BY <1>1, NowOk
<1>3. /\ DOMAIN eq' = {"pc", "renders", "postponed"} /\ eq'.pc \in {"read", "poll"}
      /\ eq'.renders \in Seq(Equals) /\ eq'.postponed \in Equals \cup {None}
      /\ eq'.pc # "read" => eq'.renders # <<>>
  BY <1>1, <1>2, RenderingOk DEF EqInv
<1>4. IsFcn(equalisers, Equals) /\ Equals = DOMAIN conf.eq.entries
  BY DEF EqInv, IsFcn, Equals
<1>5. /\ equalisers' = [d \in Equals |-> equalisers'[d]]
      /\ \A d \in Equals \ {Now} : equalisers'[d] = equalisers[d]
      /\ DOMAIN equalisers'[Now] = DOMAIN equalisers[Now] /\ equalisers'[Now].coeff = equalisers[Now].coeff
      /\ equalisers'[Now].active = equalisers[Now].active
      /\ equalisers'[Now].not_changed = TRUE
  BY <1>1, <1>2, <1>4 DEF IsFcn, EqualiserOk
<1>6. Equals' = Equals
  BY <1>5 DEF Equals
<1>7. EqInv'
  <2>1. \A d \in Equals : EqualiserOk(d)'
    <3> SUFFICES ASSUME NEW d \in Equals PROVE EqualiserOk(d)'
      OBVIOUS
    <3>1. EqualiserOk(d)
      BY DEF EqInv
    <3> QED
      BY <1>1, <1>2, <1>5, <3>1 DEF EqualiserOk
  <2> QED
    BY <1>1, <1>3, <1>4, <1>5, <1>6, <2>1 DEF EqInv, IsFcn, EqPcs
<1>8. RenderInv'
  <2>1. \A c \in DOMAIN sets : sets[c].whole
    BY <1>1 DEF RenderInv
  <2> QED
    BY <1>1, <1>3, <2>1 DEF RenderInv
<1>9. \A p \in Procs, e \in Equals : HandOver(p, e) => HandOver(p, e)'
  BY <1>1, <1>5 DEF HandOver
<1>10. \A e \in Equals : equalisers'[e].coeff = equalisers[e].coeff
  BY <1>5
<1>11. SeenInv' /\ HandOverInv'
  BY <1>1, <1>6, <1>9, <1>10, EqOthers
<1> QED
  BY <1>7, <1>8, <1>11

LEMMA SetToSeqType ==
    ASSUME NEW S, IsFiniteSet(S)
    PROVE  SetToSeq(S) \in Seq(S)
<1> DEFINE n == Cardinality(S)
<1>1. n \in Nat /\ ExistsBijection(1 .. n, S)
  BY FS_CardinalityType
<1>2. PICK f \in Bijection(1 .. n, S) : TRUE
  BY <1>1 DEF ExistsBijection
<1>3. f \in [1 .. n -> S] /\ IsInjective(f)
  BY <1>2 DEF Bijection, Injection
<1>4. SetToSeq(S) \in [1 .. n -> S]
  BY <1>3 DEF SetToSeq
<1> QED
  BY <1>1, <1>4, SeqDef

\* A command is put into the pipe of each equaliser that takes it.
LEMMA EqCommand ==
    ASSUME ConfOk, EqInv, RenderInv, Command
    PROVE  EqInv' /\ RenderInv'
<1> DEFINE st == Head(cli.text)
           mine == {e \in Equals : Controls(equalisers[e].coeff, st.coeff)}
           taken == {e \in mine : CommandOk(equalisers[e].values, st.cmd)}
           new == {[e |-> e, cmd |-> st.cmd] : e \in taken}
<1>1. pipe' = pipe \o SetToSeq(new) /\ UNCHANGED <<conf, equalisers, eq, sets>>
  BY DEF Command
<1>2. IsFiniteSet(new)
  <2>1. conf.eq.entries \in Seq(ToSet(conf.eq.entries))
    BY ControlAssumption DEF ConfOk
  <2>2. Equals = 1 .. Len(conf.eq.entries) /\ Len(conf.eq.entries) \in Nat
    BY <2>1, LenProperties DEF EqInv, IsFcn, Equals
  <2>3. IsFiniteSet(Equals)
    BY <2>2, FS_Interval
  <2>4. IsFiniteSet(taken)
    BY <2>3, FS_Subset
  <2> DEFINE g == [e \in taken |-> [e |-> e, cmd |-> st.cmd]]
  <2>5. g \in Surjection(taken, new)
    BY DEF Surjection
  <2> QED
    BY <2>4, <2>5, FS_Surjection
<1>3. SetToSeq(new) \in Seq(new)
  BY <1>2, SetToSeqType
<1>4. PICK S : pipe \in Seq(S) /\ \A x \in S : x.e \in Equals
  BY DEF EqInv
<1>5. \A x \in new : x.e \in Equals
  OBVIOUS
<1> HIDE DEF new
<1>6. pipe' \in Seq(S \cup new)
  BY <1>1, <1>3, <1>4, SeqMonotonic, ConcatProperties
<1>7. Equals' = Equals /\ Now' = Now /\ Target' = Target /\ \A e : EqualiserOk(e)' <=> EqualiserOk(e)
  BY <1>1 DEF Equals, Now, Target, EqualiserOk
<1>8. EqInv'
  BY <1>1, <1>4, <1>5, <1>6, <1>7 DEF EqInv, IsFcn
<1>9. RenderInv'
  BY <1>1, <1>7 DEF RenderInv
<1> QED
  BY <1>8, <1>9

HandOvers == ConfOk /\ FiltersOk /\ BarrierInv /\ HookInv /\ EqInv /\ RenderInv /\ SeenInv /\ HandOverInv

LEMMA FirstEq ==
    ASSUME HandOvers, UNCHANGED <<conf, equalisers, eq, sets>>, OthersStay(0), filt[0].pc \in {"start", "hook"},
           filt'[0].pc \in {"hook", "hooked"}, filt'[0].used = filt[0].used
    PROVE  SeenInv' /\ HandOverInv'
<1>1. 0 \in Procs
  BY ProcsOk DEF HandOvers
<1> QED
  BY <1>1, EqWaits DEF HandOvers

LEMMA NextHandOvers ==
    ASSUME HandOvers, [Next]_vars
    PROVE  HandOvers'
<1>1. CASE UNCHANGED vars
  <2>1. UNCHANGED <<conf, filt, equalisers, eq, sets, pipe, cli>>
    BY <1>1 DEF vars
  <2>a. UNCHANGED conf
    BY <2>1
  <2>2. ConfOk' /\ Mode' = Mode
    BY <2>a DEF HandOvers, ConfOk, Accepted, Mode
  <2>3. FiltersOk' /\ BarrierInv' /\ HookInv'
    BY <2>1, <2>2, FiltersStay DEF HandOvers, HookInv
  <2>4. EqInv' /\ RenderInv'
    BY <2>1, EqSame DEF HandOvers
  <2>5. Equals' = Equals /\ \A p \in Procs, e \in Equals : HandOver(p, e) => HandOver(p, e)'
    BY <2>1 DEF HandOver, Equals, Now
  <2>6. SeenInv' /\ HandOverInv'
    BY <2>1, <2>5, EqOthers DEF HandOvers
  <2> QED
    BY <2>2, <2>3, <2>4, <2>6 DEF HandOvers
<1>2. CASE Next
  <2>1. FiltersOk' /\ BarrierInv' /\ HookInv' /\ ConfOk'
    BY <1>2, NextBarrier DEF HandOvers
  <2> DEFINE Rest == EqInv' /\ RenderInv' /\ SeenInv' /\ HandOverInv'
  <2> SUFFICES Rest
    BY <2>1 DEF HandOvers
  <2>2. ASSUME UNCHANGED <<conf, filt, equalisers, eq>> PROVE SeenInv' /\ HandOverInv'
    <3>1. Equals' = Equals /\ \A p \in Procs, e \in Equals : HandOver(p, e) => HandOver(p, e)'
      BY <2>2 DEF HandOver, Equals, Now
    <3> QED
      BY <2>2, <3>1, EqOthers DEF HandOvers
  <2>3. CASE Send \/ HangUp \/ Accept \/ GetLine \/ Disconnect \/ Statement \/ Answer \/ CommitChannels \/ CommitFilters
    <3>1. UNCHANGED <<conf, filt, equalisers, eq, sets, pipe>>
      BY <2>3 DEF Send, HangUp, Accept, GetLine, Disconnect, Statement, Answer, CommitChannels, CommitFilters
    <3> QED
      BY <2>2, <3>1, EqSame DEF HandOvers
  <2>4. CASE Command
    <3>1. UNCHANGED <<conf, filt, equalisers, eq>>
      BY <2>4 DEF Command
    <3> QED
      BY <2>2, <2>4, <3>1, EqCommand DEF HandOvers
  <2>5. CASE EndOfText \/ BlockStart
    <3>1. UNCHANGED <<conf, equalisers, eq, sets, pipe>>
      BY <2>5 DEF EndOfText, BlockStart
    <3>2. EqInv' /\ RenderInv'
      BY <3>1, EqSame DEF HandOvers
    <3>3. CASE UNCHANGED filt
      BY <2>2, <3>1, <3>2, <3>3
    <3>4. ASSUME NEW x \in {"hook", "hooked"}, filt' = [filt EXCEPT ![0].pc = x], Mode = "script",
                 filt[0].pc \in {"start", "hook"}
          PROVE  Rest
      <4>1. 0 \in Procs /\ FilterRecord(filt[0]) /\ IsFcn(filt, Procs)
        BY ProcsOk, ProcType DEF HandOvers, FiltersOk
      <4>2. OthersStay(0) /\ filt'[0].pc = x /\ filt'[0].used = filt[0].used
        BY <3>4, <4>1 DEF OthersStay, FilterRecord, IsFcn
      <4> QED
        BY <3>1, <3>2, <3>4, <4>2, FirstEq
    <3>5. CASE EndOfText
      <4>1. CASE AreChanges(net, cli.ns) \/ Mode # "script"
        BY <3>3, <3>5, <4>1 DEF EndOfText
      <4>2. CASE ~AreChanges(net, cli.ns) /\ Mode = "script"
        <5>1. filt' = [filt EXCEPT ![0].pc = "hooked"] /\ filt[0].pc = "hook"
          BY <3>5, <4>2 DEF EndOfText, HandOvers, HookInv
        <5> QED
          BY <3>4, <4>2, <5>1
      <4> QED
        BY <4>1, <4>2
    <3>6. CASE BlockStart
      <4>1. Mode = "script" /\ filt[0].pc = "start"
        BY <3>6 DEF BlockStart
      <4>2. \/ filt' = [filt EXCEPT ![0].pc = "hooked"]
            \/ filt' = [filt EXCEPT ![0].pc = "hook"]
        BY <3>6 DEF BlockStart
      <4> QED
        BY <3>4, <4>1, <4>2
    <3> QED
      BY <2>5, <3>5, <3>6
  <2>6. ASSUME NEW p \in Procs, FilterStep(p) PROVE Rest
    BY <2>6, EqSeen, EqFilter DEF HandOvers
  <2>7. CASE Eq
    BY <2>7, EqReads, EqRenders, EqSwaps, EqMarks DEF Eq, HandOvers
  <2> QED
    BY <1>2, <2>3, <2>4, <2>5, <2>6, <2>7 DEF Next, Cli, Filters
<1> QED
  BY <1>1, <1>2

LEMMA InitHandOvers ==
    ASSUME Init
    PROVE  HandOvers
<1>1. ConfOk /\ conf' = conf'
  BY DEF Init, ConfOk
<1>2. /\ filt = [p \in Procs |-> NewFilter(conf, p)]
      /\ cli = [pc |-> CASE Mode = "script" -> "idle" [] Mode = "stream" -> "data" [] OTHER -> "accept",
                text |-> <<>>, ns |-> ClearChanges(net, conf.control), quit |-> FALSE, sleep |-> <<>>]
      /\ eq = [pc |-> "read", renders |-> <<>>, postponed |-> None] /\ pipe = <<>>
  BY DEF Init, Procs, net
<1>3. \A p \in Procs : /\ FilterRecord(filt[p]) /\ filt[p].pc = (IF Mode = "script" THEN "start" ELSE "copy")
                       /\ filt[p].odd = FALSE
  BY <1>2 DEF NewFilter, FirstPc, Mode, FilterRecord
<1>4. FiltersOk
  BY <1>2, <1>3 DEF FiltersOk, FilterType, IsFcn, Pcs
<1>5. BarrierInv
  <2> SUFFICES ASSUME NEW p \in Procs, NEW q \in Procs
               PROVE  /\ filt[p].odd = filt[q].odd
                      /\ Rank(p) < 4 /\ Rank(p) \in 0 .. 5 /\ (Rank(p) >= 2 => Rank(q) >= 1)
    BY DEF BarrierInv
  <2>1. Rank(p) \in 0 .. 5
    BY <1>1, <1>4, Ranks
  <2>2. Rank(p) \notin {4, 5}
    BY <1>1, <1>3, <1>4, Ranks
  <2>3. Mode = "script" => Rank(p) \in {0, 1}
    BY <1>1, <1>3, <1>4, Ranks
  <2>4. Mode # "script" => Rank(q) = 2
    BY <1>1, <1>3, <1>4, Ranks
  <2>5. Rank(p) < 4 /\ (Rank(p) >= 2 => Rank(q) >= 1)
    BY <2>1, <2>2, <2>3, <2>4
  <2> QED
    BY <1>3, <2>1, <2>5
<1>6. HookInv
  BY <1>2 DEF HookInv
<1>7. /\ equalisers = [e \in DOMAIN conf.eq.entries |-> equalisers[e]]
      /\ \A e \in DOMAIN conf.eq.entries :
            equalisers[e] = [coeff |-> SetsOf(conf.eq.entries[e]), values |-> equalisers[e].values, active |-> 2,
                             not_changed |-> TRUE]
  BY DEF Init, Configured
<1>8. /\ DOMAIN sets = UNION {ToSet(equalisers[e].coeff) : e \in DOMAIN equalisers}
      /\ \A c \in DOMAIN sets : DOMAIN sets[c] = {"whole", "is"} /\ sets[c].whole
  BY DEF Init
<1>9. \A e \in Equals : EqualiserOk(e)
  <2> SUFFICES ASSUME NEW e \in Equals PROVE EqualiserOk(e)
    OBVIOUS
  <2>1. e \in DOMAIN conf.eq.entries
    BY <1>7 DEF Equals
  <2>2. ToSet(equalisers[e].coeff) \subseteq DOMAIN sets
    BY <1>8 DEF Equals
  <2> DEFINE k == SetsOf(conf.eq.entries[e])
  <2>3. PICK v : equalisers[e] = [coeff |-> k, values |-> v, active |-> 2, not_changed |-> TRUE]
    BY <1>7, <2>1
  <2> HIDE DEF k
  <2>4. DOMAIN equalisers[e] = {"coeff", "values", "active", "not_changed"}
    BY <2>3
  <2>5. equalisers[e].coeff = k /\ equalisers[e].active \in 1 .. 2 /\ equalisers[e].not_changed \in BOOLEAN
    BY <2>3
  <2> QED
    BY <2>2, <2>4, <2>5 DEF EqualiserOk, k
<1>10. EqInv
  <2>1. pipe \in Seq({}) /\ eq.renders \in Seq(Equals) /\ eq.pc = "read" /\ eq.postponed = None
        /\ DOMAIN eq = {"pc", "renders", "postponed"}
    BY <1>2
  <2>2. \E S : pipe \in Seq(S) /\ \A x \in S : x.e \in Equals
    BY <2>1
  <2>3. IsFcn(equalisers, DOMAIN conf.eq.entries)
    BY <1>7 DEF IsFcn
  <2> QED
    BY <1>8, <1>9, <2>1, <2>2, <2>3 DEF EqInv, EqPcs
<1>11. RenderInv
  BY <1>2, <1>8 DEF RenderInv
<1>12. SeenInv /\ HandOverInv
  BY <1>3 DEF SeenInv, HandOverInv, OnlyOneAnswers
<1> QED
  BY <1>1, <1>4, <1>5, <1>6, <1>10, <1>11, <1>12 DEF HandOvers

\* The barriers between the filter processes and the hand-over between them and the
\* equaliser thread, for every network, every way its filters are divided among
\* processes, and every sequence of commands.
THEOREM HandedOver == Spec => []HandOvers
<1> QED
  BY InitHandOvers, NextHandOvers, PTL DEF Spec

\* A filter that alone answers for an equaliser with two sets never convolves with the
\* set that is being rendered, unless its choice was out of date when it reported it.
THEOREM NoneIncomplete == Spec => []NeverIncomplete
<1>1. HandOvers => NeverIncomplete
  <2> SUFFICES ASSUME HandOvers, NEW p \in Procs, NEW e \in Equals,
                      filt[p].pc = "convolve", ~filt[p].stale, Controls(equalisers[e].coeff, filt[p].coeff),
                      equalisers[e].coeff[1] # equalisers[e].coeff[2], ~AnsweredByOthers(p, e),
                      ~sets[filt[p].coeff].whole
               PROVE  FALSE
    BY DEF NeverIncomplete
  <2> USE DEF HandOvers
  <2>1. OnlyOneAnswers(p, e)
    BY DEF OnlyOneAnswers, AnsweredByOthers, Answers
  <2>2. filt[p].coeff \in DOMAIN sets
    BY DEF EqInv, EqualiserOk, Controls
  <2>3. eq.pc = "write" /\ filt[p].coeff = Target /\ ~equalisers[Now].not_changed
    BY <2>2 DEF RenderInv
  <2>4. Now \in Equals /\ Target = equalisers[Now].coeff[3 - equalisers[Now].active]
    BY <2>3, NowOk
  <2>5. Now = e
    <3> DEFINE d == Now
    <3>1. d \in Equals
      BY <2>4
    <3> HIDE DEF d
    <3>2. 3 - equalisers[d].active \in {1, 2}
      BY <3>1, Pair
    <3>3. Controls(equalisers[d].coeff, equalisers[d].coeff[3 - equalisers[d].active])
      BY <3>1, <3>2, Pair
    <3>4. d = e
      BY <2>3, <2>4, <3>1, <3>3, Apart DEF d
    <3> QED
      BY <3>4 DEF d
  <2>6. filt[p].coeff = equalisers[e].coeff[equalisers[e].active]
    BY <2>1, <2>3, <2>5 DEF HandOverInv, HandOver
  <2> QED
    BY <2>3, <2>4, <2>5, <2>6, Pair
<1> QED
  BY <1>1, HandedOver, PTL

LEMMA UsedSteps ==
    ASSUME ConfOk, FiltersOk, BarrierInv, HookInv, CommitInv, UsedInv, Next, UNCHANGED goal \/ CommitFilters
    PROVE  UsedInv'
<1>1. FiltersOk' /\ BarrierInv' /\ HookInv' /\ ConfOk' /\ 0 \in Procs
  BY NextBarrier, ProcsOk
<1>2. UNCHANGED conf
  BY DEF Next, Send, HangUp, Cli, Accept, GetLine, Disconnect, Statement, Command, Answer, CommitChannels,
         CommitFilters, EndOfText, Filters, BlockStart, FilterStep, AfterHook, Copy, Synch, Choose, Seen,
         Convolved, EndBlock, Eq, ReadCommand, Render, Rendered, Swap, Mark
<1>3. Mode' = Mode /\ Procs' = Procs /\ \A q, c : Owner(q)' = Owner(q) /\ View(c, q)' = View(c, q)'
  BY <1>2 DEF Mode, Procs, Owner, net
<1>4. \A q : UNCHANGED goal => View(goal, q)' = View(goal, q)
  BY <1>3 DEF View
<1> SUFFICES ASSUME Mode = "script", NEW q \in Procs, Rank(q)' >= 3, filt'[q].odd = filt'[0].odd
             PROVE  filt'[q].used = View(goal, q)'
  BY <1>3 DEF UsedInv
<1>5. \A r \in Procs : filt'[r] = filt[r] => Rank(r)' = Rank(r)
  BY DEF Rank
<1>6. CASE UNCHANGED <<filt, goal>>
  BY <1>1, <1>4, <1>5, <1>6 DEF UsedInv
<1>7. CASE CommitFilters
  <2>1. cli.pc = "filters" /\ UNCHANGED filt
    BY <1>7 DEF CommitFilters
  <2>2. filt[0].pc = "hook"
    BY <2>1 DEF HookInv
  <2>3. Rank(0) = 0 /\ Rank(q) >= 3 /\ Rank(q) \in 0 .. 5
    BY <1>1, <1>5, <2>1, <2>2, Ranks
  <2>4. Rank(q) >= 2 => Rank(0) >= 1
    BY <1>1, <2>1 DEF BarrierInv
  <2> QED
    BY <2>3, <2>4
<1>8. CASE BlockStart \/ EndOfText
  <2>1. UNCHANGED goal
    BY <1>8 DEF BlockStart, EndOfText, CommitFilters
  <2>2. CASE UNCHANGED filt
    BY <1>6, <2>1, <2>2
  <2>3. CASE \E x \in {"hook", "hooked"} : filt' = [filt EXCEPT ![0].pc = x]
    <3>1. PICK x \in {"hook", "hooked"} : filt' = [filt EXCEPT ![0].pc = x]
      BY <2>3
    <3>2. FilterRecord(filt[0])
      BY <1>1, ProcType
    <3>3. filt'[0].pc = x /\ filt'[0].odd = filt[0].odd /\ \A r \in Procs \ {0} : filt'[r] = filt[r]
      BY <1>1, <3>1, <3>2 DEF FiltersOk, IsFcn, FilterRecord
    <3>5. q # 0
      <4> SUFFICES ASSUME q = 0 PROVE FALSE
        OBVIOUS
      <4>1. filt'[q].pc = x
        BY <3>3
      <4>2. Rank(q)' \in {0, 1}
        BY <4>1, RankNext DEF Pcs
      <4> QED
        BY <4>2
    <3> QED
      BY <1>1, <1>4, <1>5, <2>1, <3>3, <3>5 DEF UsedInv
  <2>4. UNCHANGED filt \/ \E x \in {"hook", "hooked"} : filt' = [filt EXCEPT ![0].pc = x]
    BY <1>8 DEF BlockStart, EndOfText
  <2> QED
    BY <2>2, <2>3, <2>4
<1>9. ASSUME NEW p \in Procs, FilterStep(p)
      PROVE  filt'[q].used = View(goal, q)'
  <2>1. OthersStay(p) /\ UNCHANGED goal
    BY <1>9, FilterMoves
  <2>2. FilterRecord(filt[p]) /\ filt = [r \in Procs |-> filt[r]] /\ Rank(p) \in 0 .. 5
    BY ProcType, Ranks DEF FiltersOk, IsFcn
  <2>3. CASE Copy(p)
    <3>1. filt'[p].used = View(icomm, p) /\ filt'[p].odd = filt[p].odd /\ mutex = "free"
      BY <1>9, <2>2, <2>3 DEF Copy, FilterRecord
    <3>2. goal = icomm
      BY <3>1 DEF CommitInv
    <3>3. filt'[0].odd = filt[0].odd
      BY <1>1, <2>1, <3>1 DEF OthersStay
    <3>4. CASE q = p
      BY <1>4, <2>1, <3>1, <3>2, <3>4
    <3>5. CASE q # p
      BY <1>4, <1>5, <2>1, <3>3, <3>5 DEF OthersStay, UsedInv
    <3> QED
      BY <3>4, <3>5
  <2>4. CASE AfterHook(p) \/ Synch(p) \/ Choose(p) \/ Seen(p) \/ Convolved(p)
    <3>1. filt'[p].used = filt[p].used /\ filt'[p].odd = filt[p].odd
      <4>1. CASE AfterHook(p) \/ Synch(p)
        BY <2>2, <4>1 DEF AfterHook, Synch, FilterRecord
      <4>2. CASE Choose(p)
        BY <2>2, <4>2 DEF Choose, FilterRecord
      <4>3. CASE Seen(p)
        BY <2>2, <4>3 DEF Seen, FilterRecord
      <4>4. CASE Convolved(p)
        BY <2>2, <4>4 DEF Convolved, FilterRecord
      <4> QED
        BY <2>4, <4>1, <4>2, <4>3, <4>4
    <3>2. filt'[0].odd = filt[0].odd /\ filt'[q].used = filt[q].used /\ filt'[q].odd = filt[q].odd
      BY <1>1, <2>1, <3>1 DEF OthersStay
    <3>3. Rank(q) >= 3
      <4>1. CASE q # p
        BY <1>5, <2>1, <4>1 DEF OthersStay
      <4>2. CASE AfterHook(p)
        <5>1. filt'[p].pc = "copy"
          BY <2>2, <4>2 DEF AfterHook, FilterRecord
        <5>2. Rank(p)' = 2
          BY <5>1, RankNext DEF Pcs
        <5> QED
          BY <4>1, <5>2
      <4>3. CASE q = p /\ ~AfterHook(p)
        <5>1. filt[p].pc \in {"synch", "choose", "seen", "convolve"}
          BY <2>4, <4>3 DEF Synch, Choose, Seen, Convolved
        <5> QED
          BY <4>3, <5>1, Ranks
      <4> QED
        BY <4>1, <4>2, <4>3
    <3> QED
      BY <1>4, <2>1, <3>2, <3>3 DEF UsedInv
  <2>5. CASE EndBlock(p)
    <3>1. filt'[p].pc = "start" /\ filt'[p].odd = ~filt[p].odd /\ filt[p].pc = "mix" /\ filt[p].odd \in BOOLEAN
      <4>1. FirstPc(conf) = "start"
        BY DEF FirstPc, Mode
      <4> QED
        BY <2>2, <2>5, <4>1, ProcType DEF EndBlock, FilterRecord
    <3>2. Rank(p)' < 3 /\ Rank(p) = 5
      BY <3>1, Ranks, RankNext DEF Pcs
    <3>3. q # p /\ filt'[q] = filt[q] /\ Rank(q) = Rank(q)'
      <4>1. q = p => Rank(q)' \in {0, 1}
        BY <3>1, RankNext DEF Pcs
      <4> QED
        BY <1>5, <2>1, <4>1 DEF OthersStay
    <3>4. CASE p = 0
      <4>1. filt[q].odd # filt[0].odd
        BY <3>1, <3>3, <3>4
      <4>2. Rank(q) <= FirstRank \/ Rank(0) <= FirstRank
        BY <1>1, <4>1 DEF BarrierInv
      <4>3. FirstRank = 1 /\ Rank(q) \in 0 .. 5
        BY Ranks DEF FirstRank
      <4>4. (Rank(q) = 5 /\ Rank(0) <= 1) \/ (Rank(0) = 5 /\ Rank(q) <= 1)
        BY <1>1, <4>1, <4>3 DEF BarrierInv
      <4> QED
        BY <3>2, <3>3, <3>4, <4>3, <4>4
    <3>5. CASE p # 0
      <4>1. filt'[0] = filt[0]
        BY <1>1, <2>1, <3>5 DEF OthersStay
      <4> QED
        BY <1>4, <2>1, <3>3, <4>1 DEF UsedInv
    <3> QED
      BY <3>4, <3>5
  <2> QED
    BY <1>9, <2>3, <2>4, <2>5 DEF FilterStep
<1>10. CASE Send \/ HangUp \/ Eq \/ Accept \/ GetLine \/ Disconnect \/ Statement \/ Command \/ Answer \/ CommitChannels
  <2>1. UNCHANGED <<filt, goal>>
    BY <1>10 DEF Send, HangUp, Eq, ReadCommand, Render, Rendered, Swap, Mark, Accept, GetLine, Disconnect, Statement,
                 Command, Answer, CommitChannels
  <2> QED
    BY <1>6, <2>1
<1> QED
  BY <1>7, <1>8, <1>9, <1>10 DEF Next, Cli, Filters

WholeSets ==
    /\ ConfOk /\ DelaysAgree(conf) /\ FiltersOk /\ BarrierInv /\ HookInv
    /\ TextInv /\ CommitInv /\ UsedInv

LEMMA WholeStart ==
    ASSUME Init, DelaysAgree(conf)
    PROVE  WholeSets
<1>1. ConfOk /\ FiltersOk /\ BarrierInv /\ HookInv
  BY InitHandOvers DEF HandOvers
<1>2. /\ cli.pc = CASE Mode = "script" -> "idle" [] Mode = "stream" -> "data" [] OTHER -> "accept"
      /\ cli.ns = ClearChanges(net, icomm) /\ mutex = "free" /\ asked = icomm /\ goal = icomm
      /\ icomm = conf.control /\ filt = [p \in Procs |-> NewFilter(conf, p)]
  BY DEF Init, Procs, net
<1>3. ControlsOk(net, icomm)
  BY <1>1, <1>2, ControlAssumption DEF ConfOk, net
<1>4. CommitInv
  BY <1>2, <1>3, Cleared DEF CommitInv
<1>5. UsedInv
  <2>1. \A q \in Procs : filt[q].pc = FirstPc(conf)
    BY <1>2 DEF NewFilter
  <2>2. Mode = "script" => FirstPc(conf) = "start"
    BY DEF FirstPc, Mode
  <2>3. Mode = "script" => \A q \in Procs : ~(Rank(q) >= 3)
    <3> SUFFICES ASSUME Mode = "script", NEW q \in Procs PROVE ~(Rank(q) >= 3)
      OBVIOUS
    <3>1. filt[q].pc = "start"
      BY <2>1, <2>2
    <3>2. Rank(q) \in {0, 1}
      BY <3>1 DEF Rank
    <3> QED
      BY <3>2
  <2> QED
    BY <2>3 DEF UsedInv
<1> QED
  BY <1>1, <1>4, <1>5, TextStart DEF WholeSets

LEMMA WholeSteps ==
    ASSUME WholeSets, [Next]_vars
    PROVE  WholeSets'
<1>1. CASE Next
  <2>1. FiltersOk' /\ BarrierInv' /\ HookInv' /\ ConfOk' /\ TextInv'
    BY <1>1, NextBarrier, TextSteps DEF WholeSets
  <2>2. CommitInv' /\ (UNCHANGED goal \/ CommitFilters)
    BY <1>1, CommitSteps DEF WholeSets
  <2>3. UsedInv'
    BY <1>1, <2>2, UsedSteps DEF WholeSets
  <2>4. UNCHANGED conf
    BY <1>1 DEF Next, Send, HangUp, Cli, Accept, GetLine, Disconnect, Statement, Command, Answer, CommitChannels,
         CommitFilters, EndOfText, Filters, BlockStart, FilterStep, AfterHook, Copy, Synch, Choose, Seen,
         Convolved, EndBlock, Eq, ReadCommand, Render, Rendered, Swap, Mark
  <2>5. DelaysAgree(conf)'
    BY <2>4 DEF WholeSets, DelaysAgree, Asks, Statements, Lines
  <2> QED
    BY <2>1, <2>2, <2>3, <2>5 DEF WholeSets
<1>2. CASE UNCHANGED vars
  <2>1. UNCHANGED conf /\ UNCHANGED <<icomm, mutex, cli, script, term, filt, asked, goal>>
    BY <1>2 DEF vars
  <2>2. ConfOk' /\ Mode' = Mode /\ Procs' = Procs /\ DelaysAgree(conf)' /\ Text' = Text
        /\ \A q : Rank(q)' = Rank(q) /\ View(goal, q)' = View(goal, q)
    BY <2>1 DEF WholeSets, ConfOk, Accepted, Mode, Procs, net, DelaysAgree, Asks, Text, Statements, Lines, Rank, View, Owner
  <2>3. FiltersOk' /\ BarrierInv' /\ HookInv'
    BY <2>1, <2>2, FiltersStay DEF WholeSets, HookInv
  <2>4. CommitInv'
    BY <2>1, CommitStays DEF WholeSets
  <2>5. TextInv'
    BY <2>1, <2>2 DEF WholeSets, TextInv, TermOk
  <2>6. UsedInv'
    BY <2>1, <2>2 DEF WholeSets, UsedInv
  <2> QED
    BY <2>2, <2>3, <2>4, <2>5, <2>6 DEF WholeSets
<1> QED
  BY <1>1, <1>2

\* A filter process that takes over the controls takes over what whole sets of statements
\* ask for, never half of a set; and in a script all processes work through a block with
\* the same sets carried out.  For every network, script and client whose delays agree.
THEOREM SetsAtomic == Spec => (DelaysAgree(conf) => ControlsAtomic)
<1>1. ASSUME WholeSets, [Next]_vars, NEW p \in Procs, Copies(p)
      PROVE  /\ filt'[p].used = View(goal, p)
             /\ Mode = "script" => \A q \in Procs :
                    filt[q].odd = filt[p].odd /\ Rank(q) >= 3 => filt[q].used = View(goal, q)
  <2>1. ConfOk /\ FiltersOk /\ BarrierInv /\ HookInv /\ CommitInv /\ UsedInv /\ 0 \in Procs
    BY <1>1, ProcsOk DEF WholeSets
  <2>2. FilterRecord(filt[p]) /\ filt = [r \in Procs |-> filt[r]] /\ FilterRecord(filt[0])
    BY <2>1, ProcType DEF FiltersOk, IsFcn
  <2>3. filt[p].pc = "copy" /\ filt'[p].pc = "synch" /\ Rank(p) = 2
    BY <1>1, <2>1, Ranks DEF Copies
  <2>4. CASE Copy(p)
    <3>1. filt'[p].used = View(icomm, p) /\ mutex = "free"
      BY <2>2, <2>4 DEF Copy, FilterRecord
    <3>2. goal = icomm
      BY <2>1, <3>1 DEF CommitInv
    <3>3. Mode = "script" => filt[p].odd = filt[0].odd
      <4> SUFFICES ASSUME Mode = "script", filt[p].odd # filt[0].odd PROVE FALSE
        OBVIOUS
      <4>1. FirstRank = 1
        BY DEF FirstRank
      <4>2. (Rank(p) = 5 /\ Rank(0) <= 1) \/ (Rank(0) = 5 /\ Rank(p) <= 1)
        BY <2>1, <4>1 DEF BarrierInv
      <4> QED
        BY <2>3, <4>2
    <3> QED
      BY <2>1, <3>1, <3>2, <3>3 DEF UsedInv
  <2>5. CASE UNCHANGED filt
    BY <2>3, <2>5
  <2>6. ASSUME NEW q \in Procs, FilterStep(q) PROVE q = p
    <3>1. OthersStay(q)
      BY <2>1, <2>6, FilterMoves
    <3> QED
      BY <2>3, <3>1 DEF OthersStay
  <2>7. CASE FilterStep(p)
    <3>1. Copy(p)
      BY <2>3, <2>7 DEF FilterStep, AfterHook, Synch, Choose, Seen, Convolved, EndBlock
    <3> QED
      BY <2>4, <3>1
  <2>8. CASE \E q \in Procs : FilterStep(q)
    BY <2>6, <2>7, <2>8, Zenon
  <2>9. CASE BlockStart \/ EndOfText
    <3>1. UNCHANGED filt \/ \E x \in {"hook", "hooked"} : filt' = [filt EXCEPT ![0].pc = x]
      BY <2>9 DEF BlockStart, EndOfText
    <3>2. filt'[p].pc \in {filt[p].pc, "hook", "hooked"}
      BY <2>1, <2>2, <3>1 DEF FilterRecord
    <3> QED
      BY <2>3, <3>2
  <2>10. CASE Send \/ HangUp \/ Eq \/ Accept \/ GetLine \/ Disconnect \/ Statement \/ Command \/ Answer
             \/ CommitChannels \/ CommitFilters
    <3>1. UNCHANGED filt
      BY <2>10 DEF Send, HangUp, Eq, ReadCommand, Render, Rendered, Swap, Mark, Accept, GetLine, Disconnect, Statement,
                  Command, Answer, CommitChannels, CommitFilters
    <3> QED
      BY <2>5, <3>1
  <2>11. CASE UNCHANGED vars
    BY <2>5, <2>11 DEF vars
  <2> QED
    BY <1>1, <2>8, <2>9, <2>10, <2>11 DEF Next, Cli, Filters
<1>2. ASSUME WholeSets, [Next]_vars
      PROVE  [\A p \in Procs : Copies(p) =>
                 /\ filt'[p].used = View(goal, p)
                 /\ Mode = "script" => \A q \in Procs :
                        filt[q].odd = filt[p].odd /\ Rank(q) >= 3 => filt[q].used = View(goal, q)]_vars
  BY <1>1, <1>2
<1> QED
  BY <1>2, WholeStart, WholeSteps, PTL DEF Spec, ControlsAtomic

=============================================================================
