---------------------------- MODULE BfSemProofs ----------------------------
(***************************************************************************)
(* Safety of the semaphore for any number of threads, any use, any size of *)
(* the message buffer and any number of posts and spurious wakeups.        *)
(*                                                                         *)
(* The inductive invariant has three layers: what the mutex protects       *)
(* (LockInv), that the tokens a sleeping thread could take are covered by  *)
(* signals still to come and by threads that are awake (WakeupInv), and    *)
(* that the messages in the buffer are those sent and not yet received.    *)
(*                                                                         *)
(* That the code is a counting semaphore comes from the same invariant:    *)
(* the tokens that waiting threads hold are a finite set of pairs, and one *)
(* more of them is one less in the counter.                                *)
(***************************************************************************)
EXTENDS BfSem, FiniteSetTheorems, SequenceTheorems, TLAPS

\* Who may be where: the mutex has one owner, the condition variable knows its
\* sleepers, a loop variable stays within its loop.
LockInv ==
    /\ \A t \in Threads : pc[t] \in {"signal", "take"} <=> mutex = t
    /\ \A t \in Threads : t \in cond <=> pc[t] = "asleep"
    /\ \A t \in Threads : pc[t] \in {"post_lock", "signal"} => t \in Posters
    /\ \A t \in Threads :
          pc[t] \in {"wait_lock", "take", "asleep", "relock"} => t \in Waiters
    /\ \A t \in Threads : pc[t] = "signal" => i[t] <= PostSize
    /\ \A t \in Threads : pc[t] \in {"wait_lock", "asleep", "relock"} => i[t] < WaitSize
    /\ \A t \in Threads : pc[t] = "take" => i[t] <= WaitSize

\* Signals the owner of the mutex has still to send.
Pending ==
    IF mutex # NoThread /\ pc[mutex] = "signal" THEN PostSize - i[mutex] ELSE 0

\* Threads on their way to look at the counter.
Awake == {t \in Threads : pc[t] = "relock" \/ (pc[t] = "take" /\ i[t] < WaitSize)}

WakeupInv == cond # {} => count <= Pending + Cardinality(Awake)

MessageInv ==
    UseMsg => /\ sent = received \o msg_data
              /\ count = Len(msg_data)
              /\ Len(msg_data) <= Capacity

Inv == TypeOK /\ LockInv /\ WakeupInv /\ MessageInv

-----------------------------------------------------------------------------
(* Shapes *)

LEMMA UseTypes ==
    ASSUME use \in Uses
    PROVE  /\ Posters \subseteq Threads /\ Waiters \subseteq Threads
           /\ PostSize \in Nat \ {0} /\ WaitSize \in Nat \ {0} /\ UseMsg \in BOOLEAN
           /\ UseMsg => PostSize = 1 /\ WaitSize = 1
  BY UsesAssumption DEF Use, Posters, Waiters, PostSize, WaitSize, UseMsg

LEMMA UseFixed ==
    ASSUME UNCHANGED use
    PROVE  /\ Posters' = Posters /\ Waiters' = Waiters
           /\ PostSize' = PostSize /\ WaitSize' = WaitSize /\ UseMsg' = UseMsg
  BY DEF Posters, Waiters, PostSize, WaitSize, UseMsg

\* What a call of one of the two threads may do.
PostStep(p) == PostCall(p) \/ PostLock(p) \/ PostOverflow(p) \/ Signal(p) \/ PostReturn(p)
WaitStep(w) ==
    WaitCall(w) \/ WaitLock(w) \/ CondWait(w) \/ Take(w) \/ WaitReturn(w) \/ SpuriousWakeup(w)

LEMMA NextSteps ==
    ASSUME Next
    PROVE  /\ UNCHANGED use
           /\ (\E p \in Posters : PostStep(p)) \/ (\E w \in Waiters : WaitStep(w))
  BY DEF Next, Posting, Waiting, PostStep, WaitStep

LEMMA Initial == Init => Inv
<1> SUFFICES ASSUME Init PROVE Inv
  OBVIOUS
<1>1. TypeOK
  BY EmptySeq DEF Init, TypeOK, Pcs
<1>2. LockInv
  BY ThreadsAssumption DEF Init, LockInv
<1>3. WakeupInv
  BY DEF Init, WakeupInv
<1>4. <<>> \o <<>> = <<>> /\ Len(<<>>) = 0
  OBVIOUS
<1>5. MessageInv
  BY <1>4, ThreadsAssumption DEF Init, MessageInv
<1> QED
  BY <1>1, <1>2, <1>3, <1>5 DEF Inv

-----------------------------------------------------------------------------
(* Types *)

LEMMA PostTypes ==
    ASSUME TypeOK, LockInv, UNCHANGED use, NEW p \in Posters, PostStep(p)
    PROVE  TypeOK'
<1> USE DEF TypeOK, Pcs
<1>0. p \in Threads /\ PostSize \in Nat
  BY UseTypes
<1>1. CASE PostCall(p)
  BY <1>0, <1>1 DEF PostCall
<1>2. CASE PostLock(p)
  <2>1. <<p, posts[p]>> \in Msg
    BY <1>0 DEF Msg
  <2>2. Append(msg_data, <<p, posts[p]>>) \in Seq(Msg)
    BY <2>1, AppendProperties
  <2>3. Append(sent, <<p, posts[p]>>) \in Seq(Msg)
    BY <2>1, AppendProperties
  <2>4. msg_data' \in Seq(Msg) /\ sent' \in Seq(Msg)
    BY <1>2, <2>2, <2>3 DEF PostLock
  <2>5. count' \in Nat
    BY <1>0, <1>2 DEF PostLock
  <2>6. pc' \in [Threads -> Pcs] /\ i' \in [Threads -> Nat] /\ mutex' \in Threads
    BY <1>0, <1>2 DEF PostLock
  <2>7. UNCHANGED <<cond, posts, spurious, received, exited>>
    BY <1>2 DEF PostLock
  <2> QED
    BY <2>4, <2>5, <2>6, <2>7
<1>3. CASE PostOverflow(p)
  BY <1>0, <1>3 DEF PostOverflow
<1>4. CASE Signal(p)
  BY <1>0, <1>4 DEF Signal
<1>5. CASE PostReturn(p)
  BY <1>0, <1>5 DEF PostReturn
<1> QED
  BY <1>1, <1>2, <1>3, <1>4, <1>5 DEF PostStep

LEMMA WaitTypes ==
    ASSUME TypeOK, LockInv, UNCHANGED use, NEW w \in Waiters, WaitStep(w)
    PROVE  TypeOK'
<1> USE DEF TypeOK, Pcs
<1>0. w \in Threads
  BY UseTypes
<1>1. CASE WaitCall(w)
  BY <1>0, <1>1 DEF WaitCall
<1>2. CASE WaitLock(w)
  BY <1>0, <1>2 DEF WaitLock
<1>3. CASE CondWait(w)
  BY <1>0, <1>3 DEF CondWait
<1>4. CASE Take(w)
  <2>1. UNCHANGED <<mutex, cond, pc, posts, spurious, sent>> /\ count > 0
    BY <1>4 DEF Take, MayTake
  <2>2. /\ count' = count \/ count' = count - 1
        /\ i' = i \/ i' = [i EXCEPT ![w] = i[w] + 1]
    BY <1>4 DEF Take
  <2>3. msg_data' \in Seq(Msg) /\ received' \in Seq(Msg)
    <3>1. CASE UseMsg /\ msg_data # <<>>
      <4>1. Tail(msg_data) \in Seq(Msg) /\ Head(msg_data) \in Msg
        BY <3>1, HeadTailProperties
      <4>2. Append(received, Head(msg_data)) \in Seq(Msg)
        BY <4>1, AppendProperties
      <4> QED
        BY <1>4, <3>1, <4>1, <4>2 DEF Take, Remaining
    <3>2. CASE ~(UseMsg /\ msg_data # <<>>)
      BY <1>4, <3>2 DEF Take
    <3> QED
      BY <3>1, <3>2
  <2>4. count' \in Nat
    BY <2>1, <2>2
  <2>5. i' \in [Threads -> Nat]
    <3>1. i[w] + 1 \in Nat
      BY <1>0
    <3> QED
      BY <2>2, <3>1
  <2>6. exited' \in BOOLEAN
    <3>1. CASE UseMsg /\ msg_data = <<>>
      BY <1>4, <3>1 DEF Take
    <3>2. CASE ~(UseMsg /\ msg_data = <<>>)
      BY <1>4, <3>2 DEF Take
    <3> QED
      BY <3>1, <3>2
  <2> QED
    BY <2>1, <2>3, <2>4, <2>5, <2>6
<1>5. CASE WaitReturn(w)
  BY <1>0, <1>5 DEF WaitReturn
<1>6. CASE SpuriousWakeup(w)
  BY <1>0, <1>6 DEF SpuriousWakeup
<1> QED
  BY <1>1, <1>2, <1>3, <1>4, <1>5, <1>6 DEF WaitStep

-----------------------------------------------------------------------------
(* Mutual exclusion *)

LEMMA PostLocks ==
    ASSUME TypeOK, LockInv, UNCHANGED use, NEW p \in Posters, PostStep(p)
    PROVE  LockInv'
<1> USE ThreadsAssumption DEF TypeOK, Pcs, LockInv
<1>0. p \in Threads /\ PostSize \in Nat \ {0} /\ WaitSize \in Nat \ {0}
  BY UseTypes
<1>1. CASE PostCall(p)
  BY <1>0, <1>1, UseFixed DEF PostCall
<1>2. CASE PostLock(p)
  BY <1>0, <1>2, UseFixed DEF PostLock
<1>3. CASE PostOverflow(p)
  BY <1>0, <1>3, UseFixed DEF PostOverflow
<1>4. CASE Signal(p)
  <2>1. CASE cond = {}
    BY <1>0, <1>4, <2>1, UseFixed DEF Signal, Signals
  <2>2. ASSUME NEW w \in cond, cond' = cond \ {w}, pc' = [pc EXCEPT ![w] = "relock"]
        PROVE LockInv'
    BY <1>0, <1>4, <2>2, UseFixed DEF Signal, Signals
  <2> QED
    BY <1>4, <2>1, <2>2 DEF Signal
<1>5. CASE PostReturn(p)
  BY <1>0, <1>5, UseFixed DEF PostReturn
<1> QED
  BY <1>1, <1>2, <1>3, <1>4, <1>5 DEF PostStep

LEMMA WaitLocks ==
    ASSUME TypeOK, LockInv, UNCHANGED use, NEW w \in Waiters, WaitStep(w)
    PROVE  LockInv'
<1> USE ThreadsAssumption DEF TypeOK, Pcs, LockInv
<1>0. w \in Threads /\ PostSize \in Nat \ {0} /\ WaitSize \in Nat \ {0}
  BY UseTypes
<1>1. CASE WaitCall(w)
  BY <1>0, <1>1, UseFixed DEF WaitCall
<1>2. CASE WaitLock(w)
  BY <1>0, <1>2, UseFixed DEF WaitLock
<1>3. CASE CondWait(w)
  BY <1>0, <1>3, UseFixed DEF CondWait
<1>4. CASE Take(w)
  <2>1. UNCHANGED <<mutex, cond, pc>> /\ pc[w] = "take" /\ i[w] < WaitSize
    BY <1>4 DEF Take
  <2>2. i' = i \/ i' = [i EXCEPT ![w] = i[w] + 1]
    BY <1>4 DEF Take
  <2>3. \A t \in Threads : i'[t] = i[t] \/ (t = w /\ i'[t] = i[t] + 1)
    BY <1>0, <2>2
  <2>4. \A t \in Threads : pc[t] = "take" => t = w
    BY <1>0, <2>1
  <2>5. \A t \in Threads : pc'[t] = "take" => i'[t] <= WaitSize
    <3>1. i[w] \in Nat /\ i[w] < WaitSize /\ (i'[w] = i[w] \/ i'[w] = i[w] + 1)
      BY <1>0, <2>1, <2>3
    <3> QED
      BY <1>0, <2>1, <2>4, <3>1
  <2>6. \A t \in Threads : pc'[t] # "take" => i'[t] = i[t]
    BY <1>0, <2>1, <2>3
  <2>7. \A t \in Threads : pc'[t] = "signal" => i'[t] <= PostSize
    BY <1>0, <2>1, <2>6
  <2>8. \A t \in Threads : pc'[t] \in {"wait_lock", "asleep", "relock"} => i'[t] < WaitSize
    BY <1>0, <2>1, <2>6
  <2> QED
    BY <2>1, <2>5, <2>7, <2>8, UseFixed
<1>5. CASE WaitReturn(w)
  BY <1>0, <1>5, UseFixed DEF WaitReturn
<1>6. CASE SpuriousWakeup(w)
  BY <1>0, <1>6, UseFixed DEF SpuriousWakeup
<1> QED
  BY <1>1, <1>2, <1>3, <1>4, <1>5, <1>6 DEF WaitStep

-----------------------------------------------------------------------------
(* Wakeups *)

LEMMA AwakeFinite ==
    /\ IsFiniteSet(Awake) /\ Cardinality(Awake) \in Nat
    /\ Awake # {} => Cardinality(Awake) > 0
<1>1. IsFiniteSet(Awake)
  BY ThreadsAssumption, FS_Subset DEF Awake
<1> QED
  BY <1>1, FS_CardinalityType, FS_EmptySet

LEMMA PendingType ==
    ASSUME TypeOK, LockInv
    PROVE  Pending \in Nat
<1>1. PostSize \in Nat
  BY UseTypes DEF TypeOK
<1>2. CASE mutex # NoThread /\ pc[mutex] = "signal"
  <2>1. mutex \in Threads /\ i[mutex] \in Nat /\ i[mutex] <= PostSize
    BY <1>2 DEF TypeOK, LockInv
  <2> QED
    BY <1>1, <1>2, <2>1 DEF Pending
<1>3. CASE ~(mutex # NoThread /\ pc[mutex] = "signal")
  BY <1>3 DEF Pending
<1> QED
  BY <1>2, <1>3

\* Calls that leave the counter, the signals, the sleepers and the awake alone.
LEMMA WakeupUnchanged ==
    ASSUME WakeupInv, UNCHANGED <<count, cond>>, Pending' = Pending, Awake' = Awake
    PROVE  WakeupInv'
  BY DEF WakeupInv

LEMMA PostWakeups ==
    ASSUME TypeOK, LockInv, WakeupInv, UNCHANGED use, NEW p \in Posters, PostStep(p)
    PROVE  WakeupInv'
<1>0. /\ p \in Threads /\ p # NoThread
      /\ PostSize \in Nat \ {0} /\ PostSize' = PostSize /\ WaitSize' = WaitSize
      /\ count \in Nat /\ i \in [Threads -> Nat] /\ pc \in [Threads -> Pcs]
      /\ mutex \in Threads \cup {NoThread} /\ NoThread \notin Threads
  BY UseTypes, UseFixed, ThreadsAssumption DEF TypeOK
<1>A. IsFiniteSet(Awake) /\ Cardinality(Awake) \in Nat
  BY AwakeFinite
<1>P. Pending \in Nat
  BY PendingType
<1>1. CASE PostCall(p)
  <2>1. Pending' = Pending
    BY <1>0, <1>1 DEF PostCall, Pending
  <2>2. Awake' = Awake
    BY <1>0, <1>1 DEF PostCall, Awake
  <2> QED
    BY <1>1, <2>1, <2>2, WakeupUnchanged DEF PostCall
<1>2. CASE PostLock(p)
  <2>1. Pending = 0
    BY <1>2 DEF PostLock, Pending
  <2>2. Pending' = PostSize
    BY <1>0, <1>2 DEF PostLock, Pending
  <2>3. Awake' = Awake
    BY <1>0, <1>2 DEF PostLock, Awake
  <2>4. count' = count + PostSize /\ cond' = cond
    BY <1>2 DEF PostLock
  <2> QED
    BY <1>0, <1>A, <2>1, <2>2, <2>3, <2>4 DEF WakeupInv
<1>3. CASE PostOverflow(p)
  <2>1. Pending' = Pending /\ Awake' = Awake
    BY <1>0, <1>3 DEF PostOverflow, Pending, Awake
  <2> QED
    BY <1>3, <2>1, WakeupUnchanged DEF PostOverflow
<1>4. CASE Signal(p)
  <2>1. mutex = p /\ mutex' = p /\ count' = count /\ pc[p] = "signal"
    BY <1>0, <1>4 DEF Signal, LockInv
  <2>2. CASE cond = {}
    BY <1>4, <2>2 DEF Signal, WakeupInv
  <2>3. ASSUME NEW w \in cond, cond' = cond \ {w}, pc' = [pc EXCEPT ![w] = "relock"]
        PROVE WakeupInv'
    <3>1. w \in Threads /\ pc[w] = "asleep" /\ w # p
      BY <2>1, <2>3 DEF LockInv, TypeOK
    <3>2. i' = [i EXCEPT ![p] = i[p] + 1]
      BY <1>4 DEF Signal
    <3>3. Pending = PostSize - i[p] /\ Pending' = PostSize - (i[p] + 1)
      BY <1>0, <2>1, <2>3, <3>1, <3>2 DEF Pending
    <3>4. Awake' = Awake \cup {w}
      BY <1>0, <2>1, <2>3, <3>1, <3>2 DEF Awake
    <3>5. w \notin Awake
      BY <3>1 DEF Awake
    <3>6. Cardinality(Awake') = Cardinality(Awake) + 1
      BY <1>A, <3>4, <3>5, FS_AddElement
    <3>7. i[p] \in Nat
      BY <1>0
    <3>8. count <= Pending + Cardinality(Awake)
      BY <2>3 DEF WakeupInv
    <3>9. count' <= Pending' + Cardinality(Awake')
      BY <1>0, <1>A, <2>1, <3>3, <3>6, <3>7, <3>8
    <3> QED
      BY <3>9 DEF WakeupInv
  <2> QED
    BY <1>4, <2>2, <2>3 DEF Signal
<1>5. CASE PostReturn(p)
  <2>1. mutex = p /\ i[p] = PostSize
    BY <1>0, <1>5 DEF PostReturn, Signals, LockInv
  <2>2. Pending = 0
    BY <1>0, <2>1 DEF Pending
  <2>3. Pending' = 0
    BY <1>5 DEF PostReturn, Pending
  <2>4. Awake' = Awake
    BY <1>0, <1>5 DEF PostReturn, Awake
  <2> QED
    BY <1>5, <2>2, <2>3, <2>4, WakeupUnchanged DEF PostReturn
<1> QED
  BY <1>1, <1>2, <1>3, <1>4, <1>5 DEF PostStep

LEMMA WaitWakeups ==
    ASSUME TypeOK, LockInv, WakeupInv, UNCHANGED use, NEW w \in Waiters, WaitStep(w)
    PROVE  WakeupInv'
<1>0. /\ w \in Threads /\ w # NoThread
      /\ WaitSize \in Nat \ {0} /\ PostSize' = PostSize /\ WaitSize' = WaitSize
      /\ count \in Nat /\ i \in [Threads -> Nat] /\ pc \in [Threads -> Pcs]
      /\ mutex \in Threads \cup {NoThread} /\ NoThread \notin Threads
  BY UseTypes, UseFixed, ThreadsAssumption DEF TypeOK
<1>A. IsFiniteSet(Awake) /\ Cardinality(Awake) \in Nat
  BY AwakeFinite
<1>P. Pending \in Nat
  BY PendingType
<1>1. CASE WaitCall(w)
  <2>1. mutex # w
    BY <1>0, <1>1 DEF WaitCall, LockInv
  <2>2. Pending' = Pending
    BY <1>0, <1>1, <2>1 DEF WaitCall, Pending
  <2>3. Awake' = Awake
    BY <1>0, <1>1 DEF WaitCall, Awake
  <2> QED
    BY <1>1, <2>2, <2>3, WakeupUnchanged DEF WaitCall
<1>2. CASE WaitLock(w)
  <2>1. Pending = 0 /\ Pending' = 0
    BY <1>0, <1>2 DEF WaitLock, Pending
  <2>2. i[w] < WaitSize
    BY <1>0, <1>2 DEF WaitLock, LockInv
  <2>3. Awake' = Awake \cup {w}
    BY <1>0, <1>2, <2>2 DEF WaitLock, Awake
  <2>4. Cardinality(Awake) <= Cardinality(Awake') /\ Cardinality(Awake') \in Nat
    <3>1. Cardinality(Awake') = IF w \in Awake THEN Cardinality(Awake)
                                ELSE Cardinality(Awake) + 1
      BY <1>A, <2>3, FS_AddElement
    <3> QED
      BY <1>A, <3>1
  <2>5. UNCHANGED <<count, cond>>
    BY <1>2 DEF WaitLock
  <2> QED
    BY <1>0, <1>A, <2>1, <2>4, <2>5 DEF WakeupInv
<1>3. CASE CondWait(w)
  <2>1. count' = 0
    BY <1>3 DEF CondWait
  <2>2. Pending' = 0
    BY <1>3 DEF CondWait, Pending
  <2>3. IsFiniteSet(Awake') /\ Cardinality(Awake') \in Nat
    <3>1. Awake' \subseteq Threads
      BY DEF Awake
    <3> QED
      BY <3>1, ThreadsAssumption, FS_Subset, FS_CardinalityType
  <2> QED
    BY <2>1, <2>2, <2>3 DEF WakeupInv
<1>4. CASE Take(w)
  <2>1. /\ mutex = w /\ pc[w] = "take" /\ i[w] < WaitSize /\ count > 0
        /\ UNCHANGED <<mutex, cond, pc>>
    BY <1>0, <1>4 DEF Take, MayTake, LockInv
  <2>2. Pending = 0 /\ Pending' = 0
    BY <1>0, <2>1 DEF Pending
  <2>3. w \in Awake
    BY <1>0, <2>1 DEF Awake
  <2>4. CASE UseMsg /\ msg_data = <<>>
    <3>1. UNCHANGED <<count, i>>
      BY <1>4, <2>4 DEF Take
    <3>2. Awake' = Awake
      BY <1>0, <2>1, <3>1 DEF Awake
    <3> QED
      BY <2>1, <2>2, <3>1, <3>2, WakeupUnchanged
  <2>5. CASE ~(UseMsg /\ msg_data = <<>>)
    <3>1. count' = count - 1 /\ i' = [i EXCEPT ![w] = i[w] + 1]
      BY <1>4, <2>5 DEF Take
    <3>2. \A t \in Threads : t # w => (t \in Awake <=> t \in Awake')
      BY <1>0, <2>1, <3>1 DEF Awake
    <3>3. Awake' = Awake \/ Awake' = Awake \ {w}
      <4>1. Awake \subseteq Threads /\ Awake' \subseteq Threads
        BY DEF Awake
      <4> QED
        BY <2>3, <3>2, <4>1
    <3>4. /\ Cardinality(Awake') \in Nat
          /\ Cardinality(Awake) <= Cardinality(Awake') + 1
      <4>1. Cardinality(Awake \ {w}) = Cardinality(Awake) - 1
        BY <1>A, <2>3, FS_RemoveElement
      <4>2. Cardinality(Awake) > 0
        BY <2>3, AwakeFinite
      <4> QED
        BY <1>A, <3>3, <4>1, <4>2
    <3> QED
      BY <1>0, <1>A, <2>1, <2>2, <3>1, <3>4 DEF WakeupInv
  <2> QED
    BY <2>4, <2>5
<1>5. CASE WaitReturn(w)
  <2>1. mutex = w /\ pc[w] = "take" /\ i[w] = WaitSize
    BY <1>0, <1>5 DEF WaitReturn, LockInv
  <2>2. Pending = 0 /\ Pending' = 0
    BY <1>0, <1>5, <2>1 DEF WaitReturn, Pending
  <2>3. Awake' = Awake
    BY <1>0, <1>5, <2>1 DEF WaitReturn, Awake
  <2> QED
    BY <1>5, <2>2, <2>3, WakeupUnchanged DEF WaitReturn
<1>6. CASE SpuriousWakeup(w)
  <2>1. pc[w] = "asleep" /\ mutex # w
    BY <1>0, <1>6 DEF SpuriousWakeup, LockInv
  <2>2. Pending' = Pending
    BY <1>0, <1>6, <2>1 DEF SpuriousWakeup, Pending
  <2>3. Awake' = Awake \cup {w} /\ w \notin Awake
    BY <1>0, <1>6, <2>1 DEF SpuriousWakeup, Awake
  <2>4. Cardinality(Awake') = Cardinality(Awake) + 1
    BY <1>A, <2>3, FS_AddElement
  <2>5. count' = count /\ cond # {}
    BY <1>6 DEF SpuriousWakeup
  <2> QED
    BY <1>0, <1>A, <1>P, <2>2, <2>4, <2>5 DEF WakeupInv
<1> QED
  BY <1>1, <1>2, <1>3, <1>4, <1>5, <1>6 DEF WaitStep

-----------------------------------------------------------------------------
(* Messages *)

LEMMA PostMessages ==
    ASSUME TypeOK, LockInv, MessageInv, UNCHANGED use, NEW p \in Posters, PostStep(p)
    PROVE  MessageInv'
<1>0. /\ p \in Threads /\ UseMsg' = UseMsg /\ (UseMsg => PostSize = 1)
      /\ msg_data \in Seq(Msg) /\ sent \in Seq(Msg) /\ received \in Seq(Msg)
      /\ Capacity \in Nat
  BY UseTypes, UseFixed, ThreadsAssumption DEF TypeOK
<1>1. CASE PostLock(p) /\ UseMsg
  <2> DEFINE m == <<p, posts[p]>>
  <2>1. m \in Msg
    BY <1>0 DEF Msg, TypeOK
  <2>2. /\ msg_data' = Append(msg_data, m) /\ sent' = Append(sent, m)
        /\ received' = received /\ count' = count + 1
        /\ Len(msg_data) # Capacity
    BY <1>0, <1>1 DEF PostLock, Overflows
  <2> HIDE DEF m
  <2>3. Len(Append(msg_data, m)) = Len(msg_data) + 1 /\ Len(msg_data) \in Nat
    BY <1>0, <2>1, AppendProperties, LenProperties
  <2>4. <<m>> \in Seq(Msg)
    BY <2>1
  <2>5. Append(received \o msg_data, m) = received \o Append(msg_data, m)
    <3>1. received \o msg_data \in Seq(Msg)
      BY <1>0, ConcatProperties
    <3>2. Append(received \o msg_data, m) = (received \o msg_data) \o <<m>>
      BY <2>1, <3>1, AppendIsConcat
    <3>3. Append(msg_data, m) = msg_data \o <<m>>
      BY <1>0, <2>1, AppendIsConcat
    <3>4. (received \o msg_data) \o <<m>> = received \o (msg_data \o <<m>>)
      BY <1>0, <2>4, ConcatAssociative
    <3> QED
      BY <3>2, <3>3, <3>4
  <2>6. sent = received \o msg_data /\ count = Len(msg_data) /\ Len(msg_data) <= Capacity
    BY <1>1 DEF MessageInv
  <2>7. sent' = received' \o msg_data'
    BY <2>2, <2>5, <2>6
  <2>8. count' = Len(msg_data') /\ Len(msg_data') <= Capacity
    BY <1>0, <2>2, <2>3, <2>6
  <2> QED
    BY <2>7, <2>8 DEF MessageInv
<1>2. CASE ~(PostLock(p) /\ UseMsg)
  <2>1. UseMsg => UNCHANGED <<sent, received, msg_data, count>>
    BY <1>2 DEF PostStep, PostCall, PostOverflow, Signal, PostReturn
  <2> QED
    BY <1>0, <2>1 DEF MessageInv
<1> QED
  BY <1>1, <1>2

LEMMA WaitMessages ==
    ASSUME TypeOK, LockInv, MessageInv, UNCHANGED use, NEW w \in Waiters, WaitStep(w)
    PROVE  MessageInv'
<1>0. /\ UseMsg' = UseMsg
      /\ msg_data \in Seq(Msg) /\ sent \in Seq(Msg) /\ received \in Seq(Msg)
      /\ Capacity \in Nat
  BY UseFixed, ThreadsAssumption DEF TypeOK
<1>1. CASE Take(w) /\ UseMsg /\ msg_data # <<>>
  <2>1. /\ msg_data' = Tail(msg_data) /\ received' = Append(received, Head(msg_data))
        /\ sent' = sent /\ count' = count - 1
    BY <1>1 DEF Take, Remaining
  <2>2. /\ Head(msg_data) \in Msg /\ Tail(msg_data) \in Seq(Msg)
        /\ Len(Tail(msg_data)) = Len(msg_data) - 1 /\ Len(msg_data) \in Nat
    BY <1>0, <1>1, HeadTailProperties, LenProperties
  <2> DEFINE h == <<Head(msg_data)>>
             r == Tail(msg_data)
  <2>3. msg_data = h \o r
    BY <1>0, <1>1
  <2>4. Append(received, Head(msg_data)) = received \o h
    BY <1>0, <2>2, AppendIsConcat
  <2>5. h \in Seq(Msg) /\ r \in Seq(Msg)
    BY <2>2
  <2> HIDE DEF h, r
  <2>6. (received \o h) \o r = received \o (h \o r)
    BY <1>0, <2>5, ConcatAssociative
  <2>7. sent = received \o msg_data /\ count = Len(msg_data) /\ Len(msg_data) <= Capacity
    BY <1>1 DEF MessageInv
  <2>8. sent' = received' \o msg_data'
    BY <2>1, <2>3, <2>4, <2>6, <2>7 DEF r
  <2>9. count' = Len(msg_data') /\ Len(msg_data') <= Capacity
    BY <1>0, <2>1, <2>2, <2>7
  <2> QED
    BY <2>8, <2>9 DEF MessageInv
<1>2. CASE ~(Take(w) /\ UseMsg /\ msg_data # <<>>)
  <2>1. UseMsg => UNCHANGED <<sent, received, msg_data, count>>
    BY <1>2 DEF WaitStep, WaitCall, WaitLock, CondWait, Take, WaitReturn, SpuriousWakeup
  <2> QED
    BY <1>0, <2>1 DEF MessageInv
<1> QED
  BY <1>1, <1>2

-----------------------------------------------------------------------------
(* Theorems *)

\* The inductive invariant holds in every reachable state.
THEOREM Invariant == Spec => []Inv
<1>1. Inv /\ [Next]_vars => Inv'
  <2> SUFFICES ASSUME Inv, [Next]_vars PROVE Inv'
    OBVIOUS
  <2>0. TypeOK /\ LockInv /\ WakeupInv /\ MessageInv
    BY DEF Inv
  <2>1. ASSUME UNCHANGED use, NEW p \in Posters, PostStep(p) PROVE Inv'
    BY <2>0, <2>1, PostTypes, PostLocks, PostWakeups, PostMessages DEF Inv
  <2>2. ASSUME UNCHANGED use, NEW w \in Waiters, WaitStep(w) PROVE Inv'
    BY <2>0, <2>2, WaitTypes, WaitLocks, WaitWakeups, WaitMessages DEF Inv
  <2>3. CASE UNCHANGED vars
    BY <2>0, <2>3 DEF Inv, vars, TypeOK, LockInv, WakeupInv, MessageInv, Pending, Awake,
                      Posters, Waiters, PostSize, WaitSize, UseMsg
  <2>4. CASE Next
    BY <2>1, <2>2, <2>4, NextSteps
  <2> QED
    BY <2>3, <2>4
<1> QED
  BY Initial, <1>1, PTL DEF Spec

\* The counter of the semaphore never becomes negative and every variable stays in
\* its type.
THEOREM TypeCorrect == Spec => []TypeOK
<1>1. Inv => TypeOK
  BY DEF Inv
<1> QED
  BY <1>1, Invariant, PTL

\* bf_sem_wait never sleeps through a token: while a thread sleeps in
\* pthread_cond_wait and the counter is not zero, a signal or a thread that will
\* look at the counter is on its way.
THEOREM NoSleepThroughToken == Spec => []NoLostWakeup
<1>1. Inv => NoLostWakeup
  <2> SUFFICES ASSUME Inv, cond # {}, count > 0
               PROVE  \/ \E p \in Posters : pc[p] = "signal" /\ i[p] < PostSize
                      \/ \E w \in Waiters : pc[w] \in {"relock", "take"}
    BY DEF NoLostWakeup
  <2>1. count \in Nat /\ count <= Pending + Cardinality(Awake)
    BY DEF Inv, TypeOK, WakeupInv
  <2>2. Pending \in Nat /\ Cardinality(Awake) \in Nat
    BY PendingType, AwakeFinite DEF Inv
  <2>3. CASE Pending > 0
    <3>1. mutex \in Threads /\ pc[mutex] = "signal" /\ PostSize - i[mutex] > 0
      BY <2>3 DEF Pending, Inv, TypeOK
    <3>2. mutex \in Posters /\ i[mutex] \in Nat /\ PostSize \in Nat
      BY <3>1, UseTypes DEF Inv, LockInv, TypeOK
    <3> QED
      BY <3>1, <3>2
  <2>4. CASE Cardinality(Awake) > 0
    <3>1. Awake # {}
      BY <2>4, FS_EmptySet
    <3> QED
      BY <3>1 DEF Awake, Inv, LockInv
  <2> QED
    BY <2>1, <2>2, <2>3, <2>4
<1> QED
  BY <1>1, Invariant, PTL

\* The messages of cbpipe_s and cbpipe_r arrive in the order they were sent, none
\* twice and none lost.
THEOREM InOrder == Spec => []MessagesInOrder
<1>1. Inv => MessagesInOrder
  BY DEF Inv, MessageInv, MessagesInOrder
<1> QED
  BY <1>1, Invariant, PTL

\* The message buffer is not overrun, and bf_sem_waitmsg finds a message in it
\* whenever the counter says so.
THEOREM BufferFits == Spec => []MessagesFit
<1>1. Inv => MessagesFit
  BY DEF Inv, MessageInv, MessagesFit
<1> QED
  BY <1>1, Invariant, PTL

-----------------------------------------------------------------------------
(* The code implements a counting semaphore. *)

\* What is held is finite, since no thread holds more than it waits for.
LEMMA HeldTypes ==
    ASSUME TypeOK
    PROVE  /\ IsFiniteSet(Held) /\ Cardinality(Held) \in Nat
           /\ WaitSize \in Nat \ {0} /\ PostSize \in Nat \ {0}
<1>1. InWait \subseteq Threads /\ WaitSize \in Nat \ {0} /\ PostSize \in Nat \ {0}
  BY UseTypes DEF InWait, TypeOK
<1>2. IsFiniteSet(InWait)
  BY <1>1, ThreadsAssumption, FS_Subset
<1>3. IsFiniteSet(0..WaitSize - 1)
  BY <1>1, FS_Interval
<1>4. IsFiniteSet(InWait \X (0..WaitSize - 1))
  BY <1>2, <1>3, FS_Product
<1>5. Held \in SUBSET (InWait \X (0..WaitSize - 1))
  BY DEF Held
<1>6. IsFiniteSet(Held)
  BY <1>4, <1>5, FS_Subset
<1> QED
  BY <1>1, <1>6, FS_CardinalityType

\* A step that moves neither the counter nor what the waiting threads hold.
LEMMA Unnoticed ==
    ASSUME TypeOK, UNCHANGED <<use, count>>, InWait' = InWait, \A w \in InWait : i'[w] = i[w]
    PROVE  UNCHANGED Counting!vars
<1>1. Waiters' = Waiters /\ PostSize' = PostSize /\ WaitSize' = WaitSize
  BY UseFixed
<1>2. Held' = Held
  BY <1>1 DEF Held
<1> QED
  BY <1>1, <1>2 DEF Counting!vars

\* Posting, a token comes to the counter with the lock.
LEMMA PostImplements ==
    ASSUME TypeOK, LockInv, UNCHANGED use, NEW p \in Posters, PostStep(p)
    PROVE  [Counting!Next]_(Counting!vars)
<1>1. /\ pc \in [Threads -> Pcs] /\ i \in [Threads -> Nat] /\ p \in Threads /\ count \in Nat
      /\ Waiters \subseteq Threads
      /\ \A t \in Threads : t \in cond <=> pc[t] = "asleep"
      /\ \A t \in cond : t \in Waiters
  BY UseTypes DEF TypeOK, LockInv
<1>2. Waiters' = Waiters /\ PostSize' = PostSize /\ WaitSize' = WaitSize
  BY UseFixed
<1>3. InWait' = InWait /\ \A w \in InWait : i'[w] = i[w]
  <2>1. CASE PostCall(p)
    BY <1>1, <1>2, <2>1 DEF PostCall, InWait
  <2>2. CASE PostLock(p)
    BY <1>1, <1>2, <2>2 DEF PostLock, InWait
  <2>3. CASE PostOverflow(p)
    BY <1>1, <1>2, <2>3 DEF PostOverflow, InWait
  <2>4. CASE Signal(p)
    <3>1. p \notin InWait /\ i' = [i EXCEPT ![p] = @ + 1]
      BY <2>4 DEF Signal, InWait
    <3>2. CASE cond = {}
      BY <1>1, <1>2, <2>4, <3>1, <3>2 DEF Signal, InWait
    <3>3. CASE cond # {}
      <4>1. PICK w \in cond : pc' = [pc EXCEPT ![w] = "relock"]
        BY <2>4, <3>3 DEF Signal
      <4>2. w \in Threads /\ pc[w] = "asleep"
        BY <1>1
      <4> QED BY <1>1, <1>2, <3>1, <4>1, <4>2 DEF InWait
    <3> QED BY <3>2, <3>3
  <2>5. CASE PostReturn(p)
    BY <1>1, <1>2, <2>5 DEF PostReturn, InWait
  <2> QED BY <2>1, <2>2, <2>3, <2>4, <2>5 DEF PostStep
<1>4. CASE PostLock(p)
  <2>1. count' = count + PostSize
    BY <1>4 DEF PostLock
  <2>2. Held' = Held
    BY <1>2, <1>3 DEF Held
  <2>3. (count + Cardinality(Held))' = count + Cardinality(Held) + PostSize
    BY <1>1, <2>1, <2>2, HeldTypes
  <2>4. Counting!Post
    BY <1>3, <2>3 DEF Counting!Post
  <2> QED BY <1>2, <2>4 DEF Counting!Next
<1>5. CASE ~PostLock(p)
  <2>1. count' = count
    BY <1>5 DEF PostStep, PostCall, PostOverflow, Signal, PostReturn
  <2> QED BY <1>3, <2>1, Unnoticed
<1> QED BY <1>4, <1>5

\* Waiting, a thread takes tokens one by one and keeps them; it returns with all of them.
LEMMA WaitImplements ==
    ASSUME TypeOK, LockInv, UNCHANGED use, NEW w \in Waiters, WaitStep(w)
    PROVE  [Counting!Next]_(Counting!vars)
<1>1. /\ pc \in [Threads -> Pcs] /\ i \in [Threads -> Nat] /\ w \in Threads /\ count \in Nat
      /\ Waiters \subseteq Threads /\ WaitSize \in Nat \ {0}
      /\ \A t \in Threads : t \in cond <=> pc[t] = "asleep"
      /\ IsFiniteSet(Held) /\ Cardinality(Held) \in Nat
  BY UseTypes, HeldTypes DEF TypeOK, LockInv
<1>2. Waiters' = Waiters /\ PostSize' = PostSize /\ WaitSize' = WaitSize
  BY UseFixed
<1>3. CASE WaitCall(w)
  <2>1. w \notin InWait /\ InWait' = InWait \cup {w} /\ UNCHANGED count
        /\ i'[w] = 0 /\ \A t \in InWait : i'[t] = i[t]
    BY <1>1, <1>2, <1>3 DEF WaitCall, InWait
  <2>2. Held' = Held
    <3>1. ASSUME NEW t, NEW k PROVE <<t, k>> \in Held' <=> <<t, k>> \in Held
      BY <1>2, <2>1 DEF Held
    <3> QED BY <3>1 DEF Held
  <2>3. Counting!Call(w)
    BY <2>1, <2>2 DEF Counting!Call
  <2> QED BY <1>2, <2>3 DEF Counting!Next
<1>4. CASE WaitLock(w) \/ CondWait(w) \/ SpuriousWakeup(w)
  <2>1. UNCHANGED <<count, i>> /\ InWait' = InWait
    BY <1>1, <1>2, <1>4 DEF WaitLock, CondWait, SpuriousWakeup, InWait
  <2> QED BY <2>1, Unnoticed
<1>5. CASE Take(w)
  <2>1. InWait' = InWait /\ w \in InWait
    BY <1>1, <1>2, <1>5 DEF Take, InWait
  <2>2. CASE UNCHANGED <<count, i>>
    BY <2>1, <2>2, Unnoticed
  <2>3. CASE count' = count - 1 /\ i' = [i EXCEPT ![w] = @ + 1]
    <3>1. i[w] \in 0..WaitSize - 1
      BY <1>1, <1>5 DEF Take
    <3>2. Held' = Held \cup {<<w, i[w]>>}
      <4>1. \A t \in InWait, k \in 0..WaitSize - 1 : k < i'[t] <=> k < i[t] \/ (t = w /\ k = i[w])
        <5> SUFFICES ASSUME NEW t \in InWait, NEW k \in 0..WaitSize - 1
                     PROVE  k < i'[t] <=> k < i[t] \/ (t = w /\ k = i[w])
          OBVIOUS
        <5>1. t \in Threads /\ i[t] \in Nat /\ k \in Nat
          BY <1>1 DEF InWait
        <5>2. CASE t = w
          BY <1>1, <2>3, <5>1, <5>2
        <5>3. CASE t # w
          BY <1>1, <2>3, <5>1, <5>3
        <5> QED BY <5>2, <5>3
      <4> QED BY <1>2, <2>1, <3>1, <4>1 DEF Held
    <3>3. <<w, i[w]>> \notin Held
      BY <1>1 DEF Held
    <3>4. Cardinality(Held') = Cardinality(Held) + 1
      BY <1>1, <3>2, <3>3, FS_AddElement
    <3>5. (count + Cardinality(Held))' = count + Cardinality(Held)
      BY <1>1, <2>3, <3>4
    <3> QED BY <1>2, <2>1, <3>5 DEF Counting!vars
  <2> QED BY <1>5, <2>2, <2>3 DEF Take
<1>6. CASE WaitReturn(w)
  <2>1. w \in InWait /\ InWait' = InWait \ {w} /\ UNCHANGED count /\ i[w] = WaitSize
        /\ \A t \in InWait : t # w => i'[t] = i[t]
    BY <1>1, <1>2, <1>6 DEF WaitReturn, InWait
  <2> DEFINE own == {w} \X (0..WaitSize - 1)
  <2>2. own \subseteq Held
    <3>1. \A k \in 0..WaitSize - 1 : k < i[w]
      BY <1>1, <2>1
    <3> QED BY <2>1, <3>1 DEF Held
  <2>3. Held = Held' \cup own /\ Held' \cap own = {}
    <3>1. Held' = {token \in Held : token[1] # w}
      BY <1>2, <2>1 DEF Held
    <3>2. \A token \in Held : token[1] = w => token \in own
      BY DEF Held
    <3> QED BY <2>2, <3>1, <3>2
  <2>4. IsFiniteSet(own) /\ Cardinality(own) = WaitSize
    <3>1. IsFiniteSet({w}) /\ Cardinality({w}) = 1
      BY FS_Singleton
    <3>2. IsFiniteSet(0..WaitSize - 1) /\ Cardinality(0..WaitSize - 1) = WaitSize
      <4>1. 0 \in Int /\ WaitSize - 1 \in Int /\ ~(0 > WaitSize - 1) /\ WaitSize - 1 - 0 + 1 = WaitSize
        BY <1>1
      <4>2. IsFiniteSet(0..WaitSize - 1)
            /\ Cardinality(0..WaitSize - 1) = IF 0 > WaitSize - 1 THEN 0 ELSE WaitSize - 1 - 0 + 1
        BY <4>1, FS_Interval
      <4> QED BY <4>1, <4>2
    <3>3. IsFiniteSet(own) /\ Cardinality(own) = Cardinality({w}) * Cardinality(0..WaitSize - 1)
      BY <3>1, <3>2, FS_Product
    <3>4. 1 * WaitSize = WaitSize
      BY <1>1
    <3> HIDE DEF own
    <3> QED BY <3>1, <3>2, <3>3, <3>4
  <2>5. IsFiniteSet(Held') /\ Cardinality(Held') \in Nat
    <3>1. Held' \in SUBSET Held
      BY <2>3
    <3> QED BY <1>1, <3>1, FS_Subset, FS_CardinalityType
  <2>6. Cardinality(Held) = Cardinality(Held') + WaitSize
    <3>1. Cardinality(Held' \cap own) = 0
      BY <2>3, FS_EmptySet
    <3>2. Cardinality(Held' \cup own) = Cardinality(Held') + Cardinality(own) - Cardinality(Held' \cap own)
      BY <2>4, <2>5, FS_Union
    <3> QED BY <1>1, <2>3, <2>4, <2>5, <3>1, <3>2
  <2>7. /\ count + Cardinality(Held) >= WaitSize
        /\ (count + Cardinality(Held))' = (count + Cardinality(Held)) - WaitSize
    BY <1>1, <2>1, <2>5, <2>6
  <2>8. Counting!Return(w)
    BY <2>1, <2>7 DEF Counting!Return
  <2> QED BY <1>2, <2>8 DEF Counting!Next
<1> QED BY <1>3, <1>4, <1>5, <1>6 DEF WaitStep

\* bf_sem_postmany and bf_sem_waitmany are a counting semaphore (bfconcurrency.c): although a waiter
\* takes its tokens one at a time and may sleep in between, and any number of threads is between lock
\* and unlock, each step of the code is a post of all tokens, a call, a return with all tokens, or
\* nothing that callers can tell.
THEOREM Implements == Spec => CountingSteps
<1>1. Init => Counting!Init
  <2> SUFFICES ASSUME Init PROVE Counting!Init
    OBVIOUS
  <2>1. count = 0 /\ InWait = {} /\ PostSize \in Nat \ {0} /\ WaitSize \in Nat \ {0}
    BY UseTypes DEF Init, InWait
  <2>2. Held = {}
    BY <2>1 DEF Held
  <2>3. count + Cardinality(Held) = 0
    BY <2>1, <2>2, FS_EmptySet
  <2> QED BY <2>1, <2>3 DEF Counting!Init
<1>2. Inv /\ [Next]_vars => [Counting!Next]_(Counting!vars)
  <2> SUFFICES ASSUME Inv, [Next]_vars PROVE [Counting!Next]_(Counting!vars)
    OBVIOUS
  <2>0. TypeOK /\ LockInv
    BY DEF Inv
  <2>1. CASE Next
    BY <2>0, <2>1, NextSteps, PostImplements, WaitImplements
  <2>2. CASE UNCHANGED vars
    <3>1. UNCHANGED <<use, count, i>> /\ InWait' = InWait
      BY <2>2 DEF vars, InWait, Waiters
    <3> QED BY <2>0, <3>1, Unnoticed
  <2> QED BY <2>1, <2>2
<1> QED
  BY <1>1, <1>2, Invariant, PTL DEF Spec, CountingSteps
=============================================================================
