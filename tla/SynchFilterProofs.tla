-------------------------- MODULE SynchFilterProofs --------------------------
(***************************************************************************)
(* Proofs about SynchFilter for every number of filter processes and every *)
(* number of rounds: its types, that no process leaves a synchronisation   *)
(* before all have entered it, and that it implements RoundBarrier.        *)
(*                                                                         *)
(* Tokens are anonymous, so safety is a counting argument.  Suppose p takes*)
(* its last token of round r.  If some process has already left round r,   *)
(* then everybody has entered it, by induction.  Otherwise nobody can have *)
(* posted for round r + 1, so the tokens p ever got are among the pairs    *)
(* (sender, round) with sender # p and round <= r; there are (N - 1) * r   *)
(* such pairs and p has taken that many tokens: every pair was posted, and *)
(* each sender has entered round r.                                        *)
(***************************************************************************)
EXTENDS SynchFilter, FiniteSetTheorems, TLAPS

\* How far a process is: inside a synchronisation it has arrived once more often
\* than it has left, and it counts tokens only while it waits for them.
PhaseInv ==
    \A p \in Proc :
        /\ arrived[p] = passed[p] + (IF pc[p] = "work" THEN 0 ELSE 1)
        /\ pc[p] # "wait" => i[p] = 0

\* Every token posted to p is still in its semaphore or has been taken by p.
CountInv ==
    \A p \in Proc :
        /\ IsFiniteSet(sent[p])
        /\ Cardinality(sent[p]) = count[p] + passed[p] * Wanted + i[p]

\* q has posted to p for the rounds it has entered only, and never to itself; for
\* the round it is posting for, only if its loop has gone past p.
SentInv ==
    \A p, q \in Proc, k \in Nat :
        <<q, k>> \in sent[p] =>
            /\ q # p
            /\ k >= 1
            /\ k <= arrived[q]
            /\ pc[q] = "post" /\ k = arrived[q] => p < n[q]

IInv == TypeOK /\ PhaseInv /\ CountInv /\ SentInv /\ BarrierSafe

-----------------------------------------------------------------------------
(* Arithmetic and counting *)

LEMMA WantedType == Wanted \in Nat
  BY NProcessesAssumption DEF Wanted

\* One more round costs Wanted more tokens.
LEMMA NextRound ==
  ASSUME NEW r \in Nat, NEW w \in Nat
  PROVE  (r + 1) * w = r * w + w /\ r * w \in Nat
  OBVIOUS

\* The other processes are Wanted many.
LEMMA Others ==
  ASSUME NEW p \in Proc
  PROVE  IsFiniteSet(Proc \ {p}) /\ Cardinality(Proc \ {p}) = Wanted
<1>1. IsFiniteSet(Proc) /\ Cardinality(Proc) = n_processes
  BY FS_Interval, NProcessesAssumption DEF Proc
<1>2. IsFiniteSet(Proc \ {p}) /\ Cardinality(Proc \ {p}) = Cardinality(Proc) - 1
  BY <1>1, FS_RemoveElement
<1> QED
  BY <1>1, <1>2, NProcessesAssumption DEF Wanted

\* A set of tokens of the rounds 1..m that is as large as Wanted * m holds a
\* token of every other process for every one of these rounds.
LEMMA FullSet ==
  ASSUME NEW p \in Proc, NEW m \in Nat,
         NEW S \in SUBSET ((Proc \ {p}) \X (1 .. m)),
         Cardinality(S) >= m * Wanted
  PROVE  S = (Proc \ {p}) \X (1 .. m)
<1> DEFINE T == (Proc \ {p}) \X (1 .. m)
<1>1. IsFiniteSet(1 .. m) /\ Cardinality(1 .. m) = m
  BY FS_Interval
<1>2. IsFiniteSet(T) /\ Cardinality(T) = Wanted * m
  <2>1. IsFiniteSet(Proc \ {p}) /\ Cardinality(Proc \ {p}) = Wanted
    BY Others
  <2>2. IsFiniteSet(T) /\ Cardinality(T) = Cardinality(Proc \ {p}) * Cardinality(1 .. m)
    BY <1>1, <2>1, FS_Product
  <2> QED
    BY <1>1, <2>1, <2>2
<1>3. IsFiniteSet(S) /\ Cardinality(S) <= Cardinality(T) /\ (Cardinality(T) = Cardinality(S) => T = S)
  BY <1>2, FS_Subset
<1>4. Cardinality(S) \in Nat /\ Cardinality(T) \in Nat
  BY <1>2, <1>3, FS_CardinalityType
<1>5. Wanted * m = m * Wanted
  BY WantedType
<1> QED
  BY <1>2, <1>3, <1>4, <1>5

-----------------------------------------------------------------------------
(* The inductive step *)

\* The posting loop only ever looks at processes.
LEMMA LoopIndex ==
  ASSUME TypeOK, NEW p \in Proc, Post(p)
  PROVE  n[p] \in Proc /\ n[p] + 1 \in 0 .. n_processes
<1>1. n[p] \in 0 .. n_processes /\ n[p] < n_processes
  BY DEF TypeOK, Post
<1> QED
  BY <1>1, NProcessesAssumption DEF Proc

\* The types are invariant, for every number of processes.
LEMMA TypeStep == TypeOK /\ [Next]_vars => TypeOK'
<1> SUFFICES ASSUME TypeOK, [Next]_vars PROVE TypeOK'
  OBVIOUS
<1> USE NProcessesAssumption
<1>1. ASSUME NEW p \in Proc, Arrive(p) PROVE TypeOK'
  <2>1. 0 \in 0 .. n_processes /\ arrived[p] + 1 \in Nat
    BY DEF TypeOK
  <2> QED
    BY <1>1, <2>1 DEF TypeOK, Arrive
<1>2. ASSUME NEW p \in Proc, Post(p) PROVE TypeOK'
  <2>1. n[p] \in Proc /\ n[p] + 1 \in 0 .. n_processes
    BY <1>2, LoopIndex
  <2>2. count' \in [Proc -> Nat]
    BY <1>2, <2>1 DEF TypeOK, Post
  <2>3. sent' \in [Proc -> SUBSET (Proc \X Nat)]
    BY <1>2, <2>1 DEF TypeOK, Post
  <2>4. n' \in [Proc -> 0 .. n_processes]
    BY <1>2, <2>1 DEF TypeOK, Post
  <2> QED
    BY <1>2, <2>2, <2>3, <2>4 DEF TypeOK, Post
<1>3. ASSUME NEW p \in Proc, EndPost(p) PROVE TypeOK'
  BY <1>3 DEF TypeOK, EndPost
<1>4. ASSUME NEW p \in Proc, Take(p) PROVE TypeOK'
  <2>1. i[p] + 1 \in 0 .. n_processes - 1 /\ count[p] - 1 \in Nat
    BY <1>4 DEF TypeOK, Take, Wanted
  <2> QED
    BY <1>4, <2>1 DEF TypeOK, Take
<1>5. ASSUME NEW p \in Proc, Leave(p) PROVE TypeOK'
  BY <1>5 DEF TypeOK, Leave
<1>6. CASE UNCHANGED vars
  BY <1>6 DEF TypeOK, vars
<1> QED
  BY <1>1, <1>2, <1>3, <1>4, <1>5, <1>6 DEF Next, Step

LEMMA PhaseStep == TypeOK /\ PhaseInv /\ [Next]_vars => PhaseInv'
<1> SUFFICES ASSUME TypeOK, PhaseInv, [Next]_vars PROVE PhaseInv'
  OBVIOUS
<1>1. ASSUME NEW p \in Proc, Arrive(p) PROVE PhaseInv'
  BY <1>1 DEF TypeOK, PhaseInv, Arrive
<1>2. ASSUME NEW p \in Proc, Post(p) PROVE PhaseInv'
  BY <1>2 DEF TypeOK, PhaseInv, Post
<1>3. ASSUME NEW p \in Proc, EndPost(p) PROVE PhaseInv'
  BY <1>3 DEF TypeOK, PhaseInv, EndPost
<1>4. ASSUME NEW p \in Proc, Take(p) PROVE PhaseInv'
  BY <1>4 DEF TypeOK, PhaseInv, Take
<1>5. ASSUME NEW p \in Proc, Leave(p) PROVE PhaseInv'
  BY <1>5 DEF TypeOK, PhaseInv, Leave
<1>6. CASE UNCHANGED vars
  BY <1>6 DEF PhaseInv, vars
<1> QED
  BY <1>1, <1>2, <1>3, <1>4, <1>5, <1>6 DEF Next, Step

LEMMA SentStep == TypeOK /\ PhaseInv /\ SentInv /\ [Next]_vars => SentInv'
<1> SUFFICES ASSUME TypeOK, PhaseInv, SentInv, [Next]_vars,
                    NEW p \in Proc, NEW q \in Proc, NEW k \in Nat,
                    <<q, k>> \in sent'[p]
             PROVE  /\ q # p
                    /\ k >= 1
                    /\ k <= arrived'[q]
                    /\ pc'[q] = "post" /\ k = arrived'[q] => p < n'[q]
  BY DEF SentInv
<1> DEFINE Goal == /\ q # p
                   /\ k >= 1
                   /\ k <= arrived'[q]
                   /\ pc'[q] = "post" /\ k = arrived'[q] => p < n'[q]
<1>1. ASSUME NEW r \in Proc, Arrive(r) PROVE Goal
  BY <1>1 DEF TypeOK, SentInv, Arrive
<1>2. ASSUME NEW r \in Proc, Post(r) PROVE Goal
  <2>1. /\ n[r] \in Proc
        /\ arrived[r] \in Nat /\ arrived[r] >= 1
        /\ r \in Int /\ p \in Int /\ n[r] \in Int
    <3>1. n[r] \in Proc
      BY <1>2, LoopIndex
    <3>2. arrived[r] \in Nat /\ passed[r] \in Nat /\ pc[r] = "post"
      BY <1>2 DEF TypeOK, Post
    <3>3. arrived[r] = passed[r] + 1
      BY <3>2 DEF PhaseInv
    <3> QED
      BY <3>1, <3>2, <3>3, NProcessesAssumption DEF Proc
  <2>2. CASE <<q, k>> \in sent[p]
    BY <1>2, <2>1, <2>2 DEF TypeOK, SentInv, Post
  <2>3. CASE <<q, k>> \notin sent[p]
    <3>1. p = n[r] /\ n[r] # r /\ <<q, k>> = <<r, arrived[r]>>
      BY <1>2, <2>1, <2>3 DEF TypeOK, Post, Notifies
    <3> QED
      BY <1>2, <2>1, <3>1 DEF TypeOK, Post
  <2> QED
    BY <2>2, <2>3
<1>3. ASSUME NEW r \in Proc, EndPost(r) PROVE Goal
  BY <1>3 DEF TypeOK, SentInv, EndPost
<1>4. ASSUME NEW r \in Proc, Take(r) PROVE Goal
  BY <1>4 DEF TypeOK, SentInv, Take
<1>5. ASSUME NEW r \in Proc, Leave(r) PROVE Goal
  BY <1>5 DEF TypeOK, SentInv, Leave
<1>6. CASE UNCHANGED vars
  BY <1>6 DEF SentInv, vars
<1> QED
  BY <1>1, <1>2, <1>3, <1>4, <1>5, <1>6 DEF Next, Step

LEMMA CountStep ==
  TypeOK /\ PhaseInv /\ SentInv /\ CountInv /\ [Next]_vars => CountInv'
<1> SUFFICES ASSUME TypeOK, PhaseInv, SentInv, CountInv, [Next]_vars,
                    NEW p \in Proc
             PROVE  /\ IsFiniteSet(sent'[p])
                    /\ Cardinality(sent'[p]) = count'[p] + passed'[p] * Wanted + i'[p]
  BY DEF CountInv, Wanted
<1> DEFINE Goal == /\ IsFiniteSet(sent'[p])
                   /\ Cardinality(sent'[p]) = count'[p] + passed'[p] * Wanted + i'[p]
<1>0. /\ IsFiniteSet(sent[p])
      /\ Cardinality(sent[p]) = count[p] + passed[p] * Wanted + i[p]
      /\ count[p] \in Nat /\ passed[p] \in Nat /\ i[p] \in Nat
      /\ passed[p] * Wanted \in Nat /\ Wanted \in Nat
  BY WantedType, NextRound, NProcessesAssumption DEF TypeOK, CountInv
<1>1. ASSUME NEW r \in Proc, Arrive(r) PROVE Goal
  BY <1>0, <1>1 DEF Arrive
<1>2. ASSUME NEW r \in Proc, Post(r) PROVE Goal
  <2>1. n[r] \in Proc
    BY <1>2, LoopIndex
  <2>2. CASE n[r] # p \/ n[r] = r
    <3>1. sent'[p] = sent[p] /\ count'[p] = count[p] /\ passed' = passed /\ i' = i
      BY <1>2, <2>1, <2>2 DEF TypeOK, Post, Notifies
    <3> QED
      BY <1>0, <3>1
  <2>3. CASE n[r] = p /\ n[r] # r
    <3>1. /\ sent'[p] = sent[p] \cup {<<r, arrived[r]>>}
          /\ count'[p] = count[p] + 1 /\ passed' = passed /\ i' = i
      BY <1>2, <2>1, <2>3 DEF TypeOK, Post, Notifies
    <3>2. <<r, arrived[r]>> \notin sent[p]
      <4>1. pc[r] = "post" /\ arrived[r] \in Nat /\ ~(p < n[r])
        BY <1>2, <2>3, NProcessesAssumption DEF TypeOK, Post, Proc
      <4> QED
        BY <4>1 DEF SentInv
    <3>3. IsFiniteSet(sent'[p]) /\ Cardinality(sent'[p]) = Cardinality(sent[p]) + 1
      BY <1>0, <3>1, <3>2, FS_AddElement
    <3> QED
      BY <1>0, <3>1, <3>3
  <2> QED
    BY <2>2, <2>3
<1>3. ASSUME NEW r \in Proc, EndPost(r) PROVE Goal
  <2>1. sent' = sent /\ count' = count /\ passed' = passed /\ i'[p] = i[p]
    BY <1>3 DEF TypeOK, PhaseInv, EndPost
  <2> QED
    BY <1>0, <2>1
<1>4. ASSUME NEW r \in Proc, Take(r) PROVE Goal
  <2>1. sent' = sent /\ passed' = passed
    BY <1>4 DEF Take
  <2>2. CASE r = p
    <3>1. count'[p] = count[p] - 1 /\ i'[p] = i[p] + 1
      BY <1>4, <2>2 DEF TypeOK, Take
    <3> QED
      BY <1>0, <2>1, <3>1
  <2>3. CASE r # p
    <3>1. count'[p] = count[p] /\ i'[p] = i[p]
      BY <1>4, <2>3 DEF TypeOK, Take
    <3> QED
      BY <1>0, <2>1, <3>1
  <2> QED
    BY <2>2, <2>3
<1>5. ASSUME NEW r \in Proc, Leave(r) PROVE Goal
  <2>1. sent' = sent /\ count' = count
    BY <1>5 DEF Leave
  <2>2. CASE r = p
    <3>1. passed'[p] = passed[p] + 1 /\ i[p] = Wanted /\ i'[p] = 0
      BY <1>5, <2>2 DEF TypeOK, Leave
    <3>2. passed'[p] * Wanted = passed[p] * Wanted + Wanted
      BY <1>0, <3>1, NextRound
    <3> QED
      BY <1>0, <2>1, <3>1, <3>2
  <2>3. CASE r # p
    <3>1. passed'[p] = passed[p] /\ i'[p] = i[p]
      BY <1>5, <2>3 DEF TypeOK, Leave
    <3> QED
      BY <1>0, <2>1, <3>1
  <2> QED
    BY <2>2, <2>3
<1>6. CASE UNCHANGED vars
  BY <1>0, <1>6 DEF vars
<1> QED
  BY <1>1, <1>2, <1>3, <1>4, <1>5, <1>6 DEF Next, Step

\* The heart of the matter: when p holds all its tokens of the round, everyone
\* has entered that round.
LEMMA LeaveSafe ==
  ASSUME IInv, NEW p \in Proc, Leave(p)
  PROVE  \A q \in Proc : arrived[q] >= passed[p] + 1
<1> DEFINE m == passed[p] + 1
<1>0. /\ m \in Nat /\ passed[p] \in Nat
      /\ \A q \in Proc : arrived[q] \in Nat /\ passed[q] \in Nat
  BY DEF IInv, TypeOK
<1>1. CASE \E x \in Proc : passed[x] >= m
  BY <1>0, <1>1 DEF IInv, BarrierSafe
<1>2. CASE \A x \in Proc : passed[x] < m
  <2>1. \A x \in Proc : arrived[x] <= m
    BY <1>0, <1>2 DEF IInv, PhaseInv
  <2>2. sent[p] \in SUBSET ((Proc \ {p}) \X (1 .. m))
    <3> SUFFICES ASSUME NEW t \in sent[p]
                 PROVE  t \in (Proc \ {p}) \X (1 .. m)
      OBVIOUS
    <3>1. t \in Proc \X Nat
      BY DEF IInv, TypeOK
    <3>2. PICK q \in Proc, k \in Nat : t = <<q, k>>
      BY <3>1
    <3>3. q # p /\ k >= 1 /\ k <= arrived[q]
      BY <3>2 DEF IInv, SentInv
    <3>4. k \in 1 .. m
      BY <1>0, <2>1, <3>3
    <3> QED
      BY <3>2, <3>3, <3>4
  <2>3. Cardinality(sent[p]) >= m * Wanted
    <3>1. /\ Cardinality(sent[p]) = count[p] + passed[p] * Wanted + i[p]
          /\ i[p] = Wanted /\ count[p] \in Nat
      BY DEF IInv, CountInv, TypeOK, Leave
    <3>2. m * Wanted = passed[p] * Wanted + Wanted /\ passed[p] * Wanted \in Nat
      BY <1>0, WantedType, NextRound
    <3> QED
      BY <3>1, <3>2, WantedType
  <2>4. sent[p] = (Proc \ {p}) \X (1 .. m)
    BY <1>0, <2>2, <2>3, FullSet
  <2>5. ASSUME NEW q \in Proc, q # p PROVE arrived[q] >= m
    <3>1. <<q, m>> \in sent[p]
      BY <1>0, <2>4, <2>5
    <3> QED
      BY <1>0, <3>1 DEF IInv, SentInv
  <2>6. arrived[p] >= m
    BY <1>0 DEF IInv, PhaseInv, Leave
  <2> QED
    BY <2>5, <2>6
<1> QED
  BY <1>0, <1>1, <1>2

LEMMA SafeStep == IInv /\ [Next]_vars => BarrierSafe'
<1> SUFFICES ASSUME IInv, [Next]_vars, NEW p \in Proc, NEW q \in Proc
             PROVE  passed'[p] <= arrived'[q]
  BY DEF BarrierSafe
<1>0. passed[p] <= arrived[q] /\ passed[p] \in Nat /\ arrived[q] \in Nat
  BY DEF IInv, TypeOK, BarrierSafe
<1>1. ASSUME NEW r \in Proc, Arrive(r) PROVE passed'[p] <= arrived'[q]
  BY <1>0, <1>1 DEF IInv, TypeOK, Arrive
<1>2. ASSUME NEW r \in Proc, Post(r) PROVE passed'[p] <= arrived'[q]
  BY <1>0, <1>2 DEF Post
<1>3. ASSUME NEW r \in Proc, EndPost(r) PROVE passed'[p] <= arrived'[q]
  BY <1>0, <1>3 DEF EndPost
<1>4. ASSUME NEW r \in Proc, Take(r) PROVE passed'[p] <= arrived'[q]
  BY <1>0, <1>4 DEF Take
<1>5. ASSUME NEW r \in Proc, Leave(r) PROVE passed'[p] <= arrived'[q]
  <2>1. arrived' = arrived
    BY <1>5 DEF Leave
  <2>2. CASE r = p
    <3>1. passed'[p] = passed[p] + 1
      BY <1>5, <2>2 DEF IInv, TypeOK, Leave
    <3>2. arrived[q] >= passed[p] + 1
      BY <1>5, <2>2, LeaveSafe
    <3> QED
      BY <1>0, <2>1, <3>1, <3>2
  <2>3. CASE r # p
    BY <1>0, <1>5, <2>1, <2>3 DEF IInv, TypeOK, Leave
  <2> QED
    BY <2>2, <2>3
<1>6. CASE UNCHANGED vars
  BY <1>0, <1>6 DEF vars
<1> QED
  BY <1>1, <1>2, <1>3, <1>4, <1>5, <1>6 DEF Next, Step

-----------------------------------------------------------------------------
(* The theorems *)

LEMMA InitInv == Init => IInv
<1> SUFFICES ASSUME Init PROVE IInv
  OBVIOUS
<1>1. TypeOK
  BY NProcessesAssumption DEF Init, TypeOK
<1>2. PhaseInv /\ SentInv /\ BarrierSafe
  BY DEF Init, PhaseInv, SentInv, BarrierSafe
<1>3. CountInv
  BY FS_EmptySet, WantedType DEF Init, CountInv
<1> QED
  BY <1>1, <1>2, <1>3 DEF IInv

LEMMA NextInv == IInv /\ [Next]_vars => IInv'
  BY TypeStep, PhaseStep, SentStep, CountStep, SafeStep DEF IInv

\* The inductive invariant holds in every reachable state.
THEOREM Invariant == Spec => []IInv
<1>1. Init => IInv
  BY InitInv
<1>2. IInv /\ [Next]_vars => IInv'
  BY NextInv
<1> QED
  BY <1>1, <1>2, PTL DEF Spec

\* The variables keep their types, for any number of filter processes.
THEOREM TypeCorrect == Spec => []TypeOK
<1>1. IInv => TypeOK
  BY DEF IInv
<1> QED
  BY <1>1, Invariant, PTL

\* Whoever has left its k-th synchronisation knows that every filter process has
\* entered its own k-th one: a filter process never reads a frequency-domain
\* buffer before the process that fills it has filled it.
THEOREM Safety == Spec => []BarrierSafe
<1>1. IInv => BarrierSafe
  BY DEF IInv
<1> QED
  BY <1>1, Invariant, PTL

\* Tokens of the rounds 1..m only: there cannot be more than m * Wanted of them.
LEMMA AtMost ==
  ASSUME IInv, NEW p \in Proc, NEW m \in Nat,
         \A q \in Proc : arrived[q] <= m
  PROVE  Cardinality(sent[p]) <= m * Wanted
<1> DEFINE T == (Proc \ {p}) \X (1 .. m)
<1>1. sent[p] \in SUBSET T
  <2> SUFFICES ASSUME NEW t \in sent[p] PROVE t \in T
    OBVIOUS
  <2>1. PICK q \in Proc, k \in Nat : t = <<q, k>>
    BY DEF IInv, TypeOK
  <2>2. q # p /\ k >= 1 /\ k <= arrived[q] /\ arrived[q] \in Nat
    BY <2>1 DEF IInv, SentInv, TypeOK
  <2> QED
    BY <2>1, <2>2
<1>2. IsFiniteSet(Proc \ {p}) /\ Cardinality(Proc \ {p}) = Wanted
  BY Others
<1>3. IsFiniteSet(1 .. m) /\ Cardinality(1 .. m) = m
  BY FS_Interval
<1>4. IsFiniteSet(T) /\ Cardinality(T) = Cardinality(Proc \ {p}) * Cardinality(1 .. m)
  BY <1>2, <1>3, FS_Product
<1>5. Cardinality(sent[p]) <= Cardinality(T)
  BY <1>1, <1>4, FS_Subset
<1>6. Wanted * m = m * Wanted
  BY WantedType
<1> QED
  BY <1>2, <1>3, <1>4, <1>5, <1>6

\* A semaphore never holds more than the posts of two rounds.
THEOREM Bounded == Spec => []TokensBounded
<1>1. IInv => TokensBounded
  <2> SUFFICES ASSUME IInv, NEW p \in Proc PROVE count[p] <= 2 * Wanted
    BY DEF TokensBounded
  <2> DEFINE m == passed[p] + 2
  <2>1. /\ passed[p] \in Nat /\ m \in Nat /\ count[p] \in Nat /\ i[p] \in Nat
        /\ Wanted \in Nat
    BY WantedType, NProcessesAssumption DEF IInv, TypeOK
  <2>2. ASSUME NEW q \in Proc PROVE arrived[q] <= m
    <3>1. /\ arrived[q] \in Nat /\ passed[q] \in Nat /\ arrived[p] \in Nat
          /\ arrived[q] <= passed[q] + 1 /\ arrived[p] <= passed[p] + 1
      BY DEF IInv, TypeOK, PhaseInv
    <3>2. passed[q] <= arrived[p]
      BY DEF IInv, BarrierSafe
    <3> QED
      BY <2>1, <3>1, <3>2
  <2>3. Cardinality(sent[p]) <= m * Wanted
    BY <2>1, <2>2, AtMost
  <2>4. Cardinality(sent[p]) = count[p] + passed[p] * Wanted + i[p]
    BY DEF IInv, CountInv
  <2>5. m * Wanted = passed[p] * Wanted + 2 * Wanted /\ passed[p] * Wanted \in Nat
    BY <2>1
  <2> QED
    BY <2>1, <2>3, <2>4, <2>5
<1> QED
  BY <1>1, Invariant, PTL

\* Between two synchronisations that everyone has left, the semaphores are empty.
THEOREM Clean == Spec => []NoLeftover
<1>1. IInv => NoLeftover
  <2> SUFFICES ASSUME IInv, \A q \in Proc : pc[q] = "work",
                      \A x, q \in Proc : passed[x] = passed[q],
                      NEW p \in Proc
               PROVE  count[p] = 0
    BY DEF NoLeftover
  <2>1. /\ passed[p] \in Nat /\ count[p] \in Nat /\ Wanted \in Nat
        /\ passed[p] * Wanted \in Nat
    BY WantedType, NextRound DEF IInv, TypeOK
  <2>2. \A q \in Proc : arrived[q] <= passed[p]
    BY DEF IInv, TypeOK, PhaseInv
  <2>3. Cardinality(sent[p]) <= passed[p] * Wanted
    BY <2>1, <2>2, AtMost
  <2>4. Cardinality(sent[p]) = count[p] + passed[p] * Wanted + i[p] /\ i[p] = 0
    BY DEF IInv, CountInv, PhaseInv
  <2> QED
    BY <2>1, <2>3, <2>4
<1> QED
  BY <1>1, Invariant, PTL

\* Every step of the code is a step of the abstract barrier, or none.
LEMMA StepRefines ==
  ASSUME IInv, [Next]_vars
  PROVE  [Abstract!Next]_(Abstract!vars)
<1>1. ASSUME NEW p \in Proc, Arrive(p) PROVE Abstract!Next
  <2>1. Abstract!Arrive(p)
    BY <1>1 DEF IInv, PhaseInv, TypeOK, Arrive, Abstract!Arrive
  <2> QED
    BY <2>1 DEF Abstract!Next, Abstract!Proc, Proc
<1>2. ASSUME NEW p \in Proc, Leave(p) PROVE Abstract!Next
  <2>1. arrived[p] = passed[p] + 1
    BY <1>2 DEF IInv, PhaseInv, Leave
  <2>2. \A q \in Proc : arrived[q] >= arrived[p]
    BY <1>2, <2>1, LeaveSafe
  <2>3. Abstract!Leave(p)
    BY <1>2, <2>1, <2>2 DEF Leave, Abstract!Leave, Abstract!Proc, Proc
  <2> QED
    BY <2>3 DEF Abstract!Next, Abstract!Proc, Proc
<1>3. ASSUME NEW p \in Proc, Post(p) \/ EndPost(p) \/ Take(p)
      PROVE  UNCHANGED Abstract!vars
  BY <1>3 DEF Post, EndPost, Take, Abstract!vars
<1>4. CASE UNCHANGED vars
  BY <1>4 DEF vars, Abstract!vars
<1> QED
  BY <1>1, <1>2, <1>3, <1>4 DEF Next, Step

\* synch_filter_processes() implements the abstract barrier.
THEOREM Refinement == Spec => AbstractSpec
<1>1. Init => Abstract!Init
  BY DEF Init, Abstract!Init, Abstract!Proc, Proc
<1>2. IInv /\ [Next]_vars => [Abstract!Next]_(Abstract!vars)
  BY StepRefines
<1> QED
  BY <1>1, <1>2, Invariant, PTL DEF Spec, AbstractSpec, Abstract!Spec
=============================================================================
