-------------------------- MODULE DelayLineProofs ---------------------------
(***************************************************************************)
(* The delay buffer is a queue of samples, for every fragment size and     *)
(* every sequence of delays.  The argument: what is allocated at the start *)
(* is enough for each layout (Room), the fields of the layout in use say   *)
(* how long it is (Layout), and the ring read from the fragment after the  *)
(* current one is the queue (UpdateLong).                                  *)
(***************************************************************************)
EXTENDS DelayLine, TLAPS

Blk == [0..FragSize - 1 -> Sample]

DbType ==
  [maxdelay : Int, curdelay : Nat, curbuf : Nat, n_fbufs : Nat, n_fbufs_cap : Nat,
   fbufs : UNION {[0..n - 1 -> Blk] : n \in Nat}, n_rest : 0..FragSize, rbuf : Buffer,
   shortbuf : [0..1 -> Buffer]]

\* the layout in use and the delay it makes
Layout(d) ==
  /\ d.fbufs \in [0..d.n_fbufs_cap - 1 -> Blk]
  /\ d.n_fbufs = 0 =>
       /\ d.curdelay = d.n_rest
       /\ d.curbuf \in 0..1
       /\ \A b \in 0..1 : Holds(d.shortbuf[b], d.n_rest)
  /\ d.n_fbufs > 0 =>
       /\ d.n_fbufs \in 2..d.n_fbufs_cap
       /\ d.n_rest < FragSize
       /\ d.curdelay = (d.n_fbufs - 1) * FragSize + d.n_rest
       /\ d.curbuf \in 0..d.n_fbufs - 1
       /\ Holds(d.rbuf, d.n_rest)

\* a delay that may change has room for every delay up to the largest
Room(d) ==
  /\ 0 <= d.maxdelay /\ d.maxdelay <= FragSize =>
       d.n_fbufs = 0 /\ \A b \in 0..1 : Holds(d.shortbuf[b], d.maxdelay)
  /\ d.maxdelay > FragSize =>
       /\ d.n_fbufs_cap = d.maxdelay \div FragSize + 1
       /\ Holds(d.rbuf, FragSize)
       /\ \A b \in 0..1 : Holds(d.shortbuf[b], FragSize)

DbOK(d) == d \in DbType /\ Layout(d) /\ Room(d)

-----------------------------------------------------------------------------
(* Arithmetic of the ring. *)

LEMMA Division ==
  ASSUME NEW a \in Nat, NEW f \in Nat \ {0}
  PROVE  /\ a \div f \in Nat
         /\ a % f \in 0..f - 1
         /\ a = (a \div f) * f + (a % f)
         /\ (a + f) \div f = a \div f + 1
         /\ (a + f) % f = a % f
         /\ a < f => a \div f = 0 /\ a % f = a
<1>1. a \div f \in Nat /\ a % f \in 0..f - 1
  BY SMT
<1>2. \A x \in Nat : x = (x \div f) * f + (x % f)
  BY SMTT(20)
<1>3. (a + f) \div f = a \div f + 1
  BY Z3
<1>4. (a + f) % f = a % f
  <2>1. a + f = (a \div f + 1) * f + ((a + f) % f)
    BY <1>2, <1>3
  <2>2. (a \div f + 1) * f = (a \div f) * f + f
    BY <1>1, SMT
  <2> DEFINE m == (a \div f) * f
             r == a % f
             s == (a + f) % f
  <2>3. m \in Nat /\ r \in Nat /\ s \in Nat
    BY SMT
  <2>4. a = m + r /\ a + f = (m + f) + s
    BY <1>2, <2>1, <2>2
  <2> HIDE DEF m, r, s
  <2>5. s = r
    BY <2>3, <2>4, SMT
  <2> QED BY <2>5 DEF r, s
<1>5. a < f => a \div f = 0 /\ a % f = a
  BY SMT
<1> QED BY <1>1, <1>2, <1>3, <1>4, <1>5

LEMMA Below ==
  ASSUME NEW a \in Nat, NEW n \in Nat, NEW f \in Nat \ {0}
  PROVE  a < n * f <=> a \div f < n
  BY SMTT(20)

LEMMA Monotonic ==
  ASSUME NEW a \in Nat, NEW b \in Nat, NEW f \in Nat \ {0}, a <= b
  PROVE  a \div f <= b \div f
  BY SMT

LEMMA Wrap ==
  ASSUME NEW n \in Nat \ {0}, NEW x \in 0..2 * n - 1
  PROVE  x % n = IF x < n THEN x ELSE x - n
  BY SMTT(20)

-----------------------------------------------------------------------------
(* Allocation and change of the delay. *)

LEMMA ConstantsOK ==
  /\ FragSize \in Nat \ {0}
  /\ 0 \in Sample
  /\ Sample \subseteq Nat
<1>1. FragSize \in Nat \ {0} /\ MaxBlocks \in Nat
  BY DelayLineAssumption
<1>2. MaxBlocks * FragSize \in Nat
  BY <1>1, SMT
<1> QED BY <1>1, <1>2, SMT DEF Sample

LEMMA SilentOK ==
  ASSUME NEW n \in Nat, n <= FragSize
  PROVE  Silent(n) \in Buffer /\ Holds(Silent(n), n) /\ (n = FragSize => Silent(n) \in Blk)
<1>1. Silent(n) \in [0..n - 1 -> Sample]
  BY ConstantsOK DEF Silent
<1>2. n \in 0..FragSize
  BY ConstantsOK, SMT
<1> QED BY <1>1, <1>2 DEF Buffer, Holds, Blk

LEMMA ClearOK ==
  ASSUME NEW buf, NEW n \in Nat
  PROVE  /\ DOMAIN Clear(buf, n) = DOMAIN buf
         /\ \A S : 0 \in S /\ buf \in [DOMAIN buf -> S] => Clear(buf, n) \in [DOMAIN buf -> S]
         /\ \A k \in DOMAIN buf : k < n => Clear(buf, n)[k] = 0
  BY DEF Clear

LEMMA ClearBuffer ==
  ASSUME NEW buf \in Buffer, NEW n \in Nat
  PROVE  Clear(buf, n) \in Buffer
<1>1. PICK m \in 0..FragSize : buf \in [0..m - 1 -> Sample]
  BY DEF Buffer
<1>2. Clear(buf, n) \in [0..m - 1 -> Sample]
  BY <1>1, ClearOK, ConstantsOK
<1> QED BY <1>2 DEF Buffer

LEMMA DbFields ==
  ASSUME NEW d \in DbType
  PROVE  /\ d.maxdelay \in Int /\ d.curdelay \in Nat /\ d.curbuf \in Nat
         /\ d.n_fbufs \in Nat /\ d.n_fbufs_cap \in Nat /\ d.n_rest \in 0..FragSize
         /\ d.fbufs \in UNION {[0..n - 1 -> Blk] : n \in Nat}
         /\ d.rbuf \in Buffer /\ d.shortbuf \in [0..1 -> Buffer]
  BY DEF DbType

LEMMA ShortDelayOK ==
  ASSUME NEW d, DbOK(d), NEW new \in Nat, new <= d.maxdelay, new <= FragSize, new # d.curdelay
  PROVE  /\ DbOK(ShortDelay(d, new))
         /\ ShortDelay(d, new).maxdelay = d.maxdelay
         /\ ShortDelay(d, new).curdelay = new
         /\ new > d.curdelay => Contents(ShortDelay(d, new)) = Silent(new)
<1> DEFINE e == ShortDelay(d, new)
           short == IF d.curdelay > FragSize \/ d.curdelay < new
                    THEN [b \in 0..1 |-> Clear(d.shortbuf[b], new)] ELSE d.shortbuf
<1>1. d \in DbType /\ Layout(d) /\ Room(d)
  BY DEF DbOK
<1>2. short \in [0..1 -> Buffer]
  BY <1>1, DbFields, ClearBuffer
<1>3. /\ e.maxdelay = d.maxdelay /\ e.curdelay = new /\ e.curbuf = 0 /\ e.n_fbufs = 0
      /\ e.n_fbufs_cap = d.n_fbufs_cap /\ e.fbufs = d.fbufs /\ e.n_rest = new /\ e.rbuf = d.rbuf
      /\ e.shortbuf = short
  BY <1>1 DEF ShortDelay, DbType
<1>4. e \in DbType
  <2>1. new \in 0..FragSize
    BY ConstantsOK, SMT
  <2>2. e = [d EXCEPT !.n_rest = new, !.n_fbufs = 0, !.curbuf = 0, !.curdelay = new, !.shortbuf = short]
    BY <1>1 DEF ShortDelay, DbType
  <2> HIDE DEF short, e
  <2> QED BY <1>1, <1>2, <2>1, <2>2 DEF DbType
<1>5. \A b \in 0..1 : DOMAIN short[b] = DOMAIN d.shortbuf[b]
  BY ClearOK
<1>6. \A b \in 0..1 : Holds(d.shortbuf[b], new)
  <2>1. d.maxdelay \in Int
    BY <1>1, DbFields
  <2>2. CASE d.maxdelay <= FragSize
    BY <1>1, <2>1, <2>2, ConstantsOK, SMT DEF Room, Holds
  <2>3. CASE d.maxdelay > FragSize
    BY <1>1, <2>1, <2>3, ConstantsOK, SMT DEF Room, Holds
  <2> QED BY <2>1, <2>2, <2>3, ConstantsOK, SMT
<1>7. Layout(e)
  BY <1>1, <1>3, <1>5, <1>6 DEF Layout, Holds
<1>8. Room(e)
  BY <1>1, <1>3, <1>5 DEF Room, Holds
<1>9. ASSUME new > d.curdelay
      PROVE  Contents(e) = Silent(new)
  <2>1. \A k \in 0..new - 1 : short[1][k] = 0
    <3>1. d.curdelay < new
      BY <1>1, <1>9, DbFields, SMT
    <3>2. short[1] = Clear(d.shortbuf[1], new)
      BY <3>1
    <3>3. \A k \in 0..new - 1 : k \in DOMAIN d.shortbuf[1] /\ k < new
      BY <1>6, SMT DEF Holds
    <3> QED BY <3>2, <3>3, ClearOK
  <2>2. Contents(e) = [k \in 0..new - 1 |-> short[1][k]]
    <3>1. 1 - 0 = 1
      BY SMT
    <3> HIDE DEF short, e
    <3> QED BY <1>3, <3>1, Zenon DEF Contents
  <2> HIDE DEF short, e
  <2> QED BY <2>1, <2>2 DEF Silent
<1> QED BY <1>3, <1>4, <1>7, <1>8, <1>9 DEF DbOK

LEMMA LongDelayOK ==
  ASSUME NEW d, DbOK(d), NEW new \in Nat, new <= d.maxdelay, new > FragSize, new # d.curdelay
  PROVE  /\ DbOK(LongDelay(d, new))
         /\ LongDelay(d, new).maxdelay = d.maxdelay
         /\ LongDelay(d, new).curdelay = new
         /\ new > d.curdelay => Contents(LongDelay(d, new)) = Silent(new)
<1> DEFINE e == LongDelay(d, new)
           rest == new % FragSize
           n == new \div FragSize + 1
           ring == IF d.curdelay < new
                   THEN [b \in DOMAIN d.fbufs |-> IF b < n THEN Clear(d.fbufs[b], FragSize) ELSE d.fbufs[b]]
                   ELSE d.fbufs
           rbuf == IF d.curdelay < new THEN Clear(d.rbuf, rest) ELSE d.rbuf
<1>1. d \in DbType /\ Layout(d) /\ Room(d)
  BY DEF DbOK
<1>2. /\ n \in 2..d.n_fbufs_cap
      /\ rest \in 0..FragSize - 1
      /\ new = (n - 1) * FragSize + rest
  <2>1. d.maxdelay \in Nat /\ d.maxdelay > FragSize
    BY <1>1, DbFields, ConstantsOK, SMT
  <2>2. new \div FragSize <= d.maxdelay \div FragSize
    BY <2>1, ConstantsOK, Monotonic
  <2>3. ~(new \div FragSize < 1)
    BY ConstantsOK, Below, SMT
  <2>4. d.n_fbufs_cap = d.maxdelay \div FragSize + 1
    BY <1>1, <2>1 DEF Room
  <2>5. /\ new \div FragSize \in Nat /\ d.maxdelay \div FragSize \in Nat
        /\ rest \in 0..FragSize - 1
        /\ new = (new \div FragSize) * FragSize + rest
    BY <2>1, ConstantsOK, Division
  <2>6. n - 1 = new \div FragSize
    BY <2>5, SMT
  <2>7. new = (n - 1) * FragSize + rest
    BY <2>5, <2>6
  <2>8. n \in 2..d.n_fbufs_cap
    <3> DEFINE x == new \div FragSize
               y == d.maxdelay \div FragSize
    <3>1. x \in Nat /\ y \in Nat /\ x <= y /\ ~(x < 1) /\ n = x + 1 /\ d.n_fbufs_cap = y + 1
      BY <2>2, <2>3, <2>4, <2>5
    <3> HIDE DEF x, y, n
    <3> QED BY <3>1, SMT
  <2> QED BY <2>5, <2>7, <2>8
<1>3. d.fbufs \in [0..d.n_fbufs_cap - 1 -> Blk]
  BY <1>1 DEF Layout
<1>4. ring \in [0..d.n_fbufs_cap - 1 -> Blk]
  <2>1. \A b \in 0..d.n_fbufs_cap - 1 : Clear(d.fbufs[b], FragSize) \in Blk
    BY <1>3, ConstantsOK, ClearOK DEF Blk
  <2> HIDE DEF n
  <2> QED BY <1>3, <2>1
<1>5. rbuf \in Buffer /\ DOMAIN rbuf = DOMAIN d.rbuf
  <2>1. d.rbuf \in Buffer /\ rest \in Nat
    BY <1>1, <1>2, DbFields, SMT
  <2> QED BY <2>1, ClearOK, ClearBuffer
<1>6. /\ e.maxdelay = d.maxdelay /\ e.curdelay = new /\ e.curbuf = 0 /\ e.n_fbufs = n
      /\ e.n_fbufs_cap = d.n_fbufs_cap /\ e.fbufs = ring /\ e.n_rest = rest /\ e.rbuf = rbuf
      /\ e.shortbuf = d.shortbuf
  BY <1>1 DEF LongDelay, DbType
<1>7. e \in DbType
  <2>1. rest \in 0..FragSize /\ n \in Nat /\ d.n_fbufs_cap \in Nat
    BY <1>1, <1>2, ConstantsOK, DbFields, SMT
  <2>2. e = [d EXCEPT !.n_rest = rest, !.n_fbufs = n, !.curbuf = 0, !.curdelay = new, !.fbufs = ring, !.rbuf = rbuf]
    BY <1>1 DEF LongDelay, DbType
  <2>3. ring \in UNION {[0..m - 1 -> Blk] : m \in Nat}
    BY <1>4, <2>1
  <2> HIDE DEF ring, rbuf, rest, n, e
  <2> QED BY <1>1, <1>5, <2>1, <2>2, <2>3 DEF DbType
<1>8. Holds(d.rbuf, rest)
  <2>1. d.maxdelay \in Int /\ d.maxdelay > FragSize
    BY <1>1, DbFields, ConstantsOK, SMT
  <2>2. Holds(d.rbuf, FragSize)
    BY <1>1, <2>1 DEF Room
  <2> HIDE DEF rest
  <2> QED BY <1>2, <2>2, ConstantsOK, SMT DEF Holds
<1>9. Layout(e)
  <2>1. n > 0 /\ n # 0 /\ 0 \in 0..n - 1 /\ rest < FragSize
    <3> HIDE DEF n, rest
    <3> QED BY <1>1, <1>2, DbFields, ConstantsOK, SMT
  <2>2. Holds(rbuf, rest)
    BY <1>5, <1>8 DEF Holds
  <2> HIDE DEF ring, rbuf, rest, n, e
  <2> QED BY <1>2, <1>4, <1>6, <2>1, <2>2 DEF Layout
<1>10. Room(e)
  <2>1. d.maxdelay \in Int /\ ~(d.maxdelay <= FragSize)
    BY <1>1, DbFields, ConstantsOK, SMT
  <2>2. Holds(d.rbuf, FragSize) => Holds(rbuf, FragSize)
    BY <1>5 DEF Holds
  <2> HIDE DEF ring, rbuf, rest, n, e
  <2> QED BY <1>1, <1>6, <2>1, <2>2 DEF Room
<1>11. ASSUME new > d.curdelay
       PROVE  Contents(e) = Silent(new)
  <2>1. d.curdelay < new
    BY <1>1, <1>11, DbFields, SMT
  <2>2. \A k \in 0..rest - 1 : rbuf[k] = 0
    <3>1. \A k \in 0..rest - 1 : k \in DOMAIN d.rbuf /\ k < rest
      <4> HIDE DEF rest
      <4> QED BY <1>2, <1>8, SMT DEF Holds
    <3>2. rest \in Nat
      <4> HIDE DEF rest
      <4> QED BY <1>2, SMT
    <3>3. rbuf = Clear(d.rbuf, rest)
      BY <2>1
    <3> HIDE DEF rest, rbuf
    <3> QED BY <3>1, <3>2, <3>3, ClearOK
  <2>3. \A b \in 0..n - 1, k \in 0..FragSize - 1 : ring[b][k] = 0
    <3> SUFFICES ASSUME NEW b \in 0..n - 1, NEW k \in 0..FragSize - 1
                 PROVE  ring[b][k] = 0
      OBVIOUS
    <3>1. b \in DOMAIN d.fbufs /\ b < n
      <4> HIDE DEF n
      <4> QED BY <1>1, <1>2, <1>3, DbFields, SMT
    <3>2. ring[b] = Clear(d.fbufs[b], FragSize)
      BY <2>1, <3>1
    <3>3. k \in DOMAIN d.fbufs[b] /\ k < FragSize
      <4>1. d.fbufs[b] \in Blk
        BY <1>3, <3>1
      <4>2. DOMAIN d.fbufs[b] = 0..FragSize - 1
        BY <4>1 DEF Blk
      <4> QED BY <4>2, ConstantsOK, SMT
    <3> QED BY <3>2, <3>3, ConstantsOK, ClearOK
  <2>4. \A k \in 0..new - 1 : ~(k < rest) =>
          /\ (0 + 1 + (k - rest) \div FragSize) % n \in 0..n - 1
          /\ (k - rest) % FragSize \in 0..FragSize - 1
    <3> SUFFICES ASSUME NEW k \in 0..new - 1, ~(k < rest)
                 PROVE  /\ (0 + 1 + (k - rest) \div FragSize) % n \in 0..n - 1
                        /\ (k - rest) % FragSize \in 0..FragSize - 1
      OBVIOUS
    <3>1. k - rest \in Nat /\ n \in Nat \ {0}
      <4> HIDE DEF rest, n
      <4> QED BY <1>1, <1>2, DbFields, SMT
    <3>2. (k - rest) \div FragSize \in Nat /\ (k - rest) % FragSize \in 0..FragSize - 1
      <4> HIDE DEF rest
      <4> QED BY <3>1, ConstantsOK, Division
    <3>3. 0 + 1 + (k - rest) \div FragSize \in Nat
      BY <3>2, SMT
    <3> HIDE DEF n
    <3> QED BY <3>1, <3>2, <3>3, Division
  <2>5. \A k \in 0..new - 1 : ~(k < rest) \/ k \in 0..rest - 1
    <3> HIDE DEF rest
    <3> QED BY <1>2, ConstantsOK, SMT
  <2>6. n # 0
    <3> HIDE DEF n
    <3> QED BY <1>1, <1>2, DbFields, SMT
  <2> HIDE DEF ring, rbuf, rest, n, e
  <2>7. Contents(e) = [k \in 0..new - 1 |->
                         IF k < rest THEN rbuf[k]
                         ELSE ring[(0 + 1 + (k - rest) \div FragSize) % n][(k - rest) % FragSize]]
    BY <1>6, <2>6 DEF Contents
  <2>8. \A k \in 0..new - 1 : Contents(e)[k] = 0
    BY <2>2, <2>3, <2>4, <2>5, <2>7, Zenon
  <2> QED BY <2>7, <2>8 DEF Silent
<1> QED BY <1>6, <1>7, <1>9, <1>10, <1>11 DEF DbOK

LEMMA ChangeOK ==
  ASSUME NEW d, DbOK(d), NEW new \in Nat
  PROVE  /\ DbOK(change_delay(d, new))
         /\ change_delay(d, new).maxdelay = d.maxdelay
         /\ change_delay(d, new).curdelay = IF new <= d.maxdelay THEN new ELSE d.curdelay
         /\ change_delay(d, new).curdelay = d.curdelay => change_delay(d, new) = d
         /\ change_delay(d, new).curdelay > d.curdelay =>
              Contents(change_delay(d, new)) = Silent(change_delay(d, new).curdelay)
<1>1. d.maxdelay \in Int /\ d.curdelay \in Nat
  BY DbFields DEF DbOK
<1>2. CASE new = d.curdelay \/ new > d.maxdelay
  <2>1. change_delay(d, new) = d
    BY <1>2 DEF change_delay
  <2> QED BY <1>1, <1>2, <2>1, SMT
<1>3. CASE ~(new = d.curdelay \/ new > d.maxdelay) /\ new <= FragSize
  <2>1. change_delay(d, new) = ShortDelay(d, new)
    BY <1>3 DEF change_delay
  <2>2. new <= d.maxdelay
    BY <1>1, <1>3, SMT
  <2> QED BY <1>3, <2>1, <2>2, ShortDelayOK
<1>4. CASE ~(new = d.curdelay \/ new > d.maxdelay) /\ ~(new <= FragSize)
  <2>1. change_delay(d, new) = LongDelay(d, new)
    BY <1>4 DEF change_delay
  <2>2. new <= d.maxdelay /\ new > FragSize
    BY <1>1, <1>4, ConstantsOK, SMT
  <2> QED BY <1>4, <2>1, <2>2, LongDelayOK
<1> QED BY <1>2, <1>3, <1>4

-----------------------------------------------------------------------------
(* A block goes through: what leaves and what stays are the queue followed by the block. *)

Through(d, block, e, result) ==
  /\ e.curdelay = d.curdelay
  /\ result = [i \in 0..FragSize - 1 |-> IF i < d.curdelay THEN Contents(d)[i] ELSE block[i - d.curdelay]]
  /\ Contents(e) = [k \in 0..d.curdelay - 1 |->
                      IF k + FragSize < d.curdelay THEN Contents(d)[k + FragSize]
                      ELSE block[k + FragSize - d.curdelay]]

LEMMA CopyOK ==
  ASSUME NEW buf \in Buffer, NEW from, NEW offset, NEW n \in Nat,
         \A k \in 0..n - 1 : from[offset + k] \in Sample
  PROVE  /\ CopyTo(buf, from, offset, n) \in Buffer
         /\ DOMAIN CopyTo(buf, from, offset, n) = DOMAIN buf
         /\ \A k \in DOMAIN buf : CopyTo(buf, from, offset, n)[k] = IF k < n THEN from[offset + k] ELSE buf[k]
<1>1. PICK m \in 0..FragSize : buf \in [0..m - 1 -> Sample]
  BY DEF Buffer
<1>2. \A k \in 0..m - 1 : k < n => k \in 0..n - 1
  BY <1>1, ConstantsOK, SMT
<1>3. CopyTo(buf, from, offset, n) \in [0..m - 1 -> Sample]
  BY <1>1, <1>2 DEF CopyTo
<1> QED BY <1>1, <1>3 DEF Buffer, CopyTo

LEMMA UpdateShort ==
  ASSUME NEW d, DbOK(d), d.n_fbufs = 0, d.n_rest > 0, NEW block \in Blk
  PROVE  DbOK(ShortDb(d, block)) /\ Through(d, block, ShortDb(d, block), ShortOut(d, block))
<1> DEFINE D == d.curdelay
           c == d.curbuf
           stored == CopyTo(d.shortbuf[c], block, FragSize - D, D)
           short == [d.shortbuf EXCEPT ![c] = stored]
           e == ShortDb(d, block)
<1>1. d \in DbType /\ Layout(d) /\ Room(d)
  BY DEF DbOK
<1>2. /\ D \in 1..FragSize /\ d.n_rest = D /\ c \in 0..1 /\ 1 - c \in 0..1 /\ 1 - c # c /\ D \in Nat
      /\ 1 - (1 - c) = c
  BY <1>1, DbFields, ConstantsOK, SMT DEF Layout
<1>3. d.shortbuf \in [0..1 -> Buffer] /\ \A b \in 0..1 : Holds(d.shortbuf[b], D)
  BY <1>1, <1>2, DbFields DEF Layout
<1>4. \A k \in 0..D - 1 : FragSize - D + k \in 0..FragSize - 1
  <2> HIDE DEF D
  <2> QED BY <1>2, ConstantsOK, SMT
<1>5. /\ stored \in Buffer /\ DOMAIN stored = DOMAIN d.shortbuf[c]
      /\ \A k \in DOMAIN d.shortbuf[c] :
            stored[k] = IF k < D THEN block[FragSize - D + k] ELSE d.shortbuf[c][k]
  <2>1. \A k \in 0..D - 1 : block[FragSize - D + k] \in Sample
    BY <1>4 DEF Blk
  <2>2. d.shortbuf[c] \in Buffer
    BY <1>2, <1>3
  <2> HIDE DEF D, c
  <2> QED BY <1>2, <2>1, <2>2, CopyOK
<1>6. short \in [0..1 -> Buffer] /\ short[c] = stored /\ short[1 - c] = d.shortbuf[1 - c]
  <2> HIDE DEF stored, c
  <2> QED BY <1>2, <1>3, <1>5
<1>7. /\ e.maxdelay = d.maxdelay /\ e.curdelay = D /\ e.curbuf = 1 - c /\ e.n_fbufs = 0
      /\ e.n_fbufs_cap = d.n_fbufs_cap /\ e.fbufs = d.fbufs /\ e.n_rest = D /\ e.rbuf = d.rbuf
      /\ e.shortbuf = short
  BY <1>1, <1>2 DEF ShortDb, DbType
<1>8. e \in DbType
  <2>1. e = [d EXCEPT !.shortbuf = short, !.curbuf = 1 - c]
    BY <1>1, <1>2 DEF ShortDb, DbType
  <2>2. 1 - c \in Nat
    BY <1>2
  <2> HIDE DEF short, c, e
  <2> QED BY <1>1, <1>6, <2>1, <2>2 DEF DbType
<1>9. \A b \in 0..1 : DOMAIN short[b] = DOMAIN d.shortbuf[b]
  <2> HIDE DEF stored, c
  <2> QED BY <1>2, <1>3, <1>5
<1>10. Layout(e) /\ Room(e)
  <2> HIDE DEF short, stored, c, e
  <2> QED BY <1>1, <1>2, <1>7, <1>9 DEF Layout, Room, Holds
<1>11. ShortOut(d, block) = [i \in 0..FragSize - 1 |-> IF i < D THEN Contents(d)[i] ELSE block[i - D]]
  <2>1. \A i \in 0..FragSize - 1 : i < D => Contents(d)[i] = d.shortbuf[1 - c][i]
    <3>1. \A i \in 0..FragSize - 1 : i < D => i \in 0..D - 1
      <4> HIDE DEF D
      <4> QED BY <1>2, ConstantsOK, SMT
    <3> QED BY <3>1 DEF Contents
  <2> QED BY <1>2, <2>1 DEF ShortOut
<1>12. Contents(e) = [k \in 0..D - 1 |->
                        IF k + FragSize < D THEN Contents(d)[k + FragSize] ELSE block[k + FragSize - D]]
  <2>1. Contents(e) = [k \in 0..D - 1 |-> short[1 - (1 - c)][k]]
    <3> HIDE DEF short, e, c
    <3> QED BY <1>7 DEF Contents
  <2>2. \A k \in 0..D - 1 : short[1 - (1 - c)][k] = block[FragSize - D + k]
    <3>1. \A k \in 0..D - 1 : k \in DOMAIN d.shortbuf[c] /\ k < D
      <4> HIDE DEF D, c
      <4> QED BY <1>2, <1>3, SMT DEF Holds
    <3> HIDE DEF short, stored, D, c
    <3> QED BY <1>2, <1>5, <1>6, <3>1
  <2>3. \A k \in 0..D - 1 : ~(k + FragSize < D) /\ FragSize - D + k = k + FragSize - D
    <3> HIDE DEF D
    <3> QED BY <1>2, ConstantsOK, SMT
  <2> HIDE DEF short, e, c, D
  <2> QED BY <2>1, <2>2, <2>3
<1> QED BY <1>7, <1>8, <1>10, <1>11, <1>12 DEF DbOK, Through

\* the fragment after c in a ring of n
After(n, c) == IF c = n - 1 THEN 0 ELSE c + 1

\* The fragment after c moves on by one, and the one just written is the last to be read.
LEMMA RingIndex ==
  ASSUME NEW n \in Nat, n >= 2, NEW c \in 0..n - 1, NEW q \in 0..n - 2
  PROVE  /\ After(n, c) \in 0..n - 1 /\ After(n, c) # c
         /\ (c + 1 + 0) % n = After(n, c)
         /\ q = n - 2 => (After(n, c) + 1 + q) % n = c
         /\ q < n - 2 => /\ (After(n, c) + 1 + q) % n = (c + 1 + (q + 1)) % n
                         /\ (After(n, c) + 1 + q) % n \in 0..n - 1
                         /\ (After(n, c) + 1 + q) % n # c
<1> DEFINE l == After(n, c)
<1>0. l = IF c = n - 1 THEN 0 ELSE c + 1
  BY DEF After
<1> HIDE DEF l
<1>1. \A x \in 0..2 * n - 1 : x % n = IF x < n THEN x ELSE x - n
  <2>1. n \in Nat \ {0}
    BY SMT
  <2> QED BY <2>1, Wrap
<1>2. l \in 0..n - 1 /\ l # c
  BY <1>0, SMT
<1>3. c + 1 + 0 \in 0..2 * n - 1 /\ l + 1 + q \in 0..2 * n - 1
  BY <1>0, <1>2, SMT
<1>4. (c + 1 + 0) % n = l
  BY <1>0, <1>1, <1>3, SMT
<1>5. ASSUME q = n - 2
      PROVE  (l + 1 + q) % n = c
  BY <1>0, <1>1, <1>3, <1>5, SMT
<1>6. ASSUME q < n - 2
      PROVE  /\ (l + 1 + q) % n = (c + 1 + (q + 1)) % n
             /\ (l + 1 + q) % n \in 0..n - 1
             /\ (l + 1 + q) % n # c
  <2>1. c + 1 + (q + 1) \in 0..2 * n - 1
    BY <1>6, SMT
  <2> QED BY <1>0, <1>1, <1>3, <1>6, <2>1, SMT
<1> QED BY <1>2, <1>4, <1>5, <1>6 DEF l

LEMMA UpdateLong ==
  ASSUME NEW d, DbOK(d), d.n_fbufs > 0, NEW block \in Blk
  PROVE  DbOK(LongDb(d, block)) /\ Through(d, block, LongDb(d, block), LongOut(d, block))
<1> DEFINE D == d.curdelay
           n == d.n_fbufs
           r == d.n_rest
           c == d.curbuf
           l == After(n, c)
           last == d.fbufs[l]
           ring == [d.fbufs EXCEPT ![c] = block]
           rbuf == CopyTo(d.rbuf, last, FragSize - r, r)
           e == LongDb(d, block)
           f == FragSize
<1>1. d \in DbType /\ Layout(d) /\ Room(d)
  BY DEF DbOK
<1>2. /\ f \in Nat \ {0} /\ D \in Nat /\ n \in Nat /\ n >= 2 /\ n <= d.n_fbufs_cap /\ d.n_fbufs_cap \in Nat
      /\ r \in 0..f - 1 /\ c \in 0..n - 1
      /\ D = (n - 1) * f + r
  BY <1>1, DbFields, ConstantsOK, SMT DEF Layout
<1>3. /\ l \in 0..n - 1 /\ l # c /\ (c + 1 + 0) % n = l
      /\ \A q \in 0..n - 2 :
           /\ q = n - 2 => (l + 1 + q) % n = c
           /\ q < n - 2 => /\ (l + 1 + q) % n = (c + 1 + (q + 1)) % n
                           /\ (l + 1 + q) % n \in 0..n - 1
                           /\ (l + 1 + q) % n # c
  <2>1. 0 \in 0..n - 2
    BY <1>2, SMT
  <2>2. n \in Nat /\ n >= 2 /\ c \in 0..n - 1
    BY <1>2
  <2> HIDE DEF n, c
  <2> QED BY <2>1, <2>2, RingIndex
<1>4. /\ d.fbufs \in [0..d.n_fbufs_cap - 1 -> Blk] /\ d.rbuf \in Buffer /\ Holds(d.rbuf, r)
      /\ 0..n - 1 \subseteq 0..d.n_fbufs_cap - 1
  BY <1>1, <1>2, DbFields, SMT DEF Layout
<1>5. last \in Blk
  <2> HIDE DEF l, n
  <2> QED BY <1>3, <1>4
<1>6. ring \in [0..d.n_fbufs_cap - 1 -> Blk] /\ ring[c] = block /\ \A b \in 0..n - 1 : b # c => ring[b] = d.fbufs[b]
  <2> HIDE DEF n, c
  <2> QED BY <1>2, <1>4
<1>7. /\ rbuf \in Buffer /\ DOMAIN rbuf = DOMAIN d.rbuf
      /\ \A k \in 0..r - 1 : rbuf[k] = last[f - r + k]
  <2>1. \A k \in 0..r - 1 : f - r + k \in 0..f - 1
    <3> HIDE DEF r, f
    <3> QED BY <1>2, SMT
  <2>2. \A k \in 0..r - 1 : last[f - r + k] \in Sample
    <3> HIDE DEF last, r
    <3> QED BY <1>5, <2>1 DEF Blk
  <2>3. \A k \in 0..r - 1 : k \in DOMAIN d.rbuf /\ k < r
    <3> HIDE DEF r
    <3> QED BY <1>2, <1>4, SMT DEF Holds
  <2>4. r \in Nat
    <3> HIDE DEF r, f
    <3> QED BY <1>2, SMT
  <2> HIDE DEF last, r
  <2> QED BY <1>4, <2>2, <2>3, <2>4, CopyOK
<1>8. /\ e.maxdelay = d.maxdelay /\ e.curdelay = D /\ e.curbuf = l /\ e.n_fbufs = n
      /\ e.n_fbufs_cap = d.n_fbufs_cap /\ e.fbufs = ring /\ e.n_rest = r /\ e.rbuf = rbuf
      /\ e.shortbuf = d.shortbuf
      /\ LastBuf(Stored(d, block)) = last
      /\ e = [d EXCEPT !.fbufs = ring, !.rbuf = rbuf, !.curbuf = l]
  <2> DEFINE s == Stored(d, block)
  <2>1. /\ s = [d EXCEPT !.fbufs = ring] /\ s.fbufs = ring /\ s.curbuf = c /\ s.n_fbufs = n /\ s.rbuf = d.rbuf
    BY <1>1 DEF Stored, DbType
  <2>2. LastBuf(s) = last
    <3>1. LastBuf(s) = ring[l]
      <4> HIDE DEF ring, s
      <4> QED BY <2>1 DEF LastBuf, After
    <3> HIDE DEF ring, l, c, n
    <3> QED BY <1>3, <1>6, <3>1
  <2>3. NextBuf(d) = l
    BY <1>2, SMT DEF NextBuf, After
  <2>4. e = [s EXCEPT !.rbuf = rbuf, !.curbuf = l]
    <3>1. e = [s EXCEPT !.rbuf = CopyTo(s.rbuf, LastBuf(s), FragSize - d.n_rest, d.n_rest), !.curbuf = NextBuf(d)]
      <4> DEFINE t == LastBuf(s)
      <4> HIDE DEF t
      <4> QED BY DEF LongDb, t
    <3> HIDE DEF last, l, s, e
    <3> QED BY <2>1, <2>2, <2>3, <3>1
  <2>5. e = [d EXCEPT !.fbufs = ring, !.rbuf = rbuf, !.curbuf = l]
    <3> HIDE DEF ring, rbuf, l, s, e
    <3> QED BY <1>1, <2>1, <2>4 DEF DbType
  <2>6. LastBuf(Stored(d, block)) = last
    BY <2>2
  <2> HIDE DEF ring, rbuf, l, e, last
  <2>7. /\ e.maxdelay = d.maxdelay /\ e.curdelay = d.curdelay /\ e.curbuf = l /\ e.n_fbufs = d.n_fbufs
        /\ e.n_fbufs_cap = d.n_fbufs_cap /\ e.fbufs = ring /\ e.n_rest = d.n_rest /\ e.rbuf = rbuf
        /\ e.shortbuf = d.shortbuf
    BY <1>1, <2>5 DEF DbType
  <2> QED BY <2>5, <2>6, <2>7
<1>9. e \in DbType
  <2>1. ring \in UNION {[0..m - 1 -> Blk] : m \in Nat}
    BY <1>2, <1>6
  <2>2. l \in Nat
    <3> HIDE DEF l, n
    <3> QED BY <1>2, <1>3, SMT
  <2> HIDE DEF ring, rbuf, l, e
  <2> QED BY <1>1, <1>7, <1>8, <2>1, <2>2 DEF DbType
<1>10. Layout(e) /\ Room(e)
  <2>1. n # 0 /\ n \in 2..d.n_fbufs_cap /\ r < f
    <3> HIDE DEF n, r, f
    <3> QED BY <1>2, SMT
  <2>2. ~(0 <= d.maxdelay /\ d.maxdelay <= FragSize)
    BY <1>1, <2>1 DEF Room
  <2> HIDE DEF ring, rbuf, l, e, n, r
  <2> QED BY <1>1, <1>2, <1>3, <1>4, <1>6, <1>7, <1>8, <2>1, <2>2 DEF Layout, Room, Holds
<1> DEFINE Content(rb, fb, cb, k) ==
      IF k < r THEN rb[k] ELSE fb[(cb + 1 + (k - r) \div f) % n][(k - r) % f]
<1>11. n # 0
  BY <1>2, SMT
<1>12. /\ Contents(d) = [k \in 0..D - 1 |-> Content(d.rbuf, d.fbufs, c, k)]
       /\ Contents(e) = [k \in 0..D - 1 |-> Content(rbuf, ring, l, k)]
  <2>1. Contents(d) = [k \in 0..D - 1 |-> Content(d.rbuf, d.fbufs, c, k)]
    BY <1>11 DEF Contents
  <2>2. Contents(e) = [k \in 0..D - 1 |-> Content(rbuf, ring, l, k)]
    <3> HIDE DEF ring, rbuf, l, e, r, n, D
    <3> QED BY <1>8, <1>11 DEF Contents
  <2> QED BY <2>1, <2>2
<1>13. f <= D /\ \A k \in 0..f - 1 : k \in 0..D - 1
  <2>1. (n - 1) * f = (n - 2) * f + f /\ (n - 2) * f \in Nat
    <3> HIDE DEF n, f
    <3> QED BY <1>2, SMT
  <2> DEFINE x == (n - 2) * f
  <2>2. D = x + f + r /\ x \in Nat
    BY <1>2, <2>1
  <2> HIDE DEF x, D, f, r
  <2> QED BY <1>2, <2>2, SMT
<1>14. \A j \in 0..f - 1 : d.fbufs[(c + 1 + j \div f) % n][j % f] = last[j]
  <2> HIDE DEF f, c, n, last
  <2>1. \A j \in 0..f - 1 : j \div f = 0 /\ j % f = j
    <3>1. \A j \in 0..f - 1 : j \in Nat /\ j < f
      BY <1>2, SMT
    <3> QED BY <1>2, <3>1, Division
  <2> QED BY <1>3, <2>1 DEF last
<1>15. LongOut(d, block) = [i \in 0..FragSize - 1 |-> IF i < D THEN Contents(d)[i] ELSE block[i - D]]
  <2>1. \A i \in 0..f - 1 : i < D /\ Contents(d)[i] = IF i < r THEN d.rbuf[i] ELSE last[i - r]
    <3> SUFFICES ASSUME NEW i \in 0..f - 1
                 PROVE  i < D /\ Contents(d)[i] = IF i < r THEN d.rbuf[i] ELSE last[i - r]
      OBVIOUS
    <3>1. i \in 0..D - 1 /\ i < D
      <4> HIDE DEF f, D
      <4> QED BY <1>2, <1>13, SMT
    <3>2. ~(i < r) => i - r \in 0..f - 1
      <4> HIDE DEF f, r
      <4> QED BY <1>2, SMT
    <3>3. Contents(d)[i] = Content(d.rbuf, d.fbufs, c, i)
      BY <1>12, <3>1
    <3> HIDE DEF f, c, n, r, last, D
    <3> QED BY <1>14, <3>1, <3>2, <3>3
  <2>2. LongOut(d, block) = [i \in 0..f - 1 |-> IF i < r THEN d.rbuf[i] ELSE last[i - r]]
    <3> HIDE DEF last
    <3> QED BY <1>8 DEF LongOut
  <2> HIDE DEF D, r, last
  <2> QED BY <2>1, <2>2
<1>16. \A k \in 0..D - 1 :
         Content(rbuf, ring, l, k) =
           IF k + f < D THEN Contents(d)[k + f] ELSE block[k + f - D]
  <2> SUFFICES ASSUME NEW k \in 0..D - 1
               PROVE  Content(rbuf, ring, l, k) = IF k + f < D THEN Contents(d)[k + f] ELSE block[k + f - D]
    OBVIOUS
  <2>1. CASE k < r
    <3>1. k \in 0..r - 1 /\ k + f < D /\ k + f \in 0..D - 1 /\ ~(k + f < r) /\ (k + f) - r \in 0..f - 1
          /\ f - r + k = (k + f) - r
      <4>1. (n - 1) * f >= f
        <5> HIDE DEF n, f
        <5> QED BY <1>2, SMT
      <4> DEFINE x == (n - 1) * f
      <4>2. D = x + r /\ x >= f /\ x \in Nat
        <5>1. x \in Nat
          <6> HIDE DEF n, f
          <6> QED BY <1>2, SMT
        <5> QED BY <1>2, <4>1, <5>1
      <4> HIDE DEF x, D, f, r
      <4> QED BY <1>2, <2>1, <4>2, SMT
    <3>2. Contents(d)[k + f] = d.fbufs[(c + 1 + ((k + f) - r) \div f) % n][((k + f) - r) % f]
      BY <1>12, <3>1
    <3> HIDE DEF D, f, r, c, n, last, rbuf, ring, l
    <3> QED BY <1>7, <1>14, <2>1, <3>1, <3>2
  <2>2. CASE ~(k < r)
    <3> DEFINE j == k - r
               q == j \div f
               p == j % f
    <3>1. /\ j \in Nat /\ j < (n - 1) * f
      <4> DEFINE x == (n - 1) * f
      <4>1. D = x + r /\ x \in Nat
        <5>1. x \in Nat
          <6> HIDE DEF n, f
          <6> QED BY <1>2, SMT
        <5> QED BY <1>2, <5>1
      <4>2. j \in Nat /\ j < x
        <5> HIDE DEF x, D, f, r
        <5> QED BY <1>2, <2>2, <4>1, SMT
      <4> QED BY <4>2
    <3>2. /\ q \in Nat /\ p \in 0..f - 1 /\ j = q * f + p
          /\ (j + f) \div f = q + 1 /\ (j + f) % f = p
      <4> HIDE DEF j, f
      <4> QED BY <1>2, <3>1, Division
    <3>3. q \in 0..n - 2
      <4>1. n - 1 \in Nat
        BY <1>2, SMT
      <4>2. q < n - 1
        <5> HIDE DEF j, f, n
        <5> QED BY <1>2, <3>1, <4>1, Below
      <4> HIDE DEF q, n
      <4> QED BY <1>2, <3>2, <4>2, SMT
    <3>4. /\ q = n - 2 => (l + 1 + q) % n = c
          /\ q < n - 2 => /\ (l + 1 + q) % n = (c + 1 + (q + 1)) % n
                          /\ (l + 1 + q) % n \in 0..n - 1
                          /\ (l + 1 + q) % n # c
      <4> HIDE DEF q, n, c, l
      <4> QED BY <1>3, <3>3
    <3>5. Content(rbuf, ring, l, k) = ring[(l + 1 + q) % n][p]
      BY <2>2
    <3>6. CASE q = n - 2
      <4>1. j + f = (n - 1) * f + p
        <5>1. (n - 1) * f = (n - 2) * f + f /\ (n - 2) * f \in Nat
          <6> HIDE DEF n, f
          <6> QED BY <1>2, SMT
        <5> DEFINE x == (n - 2) * f
        <5>2. j = x + p /\ x \in Nat /\ (n - 1) * f = x + f
          BY <3>2, <3>6, <5>1
        <5>3. j + f = x + f + p
          <6> HIDE DEF x, j, p, f
          <6> QED BY <1>2, <3>2, <5>2, SMT
        <5>4. x + f + p = (n - 1) * f + p
          BY <5>2
        <5> QED BY <5>3, <5>4
      <4>2. ~(k + f < D) /\ k + f - D = p
        <5> DEFINE x == (n - 1) * f
        <5>1. j + f = x + p /\ D = x + r /\ x \in Nat
          <6>1. x \in Nat
            <7> HIDE DEF n, f
            <7> QED BY <1>2, SMT
          <6> QED BY <1>2, <4>1, <6>1
        <5>2. j = k - r /\ k \in Nat
          BY SMT
        <5> HIDE DEF x, j, p, f, D, r
        <5> QED BY <1>2, <3>2, <5>1, <5>2, SMT
      <4>3. ring[(l + 1 + q) % n][p] = block[p]
        <5> HIDE DEF ring, q, n, c, l, p
        <5> QED BY <1>6, <3>4, <3>6
      <4> HIDE DEF D, f, q, p, ring, n, l, Content
      <4> QED BY <3>5, <4>2, <4>3
    <3>7. CASE q < n - 2
      <4>1. j + f < (n - 1) * f
        <5>1. (j + f) \div f < n - 1
          <6> HIDE DEF j, f, n, q
          <6> QED BY <1>2, <3>2, <3>3, <3>7, SMT
        <5>2. j + f \in Nat /\ n - 1 \in Nat
          <6> HIDE DEF j, f, n
          <6> QED BY <1>2, <3>1, SMT
        <5> HIDE DEF j, f, n
        <5> QED BY <1>2, <5>1, <5>2, Below
      <4>2. k + f < D /\ k + f \in 0..D - 1 /\ ~(k + f < r) /\ (k + f) - r = j + f
        <5> DEFINE x == (n - 1) * f
        <5>1. j + f < x /\ D = x + r /\ x \in Nat
          <6>1. x \in Nat
            <7> HIDE DEF n, f
            <7> QED BY <1>2, SMT
          <6> QED BY <1>2, <4>1, <6>1
        <5>2. j = k - r /\ k \in Nat
          BY SMT
        <5> HIDE DEF x, j, f, D, r
        <5> QED BY <1>2, <2>2, <5>1, <5>2, SMT
      <4>3. Contents(d)[k + f] = d.fbufs[(c + 1 + ((k + f) - r) \div f) % n][((k + f) - r) % f]
        BY <1>12, <4>2
      <4>4. Contents(d)[k + f] = d.fbufs[(c + 1 + (q + 1)) % n][p]
        <5> HIDE DEF j, f, D, r, c, n, q, p
        <5> QED BY <3>2, <4>2, <4>3
      <4>5. ring[(l + 1 + q) % n] = d.fbufs[(c + 1 + (q + 1)) % n]
        <5> HIDE DEF ring, q, n, c, l
        <5> QED BY <1>6, <3>4, <3>7
      <4> HIDE DEF D, f, q, p, ring, n, l, c, Content
      <4> QED BY <3>5, <4>2, <4>4, <4>5
    <3>8. q = n - 2 \/ q < n - 2
      <4> HIDE DEF q, n
      <4> QED BY <1>2, <3>3, SMT
    <3> QED BY <3>6, <3>7, <3>8
  <2> QED BY <2>1, <2>2
<1>17. Contents(e) = [k \in 0..D - 1 |-> IF k + f < D THEN Contents(d)[k + f] ELSE block[k + f - D]]
  <2> HIDE DEF D, f, Content, e, ring, rbuf, l
  <2> QED BY <1>12, <1>16
<1> QED BY <1>8, <1>9, <1>10, <1>15, <1>17 DEF DbOK, Through

LEMMA UpdateOK ==
  ASSUME NEW d, DbOK(d), NEW block \in Blk
  PROVE  DbOK(UpdatedDb(d, block)) /\ Through(d, block, UpdatedDb(d, block), UpdatedOut(d, block))
<1>1. d.n_fbufs \in Nat /\ d.n_rest \in Nat /\ d.curdelay \in Nat /\ FragSize \in Nat \ {0}
  BY DbFields, ConstantsOK, SMT DEF DbOK
<1>2. CASE d.n_fbufs > 0
  BY <1>2, UpdateLong DEF UpdatedDb, UpdatedOut
<1>3. CASE ~(d.n_fbufs > 0) /\ d.n_rest > 0
  <2>1. d.n_fbufs = 0
    BY <1>1, <1>3, SMT
  <2> QED BY <1>3, <2>1, UpdateShort DEF UpdatedDb, UpdatedOut
<1>4. CASE ~(d.n_fbufs > 0) /\ ~(d.n_rest > 0)
  <2>1. UpdatedDb(d, block) = d /\ UpdatedOut(d, block) = block
    BY <1>4 DEF UpdatedDb, UpdatedOut
  <2>2. d.curdelay = 0
    BY <1>1, <1>4, SMT DEF DbOK, Layout
  <2>3. block = [i \in 0..FragSize - 1 |-> IF i < d.curdelay THEN Contents(d)[i] ELSE block[i - d.curdelay]]
    <3>1. \A i \in 0..FragSize - 1 : ~(i < d.curdelay) /\ i - d.curdelay = i
      BY <1>1, <2>2, SMT
    <3>2. block = [i \in 0..FragSize - 1 |-> block[i]]
      BY DEF Blk
    <3> QED BY <3>1, <3>2
  <2>4. Contents(d) = [k \in 0..d.curdelay - 1 |->
                        IF k + FragSize < d.curdelay THEN Contents(d)[k + FragSize]
                        ELSE block[k + FragSize - d.curdelay]]
    <3>1. 0..d.curdelay - 1 = {}
      BY <2>2, SMT
    <3> QED BY <3>1 DEF Contents
  <2> QED BY <2>1, <2>3, <2>4 DEF Through
<1> QED BY <1>2, <1>3, <1>4

\* What the queue holds is in one of the buffers.
LEMMA ContentsFrom ==
  ASSUME NEW d, DbOK(d), NEW S,
         \A b \in 0..1 : \A k \in DOMAIN d.shortbuf[b] : d.shortbuf[b][k] \in S,
         \A k \in DOMAIN d.rbuf : d.rbuf[k] \in S,
         \A b \in DOMAIN d.fbufs : \A k \in 0..FragSize - 1 : d.fbufs[b][k] \in S
  PROVE  Contents(d) \in [0..d.curdelay - 1 -> S]
<1> DEFINE D == d.curdelay
           n == d.n_fbufs
           r == d.n_rest
           c == d.curbuf
           f == FragSize
<1>1. d \in DbType /\ Layout(d)
  BY DEF DbOK
<1>2. /\ f \in Nat \ {0} /\ D \in Nat /\ n \in Nat /\ r \in Nat /\ c \in Nat
  BY <1>1, DbFields, ConstantsOK, SMT
<1>4. SUFFICES ASSUME NEW k \in 0..D - 1
               PROVE  Contents(d)[k] \in S
  BY DEF Contents
<1>5. CASE n = 0
  <2>1. /\ D = r /\ 1 - c \in 0..1 /\ Holds(d.shortbuf[1 - c], r)
    BY <1>1, <1>5, SMT DEF Layout
  <2>2. k \in DOMAIN d.shortbuf[1 - c]
    BY <2>1 DEF Holds
  <2> QED BY <1>5, <2>1, <2>2 DEF Contents
<1>6. CASE n # 0 /\ k < r
  <2>1. Holds(d.rbuf, r) /\ k \in 0..r - 1
    <3>1. n > 0
      BY <1>2, <1>6, SMT
    <3> QED BY <1>1, <1>2, <1>6, <3>1, SMT DEF Layout
  <2>2. k \in DOMAIN d.rbuf
    BY <2>1 DEF Holds
  <2> QED BY <1>6, <2>2 DEF Contents
<1>7. CASE n # 0 /\ ~(k < r)
  <2>1. n > 0 /\ n \in Nat \ {0} /\ k - r \in Nat
    BY <1>2, <1>7, SMT
  <2>2. n <= d.n_fbufs_cap /\ d.fbufs \in [0..d.n_fbufs_cap - 1 -> Blk] /\ d.n_fbufs_cap \in Nat
    BY <1>1, <2>1, DbFields, SMT DEF Layout
  <2> DEFINE b == (c + 1 + (k - r) \div f) % n
             p == (k - r) % f
  <2>3. (k - r) \div f \in Nat /\ p \in 0..f - 1
    <3> HIDE DEF f, r
    <3> QED BY <1>2, <2>1, Division
  <2>4. b \in 0..n - 1
    <3>1. c + 1 + (k - r) \div f \in Nat
      <4> HIDE DEF f, r, c
      <4> QED BY <1>2, <2>3, SMT
    <3> HIDE DEF f, r, c, n
    <3> QED BY <2>1, <3>1, Division
  <2>5. b \in 0..d.n_fbufs_cap - 1
    <3> HIDE DEF b, n
    <3> QED BY <1>2, <2>2, <2>4, SMT
  <2>6. d.fbufs[b][p] \in S
    <3> HIDE DEF b, p
    <3> QED BY <2>2, <2>3, <2>5
  <2> QED BY <1>7, <2>6 DEF Contents
<1> QED BY <1>5, <1>6, <1>7

LEMMA ContentsType ==
  ASSUME NEW d, DbOK(d)
  PROVE  Contents(d) \in [0..d.curdelay - 1 -> Sample]
<1>1. \A buf \in Buffer : \A k \in DOMAIN buf : buf[k] \in Sample
  BY DEF Buffer
<1>2. d.rbuf \in Buffer /\ d.shortbuf \in [0..1 -> Buffer] /\ d.fbufs \in [0..d.n_fbufs_cap - 1 -> Blk]
  BY DbFields DEF DbOK, Layout
<1>3. \A b \in DOMAIN d.fbufs : \A k \in 0..FragSize - 1 : d.fbufs[b][k] \in Sample
  BY <1>2 DEF Blk
<1>4. \A b \in 0..1 : \A k \in DOMAIN d.shortbuf[b] : d.shortbuf[b][k] \in Sample
  BY <1>1, <1>2
<1> QED BY <1>1, <1>2, <1>3, <1>4, ContentsFrom

-----------------------------------------------------------------------------
(* The start. *)

LEMMA AllocateOK ==
  ASSUME NEW init \in Nat, NEW max \in Int, max >= 0 => init <= max, max >= -1
  PROVE  /\ DbOK(delay_allocate_buffer(init, max))
         /\ delay_allocate_buffer(init, max).maxdelay = max
         /\ delay_allocate_buffer(init, max).curdelay = init
         /\ Contents(delay_allocate_buffer(init, max)) = Silent(init)
<1> DEFINE a == delay_allocate_buffer(init, max)
           memory == IF max <= 0 THEN init ELSE max
           f == FragSize
<1>1. f \in Nat \ {0} /\ memory \in Nat /\ init <= memory /\ (max >= 0 => memory = max) /\ ~(max >= 0 /\ memory > max)
  BY ConstantsOK, SMT
<1>2. a = IF memory = 0 THEN NoBuffer(init, max)
          ELSE IF memory <= f THEN ShortBuffer(init, max, memory) ELSE RingBuffer(init, max, memory)
  BY <1>1, Zenon DEF delay_allocate_buffer
<1>3. \A m \in 0..f : Silent(m) \in Buffer /\ DOMAIN Silent(m) = 0..m - 1 /\ Holds(Silent(m), m)
  <2>1. \A m \in 0..f : m \in Nat /\ m <= f
    BY <1>1, SMT
  <2> QED BY <2>1, SilentOK DEF Silent
<1>4. \A m : \A k \in DOMAIN Silent(m) : Silent(m)[k] = 0
  BY DEF Silent
<1>5. Silent(0) \in [0..0 - 1 -> Blk] /\ 0 \in 0..1 /\ ~(0 > 0) /\ 0 \in 0..f /\ 0 \in Nat
  BY <1>1, SMT DEF Silent
<1>6. CASE memory = 0
  <2>1. a = [maxdelay |-> max, curdelay |-> init, curbuf |-> 0, n_fbufs |-> 0, n_fbufs_cap |-> 0,
             fbufs |-> Silent(0), n_rest |-> 0, rbuf |-> Silent(0), shortbuf |-> [b \in 0..1 |-> Silent(0)]]
    BY <1>2, <1>6 DEF NoBuffer
  <2>2. init = 0 /\ max <= 0
    BY <1>1, <1>6, SMT
  <2> HIDE DEF a, memory
  <2>3. a \in DbType
    BY <1>3, <1>5, <2>1, <2>2 DEF DbType
  <2>4. Layout(a)
    BY <1>3, <1>5, <2>1, <2>2 DEF Layout
  <2>5. Room(a)
    <3>1. ~(max > f) /\ (0 <= max => max = 0)
      BY <1>1, <2>2, SMT
    <3> QED BY <1>3, <1>5, <2>1, <3>1 DEF Room
  <2>6. Contents(a) = Silent(init)
    <3>1. 0..init - 1 = {}
      BY <2>2, SMT
    <3> QED BY <2>1, <3>1 DEF Contents, Silent
  <2> QED BY <2>1, <2>3, <2>4, <2>5, <2>6 DEF DbOK, a
<1>7. CASE memory > 0 /\ memory <= f
  <2>1. a = [maxdelay |-> max, curdelay |-> init, curbuf |-> 0, n_fbufs |-> 0, n_fbufs_cap |-> 0,
             fbufs |-> Silent(0), n_rest |-> init, rbuf |-> Silent(0),
             shortbuf |-> [b \in 0..1 |-> Silent(memory)]]
    <3>1. memory # 0
      BY <1>1, <1>7, SMT
    <3> QED BY <1>2, <1>7, <3>1 DEF ShortBuffer
  <2>2. memory \in 0..f /\ init \in 0..f /\ 0..init - 1 \subseteq 0..memory - 1 /\ ~(max > f)
    BY <1>1, <1>7, SMT
  <2> HIDE DEF a, memory
  <2>3. a \in DbType
    BY <1>3, <1>5, <2>1, <2>2 DEF DbType
  <2>4. Layout(a)
    <3>1. \A b \in 0..1 : Holds(a.shortbuf[b], init)
      BY <1>3, <2>1, <2>2 DEF Holds
    <3> QED BY <1>5, <2>1, <3>1 DEF Layout
  <2>5. Room(a)
    <3>1. 0 <= max => memory = max
      BY <1>1, SMT
    <3> QED BY <1>3, <2>1, <2>2, <3>1 DEF Room
  <2>6. DbOK(a)
    BY <2>3, <2>4, <2>5 DEF DbOK
  <2>7. /\ \A b \in 0..1 : \A k \in DOMAIN a.shortbuf[b] : a.shortbuf[b][k] \in {0}
        /\ \A k \in DOMAIN a.rbuf : a.rbuf[k] \in {0}
        /\ \A b \in DOMAIN a.fbufs : \A k \in 0..FragSize - 1 : a.fbufs[b][k] \in {0}
    <3>1. 0..0 - 1 = {}
      BY SMT
    <3>2. DOMAIN a.fbufs = {}
      BY <2>1, <3>1 DEF Silent
    <3> QED BY <1>4, <2>1, <3>2
  <2>8. a.maxdelay = max /\ a.curdelay = init
    BY <2>1
  <2>9. Contents(a) \in [0..a.curdelay - 1 -> {0}]
    BY <2>6, <2>7, ContentsFrom, Zenon
  <2>10. Contents(a) = Silent(init)
    BY <2>8, <2>9 DEF Silent
  <2> QED BY <2>6, <2>8, <2>10 DEF a
<1>8. CASE memory > f
  <2> DEFINE n == init \div f + 1
             nf == IF init < f THEN 0 ELSE n
             rest == init % f
             cap == memory \div f + 1
             full == IF max > 0 THEN f ELSE 0
             restsize == IF max > 0 THEN f ELSE rest
  <2>1. a = [maxdelay |-> max, curdelay |-> init, curbuf |-> 0, n_fbufs |-> nf,
             n_fbufs_cap |-> cap, fbufs |-> [b \in 0..cap - 1 |-> Silent(f)], n_rest |-> rest,
             rbuf |-> Silent(restsize), shortbuf |-> [b \in 0..1 |-> Silent(full)]]
    <3>1. memory # 0 /\ ~(memory <= f)
      BY <1>1, <1>8, SMT
    <3> HIDE DEF memory
    <3> QED BY <1>2, <3>1 DEF RingBuffer, RingSize
  <2>2. /\ init \div f \in Nat /\ rest \in 0..f - 1 /\ init = (init \div f) * f + rest
        /\ init < f => rest = init
    BY <1>1, Division
  <2>3. memory \div f \in Nat /\ init \div f <= memory \div f
    <3> HIDE DEF memory
    <3> QED BY <1>1, Division, Monotonic
  <2>4. ~(init < f) => ~(init \div f < 1)
    <3>1. 1 * f = f /\ 1 \in Nat
      BY <1>1, SMT
    <3> QED BY <1>1, <3>1, Below
  <2>5. nf \in Nat /\ (nf = 0 => init < f) /\ (nf > 0 => nf \in 2..cap /\ nf - 1 = init \div f) /\ cap \in Nat
    <3> DEFINE x == init \div f
               y == memory \div f
    <3>1. n = x + 1 /\ cap = y + 1 /\ x \in Nat /\ y \in Nat /\ x <= y /\ (~(init < f) => ~(x < 1))
      BY <2>2, <2>3, <2>4
    <3> HIDE DEF x, y, n, cap
    <3>2. nf \in Nat /\ (nf = 0 => init < f) /\ (nf > 0 => nf \in 2..cap /\ nf - 1 = x) /\ cap \in Nat
      BY <1>1, <3>1, SMT
    <3> QED BY <3>2 DEF x
  <2>6. full \in 0..f /\ restsize \in 0..f /\ rest \in 0..f /\ 0..rest - 1 \subseteq 0..restsize - 1
    <3> HIDE DEF rest
    <3> QED BY <1>1, <2>2, SMT
  <2>7. init < f => max > 0 /\ 0..rest - 1 \subseteq 0..full - 1
    <3> HIDE DEF rest
    <3> QED BY <1>1, <1>8, <2>2, SMT
  <2>8. Silent(f) \in Blk
    BY <1>1, SilentOK, SMT
  <2>9. max > f => /\ cap = max \div f + 1 /\ full = f /\ restsize = f
    <3>1. max > f => max > 0 /\ memory = max
      BY <1>1, SMT
    <3> QED BY <3>1
  <2> HIDE DEF a, memory, n, rest, cap, full, restsize, nf
  <2>10. /\ a.maxdelay = max /\ a.curdelay = init /\ a.curbuf = 0 /\ a.n_fbufs = nf /\ a.n_fbufs_cap = cap
         /\ a.fbufs = [b \in 0..cap - 1 |-> Silent(f)] /\ a.n_rest = rest /\ a.rbuf = Silent(restsize)
         /\ a.shortbuf = [b \in 0..1 |-> Silent(full)]
    BY <2>1
  <2>11. a.fbufs \in [0..cap - 1 -> Blk]
    BY <2>8, <2>10
  <2>12. a \in DbType
    BY <1>3, <1>5, <2>1, <2>5, <2>6, <2>10, <2>11 DEF DbType
  <2>13. nf = 0 =>
           a.curdelay = a.n_rest /\ a.curbuf \in 0..1 /\ \A b \in 0..1 : Holds(a.shortbuf[b], a.n_rest)
    BY <1>3, <1>5, <2>2, <2>5, <2>6, <2>7, <2>10 DEF Holds
  <2>14. nf > 0 =>
           /\ a.n_fbufs \in 2..a.n_fbufs_cap
           /\ a.n_rest < FragSize
           /\ a.curdelay = (a.n_fbufs - 1) * FragSize + a.n_rest
           /\ a.curbuf \in 0..a.n_fbufs - 1
           /\ Holds(a.rbuf, a.n_rest)
    <3>1. nf > 0 => 0 \in 0..nf - 1
      BY <2>5, SMT
    <3>2. rest < f
      BY <1>1, <2>2, SMT
    <3>3. Holds(a.rbuf, a.n_rest)
      BY <1>3, <2>6, <2>10 DEF Holds
    <3> QED BY <2>2, <2>5, <2>10, <3>1, <3>2, <3>3
  <2>15. Layout(a)
    BY <2>10, <2>11, <2>13, <2>14 DEF Layout
  <2>16. Room(a)
    <3>1. ~(0 <= max /\ max <= f) /\ f \in 0..f
      BY <1>1, <1>8, SMT DEF memory
    <3> QED BY <1>3, <2>9, <2>10, <3>1 DEF Room
  <2>17. DbOK(a)
    BY <2>12, <2>15, <2>16 DEF DbOK
  <2>18. /\ \A b \in 0..1 : \A k \in DOMAIN a.shortbuf[b] : a.shortbuf[b][k] \in {0}
         /\ \A k \in DOMAIN a.rbuf : a.rbuf[k] \in {0}
         /\ \A b \in DOMAIN a.fbufs : \A k \in 0..FragSize - 1 : a.fbufs[b][k] \in {0}
    <3>1. \A k \in 0..FragSize - 1 : Silent(f)[k] = 0
      BY DEF Silent
    <3> QED BY <1>4, <2>10, <3>1
  <2>19. a.maxdelay = max /\ a.curdelay = init
    BY <2>10
  <2>20. Contents(a) \in [0..a.curdelay - 1 -> {0}]
    BY <2>17, <2>18, ContentsFrom, Zenon
  <2>21. Contents(a) = Silent(init)
    BY <2>19, <2>20 DEF Silent
  <2> QED BY <2>17, <2>19, <2>21 DEF a
<1>9. memory = 0 \/ (memory > 0 /\ memory <= f) \/ memory > f
  <2> HIDE DEF memory
  <2> QED BY <1>1, SMT
<1> QED BY <1>6, <1>7, <1>8, <1>9

-----------------------------------------------------------------------------
(* The specification. *)

Inv ==
  /\ conf \in Configs
  /\ delay \in Nat
  /\ muted \in BOOLEAN
  /\ blocks \in 0..MaxBlocks
  /\ in \in Blk
  /\ out \in Blk
  /\ stale \in Nat
  /\ DbOK(db)
  /\ db.maxdelay = conf.maxdelay + conf.extra
  /\ conf.maxdelay = -1 => delay + conf.extra = db.curdelay
  /\ conf.maxdelay # -1 => delay <= conf.maxdelay

LEMMA ConfOK ==
  ASSUME NEW c \in Configs, Supported
  PROVE  /\ c.delay \in Nat /\ c.extra \in Nat /\ c.maxdelay \in Int /\ c.maxdelay >= -1
         /\ c.maxdelay # -1 => c.maxdelay \in Nat /\ c.delay <= c.maxdelay
         /\ c.maxdelay = -1 => c.extra = 0
<1>1. /\ c.delay \in Nat /\ c.extra \in Nat /\ c.maxdelay \in Nat \cup {-1}
      /\ c.maxdelay >= 0 => c.delay <= c.maxdelay
  BY DelayLineAssumption
<1>2. c.maxdelay >= 0 \/ c.extra = 0
  BY DEF Supported
<1> QED BY <1>1, <1>2, SMT

LEMMA InitOK ==
  ASSUME Supported, Init
  PROVE  Inv /\ Contents(db) = Silent(db.curdelay)
<1> USE DEF Init
<1>1. conf \in Configs
  OBVIOUS
<1> DEFINE i == conf.delay + conf.extra
           m == conf.maxdelay + conf.extra
<1>2. i \in Nat /\ m \in Int /\ (m >= 0 => i <= m) /\ m >= -1
  <2>1. /\ conf.delay \in Nat /\ conf.extra \in Nat /\ conf.maxdelay \in Int /\ conf.maxdelay >= -1
        /\ conf.maxdelay # -1 => conf.maxdelay \in Nat /\ conf.delay <= conf.maxdelay
        /\ conf.maxdelay = -1 => conf.extra = 0
    BY <1>1, ConfOK
  <2> QED BY <2>1, SMT
<1>3. db = delay_allocate_buffer(i, m)
  OBVIOUS
<1>4. DbOK(db) /\ db.maxdelay = m /\ db.curdelay = i /\ Contents(db) = Silent(i)
  <2> HIDE DEF i, m, Init
  <2> QED BY <1>2, <1>3, AllocateOK
<1>5. Silent(FragSize) \in Blk
  BY ConstantsOK, SilentOK, SMT
<1>6. 0 \in 0..MaxBlocks /\ 0 \in Nat
  BY DelayLineAssumption, SMT
<1>7. conf.delay \in Nat /\ (conf.maxdelay # -1 => conf.delay <= conf.maxdelay)
  BY <1>1, ConfOK
<1> QED BY <1>1, <1>4, <1>5, <1>6, <1>7 DEF Inv

\* The block that comes next has samples of the run.
LEMMA IncomingOK ==
  ASSUME Inv, blocks < MaxBlocks
  PROVE  Incoming \in Blk
<1>1. blocks \in Nat /\ MaxBlocks \in Nat /\ FragSize \in Nat \ {0} /\ blocks + 1 <= MaxBlocks
  BY DelayLineAssumption, SMT DEF Inv
<1>2. blocks * FragSize \in Nat /\ blocks * FragSize + FragSize <= MaxBlocks * FragSize /\ MaxBlocks * FragSize \in Nat
  BY <1>1, SMT
<1>3. \A i \in 0..FragSize - 1 : blocks * FragSize + i + 1 \in Sample
  <2> DEFINE x == blocks * FragSize
             y == MaxBlocks * FragSize
  <2>1. x \in Nat /\ y \in Nat /\ x + FragSize <= y
    BY <1>2
  <2> HIDE DEF x, y
  <2>2. \A i \in 0..FragSize - 1 : x + i + 1 \in 0..y
    BY <1>1, <2>1, SMT
  <2> QED BY <2>2 DEF x, y, Sample
<1>4. Silent(FragSize) \in Blk
  BY ConstantsOK, SilentOK, SMT
<1> QED BY <1>3, <1>4 DEF Incoming, Blk

\* A block goes through the delay line: what the invariant and the refinement need of it.
LEMMA UpdateStep ==
  ASSUME Supported, Inv, Update, NEW d, d = change_delay(db, delay + conf.extra)
  PROVE  /\ DbOK(d) /\ DbOK(db') /\ in' \in Blk /\ out' \in Blk
         /\ Through(d, in', db', out')
         /\ db'.maxdelay = db.maxdelay
         /\ db'.curdelay = delay + conf.extra
         /\ d.curdelay = db.curdelay => d = db
         /\ d.curdelay > db.curdelay => Contents(d) = Silent(d.curdelay)
<1>1. DbOK(db) /\ delay + conf.extra \in Nat
  BY ConfOK, SMT DEF Inv
<1>2. /\ DbOK(d) /\ d.maxdelay = db.maxdelay
      /\ d.curdelay = IF delay + conf.extra <= db.maxdelay THEN delay + conf.extra ELSE db.curdelay
      /\ d.curdelay = db.curdelay => d = db
      /\ d.curdelay > db.curdelay => Contents(d) = Silent(d.curdelay)
  BY <1>1, ChangeOK
<1>3. d.curdelay = delay + conf.extra
  <2>1. /\ conf.extra \in Nat /\ conf.maxdelay \in Int
    BY ConfOK DEF Inv
  <2>2. CASE conf.maxdelay = -1
    BY <1>2, <2>2 DEF Inv
  <2>3. CASE conf.maxdelay # -1
    <3>1. delay + conf.extra <= db.maxdelay
      BY <2>1, <2>3, SMT DEF Inv
    <3> QED BY <1>2, <3>1
  <2> QED BY <2>2, <2>3
<1>4. in' \in Blk
  BY IncomingOK DEF Update
<1>5. db' = UpdatedDb(d, in') /\ out' = UpdatedOut(d, in')
  BY DEF Update
<1>6. DbOK(db') /\ Through(d, in', db', out')
  BY <1>2, <1>4, <1>5, UpdateOK
<1>7. out' \in Blk
  <2>1. Contents(d) \in [0..d.curdelay - 1 -> Sample] /\ d.curdelay \in Nat
    BY <1>2, ContentsType, DbFields DEF DbOK
  <2>2. \A i \in 0..FragSize - 1 : IF i < d.curdelay THEN i \in 0..d.curdelay - 1
                                                      ELSE i - d.curdelay \in 0..FragSize - 1
    BY <2>1, ConstantsOK, SMT
  <2>3. \A i \in 0..FragSize - 1 :
          (IF i < d.curdelay THEN Contents(d)[i] ELSE in'[i - d.curdelay]) \in Sample
    BY <1>4, <2>1, <2>2 DEF Blk
  <2> QED BY <1>6, <2>3 DEF Through, Blk
<1>8. db'.maxdelay = d.maxdelay
  <2>1. d.n_fbufs \in Nat /\ d \in DbType
    BY <1>2, DbFields DEF DbOK
  <2> QED BY <1>5, <2>1 DEF UpdatedDb, LongDb, ShortDb, Stored, DbType
<1> QED BY <1>2, <1>3, <1>4, <1>6, <1>7, <1>8 DEF Through

LEMMA NextInv ==
  ASSUME Supported, Inv, [Next]_vars
  PROVE  Inv'
<1>1. CASE UNCHANGED vars
  BY <1>1 DEF Inv, vars
<1>2. ASSUME NEW new \in 0..conf.maxdelay, set_delay(new)
      PROVE  Inv'
  <2>1. new \in Nat /\ new <= conf.maxdelay /\ conf.maxdelay # -1
    BY ConfOK, SMT DEF Inv
  <2> QED BY <1>2, <2>1 DEF Inv, set_delay
<1>3. CASE toggle_mute
  BY <1>3 DEF Inv, toggle_mute
<1>4. CASE Update
  <2> DEFINE d == change_delay(db, delay + conf.extra)
  <2>1. /\ DbOK(d) /\ DbOK(db') /\ in' \in Blk /\ out' \in Blk /\ Through(d, in', db', out')
        /\ db'.maxdelay = db.maxdelay /\ db'.curdelay = delay + conf.extra
    <3> HIDE DEF d
    <3> QED BY <1>4, UpdateStep DEF d
  <2>2. conf' = conf /\ delay' = delay /\ muted' = muted
    BY <1>4 DEF Update
  <2>3. blocks' \in 0..MaxBlocks
    BY <1>4, DelayLineAssumption, SMT DEF Inv, Update
  <2>4. stale' \in Nat
    <3>1. d.curdelay \in Nat /\ db.curdelay \in Nat
      <4> HIDE DEF d
      <4> QED BY <2>1, DbFields DEF Inv, DbOK
    <3>2. stale' = CASE d.curdelay = db.curdelay -> Less(stale)
                     [] d.curdelay > db.curdelay -> 0
                     [] d.curdelay < db.curdelay -> d.curdelay
      BY <1>4, Zenon DEF Update
    <3>3. Less(stale) \in Nat
      BY ConstantsOK, SMT DEF Less, Inv
    <3> HIDE DEF d
    <3>4. d.curdelay = db.curdelay \/ d.curdelay > db.curdelay \/ d.curdelay < db.curdelay
      BY <3>1, SMT
    <3> QED BY <3>1, <3>2, <3>3, <3>4
  <2> HIDE DEF d
  <2> QED BY <2>1, <2>2, <2>3, <2>4 DEF Inv
<1>5. CASE Pause
  <2>1. blocks' \in 0..MaxBlocks
    BY <1>5, DelayLineAssumption, SMT DEF Inv, Pause
  <2>2. stale' \in Nat
    <3>1. db.curdelay \in Nat
      BY DbFields DEF Inv, DbOK
    <3> QED BY <1>5, <3>1, ConstantsOK, SMT DEF Pause
  <2> QED BY <1>5, <2>1, <2>2 DEF Inv, Pause
<1>6. CASE Done
  BY <1>6 DEF Inv, Done, vars
<1> QED BY <1>1, <1>2, <1>3, <1>4, <1>5, <1>6 DEF Next

\* The inductive invariant: the layout in use fits the buffers and makes the delay asked for.
THEOREM Invariant ==
  ASSUME Supported
  PROVE  Spec => []Inv
<1>1. Init => Inv
  BY InitOK
<1>2. Inv /\ [Next]_vars => Inv'
  BY NextInv
<1> QED BY <1>1, <1>2, PTL DEF Spec

\* The buffers allocated at the start are large enough for every delay, and the ring index
\* and the rest stay within them (delay.c:337), for every fragment size and maximum.
THEOREM Fits ==
  ASSUME Supported
  PROVE  Spec => []BuffersFit
<1>1. ASSUME Inv PROVE BuffersFit
  <2>1. db \in DbType /\ Layout(db)
    BY <1>1 DEF Inv, DbOK
  <2>2. /\ db.n_fbufs \in Nat /\ db.n_fbufs_cap \in Nat /\ db.n_rest \in Nat /\ db.n_rest <= FragSize
    BY <2>1, DbFields, ConstantsOK, SMT
  <2>3. db.n_fbufs <= db.n_fbufs_cap
    BY <2>1, <2>2, SMT DEF Layout
  <2> QED BY <2>1, <2>2, <2>3 DEF Layout, BuffersFit
<1> QED BY <1>1, Invariant, PTL

\* Samples stay samples and the indices stay in range.
THEOREM TypeCorrect ==
  ASSUME Supported
  PROVE  Spec => []TypeOK
<1>1. ASSUME Inv PROVE TypeOK
  <2>1. db \in DbType /\ Layout(db)
    BY <1>1 DEF Inv, DbOK
  <2>2. db.curbuf \in 0..(IF db.n_fbufs > 0 THEN db.n_fbufs - 1 ELSE 1)
    <3>1. db.n_fbufs = 0 \/ db.n_fbufs > 0
      BY <2>1, DbFields, SMT
    <3>2. ~(0 > 0)
      BY SMT
    <3> QED BY <2>1, <3>1, <3>2 DEF Layout
  <2>3. \A b \in DOMAIN db.fbufs : db.fbufs[b] \in [0..FragSize - 1 -> Sample]
    BY <2>1 DEF Layout, Blk
  <2> QED BY <1>1, <2>1, <2>2, <2>3, DbFields DEF Inv, TypeOK, Blk
<1> QED BY <1>1, Invariant, PTL

\* Every block is delayed by exactly what was asked for (delay.c:285, bfrun.c:485): no request is
\* refused or clipped.
THEOREM Requested ==
  ASSUME Supported
  PROVE  Spec => AsRequested
<1>1. Inv /\ [Next]_vars => [Update => db'.curdelay = delay + conf.extra]_vars
  BY UpdateStep
<1> QED BY <1>1, Invariant, PTL DEF Spec, AsRequested

\* The ring, the rest and the short buffers implement a queue of `delay' samples, whatever the
\* sequence of delays (delay.c:225-:335).
THEOREM Implements ==
  ASSUME Supported
  PROVE  Spec => QueueSpec
<1>1. Init => Queue!Init
  <2> SUFFICES ASSUME Init PROVE Queue!Init
    OBVIOUS
  <2>1. DbOK(db) /\ Contents(db) = Silent(db.curdelay)
    BY InitOK DEF Inv
  <2>2. db.curdelay \in Nat
    BY <2>1, DbFields DEF DbOK
  <2> QED BY <2>1, <2>2 DEF Init, Queue!Init, Queue!Silent, Silent
<1>2. ASSUME Inv, [Next]_vars
      PROVE  [Queue!Next]_(Queue!vars)
  <2>1. CASE Update
    <3> DEFINE d == change_delay(db, delay + conf.extra)
               D == d.curdelay
    <3>1. /\ DbOK(d) /\ DbOK(db') /\ in' \in Blk /\ out' \in Blk /\ Through(d, in', db', out')
          /\ D = db.curdelay => d = db
          /\ D > db.curdelay => Contents(d) = Silent(D)
      <4> HIDE DEF d
      <4> QED BY <1>2, <2>1, UpdateStep DEF d
    <3> HIDE DEF d
    <3>2. /\ db'.curdelay = D
          /\ out' = [i \in 0..FragSize - 1 |-> Queue!Stream(Contents(d), D, in', i)]
          /\ Contents(db)' = [k \in 0..D - 1 |-> Queue!Stream(Contents(d), D, in', k + FragSize)]
      <4>1. Contents(db)' = Contents(db')
        BY Zenon DEF Contents
      <4> HIDE DEF D
      <4>3. /\ db'.curdelay = D
            /\ out' = [i \in 0..FragSize - 1 |-> IF i < D THEN Contents(d)[i] ELSE in'[i - D]]
            /\ Contents(db') = [k \in 0..D - 1 |-> IF k + FragSize < D THEN Contents(d)[k + FragSize]
                                                  ELSE in'[k + FragSize - D]]
        BY <3>1 DEF Through, D
      <4>4. out' = [i \in 0..FragSize - 1 |-> Queue!Stream(Contents(d), D, in', i)]
        BY <4>3 DEF Queue!Stream
      <4>5. Contents(db') = [k \in 0..D - 1 |-> Queue!Stream(Contents(d), D, in', k + FragSize)]
        <5>1. D \in Nat
          BY <3>1, DbFields DEF DbOK, D
        <5>2. \A k \in 0..D - 1 : k + FragSize - D = (k + FragSize) - D
          BY <5>1, ConstantsOK, SMT
        <5>3. \A k \in 0..D - 1 :
                Queue!Stream(Contents(d), D, in', k + FragSize) =
                  IF k + FragSize < D THEN Contents(d)[k + FragSize] ELSE in'[k + FragSize - D]
          BY <5>2 DEF Queue!Stream
        <5> QED BY <4>3, <5>3
      <4> QED BY <4>1, <4>3, <4>4, <4>5
    <3>3. D \in Nat /\ db.curdelay \in Nat
      BY <1>2, <3>1, DbFields DEF Inv, DbOK
    <3>4. Contents(db)' \in [0..D - 1 -> Sample]
      BY <3>1, <3>2, ContentsType
    <3>5. CASE D = db.curdelay
      BY <3>1, <3>2, <3>3, <3>5 DEF Queue!Next, Queue!Same, Queue!Through, Queue!Block, Blk
    <3>6. CASE D > db.curdelay
      BY <3>1, <3>2, <3>3, <3>6 DEF Queue!Next, Queue!Grow, Queue!Through, Queue!Block, Queue!Silent, Silent, Blk
    <3>7. CASE D < db.curdelay
      <4>1. \A i \in 0..FragSize - 1 : i >= D => out'[i] = in'[i - D]
        <5>1. \A i \in 0..FragSize - 1 : i >= D => ~(i < D)
          BY <3>3, ConstantsOK, SMT
        <5> QED BY <3>2, <5>1 DEF Queue!Stream
      <4>2. \A k \in 0..D - 1 : k + FragSize >= D => Contents(db)'[k] = in'[k + FragSize - D]
        <5>1. \A k \in 0..D - 1 : k + FragSize >= D => ~(k + FragSize < D)
          BY <3>3, ConstantsOK, SMT
        <5> DEFINE q == Contents(db)'
        <5>2. q = [k \in 0..D - 1 |-> Queue!Stream(Contents(d), D, in', k + FragSize)]
          BY <3>2
        <5> HIDE DEF q, D
        <5>3. \A k \in 0..D - 1 : k + FragSize >= D => q[k] = in'[k + FragSize - D]
          <6>1. \A k \in 0..D - 1 : k + FragSize - D = (k + FragSize) - D
            BY <3>3, ConstantsOK, SMT
          <6>2. \A k \in 0..D - 1 : q[k] = Queue!Stream(Contents(d), D, in', k + FragSize)
            BY <5>2
          <6> QED BY <5>1, <6>1, <6>2 DEF Queue!Stream
        <5> QED BY <5>3 DEF q
      <4> QED BY <3>1, <3>2, <3>3, <3>4, <3>7, <4>1, <4>2 DEF Queue!Next, Queue!Shrink, Queue!Block, Blk
    <3>8. D = db.curdelay \/ D > db.curdelay \/ D < db.curdelay
      BY <3>3, SMT
    <3> QED BY <3>5, <3>6, <3>7, <3>8
  <2>2. CASE UNCHANGED <<db, in, out>>
    BY <2>2 DEF Queue!vars, Contents
  <2>3. Update \/ UNCHANGED <<db, in, out>>
    BY <1>2 DEF Next, vars, set_delay, toggle_mute, Pause, Done
  <2> QED BY <2>1, <2>2, <2>3
<1> QED BY <1>1, <1>2, Invariant, PTL DEF Spec, QueueSpec, Queue!Spec

-----------------------------------------------------------------------------
(* Samples leave on time.  What is still in the queue is judged by when it will leave. *)

\* x is sample number n of what the device delivered, or silence
OnTimeOrSilent(x, n) == x \in {0, n}

\* a queue of D samples, of which the first s may be out of order, when the next block starts
\* after sample number `at'
Punctual(q, D, s, at) == \A k \in 0..D - 1 : k >= s => OnTimeOrSilent(q[k], at + k + 1 - D)

Timely == Punctual(Contents(db), db.curdelay, Less(stale), blocks * FragSize)

LEMMA LessOK ==
  ASSUME NEW n \in Nat
  PROVE  /\ Less(n) \in Nat
         /\ \A k \in Nat : k >= Less(n) => k + FragSize >= n
         /\ Less(n + FragSize) = n
  BY ConstantsOK, SMT DEF Less

\* One block through a punctual queue: what leaves and what stays are on time.
LEMMA ThroughPunctual ==
  ASSUME NEW q, NEW D \in Nat, NEW s \in Nat, NEW at \in Nat, Punctual(q, D, s, at),
         NEW block, \A i \in 0..FragSize - 1 : OnTimeOrSilent(block[i], at + i + 1),
         NEW left, left = [i \in 0..FragSize - 1 |-> IF i < D THEN q[i] ELSE block[i - D]],
         NEW kept, kept = [k \in 0..D - 1 |->
                             IF k + FragSize < D THEN q[k + FragSize] ELSE block[k + FragSize - D]]
  PROVE  /\ \A i \in 0..FragSize - 1 : i >= s => OnTimeOrSilent(left[i], at + i + 1 - D)
         /\ Punctual(kept, D, Less(s), at + FragSize)
<1>1. FragSize \in Nat \ {0}
  BY ConstantsOK
<1>2. ASSUME NEW i \in 0..FragSize - 1, i >= s
      PROVE  OnTimeOrSilent(left[i], at + i + 1 - D)
  <2>1. CASE i < D
    <3>1. i \in 0..D - 1 /\ left[i] = q[i]
      BY <2>1
    <3> QED BY <1>2, <3>1 DEF Punctual
  <2>2. CASE ~(i < D)
    <3>1. i - D \in 0..FragSize - 1 /\ at + (i - D) + 1 = at + i + 1 - D
      BY <1>1, <2>2, SMT
    <3>2. left[i] = block[i - D]
      BY <2>2
    <3> QED BY <3>1, <3>2
  <2> QED BY <2>1, <2>2
<1>3. ASSUME NEW k \in 0..D - 1, k >= Less(s)
      PROVE  OnTimeOrSilent(kept[k], (at + FragSize) + k + 1 - D)
  <2>1. CASE k + FragSize < D
    <3>1. /\ k + FragSize \in 0..D - 1 /\ k + FragSize >= s
          /\ at + (k + FragSize) + 1 - D = (at + FragSize) + k + 1 - D
      BY <1>1, <1>3, <2>1, LessOK, SMT
    <3>2. kept[k] = q[k + FragSize]
      BY <2>1
    <3> QED BY <3>1, <3>2 DEF Punctual
  <2>2. CASE ~(k + FragSize < D)
    <3>1. /\ k + FragSize - D \in 0..FragSize - 1
          /\ at + (k + FragSize - D) + 1 = (at + FragSize) + k + 1 - D
      BY <1>1, <2>2, SMT
    <3>2. kept[k] = block[k + FragSize - D]
      BY <2>2
    <3> QED BY <3>1, <3>2
  <2> QED BY <2>1, <2>2
<1> QED BY <1>2, <1>3 DEF Punctual

LEMMA SilentPunctual ==
  ASSUME NEW D \in Nat, NEW s, NEW at
  PROVE  Punctual(Silent(D), D, s, at)
  BY DEF Punctual, Silent, OnTimeOrSilent

LEMMA IncomingOnTime ==
  ASSUME Inv
  PROVE  \A i \in 0..FragSize - 1 : OnTimeOrSilent(Incoming[i], blocks * FragSize + i + 1)
  BY DEF Incoming, Silent, OnTimeOrSilent

LEMMA NextBlock ==
  ASSUME Inv, blocks' = blocks + 1
  PROVE  /\ blocks * FragSize \in Nat
         /\ blocks' * FragSize = blocks * FragSize + FragSize
         /\ (blocks' - 1) * FragSize = blocks * FragSize
<1>1. blocks \in Nat /\ FragSize \in Nat
  BY ConstantsOK, DelayLineAssumption, SMT DEF Inv
<1>2. blocks' - 1 = blocks /\ blocks * FragSize \in Nat
  BY <1>1, SMT
<1>3. (blocks + 1) * FragSize = blocks * FragSize + FragSize
  BY <1>1, SMT
<1> QED BY <1>2, <1>3

\* A delay that stays, grows or shrinks: only a shorter one disorders what waits, and as many
\* samples of it as the delay is long.
LEMMA UpdateTimely ==
  ASSUME Supported, Inv, Timely, Update
  PROVE  Timely' /\ OnTime'
<1> DEFINE d == change_delay(db, delay + conf.extra)
           D == d.curdelay
           at == blocks * FragSize
           s == CASE D = db.curdelay -> Less(stale) [] D > db.curdelay -> 0 [] D < db.curdelay -> D
<1>1. /\ DbOK(d) /\ DbOK(db') /\ in' \in Blk /\ out' \in Blk /\ Through(d, in', db', out')
      /\ D = db.curdelay => d = db
      /\ D > db.curdelay => Contents(d) = Silent(D)
  <2> HIDE DEF d
  <2> QED BY UpdateStep DEF d
<1>2. stale' = s /\ in' = Incoming /\ blocks' = blocks + 1
  BY Zenon DEF Update
<1> HIDE DEF d
<1>3. D \in Nat /\ db.curdelay \in Nat /\ stale \in Nat /\ Less(stale) \in Nat
  BY <1>1, DbFields, LessOK DEF Inv, DbOK
<1>4. /\ D = db.curdelay \/ D > db.curdelay \/ D < db.curdelay
      /\ D = db.curdelay => s = Less(stale)
      /\ D > db.curdelay => s = 0
      /\ D < db.curdelay => s = D
  <2> HIDE DEF D
  <2> QED BY <1>3, SMT
<1>5. s \in Nat
  <2> HIDE DEF s, D
  <2> QED BY <1>3, <1>4
<1>6. at \in Nat /\ blocks' * FragSize = at + FragSize /\ (blocks' - 1) * FragSize = at
  BY <1>2, NextBlock
<1>7. Punctual(Contents(d), D, s, at)
  <2>1. CASE D = db.curdelay
    BY <1>1, <1>4, <2>1 DEF Timely
  <2>2. CASE D > db.curdelay
    BY <1>1, <1>3, <2>2, SilentPunctual
  <2>3. CASE D < db.curdelay
    <3> HIDE DEF s, D, at
    <3>1. \A k \in 0..D - 1 : ~(k >= s)
      BY <1>3, <1>4, <2>3, SMT
    <3> QED BY <3>1 DEF Punctual
  <2> HIDE DEF s, D, at
  <2> QED BY <1>4, <2>1, <2>2, <2>3
<1>8. /\ db'.curdelay = D
      /\ out' = [i \in 0..FragSize - 1 |-> IF i < D THEN Contents(d)[i] ELSE in'[i - D]]
      /\ Contents(db') = [k \in 0..D - 1 |-> IF k + FragSize < D THEN Contents(d)[k + FragSize]
                                            ELSE in'[k + FragSize - D]]
  BY <1>1 DEF Through
<1>9. \A i \in 0..FragSize - 1 : OnTimeOrSilent(in'[i], at + i + 1)
  BY <1>2, IncomingOnTime
<1>10. /\ \A i \in 0..FragSize - 1 : i >= s => OnTimeOrSilent(out'[i], at + i + 1 - D)
       /\ Punctual(Contents(db'), D, Less(s), at + FragSize)
  <2> DEFINE q == Contents(d)
             left == out'
             kept == Contents(db')
             block == in'
  <2>1. /\ left = [i \in 0..FragSize - 1 |-> IF i < D THEN q[i] ELSE block[i - D]]
        /\ kept = [k \in 0..D - 1 |-> IF k + FragSize < D THEN q[k + FragSize] ELSE block[k + FragSize - D]]
        /\ \A i \in 0..FragSize - 1 : OnTimeOrSilent(block[i], at + i + 1)
        /\ Punctual(q, D, s, at)
    BY <1>7, <1>8, <1>9
  <2> HIDE DEF q, left, kept, block, D, s, at
  <2>2. /\ \A i \in 0..FragSize - 1 : i >= s => OnTimeOrSilent(left[i], at + i + 1 - D)
        /\ Punctual(kept, D, Less(s), at + FragSize)
    BY <1>3, <1>5, <1>6, <2>1, ThroughPunctual
  <2> QED BY <2>2 DEF left, kept
<1>11. Timely'
  <2>1. Timely' = Punctual(Contents(db'), db'.curdelay, Less(stale'), blocks' * FragSize)
    BY Zenon DEF Timely, Punctual, Contents, Less
  <2> HIDE DEF s, D, at
  <2> QED BY <1>2, <1>6, <1>8, <1>10, <2>1
<1>12. OnTime'
  <2>1. OnTime' = \A i \in 0..FragSize - 1 :
                    i >= stale' => OnTimeOrSilent(out'[i], (blocks' - 1) * FragSize + i + 1 - db'.curdelay)
    BY Zenon DEF OnTime, OnTimeOrSilent
  <2> HIDE DEF s, D, at
  <2> QED BY <1>2, <1>6, <1>8, <1>10, <2>1
<1> QED BY <1>11, <1>12

\* While a shared input is muted its queue waits: all that is in it will be late.
LEMMA PauseTimely ==
  ASSUME Supported, Inv, Pause
  PROVE  Timely' /\ OnTime'
<1>1. stale' = FragSize + db.curdelay /\ UNCHANGED <<db, out>>
  BY DEF Pause
<1>2. db.curdelay \in Nat /\ FragSize \in Nat
  BY DbFields, ConstantsOK DEF Inv, DbOK
<1>3. Less(stale') = db.curdelay
  <2>1. stale' = db.curdelay + FragSize
    BY <1>1, <1>2, SMT
  <2> QED BY <1>2, <2>1, LessOK
<1>4. \A k \in 0..db.curdelay - 1 : ~(k >= db.curdelay)
  BY <1>2, SMT
<1>5. \A i \in 0..FragSize - 1 : ~(i >= stale')
  BY <1>1, <1>2, SMT
<1>6. Timely'
  <2>1. Less(stale)' = Less(stale') /\ db' = db
    BY <1>1, Zenon DEF Less
  <2> QED BY <1>3, <1>4, <2>1 DEF Timely, Punctual
<1> QED BY <1>5, <1>6 DEF OnTime

\* A sample leaves `curdelay' samples after it came (dai.c:213, bfrun.c:1451), whatever the fragment
\* size and the sequence of delays, except for as many samples as the delay after it was
\* shortened or after a shared input was muted.
THEOREM Timing ==
  ASSUME Supported
  PROVE  Spec => []OnTime
<1>1. Init => Timely /\ OnTime
  <2> SUFFICES ASSUME Init PROVE Timely /\ OnTime
    OBVIOUS
  <2>1. DbOK(db) /\ Contents(db) = Silent(db.curdelay)
    BY InitOK DEF Inv
  <2>2. db.curdelay \in Nat
    BY <2>1, DbFields DEF DbOK
  <2> QED BY <2>1, <2>2, SilentPunctual DEF Init, Timely, OnTime, Silent
<1>2. Inv /\ (Timely /\ OnTime) /\ [Next]_vars => (Timely /\ OnTime)'
  <2> SUFFICES ASSUME Inv, Timely, OnTime, [Next]_vars PROVE Timely' /\ OnTime'
    OBVIOUS
  <2>1. CASE UNCHANGED <<db, out, blocks, stale>>
    BY <2>1 DEF Timely, Punctual, Contents, Less, OnTime
  <2>2. Update \/ Pause \/ UNCHANGED <<db, out, blocks, stale>>
    BY DEF Next, vars, set_delay, toggle_mute, Done
  <2> QED BY <2>1, <2>2, UpdateTimely, PauseTimely
<1> QED BY <1>1, <1>2, Invariant, PTL DEF Spec
=============================================================================
