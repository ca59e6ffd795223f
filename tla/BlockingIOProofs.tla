-------------------------- MODULE BlockingIOProofs --------------------------
(***************************************************************************)
(* The loops of dai_input() and dai_output() with any number of devices of *)
(* any size: what they count (TypeOK), and what a caller of                *)
(* dai_subdev_command() gets from the device it asked, next to others and  *)
(* alone (AnswersMatch).                                                   *)
(*                                                                         *)
(* Three things make these inductive.  While a loop is in its select() or  *)
(* serves what came of it, devsleft is the number of the devices it waits  *)
(* for, and what it serves is a command or one of those (Loop): a device   *)
(* that must be read unready keeps that only if there is no other, hence   *)
(* PolledAlone.  A caller has the token of its direction until it returns, *)
(* so there is one question or answer in each pipe, and it is that         *)
(* caller's (Exchange); the message is its own as long as nobody else      *)
(* calls (Lone).  And a loop that is about to serve a command finds one,   *)
(* since only it takes them (HasQuestion).                                 *)
(***************************************************************************)
EXTENDS BlockingIO, FiniteSetTheorems, NaturalsInduction, WellFoundedInduction, TLAPS

\* One period of a device, in frames and in bytes.
LEMMA Sizes ==
  ASSUME conf \in Confs, NEW list \in {conf.ins, conf.outs}
  PROVE  /\ conf.period \in Nat \ {0}
         /\ Len(list) \in Nat /\ DOMAIN list = 1..Len(list)
         /\ \A n \in DOMAIN list :
              /\ list[n].len \in Nat /\ list[n].skip \in Nat /\ list[n].block \in Nat
              /\ FrameSize(list[n]) \in Nat \ {0}
              /\ BufSize(list[n]) \in Nat \ {0}
              /\ BufSize(list[n]) = FrameSize(list[n]) * conf.period
<1>1. \A a, b \in Nat \ {0} : a * b \in Nat \ {0}
  BY SMT
<1>2. /\ conf.period \in Nat \ {0}
      /\ Len(list) \in Nat /\ DOMAIN list = 1..Len(list)
      /\ \A n \in DOMAIN list : DeviceOK(list[n])
  BY ConfsAssumption
<1>3. ASSUME NEW n \in DOMAIN list
      PROVE  /\ list[n].len \in Nat /\ list[n].skip \in Nat /\ list[n].block \in Nat
             /\ FrameSize(list[n]) \in Nat \ {0}
             /\ BufSize(list[n]) \in Nat \ {0}
             /\ BufSize(list[n]) = FrameSize(list[n]) * conf.period
  <2>1. DeviceOK(list[n])
    BY <1>2
  <2>2. Open(list[n]) \in Nat \ {0}
    BY <2>1 DEF Open, DeviceOK
  <2>3. FrameSize(list[n]) \in Nat \ {0}
    BY <1>1, <2>1, <2>2 DEF FrameSize, DeviceOK
  <2> QED BY <1>1, <1>2, <2>1, <2>3 DEF BufSize, DeviceOK
<1> QED BY <1>2, <1>3

\* The first descriptor that is ready is one of those that are.
LEMMA FirstReady ==
  ASSUME NEW ready, ready \subseteq Nat, ready # {}
  PROVE  NextFd(ready) \in ready
<1> DEFINE less == {pair \in Nat \X Nat : pair[1] < pair[2]}
<1>1. IsWellFoundedOn(less, Nat)
  BY NatLessThanWellFounded DEF OpToRel
<1>2. \A x, y \in Nat : <<x, y>> \notin less => y <= x
  OBVIOUS
<1> HIDE DEF less
<1>3. PICK n \in ready : \A k \in ready : <<k, n>> \notin less
  BY <1>1, WFMin
<1>4. \A k \in ready : n <= k
  BY <1>2, <1>3
<1> QED BY <1>4 DEF NextFd

\* A part of a period of whole frames has no more frames than the period.
LEMMA WholeFrames ==
  ASSUME NEW f \in Nat \ {0}, NEW p \in Nat
  PROVE  /\ \A a \in 0..f * p : a \div f \in 0..p
         /\ \A a \in 0..p : a * f \in 0..f * p
<1>1. ASSUME NEW a \in 0..f * p PROVE a \div f \in 0..p
  <2>1. a \div f \in Nat /\ a = (a \div f) * f + (a % f) /\ a % f \in 0..f - 1 /\ f * p \in Nat
    BY SMTT(20)
  <2>2. ASSUME a \div f > p PROVE FALSE
    <3>1. (a \div f) * f >= (p + 1) * f
      BY <2>1, <2>2, SMTT(20)
    <3>2. (p + 1) * f = f * p + f
      BY SMT
    <3> QED BY <2>1, <3>1, <3>2, SMT
  <2> QED BY <2>1, <2>2, SMT
<1>2. ASSUME NEW a \in 0..p PROVE a * f \in 0..f * p
  BY SMTT(20)
<1> QED BY <1>1, <1>2

-----------------------------------------------------------------------------
\* The loops count the devices they still wait for; what they serve in a round is a
\* command or one of these.
Loop(d, waiting) ==
  d.pc \in {"select", "serve", "eof"} =>
    /\ d.devsleft = Cardinality(waiting)
    /\ d.pc # "select" => d.ready \subseteq {Params} \cup waiting

InState ==
  [pc : {"begin", "select", "serve", "eof", "exit", "stopped"}, idx : Nat, cur : 0..1,
   rfds : SUBSET DOMAIN conf.ins, ready : SUBSET (0..Len(conf.ins)),
   devsleft : 0..Len(conf.ins), left : [DOMAIN conf.ins -> Nat], pos : [DOMAIN conf.ins -> Int]]
InOK ==
  /\ inp \in InState
  /\ \A n \in DOMAIN conf.ins : inp.left[n] <= BufSize(conf.ins[n])
  /\ Loop(inp, inp.rfds)

InFields ==
  [pc : {"begin", "select", "serve", "eof", "exit", "stopped"}, idx : Nat, cur : 0..1,
   rfds : SUBSET DOMAIN conf.ins, ready : SUBSET (0..Len(conf.ins)),
   devsleft : Int, left : [DOMAIN conf.ins -> Nat], pos : [DOMAIN conf.ins -> Int]]
InTypes ==
  /\ inp \in InFields
  /\ \A n \in DOMAIN conf.ins : inp.left[n] <= BufSize(conf.ins[n])

OutState ==
  [pc : {"begin", "select", "serve", "exit", "ended"}, idx : Nat, cur : 0..1,
   wfds : SUBSET DOMAIN conf.outs, ready : SUBSET (0..Len(conf.outs)),
   devsleft : 0..Len(conf.outs), fill : Nat, islast : BOOLEAN,
   left : [DOMAIN conf.outs -> Nat], size : [DOMAIN conf.outs -> Nat]]
OutOK ==
  /\ out \in OutState
  /\ \A n \in DOMAIN conf.outs : /\ out.left[n] <= BufSize(conf.outs[n])
                                 /\ out.size[n] <= BufSize(conf.outs[n])
  /\ Loop(out, out.wfds)

EndOK ==
  /\ ca \in [frames_left : -1..conf.period, lastbuf_index : Nat]
  /\ ca.lastbuf_index <= inp.idx

\* Who has asked holds the token of the direction until it returns: one question is on its way,
\* or its answer.
Block == conf.clients \X (1..conf.asks)
Question == IO \X Nat
Answer == {<<>>} \cup Question
Text == {Free, Blank} \cup Question
Pipe == [synch : 0..1, s : Seq(Question), r : Seq(Question)]
Client == [pc : {"idle", "freed", "cleared", "asked", "answered", "read"}, io : IO, dev : Nat,
           asks : 0..conf.asks, ans : Answer, handed : {Null} \cup Block]
Msg == [ptr : {Null} \cup Block, heap : [Block -> Text], last : {0} \cup conf.clients,
        alone : BOOLEAN]
CallTypes ==
  pipe \in [IO -> Pipe] /\ client \in [conf.clients -> Client] /\ msg \in Msg

Holds(c) == client[c].pc \in {"asked", "answered"} \/ (client[c].pc = "read" /\ ~Refuses(c))
UnderWay(c) ==
  LET question == <<Asked(c)>>
      p == pipe[client[c].io]
  IN  /\ p.synch = 0
      /\ client[c].pc # "read" => ~Refuses(c)
      /\ client[c].pc = "asked" => \/ p.s = question /\ p.r = <<>>
                                   \/ p.s = <<>> /\ p.r = question
      /\ client[c].pc = "answered" => p.s = <<>> /\ p.r = question
      /\ client[c].pc = "read" => p.s = <<>> /\ p.r = <<>>
Told(c) ==
  /\ client[c].pc # "idle" => client[c].asks > 0
  /\ client[c].pc \in {"answered", "read"} \/ (client[c].pc = "idle" /\ client[c].asks > 0)
       => client[c].ans = Asked(c)
Exchange ==
  /\ CallTypes
  /\ \A c \in conf.clients : Told(c)
  /\ \A c, d \in conf.clients : Holds(c) /\ Holds(d) /\ client[c].io = client[d].io => c = d
  /\ \A c \in conf.clients : Holds(c) => UnderWay(c)
  /\ \A io \in IO : pipe[io].synch = 1 => pipe[io].s = <<>> /\ pipe[io].r = <<>>

\* As long as no call overlaps the last one, msgstr is the block of that call from the moment
\* there is one, and nobody frees it.
Message(c) ==
  /\ client[c].pc = "answered" => msg.ptr = Own(c) /\ msg.heap[Own(c)] # Free
  /\ client[c].pc = "read" => msg.ptr = Own(c) /\ msg.heap[Own(c)] = Asked(c)
  /\ client[c].pc = "idle" /\ client[c].asks > 0 =>
       client[c].handed = Own(c) /\ msg.heap[Own(c)] = Asked(c)
Lone ==
  msg.alone => \A c \in conf.clients : IF c = msg.last THEN Message(c) ELSE client[c].pc = "idle"

\* A loop that is about to serve a command finds one.
Serving(d) == d.pc \in {"serve", "eof"} /\ Params \in d.ready
HasQuestion(d, io) == Serving(d) => pipe[io].s # <<>>

Inv ==
  /\ conf \in Confs /\ InTypes /\ (PolledAlone => InOK) /\ OutOK /\ EndOK
  /\ Exchange /\ HasQuestion(inp, "in") /\ HasQuestion(out, "out") /\ Lone

-----------------------------------------------------------------------------
\* Counting the devices still to be served.
LEMMA Counts ==
  ASSUME conf \in Confs, NEW list \in {conf.ins, conf.outs},
         NEW W \in SUBSET DOMAIN list
  PROVE  /\ Cardinality(W) \in 0..Len(list)
         /\ Cardinality(DOMAIN list) = Len(list)
         /\ \A n \in W : Cardinality(W \ {n}) = Cardinality(W) - 1 /\ Cardinality(W) > 0
<1>1. Len(list) \in Nat /\ DOMAIN list = 1..Len(list)
  BY Sizes
<1>2. IsFiniteSet(DOMAIN list) /\ Cardinality(DOMAIN list) = Len(list)
  BY <1>1, FS_Interval, SMT
<1>3. IsFiniteSet(W) /\ Cardinality(W) <= Len(list)
  BY <1>2, FS_Subset
<1>4. Cardinality(W) \in Nat
  BY <1>3, FS_CardinalityType
<1>5. ASSUME NEW n \in W PROVE Cardinality(W \ {n}) = Cardinality(W) - 1 /\ Cardinality(W) > 0
  <2>1. Cardinality(W \ {n}) = Cardinality(W) - 1 /\ IsFiniteSet(W \ {n})
    BY <1>3, FS_RemoveElement
  <2>2. Cardinality(W \ {n}) \in Nat
    BY <2>1, FS_CardinalityType
  <2> QED BY <1>4, <2>1, <2>2, SMT
<1>6. Cardinality(W) \in 0..Len(list)
  BY <1>1, <1>3, <1>4, SMT
<1> QED BY <1>2, <1>5, <1>6, Zenon

\* The devices do not change, nor do their sizes.
LEMMA SameDevices ==
  ASSUME [Next]_(vars)
  PROVE  /\ conf' = conf
         /\ \A d : BufSize(d)' = BufSize(d)
<1>1. conf' = conf
  BY DEF Next, Input, Output, vars, devices,
         InputBegin, InputSelect, InputParams, InputEnd,
         InputAgain, InputError, InputRead, InputEof, InputEofIndex,
         OutputFill, OutputBegin, OutputSelect, OutputParams,
         OutputEnd, OutputError, OutputWrite, ToggleMute,
         Call, Enter, Clear, Refuse, Ask, Answered, ReadMessage, Return,
         GoesOn, Abort
<1> QED BY <1>1 DEF BufSize, FrameSize, Open

\* The fields of dai_input() stay what they are, also when devices are read that have their period.
LEMMA InputTypes ==
  ASSUME conf \in Confs, InTypes, Input
  PROVE  InTypes' /\ inp'.idx >= inp.idx
<1>1. /\ conf' = conf
      /\ \A d : BufSize(d)' = BufSize(d)
  BY SameDevices DEF Next
<1>2. /\ Len(conf.ins) \in Nat /\ DOMAIN conf.ins = 1..Len(conf.ins)
      /\ \A n \in DOMAIN conf.ins :
           /\ BufSize(conf.ins[n]) \in Nat
           /\ conf.ins[n].len \in Nat /\ conf.ins[n].skip \in Nat
  BY Sizes
<1>3. /\ inp \in InFields
      /\ \A n \in DOMAIN conf.ins : inp.left[n] <= BufSize(conf.ins[n])
  BY DEF InTypes
<1>4. Served(inp) \in {"select", "serve"}
  BY DEF Served
<1>5. SUFFICES /\ inp' \in InFields
               /\ \A n \in DOMAIN conf.ins : inp'.left[n] <= BufSize(conf.ins[n])
               /\ inp'.idx >= inp.idx
  BY <1>1 DEF InTypes, InFields
<1>6. inp.idx \in Nat /\ \A n \in DOMAIN conf.ins : inp.left[n] <= BufSize(conf.ins[n])
  BY <1>3 DEF InFields
<1>7. CASE InputBegin
  <2>1. Len(conf.ins) \in Int /\ DOMAIN conf.ins \in SUBSET DOMAIN conf.ins
    BY <1>2
  <2>2. inp' \in InFields /\ inp'.left = inp.left /\ inp'.idx = inp.idx
    <3>1. CASE inp' = [inp EXCEPT !.pc = "stopped"]
      BY <1>3, <3>1 DEF InFields
    <3>2. CASE inp' = [inp EXCEPT !.pc = "select", !.rfds = DOMAIN conf.ins,
                                  !.devsleft = Len(conf.ins)]
      BY <1>3, <2>1, <3>2 DEF InFields
    <3> QED BY <1>7, <3>1, <3>2 DEF InputBegin
  <2> QED BY <1>6, <2>2
<1>8. CASE InputSelect
  <2> DEFINE forced == {n \in DOMAIN conf.ins : conf.ins[n].clock /\
                          (InputPollMode \/ BadAlignment(conf.ins[n]))}
  <2>1. PICK S \in SUBSET inp.rfds :
          inp' = [inp EXCEPT !.pc = "serve", !.ready = S \cup Pending("in") \cup forced]
    BY <1>8 DEF InputSelect
  <2>2. S \cup Pending("in") \cup forced \in SUBSET (0..Len(conf.ins))
    BY <1>2, <1>3 DEF InFields, Pending, Params
  <2> HIDE DEF forced
  <2>3. inp' \in InFields /\ inp'.left = inp.left /\ inp'.idx = inp.idx
    BY <1>3, <2>1, <2>2 DEF InFields
  <2> QED BY <1>6, <2>3
<1>9. CASE InputParams
  <2>1. inp' = [inp EXCEPT !.ready = @ \ {Params}, !.pc = Served(inp)]
    BY <1>9 DEF InputParams
  <2>2. inp' \in InFields /\ inp'.left = inp.left /\ inp'.idx = inp.idx
    BY <1>3, <1>4, <2>1 DEF InFields
  <2> QED BY <1>6, <2>2
<1>10. CASE InputEnd
  <2>1. inp' = [inp EXCEPT !.pc = "begin", !.idx = @ + 1, !.cur = 1 - @]
    BY <1>10 DEF InputEnd
  <2>2. inp.idx + 1 \in Nat /\ 1 - inp.cur \in 0..1 /\ inp.idx + 1 >= inp.idx
    BY <1>3 DEF InFields
  <2>3. inp' \in InFields /\ inp'.left = inp.left /\ inp'.idx = inp.idx + 1
    BY <1>3, <2>1, <2>2 DEF InFields
  <2> QED BY <1>6, <2>2, <2>3
<1>11. ASSUME NEW n \in DOMAIN conf.ins,
              InputAgain(n) \/ InputError(n) \/ InputEof(n)
       PROVE  inp' \in InFields /\ inp'.left = inp.left /\ inp'.idx = inp.idx
  <2>1. CASE InputAgain(n)
    BY <1>3, <1>4, <2>1 DEF InFields, InputAgain
  <2>2. CASE InputError(n)
    BY <1>3, <2>2 DEF InFields, InputError, Abort
  <2>3. CASE InputEof(n)
    <3>1. inp' = [inp EXCEPT !.ready = @ \ {n}, !.pc = "eof", !.rfds = @ \ {n},
                             !.devsleft = @ - 1]
      BY <2>3 DEF InputEof
    <3>2. /\ inp.devsleft - 1 \in Int
          /\ inp.ready \ {n} \in SUBSET (0..Len(conf.ins))
          /\ inp.rfds \ {n} \in SUBSET DOMAIN conf.ins
      BY <1>3 DEF InFields
    <3> QED BY <1>3, <1>4, <3>1, <3>2 DEF InFields
  <2> QED BY <1>11, <2>1, <2>2, <2>3
<1>12. ASSUME NEW n \in DOMAIN conf.ins, InputRead(n)
       PROVE  /\ inp' \in InFields /\ inp'.idx = inp.idx
              /\ \A k \in DOMAIN conf.ins : inp'.left[k] <= BufSize(conf.ins[k])
  <2> DEFINE avail == Available(conf.ins[n], inp.pos[n], inp.left[n])
  <2>1. PICK count \in Portions(conf.ins[n], avail) :
          inp' = [inp EXCEPT !.ready = @ \ {n}, !.pc = Served(inp),
                             !.pos[n] = Rewound(conf.ins[n], inp.pos[n] + count),
                             !.left[n] = IF count = inp.left[n] THEN BufSize(conf.ins[n])
                                         ELSE @ - count,
                             !.devsleft = IF count = inp.left[n] THEN @ - 1 ELSE @,
                             !.rfds = IF count = inp.left[n] THEN @ \ {n} ELSE @]
    BY <1>12 DEF InputRead
  <2>2. inp.pos[n] \in Int /\ inp.left[n] \in Nat
    BY <1>3 DEF InFields
  <2>3. avail \in Int /\ avail <= inp.left[n] /\ avail > 0
    BY <1>2, <1>12, <2>2 DEF Available, InputRead
  <2> HIDE DEF avail
  <2>4. count \in 1..avail
    BY <2>3 DEF Portions
  <2>5. Rewound(conf.ins[n], inp.pos[n] + count) \in Int
    BY <1>2, <2>2, <2>3, <2>4 DEF Rewound
  <2>6. count \in Nat /\ count <= inp.left[n]
    BY <2>2, <2>3, <2>4
  <2> DEFINE pos == [inp.pos EXCEPT ![n] = Rewound(conf.ins[n], inp.pos[n] + count)]
             left(k) == [inp.left EXCEPT ![n] = k]
             full == count = inp.left[n]
             rest == IF full THEN BufSize(conf.ins[n]) ELSE inp.left[n] - count
             waiting == IF full THEN inp.devsleft - 1 ELSE inp.devsleft
             rfds == IF full THEN inp.rfds \ {n} ELSE inp.rfds
  <2>7. inp' = [inp EXCEPT !.ready = inp.ready \ {n}, !.pc = Served(inp), !.pos = pos,
                           !.left = left(rest), !.devsleft = waiting, !.rfds = rfds]
    BY <1>3, <2>1 DEF InFields
  <2>8. rest \in Nat /\ rest <= BufSize(conf.ins[n])
    BY <1>2, <1>3, <2>2, <2>6
  <2>9. /\ pos \in [DOMAIN conf.ins -> Int]
        /\ left(rest) \in [DOMAIN conf.ins -> Nat]
        /\ \A k \in DOMAIN conf.ins : left(rest)[k] <= BufSize(conf.ins[k])
    BY <1>3, <2>5, <2>8 DEF InFields
  <2>10. /\ waiting \in Int /\ rfds \in SUBSET DOMAIN conf.ins
         /\ inp.ready \ {n} \in SUBSET (0..Len(conf.ins))
    BY <1>3 DEF InFields
  <2> HIDE DEF pos, left, rest, waiting, rfds
  <2> QED BY <1>3, <1>4, <2>7, <2>9, <2>10 DEF InFields
<1>13. CASE InputEofIndex
  <2> DEFINE pc == IF inp.ready = {} THEN "select" ELSE "serve"
  <2>1. inp' = [inp EXCEPT !.pc = pc] /\ pc \in {"select", "serve"}
    BY <1>13 DEF InputEofIndex
  <2> HIDE DEF pc
  <2>2. inp' \in InFields /\ inp'.left = inp.left /\ inp'.idx = inp.idx
    BY <1>3, <2>1 DEF InFields
  <2> QED BY <1>6, <2>2
<1> QED BY <1>6, <1>7, <1>8, <1>9, <1>10, <1>11, <1>12, <1>13 DEF Input

\* dai_input() counts its devices, whatever they deliver.
LEMMA InputLoop ==
  ASSUME conf \in Confs, InOK, PolledAlone, Input
  PROVE  InOK' /\ inp'.idx >= inp.idx
<1>1. /\ conf' = conf
      /\ \A d : BufSize(d)' = BufSize(d)
  BY SameDevices DEF Next
<1>2. /\ Len(conf.ins) \in Nat /\ DOMAIN conf.ins = 1..Len(conf.ins)
      /\ \A n \in DOMAIN conf.ins :
           /\ BufSize(conf.ins[n]) \in Nat
           /\ conf.ins[n].len \in Nat /\ conf.ins[n].skip \in Nat
  BY Sizes
<1>3. \A W \in SUBSET DOMAIN conf.ins :
        /\ Cardinality(W) \in 0..Len(conf.ins)
        /\ Cardinality(DOMAIN conf.ins) = Len(conf.ins)
        /\ \A n \in W : Cardinality(W \ {n}) = Cardinality(W) - 1 /\ Cardinality(W) > 0
  BY Counts
<1>4. /\ inp \in InState
      /\ \A n \in DOMAIN conf.ins : inp.left[n] <= BufSize(conf.ins[n])
      /\ Loop(inp, inp.rfds)
  BY DEF InOK
<1>5. Served(inp) \in {"select", "serve"}
  BY DEF Served
<1>6. SUFFICES /\ inp' \in InState
               /\ \A n \in DOMAIN conf.ins : inp'.left[n] <= BufSize(conf.ins[n])
               /\ Loop(inp', inp'.rfds)
               /\ inp'.idx >= inp.idx
  BY <1>1 DEF InOK, InState, Loop, Params
<1>7. CASE InputBegin
  <2>1. CASE inp' = [inp EXCEPT !.pc = "stopped"]
    BY <1>4, <2>1 DEF InState, Loop
  <2>2. CASE inp' = [inp EXCEPT !.pc = "select", !.rfds = DOMAIN conf.ins,
                                !.devsleft = Len(conf.ins)]
    <3>1. inp' \in InState /\ inp'.left = inp.left /\ inp'.idx = inp.idx
      <4>1. Len(conf.ins) \in 0..Len(conf.ins) /\ DOMAIN conf.ins \in SUBSET DOMAIN conf.ins
        BY <1>2
      <4> QED BY <1>4, <2>2, <4>1 DEF InState
    <3>2. inp'.pc = "select" /\ inp'.rfds = DOMAIN conf.ins /\ inp'.devsleft = Len(conf.ins)
      BY <1>4, <2>2 DEF InState
    <3>3. Len(conf.ins) = Cardinality(DOMAIN conf.ins)
      BY <1>3
    <3> QED BY <1>4, <3>1, <3>2, <3>3 DEF Loop, InState
  <2> QED BY <1>7, <2>1, <2>2 DEF InputBegin
<1>8. CASE InputSelect
  <2> DEFINE forced == {n \in DOMAIN conf.ins : conf.ins[n].clock /\
                          (InputPollMode \/ BadAlignment(conf.ins[n]))}
  <2>1. PICK S \in SUBSET inp.rfds :
          inp' = [inp EXCEPT !.pc = "serve", !.ready = S \cup Pending("in") \cup forced]
    BY <1>8 DEF InputSelect
  <2>2. inp.pc = "select" /\ inp.devsleft # 0
    BY <1>8 DEF InputSelect
  <2>3. Pending("in") \subseteq {0}
    BY DEF Pending, Params
  <2>4. forced \subseteq inp.rfds
    <3>1. SUFFICES ASSUME NEW n \in forced PROVE n \in inp.rfds
      OBVIOUS
    <3>2. BadAlignment(conf.ins[n])
      BY DEF InputPollMode
    <3>3. Len(conf.ins) = 1
      BY <3>2 DEF PolledAlone
    <3>4. inp.rfds # {}
      BY <1>3, <1>4, <2>2, FS_EmptySet DEF Loop, InState
    <3> QED BY <1>2, <1>4, <3>3, <3>4 DEF InState
  <2> HIDE DEF forced
  <2>5. S \cup Pending("in") \cup forced \subseteq {0} \cup inp.rfds
    BY <2>3, <2>4
  <2>6. /\ inp'.pc = "serve" /\ inp'.rfds = inp.rfds /\ inp'.devsleft = inp.devsleft
        /\ inp'.ready \subseteq {0} \cup inp.rfds
        /\ inp'.left = inp.left /\ inp'.idx = inp.idx
    BY <1>4, <2>1, <2>5 DEF InState
  <2>7. {0} \cup inp.rfds \subseteq 0..Len(conf.ins)
    BY <1>2, <1>4 DEF InState
  <2>8. inp' \in InState
    BY <1>4, <2>1, <2>5, <2>7 DEF InState
  <2> QED BY <1>4, <2>2, <2>6, <2>8 DEF Loop, InState, Params
<1>9. CASE InputParams
  <2>1. inp' = [inp EXCEPT !.ready = @ \ {Params}, !.pc = Served(inp)] /\ inp.pc = "serve"
    BY <1>9 DEF InputParams
  <2>2. inp' \in InState
    BY <1>4, <1>5, <2>1 DEF InState
  <2>3. /\ inp'.rfds = inp.rfds /\ inp'.devsleft = inp.devsleft /\ inp'.left = inp.left
        /\ inp'.idx = inp.idx /\ inp'.ready \subseteq inp.ready
    BY <1>4, <2>1 DEF InState
  <2> QED BY <1>4, <2>1, <2>2, <2>3 DEF Loop, InState
<1>10. CASE InputEnd
  <2>1. inp' = [inp EXCEPT !.pc = "begin", !.idx = @ + 1, !.cur = 1 - @]
    BY <1>10 DEF InputEnd
  <2>2. inp.idx + 1 \in Nat /\ 1 - inp.cur \in 0..1 /\ inp.idx + 1 >= inp.idx
    BY <1>4 DEF InState
  <2>3. inp' \in InState /\ inp'.pc = "begin" /\ inp'.left = inp.left /\ inp'.idx = inp.idx + 1
    BY <1>4, <2>1, <2>2 DEF InState
  <2> QED BY <1>4, <2>2, <2>3 DEF Loop
<1>11. ASSUME NEW n \in DOMAIN conf.ins, InputReady(n)
       PROVE  n \in inp.rfds /\ inp.pc = "serve" /\ n \in inp.ready
  <2>1. inp.pc = "serve" /\ inp.ready # {} /\ n = NextFd(inp.ready)
    BY <1>11 DEF InputReady
  <2>2. inp.ready \subseteq Nat
    BY <1>2, <1>4 DEF InState
  <2>3. n \in inp.ready
    BY <2>1, <2>2, FirstReady
  <2> QED BY <1>2, <1>4, <2>1, <2>3 DEF Loop, Params
<1>12. ASSUME NEW n \in DOMAIN conf.ins, InputAgain(n)
       PROVE  /\ inp' \in InState /\ Loop(inp', inp'.rfds)
              /\ inp'.left = inp.left /\ inp'.idx = inp.idx
  BY <1>2, <1>4, <1>5, <1>11, <1>12 DEF InputAgain, InState, Loop
<1>13. ASSUME NEW n \in DOMAIN conf.ins, InputError(n)
       PROVE  /\ inp' \in InState /\ Loop(inp', inp'.rfds)
              /\ inp'.left = inp.left /\ inp'.idx = inp.idx
  BY <1>2, <1>4, <1>13 DEF InputError, Abort, InState, Loop
<1>14. ASSUME NEW n \in DOMAIN conf.ins, InputEof(n)
       PROVE  /\ inp' \in InState /\ Loop(inp', inp'.rfds)
              /\ inp'.left = inp.left /\ inp'.idx = inp.idx
  <2>1. inp' = [inp EXCEPT !.ready = @ \ {n}, !.pc = "eof", !.rfds = @ \ {n},
                           !.devsleft = @ - 1]
    BY <1>14 DEF InputEof
  <2>2. n \in inp.rfds /\ inp.pc = "serve"
    BY <1>11, <1>14 DEF InputEof
  <2>3. inp.devsleft - 1 = Cardinality(inp.rfds \ {n}) /\ inp.devsleft > 0
    BY <1>3, <1>4, <2>2 DEF InState, Loop
  <2>4. inp' \in InState
    <3>1. /\ inp.devsleft - 1 \in 0..Len(conf.ins)
          /\ inp.ready \ {n} \in SUBSET (0..Len(conf.ins))
          /\ inp.rfds \ {n} \in SUBSET DOMAIN conf.ins
      BY <1>2, <1>4, <2>3 DEF InState
    <3> QED BY <1>4, <1>5, <2>1, <3>1 DEF InState
  <2>5. /\ inp'.rfds = inp.rfds \ {n} /\ inp'.devsleft = inp.devsleft - 1 /\ inp'.left = inp.left
        /\ inp'.idx = inp.idx /\ inp'.ready = inp.ready \ {n}
    BY <1>4, <2>1 DEF InState
  <2>6. inp.ready \subseteq {Params} \cup inp.rfds
    BY <1>4, <2>2 DEF Loop
  <2> QED BY <2>3, <2>4, <2>5, <2>6 DEF Loop
<1>15. ASSUME NEW n \in DOMAIN conf.ins, InputRead(n)
       PROVE  /\ inp' \in InState /\ Loop(inp', inp'.rfds) /\ inp'.idx = inp.idx
              /\ \A k \in DOMAIN conf.ins : inp'.left[k] <= BufSize(conf.ins[k])
  <2> DEFINE avail == Available(conf.ins[n], inp.pos[n], inp.left[n])
  <2>1. PICK count \in Portions(conf.ins[n], avail) :
          inp' = [inp EXCEPT !.ready = @ \ {n}, !.pc = Served(inp),
                             !.pos[n] = Rewound(conf.ins[n], inp.pos[n] + count),
                             !.left[n] = IF count = inp.left[n] THEN BufSize(conf.ins[n])
                                         ELSE @ - count,
                             !.devsleft = IF count = inp.left[n] THEN @ - 1 ELSE @,
                             !.rfds = IF count = inp.left[n] THEN @ \ {n} ELSE @]
    BY <1>15 DEF InputRead
  <2>2. n \in inp.rfds /\ inp.pc = "serve"
    BY <1>11, <1>15 DEF InputRead
  <2>3. inp.pos[n] \in Int /\ inp.left[n] \in Nat
    BY <1>4 DEF InState
  <2>4. avail \in Int /\ avail <= inp.left[n] /\ avail > 0
    BY <1>2, <1>15, <2>3 DEF Available, InputRead
  <2> HIDE DEF avail
  <2>5. count \in 1..avail
    BY <2>4 DEF Portions
  <2>6. Rewound(conf.ins[n], inp.pos[n] + count) \in Int
    BY <1>2, <2>3, <2>4, <2>5 DEF Rewound
  <2>7. count \in Nat /\ count <= inp.left[n]
    BY <2>3, <2>4, <2>5
  <2> DEFINE pos == [inp.pos EXCEPT ![n] = Rewound(conf.ins[n], inp.pos[n] + count)]
             left(k) == [inp.left EXCEPT ![n] = k]
             full == count = inp.left[n]
             rest == IF full THEN BufSize(conf.ins[n]) ELSE inp.left[n] - count
  <2>8. inp' = [inp EXCEPT !.ready = inp.ready \ {n}, !.pc = Served(inp), !.pos = pos,
                           !.left = left(rest), !.devsleft = IF full THEN @ - 1 ELSE @,
                           !.rfds = IF full THEN @ \ {n} ELSE @]
    BY <1>4, <2>1 DEF InState
  <2>9. rest \in Nat /\ rest <= BufSize(conf.ins[n])
    BY <1>2, <1>4, <2>3, <2>7
  <2>10. /\ pos \in [DOMAIN conf.ins -> Int]
         /\ left(rest) \in [DOMAIN conf.ins -> Nat]
         /\ \A k \in DOMAIN conf.ins : left(rest)[k] <= BufSize(conf.ins[k])
    BY <1>4, <2>6, <2>9 DEF InState
  <2> HIDE DEF pos, left, rest
  <2>11. CASE full
    <3>1. inp.devsleft - 1 = Cardinality(inp.rfds \ {n}) /\ inp.devsleft > 0
      BY <1>3, <1>4, <2>2 DEF InState, Loop
    <3>2. inp' \in InState
      <4>1. /\ inp.devsleft - 1 \in 0..Len(conf.ins)
            /\ inp.ready \ {n} \in SUBSET (0..Len(conf.ins))
            /\ inp.rfds \ {n} \in SUBSET DOMAIN conf.ins
        BY <1>2, <1>4, <3>1 DEF InState
      <4> QED BY <1>4, <1>5, <2>8, <2>10, <2>11, <4>1 DEF InState
    <3>3. /\ inp'.rfds = inp.rfds \ {n} /\ inp'.devsleft = inp.devsleft - 1
          /\ inp'.left = left(rest) /\ inp'.idx = inp.idx /\ inp'.ready = inp.ready \ {n}
      BY <1>4, <2>8, <2>11 DEF InState
    <3>4. inp.ready \subseteq {Params} \cup inp.rfds
      BY <1>4, <2>2 DEF Loop
    <3> QED BY <2>10, <3>1, <3>2, <3>3, <3>4 DEF Loop
  <2>12. CASE ~full
    BY <1>2, <1>4, <1>5, <2>2, <2>8, <2>10, <2>12 DEF InState, Loop
  <2> QED BY <2>11, <2>12
<1>16. \A n \in DOMAIN conf.ins : inp.left[n] <= BufSize(conf.ins[n]) /\ inp.idx \in Nat
  BY <1>4 DEF InState
<1>17. CASE InputEofIndex
  <2> DEFINE pc == IF inp.ready = {} THEN "select" ELSE "serve"
  <2>1. inp.pc = "eof" /\ inp' = [inp EXCEPT !.pc = pc] /\ pc \in {"select", "serve"}
    BY <1>17 DEF InputEofIndex
  <2> HIDE DEF pc
  <2>2. /\ inp' \in InState /\ inp'.rfds = inp.rfds /\ inp'.devsleft = inp.devsleft
        /\ inp'.left = inp.left /\ inp'.idx = inp.idx /\ inp'.ready = inp.ready
    BY <1>4, <2>1 DEF InState
  <2>3. inp'.idx >= inp.idx
    BY <1>4, <2>2 DEF InState
  <2> QED BY <1>4, <2>1, <2>2, <2>3 DEF Loop
<1> QED BY <1>7, <1>8, <1>9, <1>10, <1>12, <1>13, <1>14, <1>15, <1>16, <1>17 DEF Input

\* A write is of no more than what is left of the period.
LEMMA WriteFits ==
  ASSUME NEW left \in Nat, NEW block \in Nat
  PROVE  LET size == IF block > 0 /\ left > block THEN block + (left % block) ELSE left
         IN  size \in 0..left
<1>1. CASE block > 0 /\ left > block
  <2>1. /\ left \div block \in Nat /\ left % block \in 0..block - 1
        /\ left = (left \div block) * block + (left % block)
    BY <1>1, SMTT(20)
  <2>2. left \div block >= 1
    <3>1. CASE left \div block = 0
      BY <1>1, <2>1, <3>1, SMT
    <3> QED BY <2>1, <3>1, SMT
  <2>3. (left \div block) * block >= block
    BY <2>1, <2>2, <1>1, SMTT(20)
  <2> QED BY <1>1, <2>1, <2>3, SMT
<1>2. CASE ~(block > 0 /\ left > block)
  BY <1>2, SMT
<1> QED BY <1>1, <1>2

\* dai_output() counts its devices, whatever they take.
LEMMA OutputLoop ==
  ASSUME conf \in Confs, OutOK, EndOK, Output
  PROVE  OutOK'
<1>1. /\ conf' = conf
      /\ \A d : BufSize(d)' = BufSize(d)
  BY SameDevices DEF Next
<1>2. /\ conf.period \in Nat
      /\ Len(conf.outs) \in Nat /\ DOMAIN conf.outs = 1..Len(conf.outs)
      /\ \A n \in DOMAIN conf.outs :
           /\ BufSize(conf.outs[n]) \in Nat
           /\ FrameSize(conf.outs[n]) \in Nat \ {0}
           /\ BufSize(conf.outs[n]) = FrameSize(conf.outs[n]) * conf.period
           /\ conf.outs[n].block \in Nat
  BY Sizes
<1>3. \A W \in SUBSET DOMAIN conf.outs :
        /\ Cardinality(W) \in 0..Len(conf.outs)
        /\ Cardinality(DOMAIN conf.outs) = Len(conf.outs)
        /\ \A n \in W : Cardinality(W \ {n}) = Cardinality(W) - 1 /\ Cardinality(W) > 0
  BY Counts
<1>4. /\ out \in OutState
      /\ \A n \in DOMAIN conf.outs : /\ out.left[n] <= BufSize(conf.outs[n])
                                     /\ out.size[n] <= BufSize(conf.outs[n])
      /\ Loop(out, out.wfds)
  BY DEF OutOK
<1>5. Served(out) \in {"select", "serve"}
  BY DEF Served
<1>6. SUFFICES /\ out' \in OutState
               /\ \A n \in DOMAIN conf.outs : /\ out'.left[n] <= BufSize(conf.outs[n])
                                              /\ out'.size[n] <= BufSize(conf.outs[n])
               /\ Loop(out', out'.wfds)
  BY <1>1 DEF OutOK, OutState, Loop, Params
<1>7. 1 - out.cur \in 0..1
  BY <1>4 DEF OutState
<1>8. ASSUME NEW devs \in SUBSET DOMAIN conf.outs, out' = Opening(devs)
      PROVE  /\ out' \in OutState /\ Loop(out', out'.wfds)
             /\ \A n \in DOMAIN conf.outs : /\ out'.left[n] <= BufSize(conf.outs[n])
                                            /\ out'.size[n] <= BufSize(conf.outs[n])
  <2> DEFINE cut(n) == ca.frames_left * FrameSize(conf.outs[n])
             size == [n \in DOMAIN out.size |-> IF IsLast THEN cut(n) ELSE out.size[n]]
             left == [n \in DOMAIN out.left |-> IF IsLast THEN cut(n) ELSE out.left[n]]
             last == out.islast \/ IsLast
  <2>1. out' = [out EXCEPT !.pc = "select", !.cur = 1 - @, !.wfds = devs,
                             !.devsleft = Cardinality(devs), !.islast = last,
                             !.size = size, !.left = left]
    BY <1>4, <1>8 DEF Opening, OutState
  <2>2. ASSUME NEW n \in DOMAIN conf.outs, IsLast
        PROVE  cut(n) \in Nat /\ cut(n) <= BufSize(conf.outs[n])
    <3>1. ca.frames_left \in 0..conf.period
      BY <1>2, <2>2 DEF IsLast, EndOK
    <3>2. ca.frames_left * FrameSize(conf.outs[n]) \in 0..BufSize(conf.outs[n])
      BY <1>2, <3>1, WholeFrames
    <3> QED BY <1>2, <3>2
  <2>3. /\ size \in [DOMAIN conf.outs -> Nat] /\ left \in [DOMAIN conf.outs -> Nat]
        /\ \A n \in DOMAIN conf.outs : /\ left[n] <= BufSize(conf.outs[n])
                                       /\ size[n] <= BufSize(conf.outs[n])
    BY <1>4, <2>2 DEF OutState
  <2>4. last \in BOOLEAN
    BY DEF IsLast
  <2> HIDE DEF size, left, last
  <2>5. Cardinality(devs) \in 0..Len(conf.outs)
    BY <1>3
  <2>6. out' \in OutState
    BY <1>4, <1>7, <2>1, <2>3, <2>4, <2>5 DEF OutState
  <2>7. /\ out'.pc = "select" /\ out'.wfds = devs /\ out'.devsleft = Cardinality(devs)
        /\ out'.left = left /\ out'.size = size
    BY <1>4, <2>1 DEF OutState
  <2> QED BY <2>3, <2>6, <2>7 DEF Loop
<1>9. CASE OutputFill \/ OutputBegin
  <2>1. ClockedOut \in SUBSET DOMAIN conf.outs /\ DOMAIN conf.outs \in SUBSET DOMAIN conf.outs
    BY DEF ClockedOut
  <2>2. out' = Opening(ClockedOut) \/ out' = Opening(DOMAIN conf.outs)
    BY <1>9 DEF OutputFill, OutputBegin
  <2> QED BY <1>8, <2>1, <2>2
<1>10. CASE OutputSelect
  <2>1. PICK S \in SUBSET out.wfds :
          out' = [out EXCEPT !.pc = "serve", !.ready = S \cup Pending("out")]
    BY <1>10 DEF OutputSelect
  <2>2. out.pc = "select"
    BY <1>10 DEF OutputSelect
  <2>3. S \cup Pending("out") \subseteq {0} \cup out.wfds
    BY DEF Pending, Params
  <2>4. {0} \cup out.wfds \subseteq 0..Len(conf.outs)
    BY <1>2, <1>4 DEF OutState
  <2>5. out' \in OutState
    BY <1>4, <2>1, <2>3, <2>4 DEF OutState
  <2>6. /\ out'.pc = "serve" /\ out'.wfds = out.wfds /\ out'.devsleft = out.devsleft
        /\ out'.ready \subseteq {0} \cup out.wfds
        /\ out'.left = out.left /\ out'.size = out.size
    BY <1>4, <2>1, <2>3 DEF OutState
  <2> QED BY <1>4, <2>2, <2>5, <2>6 DEF Loop, Params
<1>11. CASE OutputParams
  <2>1. out' = [out EXCEPT !.ready = @ \ {Params}, !.pc = Served(out)] /\ out.pc = "serve"
    BY <1>11 DEF OutputParams
  <2>2. out' \in OutState
    BY <1>4, <1>5, <2>1 DEF OutState
  <2>3. /\ out'.wfds = out.wfds /\ out'.devsleft = out.devsleft
        /\ out'.left = out.left /\ out'.size = out.size /\ out'.ready \subseteq out.ready
    BY <1>4, <2>1 DEF OutState
  <2> QED BY <1>4, <2>1, <2>2, <2>3 DEF Loop, OutState
<1>12. CASE OutputEnd
  <2> DEFINE fill == IF out.fill > 0 THEN out.fill - 1 ELSE 0
             idx == IF out.fill > 0 THEN out.idx ELSE out.idx + 1
             pc == IF out.fill = 0 /\ out.islast THEN "ended" ELSE "begin"
  <2>1. out' = [out EXCEPT !.pc = pc, !.fill = fill, !.idx = idx]
    BY <1>12 DEF OutputEnd
  <2>2. fill \in Nat /\ idx \in Nat /\ pc \in {"ended", "begin"}
    BY <1>4 DEF OutState
  <2> HIDE DEF fill, idx, pc
  <2>3. /\ out' \in OutState /\ out'.pc = pc /\ out'.left = out.left /\ out'.size = out.size
    BY <1>4, <2>1, <2>2 DEF OutState
  <2> QED BY <1>4, <2>2, <2>3 DEF Loop
<1>13. ASSUME NEW n \in DOMAIN conf.outs, OutputError(n)
       PROVE  out' \in OutState /\ out'.pc = "exit" /\ out'.left = out.left /\ out'.size = out.size
  BY <1>4, <1>13 DEF OutputError, Abort, OutState
<1>14. ASSUME NEW n \in DOMAIN conf.outs, OutputWrite(n)
       PROVE  /\ out' \in OutState /\ Loop(out', out'.wfds)
              /\ \A k \in DOMAIN conf.outs : /\ out'.left[k] <= BufSize(conf.outs[k])
                                             /\ out'.size[k] <= BufSize(conf.outs[k])
  <2> DEFINE wsize == WriteSize(n)
             allowed == Portions(conf.outs[n], wsize) \cup Nothing(conf.outs[n], wsize)
  <2>1. PICK count \in allowed :
          out' = [out EXCEPT !.ready = @ \ {n}, !.pc = Served(out),
                               !.left[n] = IF count = out.left[n] THEN out.size[n] ELSE @ - count,
                               !.devsleft = IF count = out.left[n] THEN @ - 1 ELSE @,
                               !.wfds = IF count = out.left[n] THEN @ \ {n} ELSE @]
    BY <1>14 DEF OutputWrite
  <2>2. out.pc = "serve" /\ out.ready # {} /\ n = NextFd(out.ready)
    BY <1>14 DEF OutputWrite, OutputReady
  <2>3. n \in out.wfds
    <3>1. out.ready \subseteq Nat
      BY <1>2, <1>4 DEF OutState
    <3>2. n \in out.ready
      BY <2>2, <3>1, FirstReady
    <3> QED BY <1>2, <1>4, <2>2, <3>2 DEF Loop, Params
  <2>4. out.left[n] \in Nat /\ out.size[n] \in Nat
    BY <1>4 DEF OutState
  <2>5. wsize \in 0..out.left[n]
    <3>1. conf.outs[n].block * FrameSize(conf.outs[n]) \in Nat
      BY <1>2
    <3> QED BY <2>4, <3>1, WriteFits DEF WriteSize
  <2> HIDE DEF wsize
  <2>6. count \in Nat /\ count <= out.left[n]
    BY <2>4, <2>5 DEF Portions, Nothing
  <2> HIDE DEF allowed
  <2> DEFINE full == count = out.left[n]
             rest == IF full THEN out.size[n] ELSE out.left[n] - count
             left(k) == [out.left EXCEPT ![n] = k]
  <2>7. out' = [out EXCEPT !.ready = out.ready \ {n}, !.pc = Served(out),
                             !.left = left(rest), !.devsleft = IF full THEN @ - 1 ELSE @,
                             !.wfds = IF full THEN @ \ {n} ELSE @]
    BY <1>4, <2>1 DEF OutState
  <2>8. rest \in Nat /\ rest <= BufSize(conf.outs[n])
    BY <1>2, <1>4, <2>4, <2>6
  <2>9. /\ left(rest) \in [DOMAIN conf.outs -> Nat]
        /\ \A k \in DOMAIN conf.outs : left(rest)[k] <= BufSize(conf.outs[k])
    BY <1>4, <2>8 DEF OutState
  <2> HIDE DEF left, rest
  <2>10. /\ out.ready \ {n} \in SUBSET (0..Len(conf.outs))
         /\ out.wfds \ {n} \in SUBSET DOMAIN conf.outs
         /\ out.ready \subseteq {Params} \cup out.wfds
    BY <1>4, <2>2 DEF OutState, Loop
  <2>11. CASE full
    <3>1. out.devsleft - 1 = Cardinality(out.wfds \ {n}) /\ out.devsleft - 1 \in 0..Len(conf.outs)
      <4>1. out.devsleft = Cardinality(out.wfds) /\ out.wfds \in SUBSET DOMAIN conf.outs
        BY <1>4, <2>2 DEF OutState, Loop
      <4>2. /\ Cardinality(out.wfds \ {n}) = Cardinality(out.wfds) - 1
            /\ Cardinality(out.wfds \ {n}) \in 0..Len(conf.outs)
        <5>1. out.wfds \ {n} \in SUBSET DOMAIN conf.outs
          BY <4>1
        <5> QED BY <1>3, <2>3, <4>1, <5>1
      <4> QED BY <4>1, <4>2, Zenon
    <3>2. out' \in OutState
      BY <1>4, <1>5, <2>7, <2>9, <2>10, <2>11, <3>1 DEF OutState
    <3>3. /\ out'.wfds = out.wfds \ {n} /\ out'.devsleft = out.devsleft - 1
          /\ out'.left = left(rest) /\ out'.size = out.size /\ out'.ready = out.ready \ {n}
      BY <1>4, <2>7, <2>11 DEF OutState
    <3> QED BY <1>4, <2>9, <2>10, <3>1, <3>2, <3>3 DEF Loop
  <2>12. CASE ~full
    <3>1. out' \in OutState
      BY <1>4, <1>5, <2>7, <2>9, <2>10, <2>12 DEF OutState
    <3>2. /\ out'.wfds = out.wfds /\ out'.devsleft = out.devsleft
          /\ out'.left = left(rest) /\ out'.size = out.size /\ out'.ready = out.ready \ {n}
      BY <1>4, <2>7, <2>12 DEF OutState
    <3> QED BY <1>4, <2>2, <2>9, <2>10, <3>1, <3>2 DEF Loop
  <2> QED BY <2>11, <2>12
<1> QED BY <1>4, <1>9, <1>10, <1>11, <1>12, <1>13, <1>14 DEF Output, Loop

\* A command is served only if there is one: nobody but the loop takes it from the pipe.
LEMMA Serves ==
  ASSUME conf \in Confs, InTypes, OutOK, Input \/ Output
  PROVE  /\ Serving(inp') => ~InputParams /\ (pipe["in"].s # <<>> \/ Serving(inp))
         /\ Serving(out') => ~OutputParams /\ (pipe["out"].s # <<>> \/ Serving(out))
<1>1. /\ inp \in InFields /\ out \in OutState
      /\ DOMAIN conf.ins = 1..Len(conf.ins) /\ DOMAIN conf.outs = 1..Len(conf.outs)
  BY Sizes DEF InTypes, OutOK
<1>2. 0 \notin DOMAIN conf.ins /\ 0 \notin DOMAIN conf.outs
  BY <1>1
<1>3. CASE Input
  <2>1. out' = out \/ out'.pc = "exit"
    BY <1>1, <1>3 DEF Input, InputBegin, InputSelect, InputParams,
       InputEnd, InputAgain, InputError, InputRead, InputEof, InputEofIndex,
       Abort, OutState
  <2>2. ~OutputParams \/ ~Serving(out')
    BY <1>1 DEF OutputParams, OutState, Serving
  <2>3. CASE InputSelect
    <3> DEFINE forced == {n \in DOMAIN conf.ins : conf.ins[n].clock /\
                            (InputPollMode \/ BadAlignment(conf.ins[n]))}
    <3>1. PICK S \in SUBSET inp.rfds :
            inp' = [inp EXCEPT !.pc = "serve", !.ready = S \cup Pending("in") \cup forced]
      BY <2>3 DEF InputSelect
    <3>2. 0 \notin forced /\ 0 \notin S
      BY <1>1, <1>2 DEF InFields
    <3> HIDE DEF forced
    <3>3. inp'.ready = S \cup Pending("in") \cup forced
      BY <1>1, <3>1 DEF InFields
    <3>4. ~InputParams
      BY <2>3 DEF InputSelect, InputParams
    <3>5. Params \in inp'.ready => pipe["in"].s # <<>>
      BY <3>2, <3>3 DEF Pending, Params
    <3>6. out'.pc # "exit" \/ ~Serving(out')
      BY DEF Serving
    <3> QED BY <2>1, <2>2, <3>4, <3>5, <3>6, Zenon DEF Serving
  <2>4. CASE InputParams
    BY <1>1, <2>1, <2>2, <2>4 DEF InputParams, InFields, Serving
  <2>5. ASSUME NEW n \in DOMAIN conf.ins,
               InputAgain(n) \/ InputError(n) \/ InputRead(n) \/ InputEof(n)
        PROVE  \/ inp'.pc = "exit"
               \/ inp.pc = "serve" /\ inp'.ready = inp.ready \ {n} /\ ~InputParams
    <3>1. inp.pc = "serve" /\ NextFd(inp.ready) = n
      BY <2>5 DEF InputAgain, InputError, InputRead, InputEof, InputReady
    <3>2. ~InputParams
      BY <1>2, <3>1 DEF InputParams, Params
    <3>3. inp'.pc = "exit" \/ inp'.ready = inp.ready \ {n}
      BY <1>1, <2>5 DEF InputAgain, InputError, InputRead, InputEof, Abort, InFields
    <3> QED BY <3>1, <3>2, <3>3, Zenon
  <2>6. CASE InputBegin \/ InputEnd
    BY <1>1, <2>1, <2>2, <2>6 DEF InputBegin, InputEnd, InFields, Serving
  <2>7. CASE InputEofIndex
    <3>1. inp'.ready = inp.ready /\ inp.pc = "eof" /\ ~InputParams
      BY <1>1, <2>7 DEF InputEofIndex, InputParams, InFields
    <3> QED BY <2>1, <2>2, <3>1 DEF Serving
  <2> QED BY <1>3, <2>1, <2>2, <2>3, <2>4, <2>5, <2>6, <2>7 DEF Input, Serving
<1>4. CASE Output
  <2>1. inp' = inp \/ inp'.pc = "exit"
    BY <1>1, <1>4 DEF Output, OutputFill, OutputBegin, OutputSelect,
       OutputParams, OutputEnd, OutputError, OutputWrite, Abort, InFields
  <2>2. ~InputParams \/ ~Serving(inp')
    BY <1>1 DEF InputParams, InFields, Serving
  <2>3. CASE OutputSelect
    <3>1. PICK S \in SUBSET out.wfds :
            out' = [out EXCEPT !.pc = "serve", !.ready = S \cup Pending("out")]
      BY <2>3 DEF OutputSelect
    <3>2. out'.ready = S \cup Pending("out") /\ 0 \notin S
      BY <1>1, <1>2, <3>1 DEF OutState
    <3>3. ~OutputParams
      BY <2>3 DEF OutputSelect, OutputParams
    <3>4. Params \in out'.ready => pipe["out"].s # <<>>
      BY <3>2 DEF Pending, Params
    <3>5. inp'.pc # "exit" \/ ~Serving(inp')
      BY DEF Serving
    <3> QED BY <2>1, <2>2, <3>3, <3>4, <3>5, Zenon DEF Serving
  <2>4. CASE OutputParams
    BY <1>1, <2>1, <2>2, <2>4 DEF OutputParams, OutState, Serving
  <2>5. ASSUME NEW n \in DOMAIN conf.outs, OutputError(n) \/ OutputWrite(n)
        PROVE  \/ out'.pc = "exit"
               \/ out.pc = "serve" /\ out'.ready = out.ready \ {n} /\ ~OutputParams
    <3>1. out.pc = "serve" /\ NextFd(out.ready) = n
      BY <2>5 DEF OutputError, OutputWrite, OutputReady
    <3>2. ~OutputParams
      BY <1>2, <3>1 DEF OutputParams, Params
    <3>3. out'.pc = "exit" \/ out'.ready = out.ready \ {n}
      BY <1>1, <2>5 DEF OutputError, OutputWrite, Abort, OutState
    <3> QED BY <3>1, <3>2, <3>3, Zenon
  <2>6. CASE OutputFill \/ OutputBegin \/ OutputEnd
    BY <1>1, <2>1, <2>2, <2>6 DEF OutputFill, OutputBegin, OutputEnd, Opening, OutState, Serving
  <2> QED BY <1>4, <2>1, <2>2, <2>3, <2>4, <2>5, <2>6 DEF Output, Serving
<1> QED BY <1>3, <1>4

\* The end is found in a period of the input that has been begun, and in a frame of it.
LEMMA EndStep ==
  ASSUME Inv, Next
  PROVE  EndOK'
<1>1. /\ conf' = conf /\ conf \in Confs
      /\ ca \in [frames_left : -1..conf.period, lastbuf_index : Nat]
      /\ ca.lastbuf_index <= inp.idx
      /\ inp \in InFields
  BY SameDevices DEF Inv, InTypes, EndOK
<1>2. inp'.idx >= inp.idx /\ inp'.idx \in Nat
  <2>1. CASE Input
    <3>1. InTypes' /\ inp'.idx >= inp.idx
      BY <2>1, InputTypes DEF Inv
    <3> QED BY <3>1 DEF InTypes, InFields
  <2>2. CASE inp' = inp
    BY <1>1, <2>2 DEF InFields
  <2>3. CASE inp' = [inp EXCEPT !.pc = "exit"]
    BY <1>1, <2>3 DEF InFields
  <2>4. Input \/ inp' = inp \/ inp' = [inp EXCEPT !.pc = "exit"]
    BY DEF Next, Output, OutputFill, OutputBegin,
       OutputSelect, OutputParams, OutputEnd, OutputError,
       OutputWrite, ToggleMute, Call, Enter, Clear, Refuse, Ask, Answered, ReadMessage, Return,
       GoesOn, Abort
  <2> QED BY <2>1, <2>2, <2>3, <2>4
<1>3. CASE ca' = ca
  BY <1>1, <1>2, <1>3 DEF EndOK, InFields
<1>4. CASE \E n \in DOMAIN conf.ins : InputEof(n)
  <2>1. PICK n \in DOMAIN conf.ins : InputEof(n)
    BY <1>4
  <2> DEFINE size == FrameSize(conf.ins[n])
             frames == (BufSize(conf.ins[n]) - inp.left[n]) \div size
  <2>2. ca' = [ca EXCEPT !.frames_left = FramesLeft(frames)]
    BY <2>1 DEF InputEof
  <2>3. /\ size \in Nat \ {0} /\ conf.period \in Nat
        /\ BufSize(conf.ins[n]) \in Nat /\ BufSize(conf.ins[n]) = size * conf.period
    BY <1>1, Sizes
  <2>4. inp.left[n] \in Nat /\ inp.left[n] <= BufSize(conf.ins[n])
    BY DEF Inv, InTypes, InFields
  <2>5. BufSize(conf.ins[n]) - inp.left[n] \in 0..size * conf.period
    BY <2>3, <2>4
  <2>6. frames \in 0..conf.period
    BY <2>3, <2>5, WholeFrames
  <2> HIDE DEF frames
  <2>7. FramesLeft(frames) \in -1..conf.period
    BY <1>1, <2>3, <2>6 DEF FramesLeft
  <2>8. ca.lastbuf_index <= inp'.idx
    BY <1>1, <1>2 DEF InFields
  <2>9. ca'.lastbuf_index = ca.lastbuf_index /\ ca' \in [frames_left : -1..conf.period, lastbuf_index : Nat]
    BY <1>1, <2>2, <2>7
  <2> QED BY <1>1, <2>8, <2>9 DEF EndOK
<1>5. ca' = ca \/ InputEofIndex \/ \E n \in DOMAIN conf.ins : InputEof(n)
  <2>1. CASE Input
    BY <2>1 DEF Input, devices, InputBegin, InputSelect, InputParams, InputEnd,
       InputAgain, InputError, InputRead
  <2>2. CASE Output
    BY <2>2 DEF Output, devices, OutputFill, OutputBegin, OutputSelect, OutputParams,
       OutputEnd, OutputError, OutputWrite
  <2>3. CASE ToggleMute \/ \E c \in conf.clients : Call(c)
    BY <2>3 DEF devices, ToggleMute, Call, Enter, Clear, Refuse, Ask, Answered, ReadMessage, Return
  <2> QED BY <2>1, <2>2, <2>3 DEF Next
<1>6. CASE InputEofIndex
  <2>1. ca' = [ca EXCEPT !.lastbuf_index = inp.idx]
    BY <1>6 DEF InputEofIndex
  <2>2. inp.idx \in Nat /\ inp.idx <= inp'.idx
    BY <1>1, <1>2 DEF InFields
  <2> QED BY <1>1, <2>1, <2>2 DEF EndOK
<1> QED BY <1>3, <1>4, <1>5, <1>6

\* What a caller asks depends on the devices and on its own fields.
LEMMA SameCall ==
  ASSUME conf' = conf, NEW c, client'[c].io = client[c].io, client'[c].dev = client[c].dev
  PROVE  Asked(c)' = Asked(c) /\ Refuses(c)' = Refuses(c)
BY DEF Asked, Refuses, Devs

\* The exchange goes on when one caller takes a step.
LEMMA OneCaller ==
  ASSUME conf' = conf, Exchange, CallTypes', NEW c \in conf.clients,
         \A d \in conf.clients : d # c => client'[d] = client[d],
         Told(c)', Holds(c)' => UnderWay(c)',
         \/ /\ pipe' = pipe
            /\ Holds(c)' => Holds(c) /\ client'[c].io = client[c].io
         \/ \E io \in IO :
              /\ \A o \in IO : o # io => pipe'[o] = pipe[o]
              /\ \A d \in conf.clients : d # c /\ Holds(d) => client[d].io # io
              /\ Holds(c)' => client'[c].io = io
              /\ pipe'[io].synch = 1 => pipe'[io].s = <<>> /\ pipe'[io].r = <<>>
  PROVE  Exchange'
<1>1. ASSUME NEW d \in conf.clients, d # c
      PROVE  /\ client'[d] = client[d] /\ client[d].io \in IO
             /\ Asked(d)' = Asked(d) /\ Refuses(d)' = Refuses(d)
             /\ Holds(d)' = Holds(d) /\ Told(d)'
  <2>1. client'[d] = client[d] /\ client[d].io \in IO /\ Told(d)
    BY <1>1 DEF Exchange, CallTypes, Client
  <2>2. Asked(d)' = Asked(d) /\ Refuses(d)' = Refuses(d)
    BY <2>1, SameCall
  <2> QED BY <2>1, <2>2 DEF Holds, Told
<1>2. CASE pipe' = pipe /\ (Holds(c)' => Holds(c) /\ client'[c].io = client[c].io)
  <2>1. \A d \in conf.clients : Holds(d)' => Holds(d) /\ client'[d].io = client[d].io
    BY <1>1, <1>2
  <2>2. ASSUME NEW d \in conf.clients, Holds(d)' PROVE UnderWay(d)'
    <3>1. CASE d # c
      <4>1. UnderWay(d)
        BY <1>1, <2>2, <3>1 DEF Exchange
      <4> QED BY <1>1, <1>2, <3>1, <4>1 DEF UnderWay
    <3> QED BY <2>2, <3>1
  <2>3. \A d, e \in conf.clients : Holds(d)' /\ Holds(e)' /\ client'[d].io = client'[e].io => d = e
    BY <2>1 DEF Exchange
  <2>4. \A o \in IO : pipe'[o].synch = 1 => pipe'[o].s = <<>> /\ pipe'[o].r = <<>>
    BY <1>2 DEF Exchange
  <2>5. \A d \in conf.clients : Told(d)'
    BY <1>1
  <2> QED BY <2>2, <2>3, <2>4, <2>5, Zenon DEF Exchange, IO
<1>3. ASSUME NEW io \in IO,
             \A o \in IO : o # io => pipe'[o] = pipe[o],
             \A d \in conf.clients : d # c /\ Holds(d) => client[d].io # io,
             Holds(c)' => client'[c].io = io,
             pipe'[io].synch = 1 => pipe'[io].s = <<>> /\ pipe'[io].r = <<>>
      PROVE  Exchange'
  <2>1. \A d \in conf.clients : d # c /\ Holds(d)' =>
          Holds(d) /\ client'[d].io # io /\ client'[d].io = client[d].io
    BY <1>1, <1>3
  <2>2. ASSUME NEW d \in conf.clients, Holds(d)' PROVE UnderWay(d)'
    <3>1. CASE d # c
      <4>1. pipe'[client[d].io] = pipe[client[d].io] /\ UnderWay(d)
        BY <1>1, <1>3, <2>1, <2>2, <3>1 DEF Exchange
      <4> QED BY <1>1, <3>1, <4>1 DEF UnderWay
    <3> QED BY <2>2, <3>1
  <2>3. ASSUME NEW d \in conf.clients, NEW e \in conf.clients,
               Holds(d)', Holds(e)', client'[d].io = client'[e].io
        PROVE  d = e
    <3>1. CASE d # c /\ e # c
      BY <2>1, <2>3, <3>1 DEF Exchange
    <3>2. CASE d = c \/ e = c
      BY <1>3, <2>1, <2>3, <3>2
    <3> QED BY <3>1, <3>2
  <2>4. \A o \in IO : pipe'[o].synch = 1 => pipe'[o].s = <<>> /\ pipe'[o].r = <<>>
    BY <1>3 DEF Exchange
  <2>5. \A d \in conf.clients : Told(d)'
    BY <1>1
  <2> QED BY <2>2, <2>3, <2>4, <2>5, Zenon DEF Exchange, IO
<1> QED BY <1>2, <1>3

\* What a loop takes from the pipe to it is the question of whoever holds the token.
LEMMA Handled ==
  ASSUME conf \in Confs, Exchange, NEW io \in IO, pipe[io].s # <<>>,
         HandleParams(io), UNCHANGED <<conf, client, msg>>
  PROVE  Exchange'
<1> DEFINE q == Head(pipe[io].s)
<1>1. /\ pipe \in [IO -> Pipe]
      /\ pipe' = [pipe EXCEPT ![io].s = Tail(@), ![io].r = Append(@, q)]
      /\ client' = client /\ conf' = conf
  BY DEF HandleParams, Exchange, CallTypes
<1>2. /\ Tail(pipe[io].s) \in Seq(Question)
      /\ q \in Question
  BY <1>1 DEF Pipe
<1>3. Append(pipe[io].r, q) \in Seq(Question)
  BY <1>1, <1>2 DEF Pipe
<1>4. /\ pipe'[io] = [synch |-> pipe[io].synch, s |-> Tail(pipe[io].s), r |-> Append(pipe[io].r, q)]
      /\ \A d \in IO : d # io => pipe'[d] = pipe[d]
      /\ pipe' \in [IO -> Pipe]
  BY <1>1, <1>2, <1>3 DEF Pipe
<1>5. \A c : /\ Asked(c)' = Asked(c) /\ Refuses(c)' = Refuses(c)
             /\ Holds(c)' = Holds(c) /\ Told(c)' = Told(c)
  <2>1. \A c : Asked(c)' = Asked(c) /\ Refuses(c)' = Refuses(c)
    BY <1>1, SameCall
  <2> QED BY <1>1, <2>1 DEF Holds, Told
<1>6. ASSUME NEW c \in conf.clients, Holds(c)
      PROVE  UnderWay(c)'
  <2>1. UnderWay(c)
    BY <1>6 DEF Exchange
  <2>2. CASE client[c].io = io
    <3>1. /\ client[c].pc = "asked" /\ pipe[io].s = <<Asked(c)>> /\ pipe[io].r = <<>>
          /\ pipe[io].synch = 0 /\ ~Refuses(c)
      BY <1>6, <2>1, <2>2 DEF UnderWay, Holds
    <3>2. q = Asked(c) /\ Tail(pipe[io].s) = <<>> /\ Append(pipe[io].r, q) = <<q>>
      BY <3>1
    <3> QED BY <1>1, <1>4, <1>5, <2>2, <3>1, <3>2 DEF UnderWay
  <2>3. CASE client[c].io # io
    <3>1. client[c].io \in IO
      BY DEF Exchange, CallTypes, Client
    <3> QED BY <1>1, <1>4, <1>5, <2>1, <2>3, <3>1 DEF UnderWay
  <2> QED BY <2>2, <2>3
<1>7. ASSUME NEW d \in IO, pipe'[d].synch = 1
      PROVE  pipe'[d].s = <<>> /\ pipe'[d].r = <<>>
  <2>1. d # io
    <3>1. pipe[io].synch # 1
      BY DEF Exchange
    <3> QED BY <1>4, <1>7, <3>1
  <2> QED BY <1>4, <1>7, <2>1 DEF Exchange
<1>8. CallTypes'
  BY <1>1, <1>4 DEF Exchange, CallTypes, Client, Pipe, Msg, Block, Text, Question, Answer, IO
<1>9. \A c, d \in conf.clients : Holds(c)' /\ Holds(d)' /\ client'[c].io = client'[d].io => c = d
  BY <1>1, <1>5 DEF Exchange
<1>10. \A c \in conf.clients : Told(c)' /\ (Holds(c)' => UnderWay(c)')
  BY <1>5, <1>6 DEF Exchange
<1>11. IO' = IO
  BY DEF IO
<1> QED BY <1>1, <1>7, <1>8, <1>9, <1>10, <1>11, Zenon DEF Exchange

\* The fields of a caller and of the message after a step of it.
LEMMA CallFields ==
  ASSUME conf \in Confs, Exchange, NEW c \in conf.clients, Call(c)
  PROVE  /\ conf' = conf /\ CallTypes'
         /\ \A d \in conf.clients : d # c => client'[d] = client[d]
<1>1. /\ pipe \in [IO -> Pipe] /\ client \in [conf.clients -> Client] /\ msg \in Msg
      /\ client[c] \in Client /\ client[c].io \in IO /\ client[c].dev \in Nat /\ Told(c)
  BY DEF Exchange, CallTypes, Client
<1>2. conf' = conf
  BY DEF Call, Enter, Clear, Refuse, Ask, Answered, ReadMessage, Return, devices
<1>3. CallTypes' = (pipe' \in [IO -> Pipe] /\ client' \in [conf.clients -> Client] /\ msg' \in Msg)
  BY <1>2 DEF CallTypes, Client, Pipe, Msg, Block, Text, Question, Answer, IO
<1>4. Asked(c) \in Question /\ Asked(c) \in Answer /\ Asked(c) \in Text
  BY <1>1 DEF Asked, Question, Answer, Text
<1>5. client[c].pc # "idle" => Own(c) \in Block
  BY <1>1 DEF Told, Own, Block, Client
<1>6. Free \in Text /\ Blank \in Text /\ Null \in {Null} \cup Block /\ <<>> \in Answer
  BY DEF Text, Answer
<1>7. CASE Enter(c)
  <2>11. PICK io \in IO : \E dev \in 0..Len(Devs(io)) :
          client' = [client EXCEPT ![c] = [pc |-> "freed", io |-> io, dev |-> dev,
                                           asks |-> @.asks + 1, ans |-> <<>>, handed |-> Null]]
    BY <1>7 DEF Enter
  <2>1. PICK dev \in 0..Len(Devs(io)) :
          client' = [client EXCEPT ![c] = [pc |-> "freed", io |-> io, dev |-> dev,
                                           asks |-> @.asks + 1, ans |-> <<>>, handed |-> Null]]
    BY <2>11
  <2>2. dev \in Nat
    <3>1. Devs(io) \in {conf.ins, conf.outs}
      BY DEF Devs
    <3>2. Len(Devs(io)) \in Nat
      BY <3>1, Sizes
    <3> QED BY <3>2
  <2>3. client[c].asks + 1 \in 0..conf.asks
    BY <1>1, <1>7, ConfsAssumption DEF Enter, Client
  <2> DEFINE new == [pc |-> "freed", io |-> io, dev |-> dev, asks |-> client[c].asks + 1,
                     ans |-> <<>>, handed |-> Null]
  <2>4. new \in Client
    BY <1>6, <2>2, <2>3 DEF Client
  <2>5. client' = [client EXCEPT ![c] = new]
    BY <2>1
  <2> HIDE DEF new
  <2>6. client' \in [conf.clients -> Client] /\ \A d \in conf.clients : d # c => client'[d] = client[d]
    BY <1>1, <2>4, <2>5
  <2> DEFINE heap == [b \in DOMAIN msg.heap |-> IF b = msg.ptr THEN Free ELSE msg.heap[b]]
             alone == \A d \in conf.clients \ {c} : client[d].pc = "idle"
  <2>7. heap \in [Block -> Text]
    BY <1>1, <1>6 DEF Msg
  <2>8. msg' = [ptr |-> msg.ptr, heap |-> heap, last |-> c, alone |-> alone] /\ pipe' = pipe
    BY <1>7 DEF Enter
  <2>9. alone \in BOOLEAN
    OBVIOUS
  <2> HIDE DEF heap, alone
  <2>10. msg' \in Msg
    BY <1>1, <2>7, <2>8, <2>9 DEF Msg
  <2> QED BY <1>1, <1>2, <1>3, <2>6, <2>8, <2>10
<1>8. CASE Clear(c)
  <2>1. /\ client' = [client EXCEPT ![c].pc = "cleared"] /\ msg' = [msg EXCEPT !.ptr = Null]
        /\ pipe' = pipe
    BY <1>8 DEF Clear
  <2>2. client' \in [conf.clients -> Client] /\ \A d \in conf.clients : d # c => client'[d] = client[d]
    BY <1>1, <2>1 DEF Client
  <2>3. msg' \in Msg
    BY <1>1, <2>1 DEF Msg
  <2> QED BY <1>1, <1>2, <1>3, <2>1, <2>2, <2>3
<1>9. CASE Refuse(c)
  <2>1. /\ client' = [client EXCEPT ![c].pc = "read", ![c].ans = Asked(c)]
        /\ msg' = [msg EXCEPT !.ptr = Own(c), !.heap[Own(c)] = Asked(c)]
        /\ pipe' = pipe /\ Own(c) \in Block
    BY <1>5, <1>9 DEF Refuse
  <2>2. client' \in [conf.clients -> Client] /\ \A d \in conf.clients : d # c => client'[d] = client[d]
    BY <1>1, <1>4, <2>1 DEF Client
  <2>3. msg' \in Msg
    BY <1>1, <1>4, <2>1 DEF Msg
  <2> QED BY <1>1, <1>2, <1>3, <2>1, <2>2, <2>3
<1>10. CASE Ask(c)
  <2> DEFINE io == client[c].io
  <2>1. /\ client' = [client EXCEPT ![c].pc = "asked"] /\ msg' = msg
        /\ pipe' = [pipe EXCEPT ![io].synch = @ - 1, ![io].s = Append(@, Asked(c))]
        /\ pipe[io].synch > 0
    BY <1>10 DEF Ask, MayAsk
  <2>2. client' \in [conf.clients -> Client] /\ \A d \in conf.clients : d # c => client'[d] = client[d]
    BY <1>1, <2>1 DEF Client
  <2>3. /\ Append(pipe[io].s, Asked(c)) \in Seq(Question) /\ pipe[io].synch - 1 \in 0..1
    BY <1>1, <1>4, <2>1 DEF Pipe
  <2> HIDE DEF io
  <2>4. pipe' \in [IO -> Pipe]
    BY <1>1, <2>1, <2>3 DEF Pipe, io
  <2> QED BY <1>1, <1>2, <1>3, <2>1, <2>2, <2>4
<1>11. CASE Answered(c)
  <2> DEFINE io == client[c].io
  <2>1. /\ client' = [client EXCEPT ![c].pc = "answered", ![c].ans = Head(pipe[io].r)]
        /\ msg' = [msg EXCEPT !.ptr = Own(c), !.heap[Own(c)] = Blank]
        /\ pipe' = pipe /\ Own(c) \in Block /\ pipe[io].r # <<>>
    BY <1>5, <1>11 DEF Answered
  <2>2. Head(pipe[io].r) \in Answer
    BY <1>1, <2>1 DEF Pipe, Answer
  <2> HIDE DEF io
  <2>3. client' \in [conf.clients -> Client] /\ \A d \in conf.clients : d # c => client'[d] = client[d]
    BY <1>1, <2>1, <2>2 DEF Client
  <2>4. msg' \in Msg
    BY <1>1, <1>6, <2>1 DEF Msg
  <2> QED BY <1>1, <1>2, <1>3, <2>1, <2>3, <2>4
<1>12. CASE ReadMessage(c)
  <2> DEFINE io == client[c].io
  <2>1. pipe[io].r # <<>> /\ Own(c) \in Block
    BY <1>5, <1>12 DEF ReadMessage
  <2>2. PICK target \in {Own(c), msg.ptr} :
          IF target = Null THEN UNCHANGED <<pipe, client, msg>>
          ELSE /\ msg' = [msg EXCEPT !.heap[target] = IF @ = Free THEN Free ELSE Head(pipe[io].r)]
               /\ pipe' = [pipe EXCEPT ![io].r = Tail(@)]
               /\ client' = [client EXCEPT ![c].pc = "read"]
    BY <1>12, Zenon DEF ReadMessage
  <2>3. CASE target = Null
    BY <1>1, <1>2, <1>3, <2>2, <2>3
  <2>4. CASE target # Null
    <3>1. target \in Block
      BY <1>1, <2>1, <2>4 DEF Msg
    <3>2. Head(pipe[io].r) \in Text /\ Tail(pipe[io].r) \in Seq(Question)
      BY <1>1, <2>1 DEF Pipe, Text
    <3> DEFINE text == IF msg.heap[target] = Free THEN Free ELSE Head(pipe[io].r)
    <3>3. text \in Text
      BY <1>6, <3>2
    <3>4. /\ msg' = [msg EXCEPT !.heap[target] = text]
          /\ pipe' = [pipe EXCEPT ![io].r = Tail(@)]
          /\ client' = [client EXCEPT ![c].pc = "read"]
      BY <1>1, <2>2, <2>4, <3>1 DEF Msg
    <3> HIDE DEF text, io
    <3>5. msg' \in Msg
      BY <1>1, <3>1, <3>3, <3>4 DEF Msg
    <3>6. pipe' \in [IO -> Pipe]
      BY <1>1, <3>2, <3>4 DEF Pipe, io
    <3>7. client' \in [conf.clients -> Client] /\ \A d \in conf.clients : d # c => client'[d] = client[d]
      BY <1>1, <3>4 DEF Client
    <3> QED BY <1>2, <1>3, <3>5, <3>6, <3>7
  <2> QED BY <2>3, <2>4
<1>13. CASE Return(c)
  <2> DEFINE io == client[c].io
  <2>1. PICK handed \in {Own(c), msg.ptr} :
          client' = [client EXCEPT ![c].pc = "idle", ![c].handed = handed]
    BY <1>13 DEF Return
  <2>2. handed \in {Null} \cup Block /\ msg' = msg
    BY <1>1, <1>5, <1>13 DEF Return, Msg
  <2>3. client' \in [conf.clients -> Client] /\ \A d \in conf.clients : d # c => client'[d] = client[d]
    BY <1>1, <2>1, <2>2 DEF Client
  <2>4. pipe' \in [IO -> Pipe]
    <3>1. CASE Refuses(c)
      BY <1>1, <1>13, <3>1 DEF Return
    <3>2. CASE ~Refuses(c)
      <4>1. Holds(c) /\ pipe[io].synch = 0
        BY <1>13, <3>2 DEF Return, Holds, Exchange, UnderWay
      <4>2. pipe' = [pipe EXCEPT ![io].synch = @ + 1]
        BY <1>13, <3>2 DEF Return
      <4>3. pipe[io].synch + 1 \in 0..1
        BY <4>1
      <4> HIDE DEF io
      <4> QED BY <1>1, <4>2, <4>3 DEF Pipe, io
    <3> QED BY <3>1, <3>2
  <2> QED BY <1>1, <1>2, <1>3, <2>2, <2>3, <2>4
<1> QED BY <1>7, <1>8, <1>9, <1>10, <1>11, <1>12, <1>13 DEF Call

\* A question is put with the token of its direction, which nobody else holds then, and the token
\* is given back with the answer: what comes back is to the question of whoever waits for it.
LEMMA CallStep ==
  ASSUME conf \in Confs, Exchange, NEW c \in conf.clients, Call(c)
  PROVE  /\ Exchange'
         /\ \A io \in IO : pipe[io].s # <<>> => pipe'[io].s # <<>>
<1> DEFINE io == client[c].io
<1>1. /\ pipe \in [IO -> Pipe] /\ client \in [conf.clients -> Client] /\ io \in IO
      /\ client[c] \in Client /\ Told(c) /\ (Holds(c) => UnderWay(c))
  BY DEF Exchange, CallTypes, Client
<1>2. /\ conf' = conf /\ CallTypes'
      /\ \A d \in conf.clients : d # c => client'[d] = client[d]
  BY CallFields
<1>3. Holds(c) => \A d \in conf.clients : d # c /\ Holds(d) => client[d].io # io
  BY DEF Exchange
<1>4. client'[c].io = io /\ client'[c].dev = client[c].dev
        => Asked(c)' = Asked(c) /\ Refuses(c)' = Refuses(c)
  BY <1>2, SameCall
<1> HIDE DEF io
<1>5. CASE Enter(c)
  <2>1. client'[c].pc = "freed" /\ client'[c].asks = client[c].asks + 1 /\ pipe' = pipe
    BY <1>1, <1>5 DEF Enter
  <2>2. Told(c)' /\ ~Holds(c)'
    BY <1>1, <2>1 DEF Told, Holds, Client
  <2> QED BY <1>2, <2>1, <2>2, OneCaller
<1>6. CASE Clear(c)
  <2>1. /\ client'[c].pc = "cleared" /\ client'[c].asks = client[c].asks /\ pipe' = pipe
        /\ client[c].pc = "freed"
    BY <1>1, <1>6 DEF Clear, Client
  <2>2. Told(c)' /\ ~Holds(c)'
    BY <1>1, <2>1 DEF Told, Holds
  <2> QED BY <1>2, <2>1, <2>2, OneCaller
<1>7. CASE Refuse(c)
  <2>1. /\ client'[c].pc = "read" /\ client'[c].asks = client[c].asks /\ client'[c].ans = Asked(c)
        /\ client'[c].io = io /\ client'[c].dev = client[c].dev /\ pipe' = pipe
        /\ client[c].pc = "cleared" /\ Refuses(c)
    BY <1>1, <1>7 DEF Refuse, Client, io
  <2>2. Told(c)' /\ ~Holds(c)'
    BY <1>1, <1>4, <2>1 DEF Told, Holds
  <2> QED BY <1>2, <2>1, <2>2, OneCaller
<1>8. CASE Ask(c)
  <2>1. /\ client'[c].pc = "asked" /\ client'[c].asks = client[c].asks
        /\ client'[c].io = io /\ client'[c].dev = client[c].dev
        /\ client[c].pc = "cleared" /\ ~Refuses(c)
    BY <1>1, <1>8 DEF Ask, Client, io
  <2>2. pipe[io].synch = 1 /\ pipe[io].s = <<>> /\ pipe[io].r = <<>>
    <3>1. pipe[io].synch = 1
      BY <1>1, <1>8 DEF Ask, MayAsk, Pipe, io
    <3> QED BY <1>1, <3>1 DEF Exchange
  <2>3. /\ pipe'[io].synch = 0 /\ pipe'[io].s = <<Asked(c)>> /\ pipe'[io].r = <<>>
        /\ \A o \in IO : o # io => pipe'[o] = pipe[o]
    <3>1. pipe' = [pipe EXCEPT ![io].synch = @ - 1, ![io].s = Append(@, Asked(c))]
      BY <1>8 DEF Ask, io
    <3>2. /\ pipe'[io].synch = pipe[io].synch - 1 /\ pipe'[io].s = Append(pipe[io].s, Asked(c))
          /\ pipe'[io].r = pipe[io].r
          /\ \A o \in IO : o # io => pipe'[o] = pipe[o]
      BY <1>1, <3>1 DEF Pipe
    <3> QED BY <2>2, <3>2
  <2>4. Told(c)' /\ UnderWay(c)'
    BY <1>1, <1>4, <2>1, <2>3 DEF Told, UnderWay
  <2>5. \A d \in conf.clients : d # c /\ Holds(d) => client[d].io # io
    BY <2>2 DEF Exchange, UnderWay
  <2>6. Exchange'
    BY <1>1, <1>2, <2>1, <2>3, <2>4, <2>5, OneCaller
  <2> QED BY <1>1, <2>2, <2>3, <2>6
<1>9. CASE Answered(c)
  <2>1. /\ client'[c].pc = "answered" /\ client'[c].asks = client[c].asks
        /\ client'[c].ans = Head(pipe[io].r)
        /\ client'[c].io = io /\ client'[c].dev = client[c].dev
        /\ client[c].pc = "asked" /\ pipe' = pipe /\ pipe[io].r # <<>>
    BY <1>1, <1>9 DEF Answered, Client, io
  <2>2. /\ Holds(c) /\ ~Refuses(c) /\ pipe[io].synch = 0
        /\ pipe[io].s = <<>> /\ pipe[io].r = <<Asked(c)>>
    BY <1>1, <2>1 DEF Holds, UnderWay, io
  <2>3. client'[c].ans = Asked(c)
    BY <2>1, <2>2
  <2>4. Told(c)' /\ UnderWay(c)'
    BY <1>1, <1>4, <2>1, <2>2, <2>3 DEF Told, UnderWay
  <2> QED BY <1>2, <2>1, <2>2, <2>4, OneCaller DEF io
<1>10. CASE ReadMessage(c)
  <2>1. /\ Holds(c) /\ client[c].pc = "answered" /\ ~Refuses(c) /\ pipe[io].synch = 0
        /\ pipe[io].s = <<>> /\ pipe[io].r = <<Asked(c)>>
    BY <1>1, <1>10 DEF ReadMessage, Holds, UnderWay, io
  <2>2. \/ UNCHANGED <<pipe, client>>
        \/ pipe' = [pipe EXCEPT ![io].r = Tail(@)] /\ client' = [client EXCEPT ![c].pc = "read"]
    BY <1>10 DEF ReadMessage, io
  <2>3. CASE UNCHANGED <<pipe, client>>
    <3>1. Told(c)' /\ Holds(c)' = Holds(c) /\ UnderWay(c)'
      BY <1>1, <1>4, <2>1, <2>3 DEF Told, Holds, UnderWay, io
    <3> QED BY <1>2, <2>1, <2>3, <3>1, OneCaller
  <2>4. CASE pipe' = [pipe EXCEPT ![io].r = Tail(@)] /\ client' = [client EXCEPT ![c].pc = "read"]
    <3>1. /\ client'[c].pc = "read" /\ client'[c].asks = client[c].asks
          /\ client'[c].ans = client[c].ans
          /\ client'[c].io = io /\ client'[c].dev = client[c].dev
      BY <1>1, <2>4 DEF Client, io
    <3>2. /\ pipe'[io].synch = pipe[io].synch /\ pipe'[io].s = pipe[io].s
          /\ pipe'[io].r = Tail(pipe[io].r)
          /\ \A o \in IO : o # io => pipe'[o] = pipe[o]
      BY <1>1, <2>4 DEF Pipe
    <3>3. pipe'[io].synch = 0 /\ pipe'[io].s = <<>> /\ pipe'[io].r = <<>>
      BY <2>1, <3>2
    <3>4. Told(c)' /\ UnderWay(c)'
      BY <1>1, <1>4, <2>1, <3>1, <3>3 DEF Told, UnderWay
    <3>5. Exchange'
      BY <1>1, <1>2, <1>3, <2>1, <3>1, <3>2, <3>3, <3>4, OneCaller
    <3> QED BY <2>1, <3>2, <3>5
  <2> QED BY <2>2, <2>3, <2>4
<1>11. CASE Return(c)
  <2>1. /\ client'[c].pc = "idle" /\ client'[c].asks = client[c].asks
        /\ client'[c].ans = client[c].ans
        /\ client'[c].io = io /\ client'[c].dev = client[c].dev /\ client[c].pc = "read"
    BY <1>1, <1>11 DEF Return, Client, io
  <2>2. Told(c)' /\ ~Holds(c)'
    BY <1>1, <1>4, <2>1 DEF Told, Holds
  <2>3. CASE Refuses(c)
    <3>1. pipe' = pipe
      BY <1>11, <2>3 DEF Return
    <3> QED BY <1>2, <2>2, <3>1, OneCaller
  <2>4. CASE ~Refuses(c)
    <3>1. Holds(c) /\ pipe[io].s = <<>> /\ pipe[io].r = <<>>
      BY <1>1, <2>1, <2>4 DEF Holds, UnderWay, io
    <3>2. pipe' = [pipe EXCEPT ![io].synch = @ + 1]
      BY <1>11, <2>4 DEF Return, io
    <3>3. /\ pipe'[io].s = pipe[io].s /\ pipe'[io].r = pipe[io].r
          /\ \A o \in IO : o # io => pipe'[o] = pipe[o]
      BY <1>1, <3>2 DEF Pipe
    <3>4. Exchange'
      BY <1>1, <1>2, <1>3, <2>2, <3>1, <3>3, OneCaller
    <3> QED BY <3>1, <3>3, <3>4
  <2> QED BY <2>3, <2>4
<1> QED BY <1>5, <1>6, <1>7, <1>8, <1>9, <1>10, <1>11 DEF Call

\* Who calls while nobody else does keeps its block until it returns with it.
LEMMA MessageStep ==
  ASSUME conf \in Confs, Exchange, Lone, NEW c \in conf.clients, Call(c)
  PROVE  Lone'
<1>1. /\ client \in [conf.clients -> Client] /\ msg \in Msg
      /\ client[c] \in Client /\ Told(c) /\ (Holds(c) => UnderWay(c))
  BY DEF Exchange, CallTypes
<1>2. /\ conf' = conf
      /\ \A d \in conf.clients : d # c => client'[d] = client[d]
  BY CallFields
<1>3. CASE Enter(c)
  <2>1. client'[c].pc = "freed"
    BY <1>1, <1>3 DEF Enter
  <2>2. /\ msg'.last = c
        /\ msg'.alone => \A d \in conf.clients \ {c} : client[d].pc = "idle"
    BY <1>3 DEF Enter
  <2>3. Message(c)'
    BY <2>1 DEF Message
  <2>4. msg'.alone => \A d \in conf.clients : d # c => client'[d].pc = "idle"
    BY <1>2, <2>2
  <2> QED BY <1>2, <2>2, <2>3, <2>4 DEF Lone
<1>4. ASSUME client[c].pc # "idle", msg'.alone = msg.alone, msg'.last = msg.last,
             msg.alone /\ Message(c) => Message(c)'
      PROVE  Lone'
  <2>1. SUFFICES ASSUME msg.alone
                 PROVE  \A d \in conf.clients : IF d = msg.last THEN Message(d)'
                                                ELSE client'[d].pc = "idle"
    BY <1>2, <1>4 DEF Lone
  <2>2. c = msg.last /\ Message(c)
    BY <1>4, <2>1 DEF Lone
  <2>3. \A d \in conf.clients : d # c => client'[d].pc = "idle"
    BY <1>2, <2>1, <2>2 DEF Lone
  <2> QED BY <1>4, <2>1, <2>2, <2>3
<1>5. client[c].pc # "idle" => Own(c) \in Block
  BY <1>1 DEF Told, Own, Block, Client
<1>6. client'[c].io = client[c].io /\ client'[c].dev = client[c].dev => Asked(c)' = Asked(c)
  BY <1>2, SameCall
<1>7. client'[c].asks = client[c].asks => Own(c)' = Own(c)
  BY DEF Own
<1>8. CASE Clear(c)
  <2>1. client[c].pc = "freed" /\ client'[c].pc = "cleared" /\ msg'.alone = msg.alone
        /\ msg'.last = msg.last
    BY <1>1, <1>8 DEF Clear, Msg
  <2> QED BY <1>4, <2>1 DEF Message
<1>9. CASE Ask(c)
  <2>1. client[c].pc = "cleared" /\ client'[c].pc = "asked" /\ msg' = msg
    BY <1>1, <1>9 DEF Ask
  <2> QED BY <1>4, <2>1 DEF Message
<1>10. CASE Refuse(c)
  <2>1. /\ client[c].pc = "cleared" /\ client'[c].pc = "read"
        /\ client'[c].io = client[c].io /\ client'[c].dev = client[c].dev
        /\ client'[c].asks = client[c].asks
    BY <1>1, <1>10 DEF Refuse, Client
  <2>2. msg' = [msg EXCEPT !.ptr = Own(c), !.heap[Own(c)] = Asked(c)]
    BY <1>10 DEF Refuse
  <2>3. /\ msg'.alone = msg.alone /\ msg'.last = msg.last /\ msg'.ptr = Own(c)
        /\ msg'.heap[Own(c)] = Asked(c)
    BY <1>1, <1>5, <2>1, <2>2 DEF Msg
  <2> QED BY <1>4, <1>6, <1>7, <2>1, <2>3 DEF Message
<1>11. CASE Answered(c)
  <2>1. /\ client[c].pc = "asked" /\ client'[c].pc = "answered"
        /\ client'[c].asks = client[c].asks
    BY <1>1, <1>11 DEF Answered, Client
  <2>2. msg' = [msg EXCEPT !.ptr = Own(c), !.heap[Own(c)] = Blank]
    BY <1>11 DEF Answered
  <2>3. /\ msg'.alone = msg.alone /\ msg'.last = msg.last /\ msg'.ptr = Own(c)
        /\ msg'.heap[Own(c)] = Blank
    BY <1>1, <1>5, <2>1, <2>2 DEF Msg
  <2>4. Blank # Free
    BY DEF Blank, Free
  <2> QED BY <1>4, <1>7, <2>1, <2>3, <2>4 DEF Message
<1>12. CASE ReadMessage(c)
  <2> DEFINE io == client[c].io
  <2>1. client[c].pc = "answered" /\ Head(pipe[io].r) = Asked(c)
    BY <1>1, <1>12 DEF ReadMessage, Holds, UnderWay
  <2>2. PICK target \in {Own(c), msg.ptr} :
          IF target = Null THEN UNCHANGED <<pipe, client, msg>>
          ELSE /\ msg' = [msg EXCEPT !.heap[target] = IF @ = Free THEN Free ELSE Head(pipe[io].r)]
               /\ client' = [client EXCEPT ![c].pc = "read"]
    BY <1>12, Zenon DEF ReadMessage
  <2>3. CASE target = Null
    <3>1. client' = client /\ msg' = msg
      BY <2>2, <2>3
    <3>2. Message(c)' = Message(c)
      BY <1>6, <1>7, <3>1 DEF Message
    <3> QED BY <1>4, <2>1, <3>1, <3>2
  <2>4. CASE target # Null
    <3>1. /\ client'[c].pc = "read"
          /\ client'[c].io = client[c].io /\ client'[c].dev = client[c].dev
          /\ client'[c].asks = client[c].asks
      BY <1>1, <2>2, <2>4 DEF Client
    <3>2. /\ msg'.alone = msg.alone /\ msg'.last = msg.last /\ msg'.ptr = msg.ptr
      BY <1>1, <2>2, <2>4 DEF Msg
    <3>3. msg.ptr = Own(c) /\ msg.heap[Own(c)] # Free => msg'.heap[Own(c)] = Asked(c)
      BY <1>1, <1>5, <2>1, <2>2, <2>4 DEF Msg
    <3> QED BY <1>4, <1>6, <1>7, <2>1, <3>1, <3>2, <3>3 DEF Message
  <2> QED BY <2>3, <2>4
<1>13. CASE Return(c)
  <2>1. PICK handed \in {Own(c), msg.ptr} :
          client' = [client EXCEPT ![c].pc = "idle", ![c].handed = handed]
    BY <1>13 DEF Return
  <2>2. /\ client[c].pc = "read" /\ client'[c].pc = "idle" /\ client'[c].handed = handed
        /\ client'[c].io = client[c].io /\ client'[c].dev = client[c].dev
        /\ client'[c].asks = client[c].asks /\ msg' = msg
    BY <1>1, <1>13, <2>1 DEF Return, Client
  <2> QED BY <1>4, <1>6, <1>7, <2>1, <2>2 DEF Message
<1> QED BY <1>3, <1>8, <1>9, <1>10, <1>11, <1>12, <1>13 DEF Call

-----------------------------------------------------------------------------
\* Steps that leave the callers and the pipes alone.
LEMMA SameExchange ==
  ASSUME Exchange, UNCHANGED <<conf, client, msg, pipe>>
  PROVE  Exchange'
<1>1. CallTypes'
  BY DEF Exchange, CallTypes, Client, Pipe, Msg, Block, Text, Question, Answer, IO
<1>2. \A c : Asked(c)' = Asked(c) /\ Refuses(c)' = Refuses(c)
  BY SameCall
<1>3. \A c : Told(c)' = Told(c) /\ Holds(c)' = Holds(c) /\ UnderWay(c)' = UnderWay(c)
  BY <1>2 DEF Told, Holds, UnderWay
<1>4. IO' = IO
  BY DEF IO
<1> QED BY <1>1, <1>3, <1>4 DEF Exchange

LEMMA SameLone ==
  ASSUME Lone, UNCHANGED <<conf, client, msg>>
  PROVE  Lone'
<1>1. \A c : Asked(c)' = Asked(c) /\ Own(c)' = Own(c)
  BY SameCall DEF Own
<1>2. \A c : Message(c)' = Message(c)
  BY <1>1 DEF Message
<1> QED BY <1>2 DEF Lone

\* Only a command that is served, and the callers, touch the pipes.
LEMMA PipesKept ==
  ASSUME Input \/ Output
  PROVE  /\ client' = client /\ msg' = msg
         /\ \/ pipe' = pipe
            \/ InputParams /\ HandleParams("in")
            \/ OutputParams /\ HandleParams("out")
<1>1. CASE Input
  <2>1. CASE InputParams
    BY <2>1 DEF InputParams
  <2>2. CASE ~InputParams
    BY <1>1, <2>2 DEF Input, InputBegin, InputSelect, InputEnd,
       InputAgain, InputError, InputRead, InputEof, InputEofIndex
  <2> QED BY <2>1, <2>2
<1>2. CASE Output
  <2>1. CASE OutputParams
    BY <2>1 DEF OutputParams
  <2>2. CASE ~OutputParams
    BY <1>2, <2>2 DEF Output, OutputFill, OutputBegin,
       OutputSelect, OutputEnd, OutputError, OutputWrite
  <2> QED BY <2>1, <2>2
<1> QED BY <1>1, <1>2

\* A round of either loop: the questions go on, and no answer is given yet.
LEMMA RoundStep ==
  ASSUME Inv, Input \/ Output
  PROVE  Exchange' /\ HasQuestion(inp, "in")' /\ HasQuestion(out, "out")' /\ Lone'
<1>1. conf' = conf /\ conf \in Confs /\ Exchange /\ InTypes /\ OutOK
  BY SameDevices DEF Inv, Next
<1>2. client' = client /\ msg' = msg
  BY PipesKept
<1>3. Serving(inp') => ~InputParams /\ pipe["in"].s # <<>>
  <2>1. Serving(inp) => pipe["in"].s # <<>>
    BY DEF Inv, HasQuestion
  <2> QED BY <1>1, <2>1, Serves, Zenon
<1>4. Serving(out') => ~OutputParams /\ pipe["out"].s # <<>>
  <2>1. Serving(out) => pipe["out"].s # <<>>
    BY DEF Inv, HasQuestion
  <2> QED BY <1>1, <2>1, Serves, Zenon
<1>5. /\ inp \in InFields /\ out \in OutState
      /\ DOMAIN conf.ins = 1..Len(conf.ins) /\ DOMAIN conf.outs = 1..Len(conf.outs)
      /\ pipe \in [IO -> Pipe]
  BY <1>1, Sizes DEF InTypes, OutOK, Exchange, CallTypes
<1>9. Lone'
  BY <1>1, <1>2, SameLone DEF Inv
<1>6. CASE pipe' = pipe
  <2>1. UNCHANGED <<conf, client, msg, pipe>>
    BY <1>1, <1>2, <1>6
  <2>2. Exchange'
    BY <1>1, <2>1, SameExchange
  <2> QED BY <1>3, <1>4, <1>6, <1>9, <2>2 DEF HasQuestion
<1>7. CASE InputParams /\ HandleParams("in")
  <2>1. pipe["in"].s # <<>>
    <3>1. inp.pc = "serve" /\ inp.ready # {} /\ NextFd(inp.ready) = Params
      BY <1>7 DEF InputParams
    <3>2. inp.ready \subseteq Nat
      BY <1>5 DEF InFields
    <3>3. Params \in inp.ready
      BY <3>1, <3>2, FirstReady
    <3> QED BY <3>1, <3>3 DEF Inv, HasQuestion, Serving
  <2>2. Exchange'
    BY <1>1, <1>2, <1>7, <2>1, Handled DEF IO
  <2>3. pipe'["out"] = pipe["out"]
    BY <1>5, <1>7 DEF HandleParams, IO
  <2> QED BY <1>3, <1>4, <1>7, <1>9, <2>2, <2>3 DEF HasQuestion
<1>8. CASE OutputParams /\ HandleParams("out")
  <2>1. pipe["out"].s # <<>>
    <3>1. out.pc = "serve" /\ out.ready # {} /\ NextFd(out.ready) = Params
      BY <1>8 DEF OutputParams
    <3>2. out.ready \subseteq Nat
      BY <1>5 DEF OutState
    <3>3. Params \in out.ready
      BY <3>1, <3>2, FirstReady
    <3> QED BY <3>1, <3>3 DEF Inv, HasQuestion, Serving
  <2>2. Exchange'
    BY <1>1, <1>2, <1>8, <2>1, Handled DEF IO
  <2>3. pipe'["in"] = pipe["in"]
    BY <1>5, <1>8 DEF HandleParams, IO
  <2> QED BY <1>3, <1>4, <1>8, <1>9, <2>2, <2>3 DEF HasQuestion
<1> QED BY <1>6, <1>7, <1>8, PipesKept

\* A step of either loop that is not its own ends it or leaves it alone.
LEMMA OtherLoop ==
  ASSUME Next, InTypes, OutOK
  PROVE  /\ Input \/ inp' = inp \/ inp' = [inp EXCEPT !.pc = "exit"]
         /\ Output \/ out' = out \/ out' = [out EXCEPT !.pc = "exit"]
<1>1. CASE Input
  <2>1. out' = out \/ out' = [out EXCEPT !.pc = "exit"]
    BY <1>1 DEF Input, InputBegin, InputSelect, InputParams,
       InputEnd, InputAgain, InputError, InputRead, InputEof, InputEofIndex, Abort
  <2> QED BY <1>1, <2>1
<1>2. CASE Output
  <2>1. inp' = inp \/ inp' = [inp EXCEPT !.pc = "exit"]
    BY <1>2 DEF Output, OutputFill, OutputBegin, OutputSelect,
       OutputParams, OutputEnd, OutputError, OutputWrite, Abort
  <2> QED BY <1>2, <2>1
<1>3. CASE ToggleMute \/ \E c \in conf.clients : Call(c)
  BY <1>3 DEF ToggleMute, Call, Enter, Clear, Refuse, Ask, Answered, ReadMessage, Return, GoesOn, Abort
<1> QED BY <1>1, <1>2, <1>3 DEF Next

\* The invariant is inductive.
LEMMA NextInv ==
  ASSUME Inv, [Next]_(vars)
  PROVE  Inv'
<1>1. CASE UNCHANGED vars
  <2>1. UNCHANGED <<conf, inp, out, ca, pipe, client, msg>>
    BY <1>1 DEF vars
  <2>2. Exchange' /\ Lone'
    BY <2>1, SameExchange, SameLone DEF Inv
  <2> QED BY <2>1, <2>2 DEF Inv, InTypes, InFields, InOK, InState, OutOK, OutState, EndOK, Loop,
       HasQuestion, Serving, PolledAlone, BadAlignment, BufSize, FrameSize, Open, Params
<1>2. CASE Next
  <2>1. /\ conf' = conf /\ conf \in Confs /\ \A d : BufSize(d)' = BufSize(d)
        /\ InTypes /\ (PolledAlone => InOK) /\ OutOK /\ EndOK
        /\ Exchange /\ HasQuestion(inp, "in") /\ HasQuestion(out, "out") /\ Lone
    BY SameDevices DEF Inv
  <2>2. PolledAlone' = PolledAlone
    BY <2>1 DEF PolledAlone, BadAlignment
  <2>3. EndOK'
    BY <1>2, EndStep
  <2>4. InTypes'
    <3>1. CASE Input
      BY <2>1, <3>1, InputTypes
    <3>2. CASE inp' = inp \/ inp' = [inp EXCEPT !.pc = "exit"]
      BY <2>1, <3>2 DEF InTypes, InFields
    <3> QED BY <1>2, <2>1, <3>1, <3>2, OtherLoop
  <2>5. PolledAlone => InOK'
    <3>1. CASE Input
      BY <2>1, <3>1, InputLoop
    <3>2. CASE inp' = inp \/ inp' = [inp EXCEPT !.pc = "exit"]
      BY <2>1, <3>2 DEF InOK, InState, Loop, Params
    <3> QED BY <1>2, <2>1, <3>1, <3>2, OtherLoop
  <2>6. OutOK'
    <3>1. CASE Output
      BY <2>1, <3>1, OutputLoop
    <3>2. CASE out' = out \/ out' = [out EXCEPT !.pc = "exit"]
      BY <2>1, <3>2 DEF OutOK, OutState, Loop, Params
    <3> QED BY <1>2, <2>1, <3>1, <3>2, OtherLoop
  <2>7. Exchange' /\ HasQuestion(inp, "in")' /\ HasQuestion(out, "out")' /\ Lone'
    <3>1. CASE Input \/ Output
      BY <3>1, RoundStep
    <3>2. CASE ToggleMute
      <4>1. UNCHANGED <<conf, inp, out, pipe, client, msg>>
        BY <3>2 DEF ToggleMute
      <4> QED BY <2>1, <4>1, SameExchange, SameLone DEF HasQuestion
    <3>3. ASSUME NEW c \in conf.clients, Call(c)
          PROVE  Exchange' /\ HasQuestion(inp, "in")' /\ HasQuestion(out, "out")' /\ Lone'
      <4>1. /\ inp' = inp \/ inp' = [inp EXCEPT !.pc = "exit"]
            /\ out' = out \/ out' = [out EXCEPT !.pc = "exit"]
        BY <3>3 DEF Call, Enter, Clear, Refuse, Ask, Answered, ReadMessage, Return, GoesOn, Abort
      <4>2. /\ Exchange' /\ Lone'
            /\ \A io \in IO : pipe[io].s # <<>> => pipe'[io].s # <<>>
        BY <2>1, <3>3, CallStep, MessageStep
      <4>3. (Serving(inp') => Serving(inp)) /\ (Serving(out') => Serving(out))
        BY <2>1, <4>1 DEF Serving, InTypes, InFields, OutOK, OutState
      <4> QED BY <2>1, <4>2, <4>3 DEF HasQuestion, IO
    <3> QED BY <1>2, <3>1, <3>2, <3>3 DEF Next
  <2> QED BY <2>1, <2>2, <2>3, <2>4, <2>5, <2>6, <2>7, Zenon DEF Inv
<1> QED BY <1>1, <1>2

\* It holds when the loops are entered for the first time.
LEMMA InitInv ==
  ASSUME Init
  PROVE  Inv
<1>1. conf \in Confs
  BY DEF Init
<1>2. /\ conf.period \in Nat \ {0}
      /\ Len(conf.ins) \in Nat /\ Len(conf.outs) \in Nat
      /\ \A n \in DOMAIN conf.ins : BufSize(conf.ins[n]) \in Nat /\ conf.ins[n].skip \in Nat
      /\ \A n \in DOMAIN conf.outs : BufSize(conf.outs[n]) \in Nat
  BY <1>1, Sizes
<1>3. InOK /\ InTypes
  <2> DEFINE left == [n \in DOMAIN conf.ins |-> BufSize(conf.ins[n])]
             pos == [n \in DOMAIN conf.ins |-> conf.ins[n].skip]
             pc == IF Refused THEN "exit" ELSE "begin"
  <2>1. inp = [pc |-> pc, idx |-> 0, cur |-> 0, rfds |-> {}, ready |-> {}, devsleft |-> 0,
               left |-> left, pos |-> pos]
    BY DEF Init
  <2>2. /\ left \in [DOMAIN conf.ins -> Nat] /\ pos \in [DOMAIN conf.ins -> Int]
        /\ \A n \in DOMAIN conf.ins : left[n] <= BufSize(conf.ins[n])
        /\ pc \in {"exit", "begin"} /\ 0 \in 0..Len(conf.ins)
    BY <1>2
  <2> HIDE DEF left, pos, pc
  <2> QED BY <2>1, <2>2 DEF InOK, InState, InTypes, InFields, Loop
<1>4. OutOK
  <2> DEFINE left == [n \in DOMAIN conf.outs |-> BufSize(conf.outs[n])]
             pc == IF Refused THEN "exit" ELSE "begin"
             fill == IF SynchedWrite THEN 2 ELSE 0
  <2>1. out = [pc |-> pc, idx |-> 0, cur |-> 0, wfds |-> {}, ready |-> {}, devsleft |-> 0,
                fill |-> fill, islast |-> FALSE, left |-> left, size |-> left]
    BY DEF Init
  <2>2. /\ left \in [DOMAIN conf.outs -> Nat] /\ fill \in Nat
        /\ \A n \in DOMAIN conf.outs : left[n] <= BufSize(conf.outs[n])
        /\ pc \in {"exit", "begin"} /\ 0 \in 0..Len(conf.outs)
    BY <1>2
  <2> HIDE DEF left, pc, fill
  <2> QED BY <2>1, <2>2 DEF OutOK, OutState, Loop
<1>5. EndOK
  BY <1>2, <1>3 DEF Init, EndOK
<1>6. Exchange /\ Lone
  <2>1. <<>> \in Seq(Question) /\ <<>> \in Answer /\ "in" \in IO /\ conf.asks \in Nat
    BY <1>1, ConfsAssumption DEF Answer, IO
  <2>2. /\ pipe \in [IO -> Pipe]
        /\ \A io \in IO : pipe[io].synch = 1 /\ pipe[io].s = <<>> /\ pipe[io].r = <<>>
    BY <2>1 DEF Init, Pipe
  <2>3. /\ client \in [conf.clients -> Client]
        /\ \A c \in conf.clients : client[c].pc = "idle" /\ client[c].asks = 0
    BY <2>1 DEF Init, Client
  <2>4. msg \in Msg
    BY DEF Init, Msg, Block, Text
  <2>5. \A c \in conf.clients : Told(c) /\ ~Holds(c) /\ Message(c)
    BY <2>3 DEF Told, Holds, Message
  <2> QED BY <2>2, <2>3, <2>4, <2>5 DEF Exchange, CallTypes, Lone
<1>7. HasQuestion(inp, "in") /\ HasQuestion(out, "out")
  BY DEF Init, HasQuestion, Serving
<1> QED BY <1>1, <1>3, <1>4, <1>5, <1>6, <1>7 DEF Inv

\* dai_input() and dai_output() (dai.c:1085-1550), in every configuration in which a device that
\* has to be read without being ready is the only input, wait in select() for as many devices as
\* devsleft counts, never have more than a period of a device to go, and find the end of the input
\* in a period that has been begun, within its frames.  With two such inputs a device that has its
\* period is read again (dai.c:1204-1213), and devsleft counts it twice.
THEOREM TypeCorrect ==
  Spec => [](PolledAlone => TypeOK)
<1>1. Inv => (PolledAlone => TypeOK)
  <2> SUFFICES ASSUME Inv, PolledAlone PROVE TypeOK
    OBVIOUS
  <2>1. /\ conf \in Confs /\ inp \in InState /\ out \in OutState
        /\ \A n \in DOMAIN conf.ins : inp.left[n] \in 0..BufSize(conf.ins[n])
        /\ \A n \in DOMAIN conf.outs : out.left[n] \in 0..BufSize(conf.outs[n])
    <3>1. \A n \in DOMAIN conf.ins : BufSize(conf.ins[n]) \in Nat
      BY Sizes DEF Inv
    <3>2. \A n \in DOMAIN conf.outs : BufSize(conf.outs[n]) \in Nat
      BY Sizes DEF Inv
    <3> QED BY <3>1, <3>2 DEF Inv, InOK, OutOK, InState, OutState
  <2>2. DaiState(inp, conf.ins, {"eof", "stopped"}) /\ DaiState(out, conf.outs, {"ended"})
    BY <2>1 DEF InState, OutState, DaiState
  <2>3. /\ inp.rfds \subseteq DOMAIN conf.ins /\ out.wfds \subseteq DOMAIN conf.outs
        /\ inp.pc = "select" => inp.devsleft = Cardinality(inp.rfds)
        /\ out.pc = "select" => out.devsleft = Cardinality(out.wfds)
    <3>1. inp.pc = "select" => inp.devsleft = Cardinality(inp.rfds)
      BY DEF Inv, InOK, Loop
    <3>2. out.pc = "select" => out.devsleft = Cardinality(out.wfds)
      BY DEF Inv, OutOK, Loop
    <3>3. inp.rfds \subseteq DOMAIN conf.ins /\ out.wfds \subseteq DOMAIN conf.outs
      BY <2>1 DEF InState, OutState
    <3> QED BY <3>1, <3>2, <3>3
  <2>4. ca.frames_left \in -1..conf.period /\ ca.lastbuf_index \in 0..inp.idx
    BY <2>1 DEF Inv, EndOK, InState
  <2>5. /\ \A io \in IO : pipe[io].synch \in 0..1
        /\ \A c \in conf.clients :
              client[c].pc \in {"idle", "freed", "cleared", "asked", "answered", "read"}
    BY DEF Inv, Exchange, CallTypes, Pipe, Client
  <2> QED BY <2>1, <2>2, <2>3, <2>4, <2>5 DEF TypeOK
<1>2. Init => Inv
  BY InitInv
<1>3. Inv /\ [Next]_(vars) => Inv'
  BY NextInv
<1> QED BY <1>1, <1>2, <1>3, PTL DEF Spec

\* Whoever calls dai_subdev_command() (dai.c:983-1043), and however the calls of different threads
\* fall between each other and between the reads and the writes of the loops, is returned the
\* number that the device it asked has answered: the token in synchpipe keeps one question or
\* answer in each direction.  The static msgstr is not under it: only a caller whose call overlaps
\* no other is handed its own message, in memory nobody has freed, and only until the next call.
THEOREM AnswersBelong ==
  Spec => []AnswersMatch
<1>1. Inv => AnswersMatch
  <2> SUFFICES ASSUME Inv, NEW c \in conf.clients, client[c].pc = "idle", client[c].asks > 0
               PROVE  /\ client[c].ans = Asked(c)
                      /\ msg.alone /\ msg.last = c =>
                           client[c].handed = Own(c) /\ msg.heap[Own(c)] = Asked(c)
    BY DEF AnswersMatch
  <2>1. Told(c) /\ Lone
    BY DEF Inv, Exchange
  <2>2. client[c].ans = Asked(c)
    BY <2>1 DEF Told
  <2>3. msg.alone /\ msg.last = c => Message(c)
    BY <2>1 DEF Lone
  <2> QED BY <2>2, <2>3 DEF Message
<1>2. Init => Inv
  BY InitInv
<1>3. Inv /\ [Next]_(vars) => Inv'
  BY NextInv
<1> QED BY <1>1, <1>2, <1>3, PTL DEF Spec
=============================================================================
