-------------------------------- MODULE BfSem --------------------------------
(***************************************************************************)
(* The semaphore of bfconcurrency.c in its thread form (fork_mode is       *)
(* false): a counter under a mutex and a condition variable, and with it   *)
(* the small message buffer of bf_sem_postmsg and bf_sem_waitmsg.          *)
(*                                                                         *)
(* The program uses each semaphore in one way only, which the variable use *)
(* holds: who posts and who waits, how many tokens at a time, and whether  *)
(* it is a counting semaphore (bfrun.c) or carries messages (cbpipe_s and  *)
(* cbpipe_r of dai.c).                                                     *)
(***************************************************************************)
EXTENDS Integers, Sequences, FiniteSets

CONSTANTS
    Threads,        \* the threads of the program
    NoThread,       \* the mutex is free
    Uses,           \* the ways a semaphore is used
    Capacity,       \* sizeof(sem.msg_data), in messages
    MaxPosts,       \* bound on the calls of each poster, for model checking
    MaxSpurious     \* bound on spurious wakeups, for model checking

Use ==
    [Posters : SUBSET Threads, Waiters : SUBSET Threads,
     PostSize : Nat \ {0},      \* count argument of bf_sem_postmany
     WaitSize : Nat \ {0},      \* count argument of bf_sem_waitmany
     UseMsg : BOOLEAN]

ASSUME ThreadsAssumption ==
    /\ IsFiniteSet(Threads)
    /\ NoThread \notin Threads
    /\ Capacity \in Nat \ {0} /\ {MaxPosts, MaxSpurious} \subseteq Nat

\* A thread that waits for several tokens keeps those it has got while it sleeps,
\* so two such threads could starve each other: in bfrun.c a semaphore that is
\* waited on for more than one token has a single waiter.
ASSUME UsesAssumption ==
    /\ Uses \subseteq Use
    /\ \A u \in Uses :
          /\ u.UseMsg => u.PostSize = 1 /\ u.WaitSize = 1
          /\ u.WaitSize = 1 \/ Cardinality(u.Waiters) <= 1

VARIABLES
    use,            \* the way it is used, fixed when the program starts
    mutex,          \* the owner of sem.mutex
    count,          \* sem.count
    cond,           \* the threads asleep in pthread_cond_wait
    msg_data,       \* the messages in sem.msg_data
    pc,             \* what each thread does
    i,              \* i[t]: the loop variable of bf_sem_postmany and waitmany
    posts,          \* posts[p]: calls p has made
    spurious,       \* spurious wakeups so far
    sent, received, \* history: messages sent and received
    exited          \* bf_exit() has been called

vars == <<use, mutex, count, cond, msg_data, pc, i, posts, spurious, sent, received, exited>>

Pcs == {"idle", "post_lock", "signal", "wait_lock", "take", "asleep", "relock"}

Posters == use.Posters
Waiters == use.Waiters
PostSize == use.PostSize
WaitSize == use.WaitSize
UseMsg == use.UseMsg

\* A message: who sent it, and the how-manieth of that sender it is.
Msg == Threads \X Nat

TypeOK ==
    /\ use \in Uses
    /\ mutex \in Threads \cup {NoThread}
    /\ count \in Nat
    /\ cond \subseteq Threads
    /\ msg_data \in Seq(Msg)
    /\ pc \in [Threads -> Pcs]
    /\ i \in [Threads -> Nat]
    /\ posts \in [Threads -> Nat]
    /\ spurious \in Nat
    /\ sent \in Seq(Msg) /\ received \in Seq(Msg)
    /\ exited \in BOOLEAN

Init ==
    /\ use \in Uses
    /\ mutex = NoThread
    /\ count = 0
    /\ cond = {}
    /\ msg_data = <<>>
    /\ pc = [t \in Threads |-> "idle"]
    /\ i = [t \in Threads |-> 0]
    /\ posts = [p \in Threads |-> 0]
    /\ spurious = 0
    /\ sent = <<>> /\ received = <<>>
    /\ exited = FALSE

-----------------------------------------------------------------------------
(* bf_sem_postmany and bf_sem_postmsg *)

PostCall(p) ==
    /\ pc[p] = "idle"
    /\ posts[p] < MaxPosts
    /\ pc' = [pc EXCEPT ![p] = "post_lock"]
    /\ posts' = [posts EXCEPT ![p] = @ + 1]
    /\ UNCHANGED <<mutex, count, cond, msg_data, i, spurious, sent, received, exited>>

\* Mutant of Overflows: the size of the message buffer is not looked at.
Overflows_Never == FALSE
Overflows == UseMsg /\ Len(msg_data) = Capacity

\* "Semaphore message buffer overflow."
PostOverflow(p) ==
    /\ pc[p] = "post_lock"
    /\ mutex = NoThread
    /\ Overflows
    /\ exited' = TRUE
    /\ UNCHANGED <<mutex, count, cond, msg_data, pc, i, posts, spurious, sent, received>>

PostLock(p) ==
    /\ pc[p] = "post_lock"
    /\ mutex = NoThread
    /\ ~Overflows
    /\ mutex' = p
    /\ count' = count + PostSize
    /\ IF UseMsg
         THEN /\ msg_data' = Append(msg_data, <<p, posts[p]>>)
              /\ sent' = Append(sent, <<p, posts[p]>>)
         ELSE UNCHANGED <<msg_data, sent>>
    /\ pc' = [pc EXCEPT ![p] = "signal"]
    /\ i' = [i EXCEPT ![p] = 0]
    /\ UNCHANGED <<cond, posts, spurious, received, exited>>

\* Mutants of Signals: one signal for all the tokens of a call, and none at all.
Signals_Once(p) == 1
Signals_None(p) == 0
Signals(p) == PostSize

\* pthread_cond_signal wakes one sleeping thread, if there is one.
Signal(p) ==
    /\ pc[p] = "signal"
    /\ i[p] < Signals(p)
    /\ i' = [i EXCEPT ![p] = @ + 1]
    /\ IF cond = {}
         THEN UNCHANGED <<cond, pc>>
         ELSE \E w \in cond :
                /\ cond' = cond \ {w}
                /\ pc' = [pc EXCEPT ![w] = "relock"]
    /\ UNCHANGED <<mutex, count, msg_data, posts, spurious, sent, received, exited>>

PostReturn(p) ==
    /\ pc[p] = "signal"
    /\ i[p] = Signals(p)
    /\ mutex' = NoThread
    /\ pc' = [pc EXCEPT ![p] = "idle"]
    /\ UNCHANGED <<count, cond, msg_data, i, posts, spurious, sent, received, exited>>

-----------------------------------------------------------------------------
(* bf_sem_waitmany and bf_sem_waitmsg *)

WaitCall(w) ==
    /\ pc[w] = "idle"
    /\ pc' = [pc EXCEPT ![w] = "wait_lock"]
    /\ i' = [i EXCEPT ![w] = 0]
    /\ UNCHANGED <<mutex, count, cond, msg_data, posts, spurious, sent, received, exited>>

\* The mutex, for the first time or on the way out of pthread_cond_wait.
WaitLock(w) ==
    /\ pc[w] \in {"wait_lock", "relock"}
    /\ mutex = NoThread
    /\ mutex' = w
    /\ pc' = [pc EXCEPT ![w] = "take"]
    /\ UNCHANGED <<count, cond, msg_data, i, posts, spurious, sent, received, exited>>

\* pthread_cond_wait gives up the mutex and falls asleep in one step.
CondWait(w) ==
    /\ pc[w] = "take"
    /\ i[w] < WaitSize
    /\ count = 0
    /\ mutex' = NoThread
    /\ cond' = cond \cup {w}
    /\ pc' = [pc EXCEPT ![w] = "asleep"]
    /\ UNCHANGED <<count, msg_data, i, posts, spurious, sent, received, exited>>

SpuriousWakeup(w) ==
    /\ w \in cond
    /\ spurious < MaxSpurious
    /\ spurious' = spurious + 1
    /\ cond' = cond \ {w}
    /\ pc' = [pc EXCEPT ![w] = "relock"]
    /\ UNCHANGED <<mutex, count, msg_data, i, posts, sent, received, exited>>

\* Mutant of MayTake: "if (count == 0) wait" for "while (count == 0) wait".
MayTake_If(w) == count > 0 \/ spurious > 0
MayTake(w) == count > 0

\* Mutant of Remaining: msg_offset is reduced but nothing is moved.
Remaining_NotMoved == SubSeq(msg_data, 1, Len(msg_data) - 1)
Remaining == Tail(msg_data)

\* count--, and the first message out of the buffer; "Semaphore message buffer
\* underflow" if there is none.
Take(w) ==
    /\ pc[w] = "take"
    /\ i[w] < WaitSize
    /\ MayTake(w)
    /\ IF UseMsg /\ msg_data = <<>>
         THEN /\ exited' = TRUE
              /\ UNCHANGED <<count, i, msg_data, received>>
         ELSE /\ count' = count - 1
              /\ i' = [i EXCEPT ![w] = @ + 1]
              /\ IF UseMsg
                   THEN /\ msg_data' = Remaining
                        /\ received' = Append(received, Head(msg_data))
                   ELSE UNCHANGED <<msg_data, received>>
              /\ UNCHANGED exited
    /\ UNCHANGED <<mutex, cond, pc, posts, spurious, sent>>

WaitReturn(w) ==
    /\ pc[w] = "take"
    /\ i[w] = WaitSize
    /\ mutex' = NoThread
    /\ pc' = [pc EXCEPT ![w] = "idle"]
    /\ i' = [i EXCEPT ![w] = 0]
    /\ UNCHANGED <<count, cond, msg_data, posts, spurious, sent, received, exited>>

\* Posting and waiting, once called.
Posting(p) == PostLock(p) \/ PostOverflow(p) \/ Signal(p) \/ PostReturn(p)
Waiting(w) == WaitLock(w) \/ CondWait(w) \/ Take(w) \/ WaitReturn(w)

Next ==
    /\ ~exited
    /\ UNCHANGED use
    /\ \/ \E p \in Posters : PostCall(p) \/ Posting(p)
       \/ \E w \in Waiters : WaitCall(w) \/ Waiting(w) \/ SpuriousWakeup(w)

\* A thread inside a call.
GoOn(t) ==
    /\ ~exited
    /\ UNCHANGED use
    /\ \/ t \in Posters /\ Posting(t)
       \/ t \in Waiters /\ Waiting(t)

\* Threads inside a call go on; nobody has to call, and no wakeup has to be
\* spurious.
Fairness == \A t \in Threads : WF_vars(GoOn(t))

Spec == Init /\ [][Next]_vars /\ Fairness

-----------------------------------------------------------------------------
(* Properties *)

\* Tokens are not consumed by a thread that sleeps through them: whenever threads
\* sleep although there are tokens, one that is awake is about to look.
NoLostWakeup ==
    cond # {} /\ count > 0 =>
        \/ \E p \in Posters : pc[p] = "signal" /\ i[p] < PostSize
        \/ \E w \in Waiters : pc[w] \in {"relock", "take"}

\* Messages are received in the order they were sent, none twice, none lost.
MessagesInOrder == UseMsg => sent = received \o msg_data

\* The message buffer is never written past its end, and there is one token for
\* each message in it, so that bf_sem_waitmsg never finds it empty.
MessagesFit == UseMsg => Len(msg_data) <= Capacity /\ count = Len(msg_data)

\* Tokens a waiting thread has taken and not yet returned with still count as
\* available: it is WaitReturn that takes them, all at once.  A token is known by
\* the thread that has it and the number it had before.
InWait == {w \in Waiters : pc[w] \in {"wait_lock", "take", "asleep", "relock"}}
Held == {token \in InWait \X (0..WaitSize - 1) : token[2] < i[token[1]]}

Counting == INSTANCE CountingSemaphore WITH
    users <- Waiters, post <- PostSize, wait <- WaitSize,
    avail <- count + Cardinality(Held),
    waiting <- InWait

\* As far as callers can tell, tokens come all at once and are taken all at once
\* (bf_sem_postmany, bf_sem_waitmany).
CountingSteps == Counting!Init /\ [][Counting!Next]_Counting!vars

\* The code implements a counting semaphore, as long as the program runs: besides,
\* while there are tokens enough for a thread inside bf_sem_waitmany, one returns.
CountingSpec == CountingSteps /\ (Counting!Fairness \/ <>exited)
=============================================================================
