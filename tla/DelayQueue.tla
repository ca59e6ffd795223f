----------------------------- MODULE DelayQueue -----------------------------
(***************************************************************************)
(* What a delay line promises.  It is a queue that holds exactly `delay'   *)
(* samples; a block goes in at its end and as many samples leave at its    *)
(* front.  A longer delay starts from silence.  A shorter one may begin    *)
(* with any samples, the change is audible, but only for as long as the    *)
(* new delay: every sample that enters after it leaves on time.            *)
(***************************************************************************)
EXTENDS Integers

CONSTANTS
  FragSize,        \* samples of a block
  Sample,          \* samples, silence among them
  Silence

VARIABLES delay, queue, in, out

vars == <<delay, queue, in, out>>

Block == [0..FragSize - 1 -> Sample]

Silent(n) == [k \in 0..n - 1 |-> Silence]

\* sample k of the stream that is the queue q followed by a block
Stream(q, d, block, k) == IF k < d THEN q[k] ELSE block[k - d]

\* a block goes through a queue q of d samples
Through(q, d) ==
  /\ out' = [i \in 0..FragSize - 1 |-> Stream(q, d, in', i)]
  /\ queue' = [k \in 0..d - 1 |-> Stream(q, d, in', k + FragSize)]

Init ==
  /\ delay \in Nat
  /\ queue = Silent(delay)
  /\ in = Silent(FragSize)
  /\ out = Silent(FragSize)

Same ==
  /\ delay' = delay
  /\ Through(queue, delay)

Grow ==
  /\ delay' > delay
  /\ Through(Silent(delay'), delay')

\* What was in the queue is lost or comes again, what enters comes in its place.
Shrink ==
  /\ delay' < delay
  /\ out' \in Block
  /\ queue' \in [0..delay' - 1 -> Sample]
  /\ \A i \in 0..FragSize - 1 : i >= delay' => out'[i] = in'[i - delay']
  /\ \A k \in 0..delay' - 1 : k + FragSize >= delay' => queue'[k] = in'[k + FragSize - delay']

Next ==
  /\ delay' \in Nat
  /\ in' \in Block
  /\ Same \/ Grow \/ Shrink

Spec == Init /\ [][Next]_vars
=============================================================================
