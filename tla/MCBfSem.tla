------------------------------ MODULE MCBfSem ------------------------------
(* BfSem in the ways the program uses its semaphores.                      *)
EXTENDS BfSem

CONSTANTS t1, t2, t3, t4

\* bl_input_2_filter: one post for all the filter processes, each takes one token.
OneForAll == [Posters |-> {t1}, Waiters |-> {t2, t3, t4},
              PostSize |-> 3, WaitSize |-> 1, UseMsg |-> FALSE]

\* filter_2_bl_output: one thread waits for all the filter processes.
AllForOne == [Posters |-> {t1, t2, t3}, Waiters |-> {t4},
              PostSize |-> 1, WaitSize |-> 3, UseMsg |-> FALSE]

\* cbpipe_s: two threads send, the callback thread receives.
Messages == [Posters |-> {t1, t2}, Waiters |-> {t3},
             PostSize |-> 1, WaitSize |-> 1, UseMsg |-> TRUE]

\* mutex_pipe: the threads that wait also post.
Mutex == [Posters |-> {t1, t2}, Waiters |-> {t1, t2},
          PostSize |-> 1, WaitSize |-> 1, UseMsg |-> FALSE]

AllUses == {OneForAll, AllForOne, Messages, Mutex}
AllThreads == {t1, t2, t3, t4}
=============================================================================
