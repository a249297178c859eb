----------------------------- MODULE StackMain -----------------------------
(***************************************************************************)
(* test2/main_test_stack.c: main starts the threads of the stack with a    *)
(* condition variable, joins them, and then does the same with those of    *)
(* the stack that has only a mutex.  Each stack has static data of its     *)
(* own; my_... is what StackMutex calls by the plain name.                 *)
(***************************************************************************)
EXTENDS StackCond

VARIABLES my_buffer, my_index, my_mutex, my_pc, my_todo, my_popped

my_vars == <<my_buffer, my_index, my_mutex, my_pc, my_todo, my_popped>>

My == INSTANCE StackMutex
        WITH buffer <- my_buffer, index <- my_index, mutex <- my_mutex,
             pc <- my_pc, todo <- my_todo, popped <- my_popped

\* pthread_join returns for every thread of the first stack.
Joined == \A t \in Threads : pc[t] = "done"

\* The threads of the first stack, and after the join those of the second.
CondEnter(t)  == Enter(t) /\ UNCHANGED my_vars
CondInside(t) == Inside(t) /\ UNCHANGED my_vars
CondWake(t)   == Wake(t) /\ UNCHANGED my_vars
MyLock(t)     == Joined /\ My!Lock(t) /\ UNCHANGED vars
MyInside(t)   == Joined /\ My!Inside(t) /\ UNCHANGED vars

MainInit == Init /\ My!Init

MainNext == \E t \in Threads : \/ CondEnter(t) \/ CondInside(t) \/ CondWake(t)
                               \/ MyLock(t) \/ MyInside(t)

MainSpec == MainInit /\ [][MainNext]_<<vars, my_vars>>

\* Threads run.  Those of the first stack sleep between two calls, as they do when
\* they wait, so that the mutex does not always go to the same one.  The busy
\* waiting of the second never sleeps, and nothing says which thread gets the
\* mutex: only that one of those that want it does when it is free.  Nothing ever
\* has to wake without a signal.
MainFairSpec ==
  /\ MainSpec
  /\ WF_<<vars, my_vars>>(\E t \in Threads : MyLock(t))
  /\ \A t \in Threads :
       /\ SF_<<vars, my_vars>>(CondEnter(t)) /\ WF_<<vars, my_vars>>(CondInside(t))
       /\ WF_<<vars, my_vars>>(MyInside(t))
---------------------------------------------------------------------------
(* Properties *)

\* my_push and my_pop implement the same bounded stack as push and pop do.
MyImplementsStack == My!ImplementsStack

\* Every call on either stack has returned, and every character that was pushed
\* has been popped.
Returned == /\ Joined /\ popped = Chars
            /\ \A t \in Threads : my_pc[t] = "done"
            /\ my_popped = Chars

\* A thread of the second stack that would go on if it had the mutex.
Kept(t) == my_pc[t] = "lock" /\ My!CanGoOn(t)

\* main returns, or the busy waiting starves it: the mutex is released again and
\* again, and from some time on never goes to a thread that waits for it and would
\* find room, or a character.  Threads that all wait in vain for one another, a
\* mutex that is kept, a thread of the first stack that is not woken are no ways
\* for main not to return.
MainReturns ==
  <>Returned \/ ([]<>(my_mutex = Nobody) /\ \E t \in Threads : <>[]Kept(t))
===========================================================================
