----------------------------- MODULE StackCond -----------------------------
(***************************************************************************)
(* test2/stack_cond.c: a stack of STACK_SIZE characters shared by threads  *)
(* that push and threads that pop, with one mutex and one condition        *)
(* variable for both kinds, and test2/main_test_stack.c, whose threads     *)
(* make ITEMS_PER_THREAD calls each.                                       *)
(*                                                                         *)
(* A character is the pair of the thread that pushes it and its number.    *)
(* pthread_cond_wait may return without a signal, as POSIX allows; the     *)
(* thread a signal wakes is any of those that wait, of either kind.        *)
(***************************************************************************)
EXTENDS Integers, Sequences, FiniteSets, Functions

CONSTANTS Pushers, Poppers,   \* the threads that call push, and pop
          StackSize,          \* STACK_SIZE
          PushCalls,          \* the calls of each pusher: ITEMS_PER_THREAD
          PopCalls            \* the calls of each popper

Threads == Pushers \union Poppers
Nobody  == <<>>
NoChar  == <<>>     \* what the static array holds at first
Chars   == Pushers \X (1 .. PushCalls)

Calls(t) == IF t \in Pushers THEN PushCalls ELSE PopCalls

ASSUME StackCondAssumption ==
  /\ IsFiniteSet(Pushers) /\ IsFiniteSet(Poppers)
  /\ Pushers \intersect Poppers = {} /\ Nobody \notin Threads
  /\ StackSize \in Nat \ {0} /\ PushCalls \in Nat /\ PopCalls \in Nat

VARIABLES buffer, index,
          mutex,       \* the thread that holds it, or Nobody
          waiting,     \* the threads in pthread_cond_wait
          pc,          \* each thread: "lock", "relock", "test", "store",
                       \* "advance", "retreat", "load", "signal", "unlock",
                       \* "asleep" or "done"
          todo,        \* each thread: the calls it has left
          popped       \* history: the characters that pop has returned

vars == <<buffer, index, mutex, waiting, pc, todo, popped>>

Init ==
  /\ buffer = [s \in 0 .. StackSize - 1 |-> NoChar]
  /\ index = 0
  /\ mutex = Nobody
  /\ waiting = {}
  /\ pc = [t \in Threads |-> IF Calls(t) = 0 THEN "done" ELSE "lock"]
  /\ todo = [t \in Threads |-> Calls(t)]
  /\ popped = {}

Goto(t, l) == pc' = [pc EXCEPT ![t] = l]
---------------------------------------------------------------------------
(* The lock and the condition *)

Lock(t) ==
  /\ pc[t] = "lock" /\ mutex = Nobody
  /\ mutex' = t
  /\ Goto(t, "test")
  /\ UNCHANGED <<buffer, index, waiting, todo, popped>>

\* while (index == STACK_SIZE), while (index == 0)
Blocked(t) == IF t \in Pushers THEN index = StackSize ELSE index = 0

\* pthread_cond_wait releases the mutex and sleeps in one step.
Wait(t) ==
  /\ pc[t] = "test" /\ Blocked(t)
  /\ mutex' = Nobody
  /\ waiting' = waiting \union {t}
  /\ Goto(t, "asleep")
  /\ UNCHANGED <<buffer, index, todo, popped>>

Wake(t) ==
  /\ t \in waiting
  /\ waiting' = waiting \ {t}
  /\ Goto(t, "relock")
  /\ UNCHANGED <<buffer, index, mutex, todo, popped>>

\* Mutant: an if in place of the while.
RelockIf(t) ==
  /\ pc[t] = "relock" /\ mutex = Nobody
  /\ mutex' = t
  /\ Goto(t, IF t \in Pushers THEN "store" ELSE "retreat")
  /\ UNCHANGED <<buffer, index, waiting, todo, popped>>

\* pthread_cond_wait returns with the mutex; the while tests again.
Relock(t) ==
  /\ pc[t] = "relock" /\ mutex = Nobody
  /\ mutex' = t
  /\ Goto(t, "test")
  /\ UNCHANGED <<buffer, index, waiting, todo, popped>>

Proceed(t) ==
  /\ pc[t] = "test" /\ ~Blocked(t)
  /\ Goto(t, IF t \in Pushers THEN "store" ELSE "retreat")
  /\ UNCHANGED <<buffer, index, mutex, waiting, todo, popped>>
---------------------------------------------------------------------------
(* push: buffer[index++] = oneChar *)

Char(t) == <<t, todo[t]>>

Store(t) ==
  /\ pc[t] = "store"
  /\ buffer' = [buffer EXCEPT ![index] = Char(t)]
  /\ Goto(t, "advance")
  /\ UNCHANGED <<index, mutex, waiting, todo, popped>>

Advance(t) ==
  /\ pc[t] = "advance"
  /\ index' = index + 1
  /\ Goto(t, "signal")
  /\ UNCHANGED <<buffer, mutex, waiting, todo, popped>>
---------------------------------------------------------------------------
(* pop: toReturn = buffer[--index] *)

\* Mutant: the index is used and not moved.
RetreatNot(t) ==
  /\ pc[t] = "retreat"
  /\ Goto(t, "load")
  /\ UNCHANGED <<buffer, index, mutex, waiting, todo, popped>>

Retreat(t) ==
  /\ pc[t] = "retreat"
  /\ index' = index - 1
  /\ Goto(t, "load")
  /\ UNCHANGED <<buffer, mutex, waiting, todo, popped>>

Load(t) ==
  /\ pc[t] = "load"
  /\ popped' = popped \union {buffer[index]}
  /\ Goto(t, "signal")
  /\ UNCHANGED <<buffer, index, mutex, waiting, todo>>
---------------------------------------------------------------------------
(* Both *)

\* Mutant: only push signals.
SignalFromPush(t) ==
  /\ pc[t] = "signal"
  /\ \/ /\ waiting = {} \/ t \in Poppers
        /\ Goto(t, "unlock")
        /\ UNCHANGED waiting
     \/ \E w \in waiting :
          /\ t \in Pushers
          /\ waiting' = waiting \ {w}
          /\ pc' = [pc EXCEPT ![t] = "unlock", ![w] = "relock"]
  /\ UNCHANGED <<buffer, index, mutex, todo, popped>>

\* pthread_cond_signal
Signal(t) ==
  /\ pc[t] = "signal"
  /\ \/ /\ waiting = {}
        /\ Goto(t, "unlock")
        /\ UNCHANGED waiting
     \/ \E w \in waiting :
          /\ waiting' = waiting \ {w}
          /\ pc' = [pc EXCEPT ![t] = "unlock", ![w] = "relock"]
  /\ UNCHANGED <<buffer, index, mutex, todo, popped>>

\* The call returns; the loop of the thread makes the next one or ends.
Unlock(t) ==
  /\ pc[t] = "unlock"
  /\ mutex' = Nobody
  /\ todo' = [todo EXCEPT ![t] = @ - 1]
  /\ Goto(t, IF todo[t] > 1 THEN "lock" ELSE "done")
  /\ UNCHANGED <<buffer, index, waiting, popped>>
---------------------------------------------------------------------------
Enter(t)  == Lock(t) \/ Relock(t)
Inside(t) == \/ Wait(t) \/ Proceed(t) \/ Store(t) \/ Advance(t)
             \/ Retreat(t) \/ Load(t) \/ Signal(t) \/ Unlock(t)

Next == \E t \in Threads : Enter(t) \/ Inside(t) \/ Wake(t)

Spec == Init /\ [][Next]_vars

---------------------------------------------------------------------------
(* Properties *)

\* The types of the variables; the index stays within the buffer.
TypeOK ==
  /\ buffer \in [0 .. StackSize - 1 -> Chars \union {NoChar}]
  /\ index \in 0 .. StackSize
  /\ mutex \in Threads \union {Nobody}
  /\ waiting \subseteq Threads
  /\ pc \in [Threads -> {"lock", "relock", "test", "store", "advance", "retreat",
                         "load", "signal", "unlock", "asleep", "done"}]
  /\ todo \in [Threads -> Nat]
  /\ popped \subseteq Chars \union {NoChar}

\* The characters on the stack: the one that pop is about to load is still there.
Depth == index + (IF \E t \in Threads : pc[t] = "load" THEN 1 ELSE 0)

Abstract == INSTANCE BoundedStack
              WITH Items <- Chars, Size <- StackSize,
                   stack <- [i \in 1 .. Depth |-> buffer[i - 1]]

\* push and pop implement a bounded stack: whatever threads call them, in every
\* interleaving and with every wake-up, an item is returned once and in order.
ImplementsStack == Abstract!Spec

\* As long as a call is under way, some thread is not asleep on the condition:
\* no signal is lost on a thread that cannot use it while others could.
SomeoneAwake ==
  (\E t \in Threads : pc[t] # "done")
    => \E t \in Threads : pc[t] \notin {"done", "asleep"}
===========================================================================
