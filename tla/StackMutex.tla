----------------------------- MODULE StackMutex -----------------------------
(***************************************************************************)
(* test2/stack_mutex_only.c: the stack of StackCond without a condition    *)
(* variable.  A thread that finds the stack full, or empty, releases the   *)
(* mutex and tries again at once.                                          *)
(***************************************************************************)
EXTENDS Integers, Sequences, FiniteSets, Functions

CONSTANTS Pushers, Poppers,   \* the threads that call my_push, and my_pop
          StackSize,          \* STACK_SIZE
          PushCalls,          \* the calls of each pusher: ITEMS_PER_THREAD
          PopCalls            \* the calls of each popper

Threads == Pushers \union Poppers
Nobody  == <<>>
NoChar  == <<>>     \* what the static array holds at first
Chars   == Pushers \X (1 .. PushCalls)

Calls(t) == IF t \in Pushers THEN PushCalls ELSE PopCalls

VARIABLES buffer, index,
          mutex,       \* the thread that holds it, or Nobody
          pc,          \* each thread: "lock", "test", "store", "advance",
                       \* "retreat", "load", "unlock", "retry" or "done"
          todo,        \* each thread: the calls it has left
          popped       \* history: the characters that my_pop has returned

vars == <<buffer, index, mutex, pc, todo, popped>>

Init ==
  /\ buffer = [s \in 0 .. StackSize - 1 |-> NoChar]
  /\ index = 0
  /\ mutex = Nobody
  /\ pc = [t \in Threads |-> IF Calls(t) = 0 THEN "done" ELSE "lock"]
  /\ todo = [t \in Threads |-> Calls(t)]
  /\ popped = {}

Goto(t, l) == pc' = [pc EXCEPT ![t] = l]
---------------------------------------------------------------------------
Lock(t) ==
  /\ pc[t] = "lock" /\ mutex = Nobody
  /\ mutex' = t
  /\ Goto(t, "test")
  /\ UNCHANGED <<buffer, index, todo, popped>>

\* if (index < STACK_SIZE), if (index > 0)
CanGoOn(t) == IF t \in Pushers THEN index < StackSize ELSE index > 0

Test(t) ==
  /\ pc[t] = "test"
  /\ Goto(t, IF ~CanGoOn(t) THEN "retry"
             ELSE IF t \in Pushers THEN "store" ELSE "retreat")
  /\ UNCHANGED <<buffer, index, mutex, todo, popped>>

\* Mutant: the next test is made without the mutex.
RetryUnlocked(t) ==
  /\ pc[t] = "retry"
  /\ mutex' = Nobody
  /\ Goto(t, "test")
  /\ UNCHANGED <<buffer, index, todo, popped>>

\* Mutant: the mutex is not released.
RetryHolding(t) ==
  /\ pc[t] = "retry"
  /\ Goto(t, "lock")
  /\ UNCHANGED <<buffer, index, mutex, todo, popped>>

\* The stack is full, or empty: unlock, and round the while loop.
Retry(t) ==
  /\ pc[t] = "retry"
  /\ mutex' = Nobody
  /\ Goto(t, "lock")
  /\ UNCHANGED <<buffer, index, todo, popped>>
---------------------------------------------------------------------------
(* my_push: buffer[index++] = oneChar *)

Char(t) == <<t, todo[t]>>

Store(t) ==
  /\ pc[t] = "store"
  /\ buffer' = [buffer EXCEPT ![index] = Char(t)]
  /\ Goto(t, "advance")
  /\ UNCHANGED <<index, mutex, todo, popped>>

Advance(t) ==
  /\ pc[t] = "advance"
  /\ index' = index + 1
  /\ Goto(t, "unlock")
  /\ UNCHANGED <<buffer, mutex, todo, popped>>
---------------------------------------------------------------------------
(* my_pop: toReturn = buffer[--index] *)

Retreat(t) ==
  /\ pc[t] = "retreat"
  /\ index' = index - 1
  /\ Goto(t, "load")
  /\ UNCHANGED <<buffer, mutex, todo, popped>>

Load(t) ==
  /\ pc[t] = "load"
  /\ popped' = popped \union {buffer[index]}
  /\ Goto(t, "unlock")
  /\ UNCHANGED <<buffer, index, mutex, todo>>
---------------------------------------------------------------------------
\* The call returns; the loop of the thread makes the next one or ends.
Unlock(t) ==
  /\ pc[t] = "unlock"
  /\ mutex' = Nobody
  /\ todo' = [todo EXCEPT ![t] = @ - 1]
  /\ Goto(t, IF todo[t] > 1 THEN "lock" ELSE "done")
  /\ UNCHANGED <<buffer, index, popped>>

Inside(t) == \/ Test(t) \/ Retry(t) \/ Store(t) \/ Advance(t)
             \/ Retreat(t) \/ Load(t) \/ Unlock(t)

Next == \E t \in Threads : Lock(t) \/ Inside(t)

Spec == Init /\ [][Next]_vars
---------------------------------------------------------------------------
(* Properties *)

\* The types of the variables; the index stays within the buffer.
TypeOK ==
  /\ buffer \in [0 .. StackSize - 1 -> Chars \union {NoChar}]
  /\ index \in 0 .. StackSize
  /\ mutex \in Threads \union {Nobody}
  /\ pc \in [Threads -> {"lock", "test", "store", "advance", "retreat", "load",
                         "unlock", "retry", "done"}]
  /\ todo \in [Threads -> Nat]
  /\ popped \subseteq Chars \union {NoChar}

\* The characters on the stack: the one that my_pop is about to load is still
\* there.
Depth == index + (IF \E t \in Threads : pc[t] = "load" THEN 1 ELSE 0)

Abstract == INSTANCE BoundedStack
              WITH Items <- Chars, Size <- StackSize,
                   stack <- [i \in 1 .. Depth |-> buffer[i - 1]]

\* my_push and my_pop implement the same bounded stack as push and pop.
ImplementsStack == Abstract!Spec
===========================================================================
