----------------------------- MODULE ProdCons -----------------------------
(***************************************************************************)
(* hw9/prod_cons.c: M producer processes push N items each on a stack in   *)
(* shared memory, and the process that forked them pops them.  A System V  *)
(* semaphore guards the stack (mutex), another one counts the items        *)
(* (fullCount).  Both shared segments have fixed keys and are opened       *)
(* without IPC_EXCL, so that a run that was killed leaves its index to the *)
(* next one: that is StaleIndex.                                           *)
(*                                                                         *)
(* The stores of push and the loads of pop that no lock covers are steps   *)
(* of their own: pop reads the index and the slot after its unlock.        *)
(***************************************************************************)
EXTENDS Integers, Sequences, FiniteSets, Functions

CONSTANTS M,            \* argv[1]: producers, and slots of the stack
          N,            \* argv[2]: items of each producer
          StaleIndex    \* what the segment of the index holds at the start

ASSUME ProdConsAssumption == M \in Nat \ {0} /\ N \in Nat /\ StaleIndex \in Nat

VARIABLES
  mutex, fullCount,   \* the semaphores
  shared_index,       \* the next free slot
  data,               \* the slots
  pc,                 \* the producers, and the consumer
  item,               \* each producer: how many items it has produced
  reads,              \* the items the consumer has read
  at,                 \* consumer: the index it has read for its slot
  skipped             \* history: pushes that stored nothing

vars == <<mutex, fullCount, shared_index, data, pc, item, reads, at, skipped>>

Producers == 1 .. M
Consumer  == 0
Processes == Producers \union {Consumer}
Slots     == 0 .. (IF StaleIndex >= M THEN StaleIndex ELSE M - 1)
Items     == [pid : Producers, random_num : 1 .. N]

Init ==
  /\ mutex = 1 /\ fullCount = 0
  /\ shared_index = StaleIndex
  /\ data = [s \in Slots |-> [pid |-> 0, random_num |-> 0]]
  /\ pc = [p \in Processes |->
             IF p = Consumer THEN "down" ELSE IF N = 0 THEN "exit" ELSE "lock"]
  /\ item = [p \in Producers |-> 0]
  /\ reads = <<>>
  /\ at = 0
  /\ skipped = 0

Goto(p, l) == pc' = [pc EXCEPT ![p] = l]

\* semop(sems, &sem_op_wait, 1), by either kind of process
Lock(p) ==
  /\ pc[p] = "lock" /\ mutex = 1
  /\ mutex' = 0
  /\ Goto(p, "check")
  /\ UNCHANGED <<fullCount, shared_index, data, item, reads, at, skipped>>

\* Mutant: the mutex is kept while the process sleeps.
RetryHolding(p) ==
  /\ Goto(p, "lock")
  /\ UNCHANGED <<mutex, fullCount, shared_index, data, item, reads, at, skipped>>

\* Both loops release the mutex, sleep and come back to semop.
Retry(p) ==
  /\ mutex' = 1
  /\ Goto(p, "lock")
  /\ UNCHANGED <<fullCount, shared_index, data, item, reads, at, skipped>>
---------------------------------------------------------------------------
(* A producer *)

IsFull == shared_index = M - 1

WaitFull(p) == pc[p] = "check" /\ IsFull /\ Retry(p)

\* Mutant: the last slot is used.
StorePidLast(p) ==
  /\ pc[p] = "check" /\ shared_index < M
  /\ data' = [data EXCEPT ![shared_index].pid = p]
  /\ Goto(p, "store")
  /\ UNCHANGED <<mutex, fullCount, shared_index, item, reads, at, skipped>>

StorePid(p) ==
  /\ pc[p] = "check" /\ shared_index < M - 1
  /\ data' = [data EXCEPT ![shared_index].pid = p]
  /\ Goto(p, "store")
  /\ UNCHANGED <<mutex, fullCount, shared_index, item, reads, at, skipped>>

StoreNum(p) ==
  /\ pc[p] = "store"
  /\ data' = [data EXCEPT ![shared_index].random_num = item[p] + 1]
  /\ Goto(p, "index")
  /\ UNCHANGED <<mutex, fullCount, shared_index, item, reads, at, skipped>>

\* Mutant: the index is not advanced.
PushedNothing(p) ==
  /\ pc[p] = "index"
  /\ mutex' = 1
  /\ Goto(p, "post")
  /\ UNCHANGED <<fullCount, shared_index, data, item, reads, at, skipped>>

Pushed(p) ==
  /\ pc[p] = "index"
  /\ shared_index' = shared_index + 1
  /\ mutex' = 1
  /\ Goto(p, "post")
  /\ UNCHANGED <<fullCount, data, item, reads, at, skipped>>

\* An index beyond the stack is neither full nor has room: nothing is stored.
Skip(p) ==
  /\ pc[p] = "check" /\ shared_index > M - 1
  /\ skipped' = skipped + 1
  /\ mutex' = 1
  /\ Goto(p, "post")
  /\ UNCHANGED <<fullCount, shared_index, data, item, reads, at>>

Post(p) ==
  /\ pc[p] = "post"
  /\ fullCount' = fullCount + 1
  /\ item' = [item EXCEPT ![p] = @ + 1]
  /\ Goto(p, IF item[p] + 1 < N THEN "lock" ELSE "exit")
  /\ UNCHANGED <<mutex, shared_index, data, reads, at, skipped>>
---------------------------------------------------------------------------
(* The consumer *)

\* Mutant: fullCount is tested and not decremented.
DownOnly ==
  /\ pc[Consumer] = "down" /\ Len(reads) < M * N
  /\ fullCount > 0
  /\ Goto(Consumer, "lock")
  /\ UNCHANGED <<mutex, fullCount, shared_index, data, item, reads, at, skipped>>

\* The for loop ends after M * N items; then the producers are waited for.
Down ==
  /\ pc[Consumer] = "down" /\ Len(reads) < M * N
  /\ fullCount > 0
  /\ fullCount' = fullCount - 1
  /\ Goto(Consumer, "lock")
  /\ UNCHANGED <<mutex, shared_index, data, item, reads, at, skipped>>

WaitEmpty == pc[Consumer] = "check" /\ shared_index = 0 /\ Retry(Consumer)

Take ==
  /\ pc[Consumer] = "check" /\ shared_index > 0
  /\ shared_index' = shared_index - 1
  /\ mutex' = 1
  /\ Goto(Consumer, "reread")
  /\ UNCHANGED <<fullCount, data, item, reads, at, skipped>>

\* return data[*shared_index]: two loads, with the mutex released
ReadIndex ==
  /\ pc[Consumer] = "reread"
  /\ at' = shared_index
  /\ Goto(Consumer, "copy")
  /\ UNCHANGED <<mutex, fullCount, shared_index, data, item, reads, skipped>>

ReadSlot ==
  /\ pc[Consumer] = "copy"
  /\ reads' = Append(reads, data[at])
  /\ Goto(Consumer, "down")
  /\ UNCHANGED <<mutex, fullCount, shared_index, data, item, at, skipped>>

\* wait(NULL) for every producer, then the segments and semaphores go.
CleanUp ==
  /\ pc[Consumer] = "down" /\ Len(reads) = M * N
  /\ \A p \in Producers : pc[p] = "exit"
  /\ Goto(Consumer, "exit")
  /\ UNCHANGED <<mutex, fullCount, shared_index, data, item, reads, at, skipped>>
---------------------------------------------------------------------------
Producer(p) == \/ WaitFull(p) \/ StorePid(p) \/ StoreNum(p) \/ Pushed(p)
               \/ Skip(p) \/ Post(p)
Consume == Down \/ WaitEmpty \/ Take \/ ReadIndex \/ ReadSlot \/ CleanUp

Next == \/ \E p \in Processes : Lock(p)
        \/ \E p \in Producers : Producer(p)
        \/ Consume

Spec == Init /\ [][Next]_vars

\* Processes run; semop serves those that wait for a semaphore in their order.
FairSpec == /\ Spec
            /\ \A p \in Processes : SF_vars(Lock(p))
            /\ \A p \in Producers : WF_vars(Producer(p))
            /\ WF_vars(Consume)
---------------------------------------------------------------------------
(* Properties *)

\* The types of the variables; no slot outside the stack is ever indexed.
TypeOK ==
  /\ mutex \in {0, 1} /\ fullCount \in Nat
  /\ shared_index \in Slots
  /\ data \in [Slots -> [pid : 0 .. M, random_num : 0 .. N]]
  /\ pc \in [Processes -> {"lock", "check", "store", "index", "post", "exit",
                           "down", "reread", "copy"}]
  /\ item \in [Producers -> 0 .. N]
  /\ reads \in Seq([pid : 0 .. M, random_num : 0 .. N])
  /\ at \in Slots
  /\ skipped \in Nat

Inside(p) == pc[p] \in {"check", "store", "index"}

\* The mutex is taken exactly when one process is between its semops.
Exclusion ==
  /\ mutex = 0 <=> \E p \in Processes : Inside(p)
  /\ \A p, q \in Processes : Inside(p) /\ Inside(q) => p = q

\* The index counts what fullCount counts, the pushes that have not been
\* signalled yet and the pop that is under way, on top of what the run before
\* has left.
IndexMatchesSemaphore ==
  shared_index + skipped
    = StaleIndex + fullCount + Cardinality({p \in Producers : pc[p] = "post"})
      + (IF pc[Consumer] \in {"lock", "check"} THEN 1 ELSE 0)

\* "[never arrive this]": behind fullCount a pop always finds an item, so that
\* its loop and its last return are never taken.
PopFindsItem ==
  StaleIndex < M /\ pc[Consumer] = "check" => shared_index > 0

\* The program terminates.
Terminates == <>(pc[Consumer] = "exit")

\* Every item that has been pushed is read once: the final sum is the sum of
\* what the producers have written.
EveryItemReadOnce ==
  pc[Consumer] = "exit" => Range(reads) = Items
===========================================================================
