-------------------------- MODULE ProdConsProofs --------------------------
(***************************************************************************)
(* Proofs about ProdCons, for any number of producers and of items and for *)
(* any index left by an earlier run.                                       *)
(***************************************************************************)
EXTENDS ProdCons, FiniteSetTheorems, TLAPS

ProducerLabels == {"lock", "check", "store", "index", "post", "exit"}
ConsumerLabels == {"down", "lock", "check", "reread", "copy", "exit"}

\* Each kind of process has its own labels; one that pushes has an item left,
\* and one that has found room keeps it until it has advanced the index.
LabelsOK ==
  /\ pc[Consumer] \in ConsumerLabels
  /\ \A p \in Producers : /\ pc[p] \in ProducerLabels
                          /\ pc[p] # "exit" => item[p] < N
                          /\ pc[p] \in {"store", "index"} => shared_index < M - 1

\* Without an index from before nothing is skipped and the stack stays within M.
FreshOK == StaleIndex < M => shared_index < M /\ skipped = 0

IInv == TypeOK /\ Exclusion /\ LabelsOK /\ FreshOK

\* Facts about the constants that every step needs.
LEMMA ConstFacts ==
  /\ Consumer \notin Producers /\ Consumer \in Processes
  /\ \A p \in Producers : p \in Processes /\ p \in 0 .. M
  /\ Slots \subseteq Nat /\ 0 \in Slots /\ StaleIndex \in Slots
  /\ \A s \in Slots : s # 0 => s - 1 \in Slots
  /\ \A s \in Nat : s < M => s \in Slots
  BY ProdConsAssumption DEF Consumer, Producers, Processes, Slots

\* The program starts with the mutex free and nobody inside.
LEMMA InitIInv == Init => IInv
<1>. SUFFICES ASSUME Init PROVE IInv
  OBVIOUS
<1>. USE ProdConsAssumption, ConstFacts
<1>1. TypeOK
  BY DEF Init, TypeOK
<1>2. \A p \in Processes : ~Inside(p)
  BY DEF Init, Inside
<1>3. Exclusion
  BY <1>2 DEF Init, Exclusion
<1>4. LabelsOK
  BY DEF Init, LabelsOK, ProducerLabels, ConsumerLabels
<1>5. FreshOK
  BY DEF Init, FreshOK
<1>. QED  BY <1>1, <1>3, <1>4, <1>5 DEF IInv

\* A process that has the mutex is the only one inside, so that a step of it
\* inside, into, or out of its section keeps the exclusion.
LEMMA ExclusionEnter ==
  ASSUME IInv, NEW p \in Processes, mutex = 1, mutex' = 0, Goto(p, "check")
  PROVE  Exclusion'
<1>1. \A q \in Processes : ~Inside(q)
  BY DEF IInv, Exclusion
<1>2. \A q \in Processes : Inside(q)' <=> q = p
  BY <1>1 DEF IInv, TypeOK, Goto, Inside
<1>. QED  BY <1>2 DEF Exclusion

\* A process that goes on inside, or outside, changes nobody's exclusion.
LEMMA ExclusionStay ==
  ASSUME IInv, NEW p \in Processes, NEW l, Goto(p, l), mutex' = mutex,
         Inside(p) <=> l \in {"check", "store", "index"}
  PROVE  Exclusion'
<1>1. \A q \in Processes : Inside(q)' <=> Inside(q)
  BY DEF IInv, TypeOK, Goto, Inside
<1>. QED  BY <1>1 DEF IInv, Exclusion

\* The process that is inside and posts the mutex leaves nobody inside.
LEMMA ExclusionLeave ==
  ASSUME IInv, NEW p \in Processes, NEW l, Goto(p, l), mutex' = 1,
         Inside(p), l \notin {"check", "store", "index"}
  PROVE  Exclusion'
<1>1. \A q \in Processes : Inside(q) => q = p
  BY DEF IInv, Exclusion
<1>2. \A q \in Processes : ~Inside(q)'
  BY <1>1 DEF IInv, TypeOK, Goto, Inside
<1>. QED  BY <1>2 DEF Exclusion

\* The process that is inside is alone: no other has a label of the section.
LEMMA OthersOutside ==
  ASSUME IInv, NEW p \in Processes, Inside(p), NEW q \in Processes, q # p
  PROVE  pc[q] \notin {"check", "store", "index"}
  BY DEF IInv, Exclusion, Inside

\* A producer that has not exited has an item left.
LEMMA NextItem ==
  ASSUME IInv, NEW p \in Producers, pc[p] # "exit"
  PROVE  item[p] + 1 \in 0 .. N
<1>1. item[p] \in 0 .. N
  BY DEF IInv, TypeOK
<1>2. item[p] < N
  BY DEF IInv, LabelsOK
<1>. QED  BY <1>1, <1>2, ProdConsAssumption

\* The wait on the mutex keeps the invariant.
LEMMA LockIInv ==
  ASSUME IInv, NEW p \in Processes, Lock(p)
  PROVE  IInv'
<1>. USE ConstFacts DEF Lock
<1>1. Exclusion'
  BY ExclusionEnter
<1>2. TypeOK'
  BY DEF IInv, TypeOK, Goto
<1>3. LabelsOK'
  BY DEF IInv, TypeOK, LabelsOK, Goto, ProducerLabels, ConsumerLabels
<1>4. FreshOK'
  BY DEF IInv, FreshOK
<1>. QED  BY <1>1, <1>2, <1>3, <1>4 DEF IInv

\* Releasing the mutex to sleep and try again keeps the invariant.
LEMMA RetryIInv ==
  ASSUME IInv, NEW p \in Processes, pc[p] = "check", Retry(p)
  PROVE  IInv'
<1>. USE ConstFacts DEF Retry
<1>1. Exclusion'
  BY ExclusionLeave DEF Inside
<1>2. TypeOK'
  BY DEF IInv, TypeOK, Goto
<1>3. LabelsOK'
  BY DEF IInv, TypeOK, LabelsOK, Goto, ProducerLabels, ConsumerLabels
<1>4. FreshOK'
  BY DEF IInv, FreshOK
<1>. QED  BY <1>1, <1>2, <1>3, <1>4 DEF IInv

\* Every step of push, and the signal that follows it, keeps the invariant.
LEMMA ProducerIInv ==
  ASSUME IInv, NEW p \in Producers, Producer(p)
  PROVE  IInv'
<1>. USE ConstFacts, ProdConsAssumption
<1>0. p \in Processes /\ p # Consumer
  OBVIOUS
<1>1. CASE WaitFull(p)
  BY <1>0, <1>1, RetryIInv DEF WaitFull
<1>2. CASE StorePid(p)
  <2>. USE <1>2 DEF StorePid
  <2>1. Exclusion'
    BY <1>0, ExclusionStay DEF Inside
  <2>2. data' \in [Slots -> [pid : 0 .. M, random_num : 0 .. N]]
    <3>1. data[shared_index] \in [pid : 0 .. M, random_num : 0 .. N]
      BY DEF IInv, TypeOK
    <3>2. [data[shared_index] EXCEPT !.pid = p] \in [pid : 0 .. M, random_num : 0 .. N]
      BY <3>1
    <3>. QED  BY <3>2 DEF IInv, TypeOK
  <2>3. TypeOK'
    BY <1>0, <2>2 DEF IInv, TypeOK, Goto
  <2>4. LabelsOK'
    BY DEF IInv, TypeOK, LabelsOK, Goto, ProducerLabels, ConsumerLabels
  <2>5. FreshOK'
    BY DEF IInv, FreshOK
  <2>. QED  BY <2>1, <2>3, <2>4, <2>5 DEF IInv
<1>3. CASE StoreNum(p)
  <2>. USE <1>3 DEF StoreNum
  <2>1. Exclusion'
    BY <1>0, ExclusionStay DEF Inside
  <2>2. item[p] + 1 \in 0 .. N
    BY NextItem
  <2>3. data' \in [Slots -> [pid : 0 .. M, random_num : 0 .. N]]
    <3>1. data[shared_index] \in [pid : 0 .. M, random_num : 0 .. N]
      BY DEF IInv, TypeOK
    <3>2. [data[shared_index] EXCEPT !.random_num = item[p] + 1]
            \in [pid : 0 .. M, random_num : 0 .. N]
      BY <2>2, <3>1
    <3>. QED  BY <3>2 DEF IInv, TypeOK
  <2>4. TypeOK'
    BY <1>0, <2>3 DEF IInv, TypeOK, Goto
  <2>5. LabelsOK'
    BY DEF IInv, TypeOK, LabelsOK, Goto, ProducerLabels, ConsumerLabels
  <2>6. FreshOK'
    BY DEF IInv, FreshOK
  <2>. QED  BY <2>1, <2>4, <2>5, <2>6 DEF IInv
<1>4. CASE Pushed(p)
  <2>. USE <1>4 DEF Pushed
  <2>1. Exclusion'
    BY <1>0, ExclusionLeave DEF Inside
  <2>2. shared_index \in Nat /\ shared_index < M - 1
    BY DEF IInv, TypeOK, LabelsOK
  <2>3. shared_index' \in Slots
    BY <2>2
  <2>4. TypeOK'
    BY <1>0, <2>3 DEF IInv, TypeOK, Goto
  <2>5. \A q \in Processes : q # p => pc[q] \notin {"check", "store", "index"}
    BY <1>0, OthersOutside DEF Inside
  <2>6. LabelsOK'
    BY <2>5 DEF IInv, TypeOK, LabelsOK, Goto, ProducerLabels, ConsumerLabels
  <2>7. FreshOK'
    BY <2>2 DEF IInv, FreshOK
  <2>. QED  BY <2>1, <2>4, <2>6, <2>7 DEF IInv
<1>5. CASE Skip(p)
  <2>. USE <1>5 DEF Skip
  <2>1. Exclusion'
    BY <1>0, ExclusionLeave DEF Inside
  <2>2. TypeOK'
    <3>1. pc' \in [Processes -> {"lock", "check", "store", "index", "post", "exit",
                                 "down", "reread", "copy"}]
      BY <1>0 DEF IInv, TypeOK, Goto
    <3>2. mutex' \in {0, 1} /\ skipped' \in Nat
      BY DEF IInv, TypeOK
    <3>. QED  BY <3>1, <3>2 DEF IInv, TypeOK
  <2>3. LabelsOK'
    <3>1. /\ p \in Producers /\ pc[p] # "exit" /\ pc'[p] = "post" /\ UNCHANGED <<item, shared_index>>
          /\ \A q \in Processes : q # p => pc'[q] = pc[q]
      BY <1>0 DEF IInv, TypeOK, Goto
    <3>. QED  BY <3>1, ConstFacts DEF IInv, LabelsOK, ProducerLabels, ConsumerLabels
  <2>4. FreshOK'
    BY DEF IInv, FreshOK, TypeOK
  <2>. QED  BY <2>1, <2>2, <2>3, <2>4 DEF IInv
<1>6. CASE Post(p)
  <2>. USE <1>6 DEF Post
  <2>1. Exclusion'
    BY <1>0, ExclusionStay DEF Inside
  <2>2. item[p] + 1 \in 0 .. N
    BY NextItem
  <2>3. TypeOK'
    <3>1. pc' \in [Processes -> {"lock", "check", "store", "index", "post", "exit",
                                 "down", "reread", "copy"}]
      BY <1>0 DEF IInv, TypeOK, Goto
    <3>2. item' \in [Producers -> 0 .. N] /\ fullCount' \in Nat
      BY <2>2 DEF IInv, TypeOK
    <3>. QED  BY <3>1, <3>2 DEF IInv, TypeOK
  <2>4. LabelsOK'
    <3>1. /\ UNCHANGED shared_index /\ item'[p] = item[p] + 1 /\ item[p] \in Nat
          /\ pc'[p] = IF item[p] + 1 < N THEN "lock" ELSE "exit"
          /\ \A q \in Processes : q # p => pc'[q] = pc[q]
          /\ \A q \in Producers : q # p => item'[q] = item[q]
      BY <1>0 DEF IInv, TypeOK, Goto
    <3>. QED  BY <3>1 DEF IInv, LabelsOK, ProducerLabels, ConsumerLabels
  <2>5. FreshOK'
    BY DEF IInv, FreshOK
  <2>. QED  BY <2>1, <2>3, <2>4, <2>5 DEF IInv
<1>. QED  BY <1>1, <1>2, <1>3, <1>4, <1>5, <1>6 DEF Producer

\* Every step of the consumer keeps the invariant.
LEMMA ConsumeIInv ==
  ASSUME IInv, Consume
  PROVE  IInv'
<1>. USE ConstFacts, ProdConsAssumption
<1>1. CASE WaitEmpty
  BY <1>1, RetryIInv DEF WaitEmpty
<1>2. CASE Take
  <2>. USE <1>2 DEF Take
  <2>1. Exclusion'
    BY ExclusionLeave DEF Inside
  <2>2. shared_index' \in Slots
    BY DEF IInv, TypeOK
  <2>3. TypeOK'
    BY <2>2 DEF IInv, TypeOK, Goto
  <2>4. \A q \in Producers : pc[q] \notin {"check", "store", "index"}
    BY OthersOutside DEF Inside
  <2>5. LabelsOK'
    BY <2>4 DEF IInv, TypeOK, LabelsOK, Goto, ProducerLabels, ConsumerLabels
  <2>6. FreshOK'
    BY DEF IInv, FreshOK, TypeOK
  <2>. QED  BY <2>1, <2>3, <2>5, <2>6 DEF IInv
<1>3. CASE Down \/ ReadIndex \/ ReadSlot \/ CleanUp
  <2>. USE <1>3 DEF Down, ReadIndex, ReadSlot, CleanUp
  <2>1. Exclusion'
    <3>1. PICK l \in ConsumerLabels \ {"check"} : Goto(Consumer, l)
      BY DEF ConsumerLabels
    <3>2. mutex' = mutex /\ ~Inside(Consumer) /\ l \notin {"check", "store", "index"}
      BY <3>1 DEF Inside, ConsumerLabels
    <3>. QED  BY <3>1, <3>2, ExclusionStay
  <2>2. TypeOK'
    <3>1. ReadSlot => reads' \in Seq([pid : 0 .. M, random_num : 0 .. N])
      BY DEF IInv, TypeOK
    <3>2. Down => fullCount' \in Nat
      BY DEF IInv, TypeOK
    <3>. QED  BY <3>1, <3>2 DEF IInv, TypeOK, Goto
  <2>3. LabelsOK'
    BY DEF IInv, TypeOK, LabelsOK, Goto, ProducerLabels, ConsumerLabels
  <2>4. FreshOK'
    BY DEF IInv, FreshOK
  <2>. QED  BY <2>1, <2>2, <2>3, <2>4 DEF IInv
<1>. QED  BY <1>1, <1>2, <1>3 DEF Consume

\* Every step keeps the invariant.
LEMMA NextIInv == IInv /\ [Next]_vars => IInv'
<1>. SUFFICES ASSUME IInv, [Next]_vars PROVE IInv'
  OBVIOUS
<1>1. CASE UNCHANGED vars
  BY <1>1 DEF vars, IInv, TypeOK, Exclusion, Inside, LabelsOK, FreshOK
<1>. QED  BY <1>1, LockIInv, ProducerIInv, ConsumeIInv DEF Next

\* The inductive invariant holds in every reachable state.
THEOREM IInvariance == Spec => []IInv
<1>. QED  BY InitIInv, NextIInv, PTL DEF Spec

\* Every variable keeps its type: the index never leaves the stack, whatever
\* index the run before has left.
THEOREM StackTypeCorrect == Spec => []TypeOK
<1>1. IInv => TypeOK
  BY DEF IInv
<1>. QED  BY <1>1, IInvariance, PTL

\* The mutex is taken exactly when one process, and only one, is in its section.
THEOREM MutualExclusion == Spec => []Exclusion
<1>1. IInv => Exclusion
  BY DEF IInv
<1>. QED  BY <1>1, IInvariance, PTL
---------------------------------------------------------------------------
(* The index and fullCount *)

\* The producers whose push is done and not signalled yet.
Posting == {p \in Producers : pc[p] = "post"}

\* The producers that have to signal their push can be counted.
LEMMA PostingFinite == IsFiniteSet(Posting) /\ Cardinality(Posting) \in Nat
<1>1. IsFiniteSet(Producers)
  BY FS_Interval, ProdConsAssumption DEF Producers
<1>2. Posting \subseteq Producers
  BY DEF Posting
<1>3. IsFiniteSet(Posting)
  BY <1>1, <1>2, FS_Subset
<1>. QED  BY <1>3, FS_CardinalityType

\* How the number of them changes with the label of one process.
LEMMA PostingSteps ==
  ASSUME IInv, NEW p \in Processes, NEW l, Goto(p, l)
  PROVE  /\ p \in Producers /\ pc[p] # "post" /\ l = "post"
              => Cardinality(Posting') = Cardinality(Posting) + 1
         /\ p \in Producers /\ pc[p] = "post" /\ l # "post"
              => Cardinality(Posting') = Cardinality(Posting) - 1
         /\ (pc[p] # "post" /\ l # "post") \/ p = Consumer
              => Cardinality(Posting') = Cardinality(Posting)
<1>. USE PostingFinite, ConstFacts
<1>0. pc' = [pc EXCEPT ![p] = l] /\ pc \in [Processes -> {"lock", "check", "store",
            "index", "post", "exit", "down", "reread", "copy"}]
  BY DEF Goto, IInv, TypeOK
<1>1. ASSUME p \in Producers, pc[p] # "post", l = "post"
      PROVE  Cardinality(Posting') = Cardinality(Posting) + 1
  <2>1. Posting' = Posting \union {p} /\ p \notin Posting
    BY <1>0, <1>1 DEF Posting
  <2>. QED  BY <2>1, FS_AddElement
<1>2. ASSUME p \in Producers, pc[p] = "post", l # "post"
      PROVE  Cardinality(Posting') = Cardinality(Posting) - 1
  <2>1. Posting' = Posting \ {p} /\ p \in Posting
    BY <1>0, <1>2 DEF Posting
  <2>. QED  BY <2>1, FS_RemoveElement
<1>3. ASSUME (pc[p] # "post" /\ l # "post") \/ p = Consumer
      PROVE  Cardinality(Posting') = Cardinality(Posting)
  <2>1. Posting' = Posting
    BY <1>0, <1>3 DEF Posting
  <2>. QED  BY <2>1
<1>. QED  BY <1>1, <1>2, <1>3

\* The invariant as a sum of naturals, the form in which the steps keep it.
Holding == pc[Consumer] \in {"lock", "check"}
Sums(c, h) == shared_index + skipped = StaleIndex + fullCount + c + h

\* IndexMatchesSemaphore as an equation between numbers.
LEMMA SumsEquiv ==
  IndexMatchesSemaphore <=> Sums(Cardinality(Posting), IF Holding THEN 1 ELSE 0)
  BY DEF IndexMatchesSemaphore, Sums, Posting, Holding

\* The same equation in the next state.
LEMMA SumsEquivNext ==
  IndexMatchesSemaphore' <=> Sums(Cardinality(Posting), IF Holding THEN 1 ELSE 0)'
  BY DEF IndexMatchesSemaphore, Sums, Posting, Holding

\* A push moves its item from the index to the signal to fullCount.
LEMMA ProducerSums ==
  ASSUME IInv, IndexMatchesSemaphore, NEW p \in Producers, Lock(p) \/ Producer(p)
  PROVE  IndexMatchesSemaphore'
<1>. PICK c \in Nat : c = Cardinality(Posting)
  BY PostingFinite
<1>. PICK h \in {0, 1} : h = IF Holding THEN 1 ELSE 0
  OBVIOUS
<1>1. /\ shared_index \in Nat /\ skipped \in Nat /\ StaleIndex \in Nat /\ fullCount \in Nat
      /\ Sums(c, h) /\ p \in Processes /\ p # Consumer
  BY SumsEquiv, ConstFacts DEF IInv, TypeOK
<1>2. Holding' <=> Holding
  BY <1>1, ConstFacts DEF IInv, TypeOK, Holding, Producer, Lock, WaitFull, StorePid,
     StoreNum, Pushed, Skip, Post, Retry, Goto
<1>3. h = IF Holding' THEN 1 ELSE 0
  BY <1>2
<1>4. CASE Lock(p) \/ WaitFull(p) \/ StorePid(p) \/ StoreNum(p)
  <2>1. Cardinality(Posting') = c
    BY <1>1, <1>4, PostingSteps DEF Lock, WaitFull, StorePid, StoreNum, Retry
  <2>2. UNCHANGED <<shared_index, skipped, fullCount>>
    BY <1>4 DEF Lock, WaitFull, StorePid, StoreNum, Retry
  <2>. QED  BY <1>1, <1>3, <2>1, <2>2, SumsEquivNext DEF Sums
<1>5. CASE Pushed(p) \/ Skip(p)
  <2>1. Cardinality(Posting') = c + 1
    BY <1>1, <1>5, PostingSteps DEF Pushed, Skip
  <2>2. shared_index' + skipped' = shared_index + skipped + 1 /\ fullCount' = fullCount
    BY <1>1, <1>5 DEF Pushed, Skip
  <2>. QED  BY <1>1, <1>3, <2>1, <2>2, SumsEquivNext DEF Sums
<1>6. CASE Post(p)
  <2>1. Cardinality(Posting') = c - 1
    BY <1>1, <1>6, PostingSteps DEF Post
  <2>2. UNCHANGED <<shared_index, skipped>> /\ fullCount' = fullCount + 1
    BY <1>6 DEF Post
  <2>. QED  BY <1>1, <1>3, <2>1, <2>2, SumsEquivNext DEF Sums
<1>. QED  BY <1>4, <1>5, <1>6 DEF Producer

\* A pop takes one from fullCount and then one from the index.
LEMMA ConsumerSums ==
  ASSUME IInv, IndexMatchesSemaphore, Lock(Consumer) \/ Consume
  PROVE  IndexMatchesSemaphore'
<1>. PICK c \in Nat : c = Cardinality(Posting)
  BY PostingFinite
<1>. PICK h \in {0, 1} : h = IF Holding THEN 1 ELSE 0
  OBVIOUS
<1>1. /\ shared_index \in Nat /\ skipped \in Nat /\ StaleIndex \in Nat /\ fullCount \in Nat
      /\ Sums(c, h)
  BY SumsEquiv, ConstFacts DEF IInv, TypeOK
<1>2. Cardinality(Posting') = c /\ skipped' = skipped
  BY ConstFacts, PostingSteps DEF Lock, Consume, Down, WaitEmpty, Take, ReadIndex,
     ReadSlot, CleanUp, Retry
<1>3. pc \in [Processes -> {"lock", "check", "store", "index", "post", "exit",
                           "down", "reread", "copy"}]
  BY DEF IInv, TypeOK
<1>4. CASE Down
  <2>1. ~Holding /\ Holding' /\ shared_index' = shared_index /\ fullCount' = fullCount - 1
    BY <1>3, <1>4, ConstFacts DEF Down, Goto, Holding
  <2>. QED  BY <1>1, <1>2, <2>1, SumsEquivNext DEF Sums
<1>5. CASE Take
  <2>1. Holding /\ ~Holding' /\ shared_index' = shared_index - 1 /\ fullCount' = fullCount
    BY <1>3, <1>5, ConstFacts DEF Take, Goto, Holding
  <2>. QED  BY <1>1, <1>2, <2>1, SumsEquivNext DEF Sums
<1>6. CASE Lock(Consumer) \/ WaitEmpty \/ ReadIndex \/ ReadSlot \/ CleanUp
  <2>1. (Holding' <=> Holding) /\ shared_index' = shared_index /\ fullCount' = fullCount
    BY <1>3, <1>6, ConstFacts DEF Lock, WaitEmpty, ReadIndex, ReadSlot, CleanUp, Retry,
       Goto, Holding
  <2>2. h = IF Holding' THEN 1 ELSE 0
    BY <2>1
  <2>. QED  BY <1>1, <1>2, <2>1, <2>2, SumsEquivNext DEF Sums
<1>. QED  BY <1>4, <1>5, <1>6 DEF Consume

\* Every step keeps the equation.
LEMMA NextSums == IInv /\ IndexMatchesSemaphore /\ [Next]_vars => IndexMatchesSemaphore'
<1>. SUFFICES ASSUME IInv, IndexMatchesSemaphore, [Next]_vars PROVE IndexMatchesSemaphore'
  OBVIOUS
<1>1. CASE UNCHANGED vars
  BY <1>1 DEF vars, IndexMatchesSemaphore
<1>2. \A p \in Processes : p \in Producers \/ p = Consumer
  BY DEF Processes
<1>. QED  BY <1>1, <1>2, ProducerSums, ConsumerSums DEF Next

\* The equation holds at the start, whatever index the run before has left.
LEMMA InitSums == Init => IndexMatchesSemaphore
<1>. SUFFICES ASSUME Init PROVE IndexMatchesSemaphore
  OBVIOUS
<1>1. Posting = {}
  BY ConstFacts DEF Init, Posting
<1>2. Cardinality(Posting) = 0
  BY <1>1, FS_EmptySet
<1>3. ~Holding
  BY ConstFacts DEF Init, Holding
<1>4. StaleIndex \in Nat /\ shared_index = StaleIndex /\ skipped = 0 /\ fullCount = 0
  BY ProdConsAssumption DEF Init
<1>. QED  BY <1>2, <1>3, <1>4, SumsEquiv DEF Sums

\* The index and fullCount agree, up to the pushes and the pop under way, the
\* pushes that stored nothing and the items an earlier run has left.
THEOREM IndexCorrect == Spec => []IndexMatchesSemaphore
<1>. QED  BY InitSums, NextSums, IInvariance, PTL DEF Spec

\* When no larger run has left its index, the consumer that fullCount has let
\* through never finds the stack empty: its retry loop is dead code.
THEOREM PopSucceeds == Spec => []PopFindsItem
<1>1. IInv /\ IndexMatchesSemaphore => PopFindsItem
  <2>. SUFFICES ASSUME IInv, IndexMatchesSemaphore, StaleIndex < M, pc[Consumer] = "check"
                PROVE  shared_index > 0
    BY DEF PopFindsItem
  <2>. PICK c \in Nat : c = Cardinality(Posting)
    BY PostingFinite
  <2>1. Sums(c, 1)
    BY SumsEquiv DEF Holding
  <2>2. /\ skipped = 0 /\ shared_index \in Nat /\ StaleIndex \in Nat /\ fullCount \in Nat
    BY ConstFacts DEF IInv, FreshOK, TypeOK
  <2>. QED  BY <2>1, <2>2 DEF Sums
<1>. QED  BY <1>1, IndexCorrect, IInvariance, PTL
===========================================================================
