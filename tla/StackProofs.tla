----------------------------- MODULE StackProofs -----------------------------
(***************************************************************************)
(* Proofs about the stacks of test2, for any threads, calls and size: the  *)
(* one with a condition variable, the one without, whose names begin with  *)
(* My, and the whole program, in which the threads of the second stack     *)
(* begin when those of the first have been joined.                         *)
(***************************************************************************)
EXTENDS StackMain, FiniteSetTheorems, TLAPS

Labels == {"lock", "relock", "test", "store", "advance", "retreat",
           "load", "signal", "unlock", "asleep", "done"}
Section == {"test", "store", "advance", "retreat", "load", "signal", "unlock"}

\* A thread inside its section holds the mutex; one that waits is asleep.
Excluded == /\ \A t \in Threads : pc[t] \in Section => mutex = t
            /\ \A t \in waiting : pc[t] = "asleep"

\* What the thread inside knows about the index and the buffer.
Knows ==
  \A t \in Threads :
    /\ pc[t] \in {"store", "advance"} => t \in Pushers /\ index < StackSize
    /\ pc[t] = "advance" => buffer[index] = Char(t)
    /\ pc[t] = "retreat" => t \in Poppers /\ index > 0
    /\ pc[t] = "load" => t \in Poppers /\ index < StackSize

\* A thread that is not done has a call left.
CallsLeft == \A t \in Threads : /\ todo[t] \in 0 .. Calls(t)
                                /\ pc[t] # "done" => todo[t] > 0

\* The characters that push has already put on the stack.
Pushed(t, n) == todo[t] < n \/ (n = todo[t] /\ pc[t] \in {"signal", "unlock"})

AllPushed == /\ \A i \in 0 .. Depth - 1 : /\ buffer[i] \in Chars
                                          /\ Pushed(buffer[i][1], buffer[i][2])
             /\ \A c \in popped : c \in Chars /\ Pushed(c[1], c[2])

CInv == TypeOK /\ Excluded /\ Knows /\ CallsLeft /\ AllPushed

\* What StackCond assumes, in the form the proofs use it.
LEMMA ThreadFacts ==
  /\ Nobody \notin Threads
  /\ StackSize \in Nat \ {0} /\ PushCalls \in Nat /\ PopCalls \in Nat
  /\ \A t \in Pushers : t \in Threads /\ t \notin Poppers /\ Calls(t) = PushCalls
  /\ \A t \in Threads : Calls(t) \in Nat /\ (t \in Pushers \/ t \in Poppers)
BY StackCondAssumption DEF Threads, Calls

\* The depth is the index, or one more while a thread is about to load.
LEMMA DepthFacts ==
  ASSUME CInv
  PROVE  /\ \A t \in Threads : pc[t] = "load" => Depth = index + 1
         /\ (\A t \in Threads : pc[t] # "load") => Depth = index
         /\ Depth \in 0 .. StackSize
<1>1. \A t \in Threads : pc[t] = "load" => Depth = index + 1
  BY DEF Depth
<1>2. (\A t \in Threads : pc[t] # "load") => Depth = index
  BY DEF CInv, TypeOK, Depth
<1>3. Depth \in 0 .. StackSize
  <2>1. CASE \E t \in Threads : pc[t] = "load"
    BY <2>1, <1>1, ThreadFacts DEF CInv, TypeOK, Knows
  <2>2. CASE \A t \in Threads : pc[t] # "load"
    BY <2>2, <1>2, ThreadFacts DEF CInv, TypeOK
  <2>. QED  BY <2>1, <2>2
<1>. QED  BY <1>1, <1>2, <1>3

\* The threads start outside, with all their calls to make and an empty stack.
LEMMA InitCInv == Init => CInv
<1>. SUFFICES ASSUME Init PROVE CInv
  OBVIOUS
<1>. USE ThreadFacts DEF Init
<1>1. TypeOK
  BY DEF TypeOK
<1>2. Depth = 0
  BY DEF Depth
<1>3. Excluded /\ Knows /\ CallsLeft
  BY DEF Excluded, Knows, CallsLeft, Section
<1>4. AllPushed
  BY <1>2 DEF AllPushed
<1>. QED  BY <1>1, <1>3, <1>4 DEF CInv
---------------------------------------------------------------------------
(* The steps that leave the stack alone *)

\* A thread that moves between two labels of which neither is "load", and keeps
\* its calls, the index, the buffer and what has been popped, keeps the stack.
Quiet(t) ==
  /\ UNCHANGED <<buffer, index, todo, popped>>
  /\ \A u \in Threads : /\ pc'[u] = "load" <=> pc[u] = "load"
                        /\ pc[u] \in {"signal", "unlock"} <=> pc'[u] \in {"signal", "unlock"}

LEMMA QuietStack ==
  ASSUME CInv, NEW t \in Threads, Quiet(t)
  PROVE  AllPushed' /\ Depth' = Depth
<1>1. Depth' = Depth
  BY DEF Quiet, Depth
<1>2. \A u \in Threads, n \in Nat : Pushed(u, n) => Pushed(u, n)'
  BY DEF Quiet, Pushed
<1>. QED
  BY <1>1, <1>2 DEF CInv, AllPushed, Quiet, Chars, Threads

\* Taking the mutex, for the first time or after a wait.
LEMMA EnterCInv ==
  ASSUME CInv, NEW t \in Threads, Enter(t)
  PROVE  CInv' /\ UNCHANGED Depth
<1>. USE DEF Enter, Lock, Relock, Goto
<1>1. Quiet(t)
  BY DEF CInv, TypeOK, Quiet
<1>2. TypeOK'
  BY DEF CInv, TypeOK
<1>3. Excluded' /\ Knows' /\ CallsLeft'
  BY ThreadFacts DEF CInv, TypeOK, Excluded, Knows, CallsLeft, Section, Char
<1>. QED  BY <1>1, <1>2, <1>3, QuietStack DEF CInv

\* Going to sleep, proceeding, waking and signalling.
LEMMA MoveCInv ==
  ASSUME CInv, NEW t \in Threads, Wait(t) \/ Proceed(t) \/ Wake(t) \/ Signal(t)
  PROVE  CInv' /\ UNCHANGED <<Depth, buffer, popped>>
<1>. USE ThreadFacts
<1>1. Quiet(t) /\ TypeOK' /\ Excluded' /\ Knows' /\ CallsLeft'
  <2>1. CASE Wait(t)
    BY <2>1 DEF Wait, Goto, CInv, TypeOK, Quiet, Excluded, Knows, CallsLeft, Section, Char
  <2>2. CASE Proceed(t)
    BY <2>2 DEF Proceed, Blocked, Goto, CInv, TypeOK, Quiet, Excluded, Knows,
                CallsLeft, Section, Char
  <2>3. CASE Wake(t)
    BY <2>3 DEF Wake, Goto, CInv, TypeOK, Quiet, Excluded, Knows, CallsLeft, Section, Char
  <2>4. CASE Signal(t)
    <3>1. CASE waiting = {} /\ Goto(t, "unlock") /\ UNCHANGED waiting
      BY <2>4, <3>1 DEF Signal, Goto, CInv, TypeOK, Quiet, Excluded, Knows,
                        CallsLeft, Section, Char
    <3>2. ASSUME NEW w \in waiting, waiting' = waiting \ {w},
                 pc' = [pc EXCEPT ![t] = "unlock", ![w] = "relock"]
          PROVE  Quiet(t) /\ TypeOK' /\ Excluded' /\ Knows' /\ CallsLeft'
      <4>1. w \in Threads /\ w # t /\ pc[w] = "asleep" /\ pc[t] = "signal"
            /\ UNCHANGED <<buffer, index, mutex, todo, popped>>
        BY <2>4, <3>2 DEF Signal, CInv, TypeOK, Excluded
      <4>2. /\ pc'[t] = "unlock" /\ pc'[w] = "relock"
            /\ \A u \in Threads \ {t, w} : pc'[u] = pc[u]
        BY <3>2, <4>1 DEF CInv, TypeOK
      <4>3. Quiet(t)
        BY <4>1, <4>2 DEF Quiet
      <4>4. TypeOK'
        BY <3>2, <4>1 DEF CInv, TypeOK
      <4>5. Excluded'
        BY <3>2, <4>1, <4>2 DEF CInv, TypeOK, Excluded, Section
      <4>6. Knows'
        BY <4>1, <4>2 DEF CInv, Knows, Char
      <4>7. CallsLeft'
        BY <4>1, <4>2 DEF CInv, CallsLeft
      <4>. QED  BY <4>3, <4>4, <4>5, <4>6, <4>7
    <3>. QED  BY <2>4, <3>1, <3>2 DEF Signal
  <2>. QED  BY <2>1, <2>2, <2>3, <2>4
<1>. QED  BY <1>1, QuietStack DEF CInv, Quiet

\* The call returns: the character it has pushed stays pushed.
LEMMA UnlockCInv ==
  ASSUME CInv, NEW t \in Threads, Unlock(t)
  PROVE  CInv' /\ UNCHANGED <<Depth, buffer, popped>>
<1>. USE ThreadFacts DEF Unlock, Goto
<1>1. /\ todo[t] \in Nat \ {0} /\ pc[t] = "unlock" /\ todo'[t] = todo[t] - 1
      /\ \A u \in Threads \ {t} : todo'[u] = todo[u] /\ pc'[u] = pc[u]
      /\ pc'[t] \in {"lock", "done"} /\ UNCHANGED <<buffer, index, waiting, popped>>
      /\ (pc'[t] = "lock" => todo[t] > 1)
  BY DEF CInv, TypeOK, CallsLeft
<1>2. UNCHANGED Depth
  BY <1>1 DEF Depth
<1>3. \A u \in Threads, n \in Nat : Pushed(u, n) => Pushed(u, n)'
  <2>. SUFFICES ASSUME NEW u \in Threads, NEW n \in Nat, Pushed(u, n) PROVE Pushed(u, n)'
    OBVIOUS
  <2>1. CASE u = t
    BY <1>1, <2>1 DEF Pushed
  <2>2. CASE u # t
    BY <1>1, <2>2 DEF Pushed
  <2>. QED  BY <2>1, <2>2
<1>4. AllPushed'
  BY <1>1, <1>2, <1>3 DEF CInv, AllPushed, Chars, Threads
<1>5. TypeOK' /\ Excluded'
  BY <1>1 DEF CInv, TypeOK, Excluded, Section
<1>6. Knows' /\ CallsLeft'
  BY <1>1 DEF CInv, Knows, CallsLeft, Char, TypeOK
<1>. QED  BY <1>1, <1>2, <1>4, <1>5, <1>6 DEF CInv
---------------------------------------------------------------------------
(* The steps that change the stack *)

\* The thread inside its section is the only one there.
LEMMA AloneInside ==
  ASSUME CInv, NEW t \in Threads, pc[t] \in Section, NEW u \in Threads, u # t
  PROVE  pc[u] \notin Section
BY DEF CInv, Excluded

\* The character is written above the stack, where nobody sees it yet.
LEMMA StoreCInv ==
  ASSUME CInv, NEW t \in Threads, Store(t)
  PROVE  /\ CInv' /\ UNCHANGED <<Depth, popped>>
         /\ \A i \in 0 .. Depth - 1 : buffer'[i] = buffer[i]
<1>. USE ThreadFacts DEF Store, Goto
<1>1. /\ t \in Pushers /\ index \in 0 .. StackSize - 1 /\ pc[t] = "store"
      /\ pc'[t] = "advance" /\ \A u \in Threads \ {t} : pc'[u] = pc[u]
      /\ \A i \in 0 .. StackSize - 1 : i # index => buffer'[i] = buffer[i]
      /\ buffer'[index] = Char(t) /\ Char(t) \in Chars
      /\ UNCHANGED <<index, mutex, waiting, todo, popped>>
  <2>1. t \in Pushers /\ index \in 0 .. StackSize - 1 /\ pc[t] = "store"
    BY DEF CInv, TypeOK, Knows
  <2>2. Char(t) \in Chars
    BY <2>1 DEF CInv, TypeOK, CallsLeft, Char, Chars, Calls
  <2>3. pc'[t] = "advance" /\ \A u \in Threads \ {t} : pc'[u] = pc[u]
    BY DEF CInv, TypeOK
  <2>4. /\ \A i \in 0 .. StackSize - 1 : i # index => buffer'[i] = buffer[i]
        /\ buffer'[index] = Char(t)
    BY <2>1 DEF CInv, TypeOK
  <2>. QED  BY <2>1, <2>2, <2>3, <2>4
<1>2. \A u \in Threads \ {t} : pc[u] \notin Section
  BY <1>1, AloneInside DEF Section
<1>3. Depth = index /\ Depth' = index
  BY <1>1, <1>2 DEF Depth, Section
<1>4. \A i \in 0 .. Depth - 1 : buffer'[i] = buffer[i]
  BY <1>1, <1>3
<1>5. \A u \in Threads, n \in Nat : Pushed(u, n) => Pushed(u, n)'
  BY <1>1 DEF Pushed
<1>6. AllPushed'
  BY <1>1, <1>3, <1>4, <1>5 DEF CInv, AllPushed, Chars, Threads
<1>7. TypeOK' /\ Excluded' /\ CallsLeft'
  BY <1>1 DEF CInv, TypeOK, Excluded, CallsLeft, Section
<1>8. Knows'
  BY <1>1, <1>2 DEF Knows, Char, Section
<1>. QED  BY <1>1, <1>3, <1>4, <1>6, <1>7, <1>8 DEF CInv

\* The index moves over the character that has been written.
LEMMA AdvanceCInv ==
  ASSUME CInv, NEW t \in Threads, Advance(t)
  PROVE  /\ CInv' /\ UNCHANGED <<buffer, popped>>
         /\ Depth = index /\ index < StackSize /\ Depth' = index + 1
         /\ buffer[index] = Char(t) /\ Char(t) \in Chars /\ ~Pushed(t, todo[t])
<1>. USE ThreadFacts DEF Advance, Goto
<1>1. /\ t \in Pushers /\ index \in 0 .. StackSize - 1 /\ pc[t] = "advance"
      /\ pc'[t] = "signal" /\ \A u \in Threads \ {t} : pc'[u] = pc[u]
      /\ index' = index + 1 /\ buffer[index] = Char(t) /\ Char(t) \in Chars
      /\ UNCHANGED <<buffer, mutex, waiting, todo, popped>>
  BY DEF CInv, TypeOK, Knows, CallsLeft, Char, Chars, Calls
<1>2. \A u \in Threads \ {t} : pc[u] \notin Section
  BY <1>1, AloneInside DEF Section
<1>3. Depth = index /\ Depth' = index + 1
  BY <1>1, <1>2 DEF Depth, Section
<1>4. \A u \in Threads, n \in Nat : Pushed(u, n) => Pushed(u, n)'
  BY <1>1 DEF Pushed
<1>5. Pushed(t, todo[t])' /\ ~Pushed(t, todo[t])
  BY <1>1 DEF Pushed, CInv, TypeOK
<1>6. AllPushed'
  <2>1. ASSUME NEW i \in 0 .. Depth' - 1
        PROVE  buffer'[i] \in Chars /\ Pushed(buffer[i][1], buffer[i][2])'
    <3>1. CASE i = index
      BY <1>1, <1>5, <3>1 DEF Char
    <3>2. CASE i \in 0 .. Depth - 1
      <4>1. buffer[i] \in Chars /\ Pushed(buffer[i][1], buffer[i][2])
        BY <3>2 DEF CInv, AllPushed
      <4>. QED  BY <1>1, <1>4, <4>1 DEF Chars, Threads
    <3>. QED  BY <1>1, <1>3, <2>1, <3>1, <3>2
  <2>2. ASSUME NEW c \in popped PROVE c \in Chars /\ Pushed(c[1], c[2])'
    BY <1>4, <2>2 DEF CInv, AllPushed, Chars, Threads
  <2>. QED  BY <1>1, <2>1, <2>2 DEF AllPushed
<1>7. TypeOK' /\ Excluded' /\ CallsLeft'
  BY <1>1 DEF CInv, TypeOK, Excluded, CallsLeft, Section
<1>8. Knows'
  BY <1>1, <1>2 DEF Knows, Char, Section
<1>. QED  BY <1>1, <1>3, <1>5, <1>6, <1>7, <1>8 DEF CInv

\* The index moves below the character that is about to be loaded.
LEMMA RetreatCInv ==
  ASSUME CInv, NEW t \in Threads, Retreat(t)
  PROVE  CInv' /\ UNCHANGED <<Depth, buffer, popped>>
<1>. USE ThreadFacts DEF Retreat, Goto
<1>1. /\ t \in Poppers /\ index \in 1 .. StackSize /\ pc[t] = "retreat"
      /\ pc'[t] = "load" /\ \A u \in Threads \ {t} : pc'[u] = pc[u]
      /\ index' = index - 1
      /\ UNCHANGED <<buffer, mutex, waiting, todo, popped>>
  BY DEF CInv, TypeOK, Knows
<1>2. \A u \in Threads \ {t} : pc[u] \notin Section
  BY <1>1, AloneInside DEF Section
<1>3. Depth = index /\ Depth' = index
  BY <1>1, <1>2 DEF Depth, Section
<1>4. \A u \in Threads, n \in Nat : Pushed(u, n) => Pushed(u, n)'
  BY <1>1 DEF Pushed
<1>5. AllPushed'
  BY <1>1, <1>3, <1>4 DEF CInv, AllPushed, Chars, Threads
<1>7. TypeOK' /\ Excluded' /\ CallsLeft'
  BY <1>1 DEF CInv, TypeOK, Excluded, CallsLeft, Section
<1>8. Knows'
  BY <1>1, <1>2 DEF Knows, Char, Section
<1>. QED  BY <1>1, <1>3, <1>5, <1>7, <1>8 DEF CInv

\* The top of the stack is what pop returns.
LEMMA LoadCInv ==
  ASSUME CInv, NEW t \in Threads, Load(t)
  PROVE  /\ CInv' /\ UNCHANGED buffer
         /\ Depth = index + 1 /\ Depth' = index
         /\ popped' = popped \union {buffer[index]}
<1>. USE ThreadFacts DEF Load, Goto
<1>1. /\ t \in Poppers /\ index \in 0 .. StackSize - 1 /\ pc[t] = "load"
      /\ pc'[t] = "signal" /\ \A u \in Threads \ {t} : pc'[u] = pc[u]
      /\ popped' = popped \union {buffer[index]}
      /\ UNCHANGED <<buffer, index, mutex, waiting, todo>>
  BY DEF CInv, TypeOK, Knows
<1>2. \A u \in Threads \ {t} : pc[u] \notin Section
  BY <1>1, AloneInside DEF Section
<1>3. Depth = index + 1 /\ Depth' = index
  BY <1>1, <1>2 DEF Depth, Section
<1>4. \A u \in Threads, n \in Nat : Pushed(u, n) => Pushed(u, n)'
  BY <1>1 DEF Pushed
<1>5. buffer[index] \in Chars /\ Pushed(buffer[index][1], buffer[index][2])
  BY <1>1, <1>3 DEF CInv, AllPushed
<1>6. AllPushed'
  <2>1. ASSUME NEW i \in 0 .. Depth' - 1
        PROVE  buffer'[i] \in Chars /\ Pushed(buffer[i][1], buffer[i][2])'
    <3>1. buffer[i] \in Chars /\ Pushed(buffer[i][1], buffer[i][2])
      BY <1>1, <1>3, <2>1 DEF CInv, AllPushed
    <3>. QED  BY <1>1, <1>4, <3>1 DEF Chars, Threads
  <2>2. ASSUME NEW c \in popped' PROVE c \in Chars /\ Pushed(c[1], c[2])'
    <3>1. c \in Chars /\ Pushed(c[1], c[2])
      BY <1>1, <1>5, <2>2 DEF CInv, AllPushed
    <3>. QED  BY <1>4, <3>1 DEF Chars, Threads
  <2>. QED  BY <1>1, <2>1, <2>2 DEF AllPushed
<1>7. TypeOK' /\ Excluded' /\ CallsLeft'
  BY <1>1, <1>5 DEF CInv, TypeOK, Excluded, CallsLeft, Section
<1>8. Knows'
  BY <1>1, <1>2 DEF Knows, Char, Section
<1>. QED  BY <1>1, <1>3, <1>6, <1>7, <1>8 DEF CInv

\* Every step keeps the inductive invariant.
LEMMA NextCInv == CInv /\ [Next]_vars => CInv'
<1>. SUFFICES ASSUME CInv, [Next]_vars PROVE CInv'
  OBVIOUS
<1>1. CASE Next
  <2>. PICK t \in Threads : Enter(t) \/ Inside(t) \/ Wake(t)
    BY <1>1 DEF Next
  <2>. QED
    BY EnterCInv, MoveCInv, UnlockCInv, StoreCInv, AdvanceCInv, RetreatCInv, LoadCInv
       DEF Inside
<1>2. CASE UNCHANGED vars
  BY <1>2 DEF vars, CInv, TypeOK, Excluded, Knows, CallsLeft, AllPushed, Depth,
              Pushed, Char
<1>. QED  BY <1>1, <1>2

\* CInv is an invariant of the stack with a condition variable.
THEOREM CInvariance == Spec => []CInv
BY InitCInv, NextCInv, PTL DEF Spec

\* Type correctness, for any threads and any size: no push or pop, after any
\* wake-up, uses an index outside the buffer.
THEOREM StackCondTypeCorrect == Spec => []TypeOK
<1>1. CInv => TypeOK
  BY DEF CInv
<1>. QED  BY <1>1, CInvariance, PTL
---------------------------------------------------------------------------
(* push and pop implement BoundedStack *)

Contents == [i \in 1 .. Depth |-> buffer[i - 1]]

\* The first n places of a buffer, as a sequence.
LEMMA PrefixSeq ==
  ASSUME NEW S, NEW b, NEW n \in Nat, \A i \in 0 .. n - 1 : b[i] \in S,
         NEW s, s = [i \in 1 .. n |-> b[i - 1]]
  PROVE  /\ s \in Seq(S) /\ Len(s) = n /\ DOMAIN s = 1 .. n
         /\ \A i \in 1 .. n : s[i] = b[i - 1]
<1>1. \A i \in 1 .. n : b[i - 1] \in S
  OBVIOUS
<1>. QED  BY <1>1

\* Sequences are equal when their lengths and their elements are.
LEMMA SameSeq ==
  ASSUME NEW S, NEW s \in Seq(S), NEW u \in Seq(S), Len(s) = Len(u),
         \A i \in 1 .. Len(s) : s[i] = u[i]
  PROVE  s = u
OBVIOUS

\* The contents are a sequence of characters as long as the stack is deep.
LEMMA ContentsSeq ==
  ASSUME CInv
  PROVE  /\ Contents \in Seq(Chars) /\ Len(Contents) = Depth
         /\ \A i \in 1 .. Depth : Contents[i] = buffer[i - 1]
         /\ DOMAIN Contents = 1 .. Depth
<1>1. Depth \in Nat
  BY DepthFacts, ThreadFacts
<1>2. \A i \in 0 .. Depth - 1 : buffer[i] \in Chars
  BY DEF CInv, AllPushed
<1>. QED  BY <1>1, <1>2, PrefixSeq DEF Contents

\* A step that keeps the depth, and the buffer below it, keeps the contents.
LEMMA SameContents ==
  ASSUME CInv, Depth' = Depth, \A i \in 0 .. Depth - 1 : buffer'[i] = buffer[i]
  PROVE  Contents' = Contents
<1>1. Depth \in Nat
  BY DepthFacts, ThreadFacts
<1>2. \A i \in 1 .. Depth : buffer'[i - 1] = buffer[i - 1]
  BY <1>1
<1>. QED  BY <1>2 DEF Contents

\* Advance is where a character gets on the stack.
LEMMA AdvancePushes ==
  ASSUME CInv, NEW t \in Threads, Advance(t)
  PROVE  Abstract!Push(Char(t)) /\ Char(t) \in Chars
<1>1. /\ CInv' /\ UNCHANGED <<buffer, popped>>
      /\ Depth = index /\ index < StackSize /\ Depth' = index + 1
      /\ buffer[index] = Char(t) /\ Char(t) \in Chars /\ ~Pushed(t, todo[t])
  BY AdvanceCInv
<1>2. index \in Nat /\ Char(t)[1] = t /\ Char(t)[2] = todo[t]
  BY DEF CInv, TypeOK, Char
<1>3. Len(Contents) < StackSize
  BY <1>1, ContentsSeq
<1>4. Char(t) \notin popped
  BY <1>1, <1>2 DEF CInv, AllPushed
<1>5. Char(t) \notin Range(Contents)
  <2>1. \A i \in 1 .. Depth : buffer[i - 1] # Char(t)
    BY <1>1, <1>2 DEF CInv, AllPushed
  <2>. QED  BY <2>1, ContentsSeq DEF Range
<1>6. Contents' = Append(Contents, Char(t))
  <2>1. /\ Contents' \in Seq(Chars) /\ Len(Contents') = index + 1
        /\ \A i \in 1 .. index + 1 : Contents'[i] = buffer[i - 1]
    <3>1. \A i \in 0 .. index + 1 - 1 : buffer[i] \in Chars
      BY <1>1, <1>2 DEF CInv, AllPushed
    <3>2. Contents' = [i \in 1 .. index + 1 |-> buffer[i - 1]]
      BY <1>1 DEF Contents
    <3>. QED  BY <1>2, <3>1, <3>2, PrefixSeq
  <2>2. /\ Append(Contents, Char(t)) \in Seq(Chars)
        /\ Len(Append(Contents, Char(t))) = index + 1
        /\ \A i \in 1 .. index : Append(Contents, Char(t))[i] = buffer[i - 1]
        /\ Append(Contents, Char(t))[index + 1] = Char(t)
    BY <1>1, <1>2, ContentsSeq
  <2>. QED  BY <1>1, <1>2, <2>1, <2>2
<1>. QED
  BY <1>1, <1>3, <1>4, <1>5, <1>6 DEF Abstract!Push, Contents, Range, Abstract!Range

\* Load is where a character leaves it.
LEMMA LoadPops ==
  ASSUME CInv, NEW t \in Threads, Load(t)
  PROVE  Abstract!Pop
<1>1. /\ CInv' /\ UNCHANGED buffer
      /\ Depth = index + 1 /\ Depth' = index
      /\ popped' = popped \union {buffer[index]}
  BY LoadCInv
<1>2. index \in Nat
  BY DEF CInv, TypeOK
<1>3. Contents # <<>> /\ Contents[Len(Contents)] = buffer[index]
  BY <1>1, <1>2, ContentsSeq
<1>4. Contents' = SubSeq(Contents, 1, Len(Contents) - 1)
  <2>1. /\ Contents' \in Seq(Chars) /\ Len(Contents') = index
        /\ \A i \in 1 .. index : Contents'[i] = buffer[i - 1]
    <3>1. \A i \in 0 .. index - 1 : buffer[i] \in Chars
      BY <1>1, <1>2 DEF CInv, AllPushed
    <3>2. Contents' = [i \in 1 .. index |-> buffer[i - 1]]
      BY <1>1 DEF Contents
    <3>. QED  BY <1>2, <3>1, <3>2, PrefixSeq
  <2>2. /\ SubSeq(Contents, 1, Len(Contents) - 1) \in Seq(Chars)
        /\ Len(SubSeq(Contents, 1, Len(Contents) - 1)) = index
        /\ \A i \in 1 .. index : SubSeq(Contents, 1, Len(Contents) - 1)[i] = buffer[i - 1]
    BY <1>1, <1>2, ContentsSeq
  <2>. QED  BY <2>1, <2>2, SameSeq
<1>. QED  BY <1>1, <1>3, <1>4 DEF Abstract!Pop, Contents

\* Every step is a push, a pop or a stutter of the abstract stack.
LEMMA StepsMap == CInv /\ [Next]_vars => [Abstract!Next]_(Abstract!vars)
<1>. SUFFICES ASSUME CInv, [Next]_vars PROVE [Abstract!Next]_(Abstract!vars)
  OBVIOUS
<1>1. ASSUME Contents' = Contents, popped' = popped PROVE UNCHANGED Abstract!vars
  BY <1>1 DEF Contents, Abstract!vars
<1>2. CASE Next
  <2>. PICK t \in Threads : Enter(t) \/ Inside(t) \/ Wake(t)
    BY <1>2 DEF Next
  <2>1. CASE Advance(t)
    <3>1. Abstract!Push(Char(t)) /\ Char(t) \in Chars
      BY <2>1, AdvancePushes
    <3>2. \E i \in Chars : Abstract!Push(i)
      BY <3>1 DEF Abstract!Push
    <3>. QED  BY <3>2 DEF Abstract!Next
  <2>2. CASE Load(t)
    BY <2>2, LoadPops DEF Abstract!Next
  <2>3. CASE Store(t)
    BY <2>3, <1>1, StoreCInv, SameContents
  <2>4. CASE Enter(t)
    <3>1. UNCHANGED <<Depth, buffer, popped>>
      BY <2>4, EnterCInv DEF Enter, Lock, Relock
    <3>. QED  BY <3>1, <1>1, SameContents
  <2>5. CASE Retreat(t) \/ Unlock(t) \/ Wait(t) \/ Proceed(t) \/ Wake(t) \/ Signal(t)
    <3>1. UNCHANGED <<Depth, buffer, popped>>
      BY <2>5, RetreatCInv, UnlockCInv, MoveCInv
    <3>. QED  BY <3>1, <1>1, SameContents
  <2>. QED  BY <2>1, <2>2, <2>3, <2>4, <2>5 DEF Inside
<1>3. CASE UNCHANGED vars
  BY <1>1, <1>3 DEF vars, Contents, Depth
<1>. QED  BY <1>2, <1>3

\* push and pop implement the bounded stack, for any threads that call them, any
\* size, in every interleaving and with every wake-up.
THEOREM ImplementsBoundedStack == Spec => ImplementsStack
<1>1. Init => Abstract!Init
  <2>. SUFFICES ASSUME Init PROVE Abstract!Init
    OBVIOUS
  <2>1. Depth = 0
    BY DEF Init, Depth
  <2>2. CInv
    BY InitCInv
  <2>3. Contents = <<>>
    BY <2>1, <2>2, ContentsSeq
  <2>. QED  BY <2>3 DEF Init, Abstract!Init, Contents
<1>. QED  BY <1>1, StepsMap, CInvariance, PTL DEF Spec, ImplementsStack, Abstract!Spec
---------------------------------------------------------------------------
(* Somebody is awake *)

\* The threads that sleep, and the others that have not yet had their turn: a popper
\* that has not lowered the index for its call, a pusher that has not raised it.
Sleepers(S) == S \intersect waiting
Hungry == {t \in Poppers : pc[t] \in {"lock", "relock", "test", "retreat"}}
Eager  == {t \in Pushers : pc[t] \in {"lock", "relock", "test", "store", "advance"}}

\* A thread that has moved the index owes the others a signal.
Owes(S) == IF \E t \in S : pc[t] \in {"load", "signal"} THEN 1 ELSE 0

\* No two kinds of threads sleep at once, so that no signal goes to the wrong kind;
\* while poppers sleep, every item has a popper that is up, or a signal to come, and
\* while pushers sleep, every free place has a pusher.
Served ==
  /\ Sleepers(Poppers) = {} \/ Sleepers(Pushers) = {}
  /\ Sleepers(Poppers) # {} => index <= Cardinality(Hungry) + Owes(Pushers)
  /\ Sleepers(Pushers) # {} => StackSize - index <= Cardinality(Eager) + Owes(Poppers)

\* The calls of push and of pop that have not moved the index yet.
Taken(t, n) == todo[t] < n \/ (n = todo[t] /\ pc[t] \in {"load", "signal", "unlock"})
PushLeft == {c \in Chars : ~Pushed(c[1], c[2])}
PopLeft  == {c \in Poppers \X (1 .. PopCalls) : ~Taken(c[1], c[2])}

\* What is left to pop is what is left to push, and what is on the stack.
Balance == Cardinality(PopLeft) = Cardinality(PushLeft) + index

\* A thread sleeps if it waits, and has no call left if it is done.
Marked == \A t \in Threads : /\ pc[t] = "asleep" <=> t \in waiting
                             /\ pc[t] = "done" <=> todo[t] = 0

\* There is a place for every pusher and for every popper, and as many calls of push
\* as of pop: main_test_stack.c has one thread of each kind, with ITEMS_PER_THREAD
\* calls, on STACK_SIZE = 3 places.
Fits == /\ Cardinality(Pushers) <= StackSize /\ Cardinality(Poppers) <= StackSize
        /\ Cardinality(Pushers) * PushCalls = Cardinality(Poppers) * PopCalls

AInv == Marked /\ Served /\ Balance

\* The sets of threads and of calls are finite.
LEMMA CallSets ==
  /\ IsFiniteSet(Hungry) /\ Cardinality(Hungry) \in Nat
  /\ IsFiniteSet(Eager) /\ Cardinality(Eager) \in Nat
  /\ IsFiniteSet(PushLeft) /\ Cardinality(PushLeft) \in Nat
  /\ IsFiniteSet(PopLeft) /\ Cardinality(PopLeft) \in Nat
<1>. USE StackCondAssumption
<1>1. Hungry \subseteq Poppers /\ Eager \subseteq Pushers
  BY DEF Hungry, Eager
<1>2. IsFiniteSet(1 .. PushCalls) /\ IsFiniteSet(1 .. PopCalls)
  BY FS_Interval
<1>3. IsFiniteSet(Chars) /\ IsFiniteSet(Poppers \X (1 .. PopCalls))
  BY <1>2, FS_Product DEF Chars
<1>4. PushLeft \subseteq Chars /\ PopLeft \subseteq Poppers \X (1 .. PopCalls)
  BY DEF PushLeft, PopLeft
<1>5. IsFiniteSet(Hungry) /\ IsFiniteSet(Eager)
  BY <1>1, FS_Subset
<1>6. IsFiniteSet(PushLeft) /\ IsFiniteSet(PopLeft)
  BY <1>3, <1>4, FS_Subset
<1>. QED  BY <1>5, <1>6, FS_CardinalityType

LEMMA CallSetsNext ==
  /\ IsFiniteSet(Hungry') /\ Cardinality(Hungry') \in Nat
  /\ IsFiniteSet(Eager') /\ Cardinality(Eager') \in Nat
<1>1. Hungry' \subseteq Poppers /\ Eager' \subseteq Pushers
  BY DEF Hungry, Eager
<1>2. IsFiniteSet(Hungry') /\ IsFiniteSet(Eager')
  BY <1>1, StackCondAssumption, FS_Subset
<1>. QED  BY <1>2, FS_CardinalityType

\* A step that moves no index: whoever sleeps after it slept before.
LEMMA Calm ==
  ASSUME CInv, Served, waiting' \subseteq waiting, index' = index,
         Owes(Pushers)' = Owes(Pushers), Owes(Poppers)' = Owes(Poppers),
         Hungry \subseteq Hungry', Eager \subseteq Eager'
  PROVE  Served'
<1>1. \A S : /\ Sleepers(S)' = S \intersect waiting'
             /\ Sleepers(S) = S \intersect waiting
  BY DEF Sleepers
<1>2. /\ Sleepers(Poppers)' \subseteq Sleepers(Poppers)
      /\ Sleepers(Pushers)' \subseteq Sleepers(Pushers)
  BY DEF Sleepers
<1>3. Cardinality(Hungry) <= Cardinality(Hungry') /\ Cardinality(Eager) <= Cardinality(Eager')
  BY CallSetsNext, FS_Subset
<1>4. index \in Nat /\ StackSize \in Nat /\ Owes(Pushers) \in Nat /\ Owes(Poppers) \in Nat
  BY ThreadFacts DEF CInv, TypeOK, Owes
<1>. QED  BY <1>2, <1>3, <1>4, CallSets, CallSetsNext DEF Served

\* Such a step leaves the calls that are left as they are.
LEMMA SameLeft ==
  ASSUME UNCHANGED <<todo, index>>, Balance,
         \A u \in Threads : pc'[u] \in {"signal", "unlock"} <=> pc[u] \in {"signal", "unlock"},
         \A u \in Threads : pc'[u] = "load" <=> pc[u] = "load"
  PROVE  Balance'
<1>1. PushLeft' = PushLeft
  BY ThreadFacts DEF PushLeft, Pushed, Chars
<1>2. PopLeft' = PopLeft
  BY ThreadFacts DEF PopLeft, Taken, Threads
<1>. QED  BY <1>1, <1>2 DEF Balance

\* A thread that enters, proceeds, stores, loads or wakes by itself.
LEMMA EasySteps ==
  ASSUME CInv, AInv, NEW t \in Threads, Enter(t) \/ Proceed(t) \/ Store(t) \/ Wake(t)
  PROVE  AInv'
<1>. USE ThreadFacts
<1>0. /\ index' = index /\ todo' = todo /\ waiting' \subseteq waiting
      /\ pc'[t] # "asleep" /\ t \notin waiting' /\ \A u \in waiting : u = t \/ u \in waiting'
      /\ \A u \in Threads \ {t} : pc'[u] = pc[u]
      /\ \/ pc[t] \in {"lock", "relock"} /\ pc'[t] = "test"
         \/ pc[t] = "test" /\ t \in Pushers /\ pc'[t] = "store"
         \/ pc[t] = "test" /\ t \in Poppers /\ pc'[t] = "retreat"
         \/ pc[t] = "store" /\ t \in Pushers /\ pc'[t] = "advance"
         \/ pc[t] = "asleep" /\ pc'[t] = "relock"
  <2>1. CASE Enter(t)
    BY <2>1 DEF Enter, Lock, Relock, Goto, AInv, Marked, CInv, TypeOK
  <2>2. CASE Proceed(t)
    BY <2>2 DEF Proceed, Goto, AInv, Marked, CInv, TypeOK
  <2>3. CASE Store(t)
    BY <2>3 DEF Store, Goto, AInv, Marked, CInv, TypeOK, Knows
  <2>4. CASE Wake(t)
    BY <2>4 DEF Wake, Goto, AInv, Marked, CInv, TypeOK
  <2>. QED  BY <2>1, <2>2, <2>3, <2>4
<1>1. Marked'
  BY <1>0 DEF AInv, Marked
<1>2. Owes(Pushers)' = Owes(Pushers) /\ Owes(Poppers)' = Owes(Poppers)
  <2>1. \A u \in Threads : pc'[u] \in {"load", "signal"} <=> pc[u] \in {"load", "signal"}
    BY <1>0
  <2>. QED  BY <2>1 DEF Owes, Threads
<1>3. Hungry \subseteq Hungry' /\ Eager \subseteq Eager'
  <2>1. ASSUME NEW u \in Hungry PROVE u \in Hungry'
    <3>1. u \in Poppers /\ u \in Threads /\ u \notin Pushers
      BY DEF Hungry, Threads
    <3>. QED  BY <1>0, <3>1 DEF Hungry
  <2>2. ASSUME NEW u \in Eager PROVE u \in Eager'
    <3>1. u \in Pushers /\ u \in Threads /\ u \notin Poppers
      BY DEF Eager
    <3>. QED  BY <1>0, <3>1 DEF Eager
  <2>. QED  BY <2>1, <2>2
<1>4. Served'
  BY <1>0, <1>2, <1>3, Calm DEF AInv
<1>5. Balance'
  BY <1>0, SameLeft DEF AInv
<1>. QED  BY <1>1, <1>4, <1>5 DEF AInv

\* A thread that goes to sleep finds none of the other kind asleep: there would be
\* more of that kind than there are places.
LEMMA WaitAwake ==
  ASSUME Fits, CInv, AInv, NEW t \in Threads, Wait(t)
  PROVE  AInv'
<1>. USE ThreadFacts
<1>0. /\ UNCHANGED <<index, todo>> /\ waiting' = waiting \union {t} /\ t \notin waiting
      /\ pc[t] = "test" /\ pc'[t] = "asleep" /\ Blocked(t)
      /\ \A u \in Threads \ {t} : pc'[u] = pc[u]
  BY DEF Wait, Goto, AInv, Marked, CInv, TypeOK
<1>1. Marked'
  BY <1>0 DEF AInv, Marked
<1>2. \A u \in Threads \ {t} : pc[u] \notin Section
  BY <1>0, AloneInside DEF Section
<1>3. Owes(Pushers) = 0 /\ Owes(Poppers) = 0
  BY <1>0, <1>2 DEF Owes, Section, Threads
<1>4. Owes(Pushers)' = 0 /\ Owes(Poppers)' = 0
  BY <1>0, <1>2 DEF Owes, Section, Threads
<1>5. index \in Nat
  BY DEF CInv, TypeOK
<1>6. CASE t \in Poppers
  <2>1. index = 0 /\ t \notin Pushers
    BY <1>0, <1>6 DEF Blocked
  <2>2. Sleepers(Pushers) = {}
    <3>. SUFFICES ASSUME NEW u \in Pushers, u \in waiting PROVE FALSE
      BY DEF Sleepers
    <3>1. u \notin Eager
      BY DEF CInv, Excluded, Eager
    <3>2. Eager \subseteq Pushers \ {u}
      BY <3>1 DEF Eager
    <3>3. /\ IsFiniteSet(Pushers \ {u}) /\ Cardinality(Pushers) \in Nat
          /\ Cardinality(Pushers \ {u}) = Cardinality(Pushers) - 1
      BY StackCondAssumption, FS_RemoveElement, FS_CardinalityType
    <3>4. Cardinality(Eager) <= Cardinality(Pushers) - 1
      BY <3>2, <3>3, FS_Subset
    <3>5. StackSize - index <= Cardinality(Eager) + 0
      <4>. Sleepers(Pushers) # {}
        BY DEF Sleepers
      <4>. QED  BY <1>3 DEF AInv, Served
    <3>. QED  BY <2>1, <3>3, <3>4, <3>5, CallSets DEF Fits
  <2>3. Sleepers(Pushers)' = {}
    BY <1>0, <2>1, <2>2 DEF Sleepers
  <2>4. Served'
    BY <1>0, <1>4, <2>1, <2>3, CallSetsNext DEF Served
  <2>. QED  BY <1>0, <1>1, <2>4, SameLeft DEF AInv
<1>7. CASE t \in Pushers
  <2>1. index = StackSize /\ t \notin Poppers
    BY <1>0, <1>7 DEF Blocked
  <2>2. Sleepers(Poppers) = {}
    <3>. SUFFICES ASSUME NEW u \in Poppers, u \in waiting PROVE FALSE
      BY DEF Sleepers
    <3>1. u \notin Hungry
      BY DEF CInv, Excluded, Hungry
    <3>2. Hungry \subseteq Poppers \ {u}
      BY <3>1 DEF Hungry
    <3>3. /\ IsFiniteSet(Poppers \ {u}) /\ Cardinality(Poppers) \in Nat
          /\ Cardinality(Poppers \ {u}) = Cardinality(Poppers) - 1
      BY StackCondAssumption, FS_RemoveElement, FS_CardinalityType
    <3>4. Cardinality(Hungry) <= Cardinality(Poppers) - 1
      BY <3>2, <3>3, FS_Subset
    <3>5. index <= Cardinality(Hungry) + 0
      <4>. Sleepers(Poppers) # {}
        BY DEF Sleepers
      <4>. QED  BY <1>3 DEF AInv, Served
    <3>. QED  BY <2>1, <3>3, <3>4, <3>5, CallSets DEF Fits
  <2>3. Sleepers(Poppers)' = {}
    BY <1>0, <2>1, <2>2 DEF Sleepers
  <2>4. Served'
    BY <1>0, <1>4, <1>5, <2>1, <2>3, CallSetsNext DEF Served
  <2>. QED  BY <1>0, <1>1, <2>4, SameLeft DEF AInv
<1>. QED  BY <1>6, <1>7

\* The index moves up for a pusher, which then owes a signal.
LEMMA AdvanceAwake ==
  ASSUME CInv, AInv, NEW t \in Threads, Advance(t)
  PROVE  AInv'
<1>. USE ThreadFacts
<1>0. /\ index' = index + 1 /\ todo' = todo /\ waiting' = waiting
      /\ pc[t] = "advance" /\ pc'[t] = "signal" /\ t \in Pushers /\ t \notin Poppers
      /\ \A u \in Threads \ {t} : pc'[u] = pc[u]
      /\ index \in Nat /\ Char(t) \in Chars
  <2>1. t \in Pushers /\ index \in Nat
    BY DEF Advance, CInv, Knows, TypeOK
  <2>2. Char(t) \in Chars
    BY AdvanceCInv
  <2>. QED  BY <2>1, <2>2 DEF Advance, Goto, CInv, TypeOK
<1>1. Marked'
  BY <1>0 DEF AInv, Marked
<1>2. \A u \in Threads \ {t} : pc[u] \notin Section
  BY <1>0, AloneInside DEF Section
<1>3. /\ Owes(Pushers) = 0 /\ Owes(Poppers) = 0 /\ Owes(Pushers)' = 1 /\ Owes(Poppers)' = 0
  BY <1>0, <1>2 DEF Owes, Section, Threads
<1>4. Hungry' = Hungry
  BY <1>0 DEF Hungry, Threads
<1>5. Eager' = Eager \ {t} /\ t \in Eager
  BY <1>0 DEF Eager
<1>6. Cardinality(Eager') = Cardinality(Eager) - 1
  BY <1>5, CallSets, FS_RemoveElement
<1>7. Served'
  <2>1. \A S : Sleepers(S)' = S \intersect waiting' /\ Sleepers(S) = S \intersect waiting
    BY DEF Sleepers
  <2>2. /\ Sleepers(Poppers)' = Sleepers(Poppers)
        /\ Sleepers(Pushers)' = Sleepers(Pushers)
    BY <1>0 DEF Sleepers
  <2>. QED  BY <1>0, <1>3, <1>4, <1>6, <2>2, CallSets DEF AInv, Served
<1>8. PopLeft' = PopLeft
  BY <1>0 DEF PopLeft, Taken, Threads
<1>9. PushLeft' = PushLeft \ {Char(t)} /\ Char(t) \in PushLeft
  <2>1. \A c \in Chars : c[1] \in Threads /\ c[2] \in Nat /\ c = <<c[1], c[2]>>
    BY DEF Chars
  <2>2. \A c \in Chars : Pushed(c[1], c[2])' <=> Pushed(c[1], c[2]) \/ c = Char(t)
    BY <1>0, <2>1 DEF Pushed, Char
  <2>3. ~Pushed(Char(t)[1], Char(t)[2])
    BY <1>0 DEF Pushed, Char, CInv, TypeOK
  <2>. QED  BY <1>0, <2>2, <2>3 DEF PushLeft
<1>10. Cardinality(PushLeft') = Cardinality(PushLeft) - 1
  BY <1>9, CallSets, FS_RemoveElement
<1>11. Balance'
  BY <1>0, <1>8, <1>10, CallSets DEF AInv, Balance
<1>. QED  BY <1>1, <1>7, <1>11 DEF AInv

\* The index moves down for a popper, which then owes a signal.
LEMMA RetreatAwake ==
  ASSUME CInv, AInv, NEW t \in Threads, Retreat(t)
  PROVE  AInv'
<1>. USE ThreadFacts
<1>0. /\ index' = index - 1 /\ todo' = todo /\ waiting' = waiting
      /\ pc[t] = "retreat" /\ pc'[t] = "load" /\ t \in Poppers /\ t \notin Pushers
      /\ \A u \in Threads \ {t} : pc'[u] = pc[u]
      /\ index \in Nat \ {0} /\ todo[t] \in 1 .. PopCalls
  BY DEF Retreat, Goto, CInv, Knows, TypeOK, CallsLeft, Calls
<1>1. Marked'
  BY <1>0 DEF AInv, Marked
<1>2. \A u \in Threads \ {t} : pc[u] \notin Section
  BY <1>0, AloneInside DEF Section
<1>3. /\ Owes(Pushers) = 0 /\ Owes(Poppers) = 0 /\ Owes(Pushers)' = 0 /\ Owes(Poppers)' = 1
  BY <1>0, <1>2 DEF Owes, Section, Threads
<1>4. Eager' = Eager
  BY <1>0 DEF Eager
<1>5. Hungry' = Hungry \ {t} /\ t \in Hungry
  BY <1>0 DEF Hungry, Threads
<1>6. Cardinality(Hungry') = Cardinality(Hungry) - 1
  BY <1>5, CallSets, FS_RemoveElement
<1>7. Served'
  <2>1. /\ Sleepers(Poppers)' = Sleepers(Poppers)
        /\ Sleepers(Pushers)' = Sleepers(Pushers)
    BY <1>0 DEF Sleepers
  <2>. QED  BY <1>0, <1>3, <1>4, <1>6, <2>1, CallSets DEF AInv, Served
<1>8. PushLeft' = PushLeft
  BY <1>0 DEF PushLeft, Pushed, Chars
<1>9. PopLeft' = PopLeft \ {<<t, todo[t]>>} /\ <<t, todo[t]>> \in PopLeft
  <2>. DEFINE C == Poppers \X (1 .. PopCalls)
  <2>1. \A c \in C : c[1] \in Threads /\ c[2] \in Nat /\ c = <<c[1], c[2]>>
    BY DEF Threads
  <2>2. \A c \in C : Taken(c[1], c[2])' <=> Taken(c[1], c[2]) \/ c = <<t, todo[t]>>
    BY <1>0, <2>1 DEF Taken
  <2>3. ~Taken(t, todo[t]) /\ <<t, todo[t]>> \in C
    BY <1>0 DEF Taken
  <2>. QED  BY <1>0, <2>2, <2>3 DEF PopLeft
<1>10. Cardinality(PopLeft') = Cardinality(PopLeft) - 1
  BY <1>9, CallSets, FS_RemoveElement
<1>11. Balance'
  BY <1>0, <1>8, <1>10, CallSets DEF AInv, Balance
<1>. QED  BY <1>1, <1>7, <1>11 DEF AInv

\* Reading the top of the stack changes nothing here, and returning ends a turn.
LEMMA LoadAwake ==
  ASSUME CInv, AInv, NEW t \in Threads, Load(t)
  PROVE  AInv'
<1>. USE ThreadFacts
<1>0. /\ UNCHANGED <<index, todo, waiting>> /\ pc[t] = "load" /\ pc'[t] = "signal"
      /\ t \in Poppers /\ t \notin Pushers
      /\ \A u \in Threads \ {t} : pc'[u] = pc[u]
  BY DEF Load, Goto, CInv, Knows, TypeOK
<1>1. Marked'
  BY <1>0 DEF AInv, Marked
<1>2. Owes(Pushers)' = Owes(Pushers) /\ Owes(Poppers)' = Owes(Poppers)
  <2>1. \A u \in Threads : pc'[u] \in {"load", "signal"} <=> pc[u] \in {"load", "signal"}
    BY <1>0
  <2>. QED  BY <2>1 DEF Owes, Threads
<1>3. Hungry' = Hungry /\ Eager' = Eager
  BY <1>0 DEF Hungry, Eager, Threads
<1>4. Served'
  BY <1>0, <1>2, <1>3, Calm DEF AInv
<1>5. Balance'
  <2>1. PushLeft' = PushLeft
    BY <1>0 DEF PushLeft, Pushed, Chars
  <2>2. PopLeft' = PopLeft
    BY <1>0 DEF PopLeft, Taken, Threads
  <2>. QED  BY <1>0, <2>1, <2>2 DEF AInv, Balance
<1>. QED  BY <1>1, <1>4, <1>5 DEF AInv

LEMMA UnlockAwake ==
  ASSUME CInv, AInv, NEW t \in Threads, Unlock(t)
  PROVE  AInv'
<1>. USE ThreadFacts
<1>0. /\ UNCHANGED <<index, waiting>> /\ pc[t] = "unlock"
      /\ pc'[t] = (IF todo[t] > 1 THEN "lock" ELSE "done")
      /\ todo[t] \in Nat \ {0} /\ todo'[t] = todo[t] - 1
      /\ \A u \in Threads \ {t} : pc'[u] = pc[u] /\ todo'[u] = todo[u]
      /\ \A u \in Threads : todo[u] \in Nat
  BY DEF Unlock, Goto, CInv, CallsLeft, TypeOK
<1>1. Marked'
  BY <1>0 DEF AInv, Marked
<1>2. Owes(Pushers)' = Owes(Pushers) /\ Owes(Poppers)' = Owes(Poppers)
  <2>1. \A u \in Threads : pc'[u] \in {"load", "signal"} <=> pc[u] \in {"load", "signal"}
    BY <1>0
  <2>. QED  BY <2>1 DEF Owes, Threads
<1>3. Hungry \subseteq Hungry' /\ Eager \subseteq Eager'
  BY <1>0 DEF Hungry, Eager, Threads
<1>4. Served'
  BY <1>0, <1>2, <1>3, Calm DEF AInv
<1>5. \A u \in Threads, n \in Nat : /\ Pushed(u, n)' <=> Pushed(u, n)
                                    /\ Taken(u, n)' <=> Taken(u, n)
  <2>. SUFFICES ASSUME NEW u \in Threads, NEW n \in Nat
                PROVE  (Pushed(u, n)' <=> Pushed(u, n)) /\ (Taken(u, n)' <=> Taken(u, n))
    OBVIOUS
  <2>1. CASE u = t
    BY <1>0, <2>1 DEF Pushed, Taken
  <2>2. CASE u # t
    BY <1>0, <2>2 DEF Pushed, Taken
  <2>. QED  BY <2>1, <2>2
<1>6. PushLeft' = PushLeft
  BY <1>5 DEF PushLeft, Chars
<1>7. PopLeft' = PopLeft
  BY <1>5 DEF PopLeft, Threads
<1>8. Balance'
  BY <1>0, <1>6, <1>7 DEF AInv, Balance
<1>. QED  BY <1>1, <1>4, <1>8 DEF AInv

\* The signal goes to a thread of the kind that sleeps, if any does.
LEMMA SignalAwake ==
  ASSUME CInv, AInv, NEW t \in Threads, Signal(t)
  PROVE  AInv'
<1>. USE ThreadFacts
<1>0. /\ UNCHANGED <<index, todo>> /\ pc[t] = "signal" /\ index \in Nat
  BY DEF Signal, CInv, TypeOK
<1>1. \A u \in Threads \ {t} : pc[u] \notin Section
  BY <1>0, AloneInside DEF Section
<1>2. /\ Owes(Pushers) \in {0, 1} /\ Owes(Poppers) \in {0, 1}
      /\ Sleepers(Poppers) # {} => index <= Cardinality(Hungry) + 1
      /\ Sleepers(Pushers) # {} => StackSize - index <= Cardinality(Eager) + 1
  <2>1. Owes(Pushers) \in {0, 1} /\ Owes(Poppers) \in {0, 1}
    BY DEF Owes
  <2>. QED  BY <1>0, <2>1, CallSets DEF AInv, Served
<1>3. CASE waiting = {} /\ Goto(t, "unlock") /\ UNCHANGED waiting
  <2>1. /\ waiting' = {} /\ pc'[t] = "unlock" /\ \A u \in Threads \ {t} : pc'[u] = pc[u]
    BY <1>3 DEF Goto, CInv, TypeOK
  <2>2. Marked'
    BY <1>0, <1>3, <2>1 DEF AInv, Marked
  <2>3. Served'
    BY <2>1 DEF Served, Sleepers
  <2>4. Balance'
    BY <1>0, <2>1, SameLeft DEF AInv
  <2>. QED  BY <2>2, <2>3, <2>4 DEF AInv
<1>4. ASSUME NEW w \in waiting, waiting' = waiting \ {w},
             pc' = [pc EXCEPT ![t] = "unlock", ![w] = "relock"]
      PROVE  AInv'
  <2>1. /\ w \in Threads /\ w # t /\ pc[w] = "asleep" /\ pc'[w] = "relock"
        /\ pc'[t] = "unlock" /\ \A u \in Threads \ {t, w} : pc'[u] = pc[u]
    BY <1>0, <1>4 DEF CInv, TypeOK, Excluded
  <2>2. Marked'
    BY <1>0, <1>4, <2>1 DEF AInv, Marked
  <2>3. Balance'
    BY <1>0, <2>1, SameLeft DEF AInv
  <2>4. Owes(Pushers)' = 0 /\ Owes(Poppers)' = 0
    BY <1>1, <2>1 DEF Owes, Section, Threads
  <2>5. CASE w \in Poppers
    <3>1. Sleepers(Poppers) # {} /\ w \notin Pushers
      BY <1>4, <2>5 DEF Sleepers
    <3>2. Sleepers(Pushers)' = {}
      BY <1>4, <3>1 DEF AInv, Served, Sleepers
    <3>3. Hungry' = Hungry \union {w} /\ w \notin Hungry
      BY <1>0, <2>1, <2>5 DEF Hungry, Threads
    <3>4. Cardinality(Hungry') = Cardinality(Hungry) + 1
      BY <3>3, CallSets, FS_AddElement
    <3>5. Served'
      BY <1>0, <1>2, <2>4, <3>1, <3>2, <3>4, CallSets DEF Served
    <3>. QED  BY <2>2, <2>3, <3>5 DEF AInv
  <2>6. CASE w \in Pushers
    <3>1. Sleepers(Pushers) # {} /\ w \notin Poppers
      BY <1>4, <2>6 DEF Sleepers
    <3>2. Sleepers(Poppers)' = {}
      BY <1>4, <3>1 DEF AInv, Served, Sleepers
    <3>3. Eager' = Eager \union {w} /\ w \notin Eager
      BY <1>0, <2>1, <2>6 DEF Eager
    <3>4. Cardinality(Eager') = Cardinality(Eager) + 1
      BY <3>3, CallSets, FS_AddElement
    <3>5. Served'
      BY <1>0, <1>2, <2>4, <3>1, <3>2, <3>4, CallSets DEF Served
    <3>. QED  BY <2>2, <2>3, <3>5 DEF AInv
  <2>. QED  BY <2>1, <2>5, <2>6
<1>. QED  BY <1>3, <1>4 DEF Signal

\* Every step keeps the invariant.
LEMMA NextAwake == Fits /\ CInv /\ AInv /\ [Next]_vars => AInv'
<1>. SUFFICES ASSUME Fits, CInv, AInv, [Next]_vars PROVE AInv'
  OBVIOUS
<1>1. CASE Next
  <2>. PICK t \in Threads : Enter(t) \/ Inside(t) \/ Wake(t)
    BY <1>1 DEF Next
  <2>. QED  BY EasySteps, WaitAwake, AdvanceAwake, RetreatAwake, LoadAwake, UnlockAwake,
               SignalAwake DEF Inside
<1>2. CASE UNCHANGED vars
  BY <1>2 DEF vars, AInv, Marked, Served, Sleepers, Hungry, Eager, Owes, Balance,
              PushLeft, PopLeft, Pushed, Taken
<1>. QED  BY <1>1, <1>2

\* All calls are left, and as many of each kind.
LEMMA InitAwake == Fits /\ Init => AInv
<1>. SUFFICES ASSUME Fits, Init PROVE AInv
  OBVIOUS
<1>. USE ThreadFacts
<1>1. Marked
  BY DEF Init, Marked
<1>2. Served
  BY DEF Init, Served, Sleepers
<1>3. PushLeft = Chars /\ PopLeft = Poppers \X (1 .. PopCalls)
  <2>1. \A t \in Pushers, n \in 1 .. PushCalls : ~Pushed(t, n)
    BY DEF Init, Pushed
  <2>2. \A t \in Poppers, n \in 1 .. PopCalls : ~Taken(t, n)
    <3>. SUFFICES ASSUME NEW t \in Poppers, NEW n \in 1 .. PopCalls PROVE ~Taken(t, n)
      OBVIOUS
    <3>1. t \in Threads /\ todo[t] = PopCalls /\ pc[t] \in {"lock", "done"}
      BY DEF Init, Calls, Threads
    <3>. QED  BY <3>1 DEF Taken
  <2>. QED  BY <2>1, <2>2 DEF PushLeft, PopLeft, Chars
<1>4. /\ IsFiniteSet(1 .. PushCalls) /\ Cardinality(1 .. PushCalls) = PushCalls
      /\ IsFiniteSet(1 .. PopCalls) /\ Cardinality(1 .. PopCalls) = PopCalls
  BY FS_Interval
<1>5. Cardinality(Chars) = Cardinality(Poppers \X (1 .. PopCalls))
  <2>1. Cardinality(Pushers \X (1 .. PushCalls)) = Cardinality(Pushers) * PushCalls
    BY <1>4, StackCondAssumption, FS_Product, Zenon
  <2>2. Cardinality(Poppers \X (1 .. PopCalls)) = Cardinality(Poppers) * PopCalls
    BY <1>4, StackCondAssumption, FS_Product, Zenon
  <2>. QED  BY <2>1, <2>2 DEF Fits, Chars
<1>6. Balance
  BY <1>3, <1>5, CallSets DEF Init, Balance
<1>. QED  BY <1>1, <1>2, <1>6 DEF AInv

\* When all sleep or are done, all are done: poppers that sleep would leave an item
\* or a call of push, and pushers that sleep leave no call of pop for what is there.
LEMMA NobodyStuck == CInv /\ AInv => SomeoneAwake
<1>. SUFFICES ASSUME CInv, AInv, NEW v \in Threads, pc[v] # "done",
                     \A t \in Threads : pc[t] \in {"done", "asleep"}
              PROVE  FALSE
  BY DEF SomeoneAwake
<1>. USE ThreadFacts
<1>1. Hungry = {} /\ Eager = {} /\ Owes(Pushers) = 0 /\ Owes(Poppers) = 0
  BY DEF Hungry, Eager, Owes, Threads
<1>2. Cardinality(Hungry) = 0 /\ Cardinality(Eager) = 0
  BY <1>1, FS_EmptySet
<1>3. \A S \in {Pushers, Poppers} : Sleepers(S) = {} => \A t \in S : todo[t] = 0
  BY DEF Sleepers, AInv, Marked, Threads
<1>4. index \in 0 .. StackSize /\ v \in waiting /\ todo[v] \in 1 .. Calls(v)
  BY DEF CInv, TypeOK, CallsLeft, AInv, Marked
<1>5. CASE v \in Poppers
  <2>1. Sleepers(Poppers) # {}
    BY <1>4, <1>5 DEF Sleepers
  <2>2. index = 0
    BY <1>1, <1>2, <1>4, <2>1 DEF AInv, Served
  <2>3. \A t \in Pushers : todo[t] = 0
    BY <1>3, <2>1 DEF AInv, Served
  <2>4. PushLeft = {}
    BY <2>3 DEF PushLeft, Pushed, Chars
  <2>5. <<v, todo[v]>> \in PopLeft
    <3>1. v \notin Pushers /\ Calls(v) = PopCalls /\ pc[v] = "asleep"
      BY <1>5 DEF Calls
    <3>. QED  BY <1>4, <1>5, <3>1 DEF PopLeft, Taken
  <2>6. Cardinality(PushLeft) = 0 /\ Cardinality(PopLeft) # 0
    BY <2>4, <2>5, CallSets, FS_EmptySet
  <2>. QED  BY <2>2, <2>6 DEF AInv, Balance
<1>6. CASE v \in Pushers
  <2>1. Sleepers(Pushers) # {}
    BY <1>4, <1>6 DEF Sleepers
  <2>2. index = StackSize
    BY <1>1, <1>2, <1>4, <2>1 DEF AInv, Served
  <2>3. \A t \in Poppers : todo[t] = 0
    BY <1>3, <2>1 DEF AInv, Served
  <2>4. PopLeft = {}
    BY <2>3 DEF PopLeft, Taken
  <2>5. Cardinality(PopLeft) = 0
    BY <2>4, FS_EmptySet
  <2>. QED  BY <2>2, <2>5, CallSets DEF AInv, Balance
<1>. QED  BY <1>5, <1>6

\* One condition variable for both kinds of threads is enough if neither kind has
\* more threads than the stack has places: as long as a call is under way, some
\* thread is not asleep.
THEOREM NeverAllAsleep == Fits /\ Spec => []SomeoneAwake
<1>. SUFFICES ASSUME Fits PROVE Spec => []SomeoneAwake
  OBVIOUS
<1>1. (Init => AInv) /\ (CInv /\ AInv /\ [Next]_vars => AInv')
  BY InitAwake, NextAwake
<1>. QED  BY <1>1, NobodyStuck, CInvariance, PTL DEF Spec
---------------------------------------------------------------------------
(* The stack of stack_mutex_only.c: the same argument with the condition   *)
(* gone.  A thread that cannot go on leaves its section and takes with it  *)
(* nothing that it has found out about the index.                          *)


MySection == {"test", "store", "advance", "retreat", "load", "unlock", "retry"}

\* A thread inside its section holds the mutex.
MyExcluded == \A t \in My!Threads : my_pc[t] \in MySection => my_mutex = t

\* What the thread inside knows about the index and the buffer.
MyKnows ==
  \A t \in My!Threads :
    /\ my_pc[t] \in {"store", "advance"} => t \in Pushers /\ my_index < StackSize
    /\ my_pc[t] = "advance" => my_buffer[my_index] = My!Char(t)
    /\ my_pc[t] = "retreat" => t \in Poppers /\ my_index > 0
    /\ my_pc[t] = "load" => t \in Poppers /\ my_index < StackSize

\* A thread that is not done has a call left.
MyCallsLeft ==
  \A t \in My!Threads : /\ my_todo[t] \in 0 .. My!Calls(t)
                        /\ my_pc[t] # "done" => my_todo[t] > 0

\* The characters that push has already put on the stack.
MyPushed(t, n) == my_todo[t] < n \/ (n = my_todo[t] /\ my_pc[t] = "unlock")

MyAllPushed ==
  /\ \A i \in 0 .. My!Depth - 1 : /\ my_buffer[i] \in My!Chars
                                  /\ MyPushed(my_buffer[i][1], my_buffer[i][2])
  /\ \A c \in my_popped : c \in My!Chars /\ MyPushed(c[1], c[2])

MyCInv == My!TypeOK /\ MyExcluded /\ MyKnows /\ MyCallsLeft /\ MyAllPushed

\* What StackCond assumes, in the form the proofs use it.
LEMMA MyThreadFacts ==
  /\ My!Nobody \notin My!Threads
  /\ StackSize \in Nat \ {0} /\ PushCalls \in Nat /\ PopCalls \in Nat
  /\ \A t \in Pushers : t \in My!Threads /\ t \notin Poppers /\ My!Calls(t) = PushCalls
  /\ \A t \in My!Threads : My!Calls(t) \in Nat /\ (t \in Pushers \/ t \in Poppers)
BY StackCondAssumption DEF My!Threads, My!Calls, Threads, My!Nobody, Nobody

\* The depth is the index, or one more while a thread is about to load.
LEMMA MyDepthFacts ==
  ASSUME MyCInv
  PROVE  /\ \A t \in My!Threads : my_pc[t] = "load" => My!Depth = my_index + 1
         /\ (\A t \in My!Threads : my_pc[t] # "load") => My!Depth = my_index
         /\ My!Depth \in 0 .. StackSize
<1>1. \A t \in My!Threads : my_pc[t] = "load" => My!Depth = my_index + 1
  BY DEF My!Depth
<1>2. (\A t \in My!Threads : my_pc[t] # "load") => My!Depth = my_index
  BY DEF MyCInv, My!TypeOK, My!Depth
<1>3. My!Depth \in 0 .. StackSize
  <2>1. CASE \E t \in My!Threads : my_pc[t] = "load"
    BY <2>1, <1>1, MyThreadFacts DEF MyCInv, My!TypeOK, MyKnows
  <2>2. CASE \A t \in My!Threads : my_pc[t] # "load"
    BY <2>2, <1>2, MyThreadFacts DEF MyCInv, My!TypeOK
  <2>. QED  BY <2>1, <2>2
<1>. QED  BY <1>1, <1>2, <1>3

\* The threads start outside, with all their calls to make and an empty stack.
LEMMA MyInitCInv == My!Init => MyCInv
<1>. SUFFICES ASSUME My!Init PROVE MyCInv
  OBVIOUS
<1>. USE MyThreadFacts DEF My!Init
<1>1. My!TypeOK
  BY DEF My!TypeOK
<1>2. My!Depth = 0
  BY DEF My!Depth
<1>3. MyExcluded /\ MyKnows /\ MyCallsLeft
  BY DEF MyExcluded, MyKnows, MyCallsLeft, MySection
<1>4. MyAllPushed
  BY <1>2 DEF MyAllPushed
<1>. QED  BY <1>1, <1>3, <1>4 DEF MyCInv
---------------------------------------------------------------------------
(* The steps that leave the stack alone *)

\* A thread that moves between two labels of which neither is "load", and keeps
\* its calls, the index, the buffer and what has been popped, keeps the stack.
MyQuiet(t) ==
  /\ UNCHANGED <<my_buffer, my_index, my_todo, my_popped>>
  /\ \A u \in My!Threads : /\ my_pc'[u] = "load" <=> my_pc[u] = "load"
                           /\ my_pc[u] = "unlock" <=> my_pc'[u] = "unlock"

LEMMA MyQuietStack ==
  ASSUME MyCInv, NEW t \in My!Threads, MyQuiet(t)
  PROVE  MyAllPushed' /\ My!Depth' = My!Depth
<1>1. My!Depth' = My!Depth
  BY DEF MyQuiet, My!Depth
<1>2. \A u \in My!Threads, n \in Nat : MyPushed(u, n) => MyPushed(u, n)'
  BY DEF MyQuiet, MyPushed
<1>. QED
  BY <1>1, <1>2 DEF MyCInv, MyAllPushed, MyQuiet, My!Chars, My!Threads

\* Taking the mutex.
LEMMA MyLockCInv ==
  ASSUME MyCInv, NEW t \in My!Threads, My!Lock(t)
  PROVE  MyCInv' /\ UNCHANGED <<My!Depth, my_buffer, my_popped>>
<1>. USE DEF My!Lock, My!Goto
<1>1. MyQuiet(t)
  BY DEF MyCInv, My!TypeOK, MyQuiet
<1>2. My!TypeOK'
  BY DEF MyCInv, My!TypeOK
<1>3. MyExcluded' /\ MyKnows' /\ MyCallsLeft'
  BY MyThreadFacts DEF MyCInv, My!TypeOK, MyExcluded, MyKnows, MyCallsLeft, MySection, My!Char
<1>. QED  BY <1>1, <1>2, <1>3, MyQuietStack DEF MyCInv, MyQuiet

\* Looking at the index, and giving the mutex back when it is of no use.
LEMMA MyMoveCInv ==
  ASSUME MyCInv, NEW t \in My!Threads, My!Test(t) \/ My!Retry(t)
  PROVE  MyCInv' /\ UNCHANGED <<My!Depth, my_buffer, my_popped>>
<1>. USE MyThreadFacts
<1>1. MyQuiet(t) /\ My!TypeOK' /\ MyExcluded' /\ MyKnows' /\ MyCallsLeft'
  <2>1. CASE My!Test(t)
    BY <2>1 DEF My!Test, My!CanGoOn, My!Goto, MyCInv, My!TypeOK, MyQuiet, MyExcluded, MyKnows,
                MyCallsLeft, MySection, My!Char
  <2>2. CASE My!Retry(t)
    BY <2>2 DEF My!Retry, My!Goto, MyCInv, My!TypeOK, MyQuiet, MyExcluded, MyKnows, MyCallsLeft,
                MySection, My!Char
  <2>. QED  BY <2>1, <2>2
<1>. QED  BY <1>1, MyQuietStack DEF MyCInv, MyQuiet

\* The call returns: the character it has pushed stays pushed.
LEMMA MyUnlockCInv ==
  ASSUME MyCInv, NEW t \in My!Threads, My!Unlock(t)
  PROVE  MyCInv' /\ UNCHANGED <<My!Depth, my_buffer, my_popped>>
<1>. USE MyThreadFacts DEF My!Unlock, My!Goto
<1>1. /\ my_todo[t] \in Nat \ {0} /\ my_pc[t] = "unlock" /\ my_todo'[t] = my_todo[t] - 1
      /\ \A u \in My!Threads \ {t} : my_todo'[u] = my_todo[u] /\ my_pc'[u] = my_pc[u]
      /\ my_pc'[t] \in {"lock", "done"} /\ UNCHANGED <<my_buffer, my_index, my_popped>>
      /\ (my_pc'[t] = "lock" => my_todo[t] > 1)
  <2>1. my_todo[t] \in Nat \ {0}
    BY DEF MyCInv, My!TypeOK, MyCallsLeft
  <2>2. my_pc \in [My!Threads -> {"lock", "test", "store", "advance", "retreat", "load",
                                "unlock", "retry", "done"}] /\ my_todo \in [My!Threads -> Nat]
    BY DEF MyCInv, My!TypeOK
  <2>. QED  BY <2>1, <2>2
<1>2. UNCHANGED My!Depth
  BY <1>1 DEF My!Depth
<1>3. \A u \in My!Threads, n \in Nat : MyPushed(u, n) => MyPushed(u, n)'
  <2>. SUFFICES ASSUME NEW u \in My!Threads, NEW n \in Nat, MyPushed(u, n) PROVE MyPushed(u, n)'
    OBVIOUS
  <2>1. CASE u = t
    BY <1>1, <2>1 DEF MyPushed
  <2>2. CASE u # t
    BY <1>1, <2>2 DEF MyPushed
  <2>. QED  BY <2>1, <2>2
<1>4. MyAllPushed'
  BY <1>1, <1>2, <1>3 DEF MyCInv, MyAllPushed, My!Chars, My!Threads
<1>5. My!TypeOK' /\ MyExcluded'
  BY <1>1 DEF MyCInv, My!TypeOK, MyExcluded, MySection
<1>6. MyKnows' /\ MyCallsLeft'
  BY <1>1 DEF MyCInv, MyKnows, MyCallsLeft, My!Char, My!TypeOK
<1>. QED  BY <1>1, <1>2, <1>4, <1>5, <1>6 DEF MyCInv
---------------------------------------------------------------------------
(* The steps that change the stack *)

\* The thread inside its section is the only one there.
LEMMA MyAloneInside ==
  ASSUME MyCInv, NEW t \in My!Threads, my_pc[t] \in MySection, NEW u \in My!Threads, u # t
  PROVE  my_pc[u] \notin MySection
BY DEF MyCInv, MyExcluded

\* The character is written above the stack, where nobody sees it yet.
LEMMA MyStoreCInv ==
  ASSUME MyCInv, NEW t \in My!Threads, My!Store(t)
  PROVE  /\ MyCInv' /\ UNCHANGED <<My!Depth, my_popped>>
         /\ \A i \in 0 .. My!Depth - 1 : my_buffer'[i] = my_buffer[i]
<1>. USE MyThreadFacts DEF My!Store, My!Goto
<1>1. /\ t \in Pushers /\ my_index \in 0 .. StackSize - 1 /\ my_pc[t] = "store"
      /\ my_pc'[t] = "advance" /\ \A u \in My!Threads \ {t} : my_pc'[u] = my_pc[u]
      /\ \A i \in 0 .. StackSize - 1 : i # my_index => my_buffer'[i] = my_buffer[i]
      /\ my_buffer'[my_index] = My!Char(t) /\ My!Char(t) \in My!Chars
      /\ UNCHANGED <<my_index, my_mutex, my_todo, my_popped>>
  <2>1. t \in Pushers /\ my_index \in 0 .. StackSize - 1 /\ my_pc[t] = "store"
    BY DEF MyCInv, My!TypeOK, MyKnows
  <2>2. My!Char(t) \in My!Chars
    BY <2>1 DEF MyCInv, My!TypeOK, MyCallsLeft, My!Char, My!Chars, My!Calls
  <2>3. my_pc'[t] = "advance" /\ \A u \in My!Threads \ {t} : my_pc'[u] = my_pc[u]
    BY DEF MyCInv, My!TypeOK
  <2>4. /\ \A i \in 0 .. StackSize - 1 : i # my_index => my_buffer'[i] = my_buffer[i]
        /\ my_buffer'[my_index] = My!Char(t)
    BY <2>1 DEF MyCInv, My!TypeOK
  <2>. QED  BY <2>1, <2>2, <2>3, <2>4
<1>2. \A u \in My!Threads \ {t} : my_pc[u] \notin MySection
  BY <1>1, MyAloneInside DEF MySection
<1>3. My!Depth = my_index /\ My!Depth' = my_index
  BY <1>1, <1>2 DEF My!Depth, MySection
<1>4. \A i \in 0 .. My!Depth - 1 : my_buffer'[i] = my_buffer[i]
  BY <1>1, <1>3
<1>5. \A u \in My!Threads, n \in Nat : MyPushed(u, n) => MyPushed(u, n)'
  BY <1>1 DEF MyPushed
<1>6. MyAllPushed'
  BY <1>1, <1>3, <1>4, <1>5 DEF MyCInv, MyAllPushed, My!Chars, My!Threads
<1>7. My!TypeOK' /\ MyExcluded' /\ MyCallsLeft'
  BY <1>1 DEF MyCInv, My!TypeOK, MyExcluded, MyCallsLeft, MySection
<1>8. MyKnows'
  BY <1>1, <1>2 DEF MyKnows, My!Char, MySection
<1>. QED  BY <1>1, <1>3, <1>4, <1>6, <1>7, <1>8 DEF MyCInv

\* The index moves over the character that has been written.
LEMMA MyAdvanceCInv ==
  ASSUME MyCInv, NEW t \in My!Threads, My!Advance(t)
  PROVE  /\ MyCInv' /\ UNCHANGED <<my_buffer, my_popped>>
         /\ My!Depth = my_index /\ my_index < StackSize /\ My!Depth' = my_index + 1
         /\ my_buffer[my_index] = My!Char(t) /\ My!Char(t) \in My!Chars /\ ~MyPushed(t, my_todo[t])
<1>. USE MyThreadFacts DEF My!Advance, My!Goto
<1>1. /\ t \in Pushers /\ my_index \in 0 .. StackSize - 1 /\ my_pc[t] = "advance"
      /\ my_pc'[t] = "unlock" /\ \A u \in My!Threads \ {t} : my_pc'[u] = my_pc[u]
      /\ my_index' = my_index + 1 /\ my_buffer[my_index] = My!Char(t) /\ My!Char(t) \in My!Chars
      /\ UNCHANGED <<my_buffer, my_mutex, my_todo, my_popped>>
  BY DEF MyCInv, My!TypeOK, MyKnows, MyCallsLeft, My!Char, My!Chars, My!Calls
<1>2. \A u \in My!Threads \ {t} : my_pc[u] \notin MySection
  BY <1>1, MyAloneInside DEF MySection
<1>3. My!Depth = my_index /\ My!Depth' = my_index + 1
  BY <1>1, <1>2 DEF My!Depth, MySection
<1>4. \A u \in My!Threads, n \in Nat : MyPushed(u, n) => MyPushed(u, n)'
  BY <1>1 DEF MyPushed
<1>5. MyPushed(t, my_todo[t])' /\ ~MyPushed(t, my_todo[t])
  BY <1>1 DEF MyPushed, MyCInv, My!TypeOK
<1>6. MyAllPushed'
  <2>1. ASSUME NEW i \in 0 .. My!Depth' - 1
        PROVE  my_buffer'[i] \in My!Chars /\ MyPushed(my_buffer[i][1], my_buffer[i][2])'
    <3>1. CASE i = my_index
      BY <1>1, <1>5, <3>1 DEF My!Char
    <3>2. CASE i \in 0 .. My!Depth - 1
      <4>1. my_buffer[i] \in My!Chars /\ MyPushed(my_buffer[i][1], my_buffer[i][2])
        BY <3>2 DEF MyCInv, MyAllPushed
      <4>. QED  BY <1>1, <1>4, <4>1 DEF My!Chars, My!Threads
    <3>. QED  BY <1>1, <1>3, <2>1, <3>1, <3>2
  <2>2. ASSUME NEW c \in my_popped PROVE c \in My!Chars /\ MyPushed(c[1], c[2])'
    BY <1>4, <2>2 DEF MyCInv, MyAllPushed, My!Chars, My!Threads
  <2>. QED  BY <1>1, <2>1, <2>2 DEF MyAllPushed
<1>7. My!TypeOK' /\ MyExcluded' /\ MyCallsLeft'
  BY <1>1 DEF MyCInv, My!TypeOK, MyExcluded, MyCallsLeft, MySection
<1>8. MyKnows'
  BY <1>1, <1>2 DEF MyKnows, My!Char, MySection
<1>. QED  BY <1>1, <1>3, <1>5, <1>6, <1>7, <1>8 DEF MyCInv

\* The index moves below the character that is about to be loaded.
LEMMA MyRetreatCInv ==
  ASSUME MyCInv, NEW t \in My!Threads, My!Retreat(t)
  PROVE  MyCInv' /\ UNCHANGED <<My!Depth, my_buffer, my_popped>>
<1>. USE MyThreadFacts DEF My!Retreat, My!Goto
<1>1. /\ t \in Poppers /\ my_index \in 1 .. StackSize /\ my_pc[t] = "retreat"
      /\ my_pc'[t] = "load" /\ \A u \in My!Threads \ {t} : my_pc'[u] = my_pc[u]
      /\ my_index' = my_index - 1
      /\ UNCHANGED <<my_buffer, my_mutex, my_todo, my_popped>>
  BY DEF MyCInv, My!TypeOK, MyKnows
<1>2. \A u \in My!Threads \ {t} : my_pc[u] \notin MySection
  BY <1>1, MyAloneInside DEF MySection
<1>3. My!Depth = my_index /\ My!Depth' = my_index
  BY <1>1, <1>2 DEF My!Depth, MySection
<1>4. \A u \in My!Threads, n \in Nat : MyPushed(u, n) => MyPushed(u, n)'
  BY <1>1 DEF MyPushed
<1>5. MyAllPushed'
  BY <1>1, <1>3, <1>4 DEF MyCInv, MyAllPushed, My!Chars, My!Threads
<1>7. My!TypeOK' /\ MyExcluded' /\ MyCallsLeft'
  BY <1>1 DEF MyCInv, My!TypeOK, MyExcluded, MyCallsLeft, MySection
<1>8. MyKnows'
  BY <1>1, <1>2 DEF MyKnows, My!Char, MySection
<1>. QED  BY <1>1, <1>3, <1>5, <1>7, <1>8 DEF MyCInv

\* The top of the stack is what pop returns.
LEMMA MyLoadCInv ==
  ASSUME MyCInv, NEW t \in My!Threads, My!Load(t)
  PROVE  /\ MyCInv' /\ UNCHANGED my_buffer
         /\ My!Depth = my_index + 1 /\ My!Depth' = my_index
         /\ my_popped' = my_popped \union {my_buffer[my_index]}
<1>. USE MyThreadFacts DEF My!Load, My!Goto
<1>1. /\ t \in Poppers /\ my_index \in 0 .. StackSize - 1 /\ my_pc[t] = "load"
      /\ my_pc'[t] = "unlock" /\ \A u \in My!Threads \ {t} : my_pc'[u] = my_pc[u]
      /\ my_popped' = my_popped \union {my_buffer[my_index]}
      /\ UNCHANGED <<my_buffer, my_index, my_mutex, my_todo>>
  BY DEF MyCInv, My!TypeOK, MyKnows
<1>2. \A u \in My!Threads \ {t} : my_pc[u] \notin MySection
  BY <1>1, MyAloneInside DEF MySection
<1>3. My!Depth = my_index + 1 /\ My!Depth' = my_index
  BY <1>1, <1>2 DEF My!Depth, MySection
<1>4. \A u \in My!Threads, n \in Nat : MyPushed(u, n) => MyPushed(u, n)'
  BY <1>1 DEF MyPushed
<1>5. my_buffer[my_index] \in My!Chars /\ MyPushed(my_buffer[my_index][1], my_buffer[my_index][2])
  BY <1>1, <1>3 DEF MyCInv, MyAllPushed
<1>6. MyAllPushed'
  <2>1. ASSUME NEW i \in 0 .. My!Depth' - 1
        PROVE  my_buffer'[i] \in My!Chars /\ MyPushed(my_buffer[i][1], my_buffer[i][2])'
    <3>1. my_buffer[i] \in My!Chars /\ MyPushed(my_buffer[i][1], my_buffer[i][2])
      BY <1>1, <1>3, <2>1 DEF MyCInv, MyAllPushed
    <3>. QED  BY <1>1, <1>4, <3>1 DEF My!Chars, My!Threads
  <2>2. ASSUME NEW c \in my_popped' PROVE c \in My!Chars /\ MyPushed(c[1], c[2])'
    <3>1. c \in My!Chars /\ MyPushed(c[1], c[2])
      BY <1>1, <1>5, <2>2 DEF MyCInv, MyAllPushed
    <3>. QED  BY <1>4, <3>1 DEF My!Chars, My!Threads
  <2>. QED  BY <1>1, <2>1, <2>2 DEF MyAllPushed
<1>7. My!TypeOK' /\ MyExcluded' /\ MyCallsLeft'
  BY <1>1, <1>5 DEF MyCInv, My!TypeOK, MyExcluded, MyCallsLeft, MySection
<1>8. MyKnows'
  BY <1>1, <1>2 DEF MyKnows, My!Char, MySection
<1>. QED  BY <1>1, <1>3, <1>6, <1>7, <1>8 DEF MyCInv

\* Every step keeps the inductive invariant.
LEMMA MyNextCInv == MyCInv /\ [My!Next]_(My!vars) => MyCInv'
<1>. SUFFICES ASSUME MyCInv, [My!Next]_(My!vars) PROVE MyCInv'
  OBVIOUS
<1>1. CASE My!Next
  <2>. PICK t \in My!Threads : My!Lock(t) \/ My!Inside(t)
    BY <1>1 DEF My!Next
  <2>. QED
    BY MyLockCInv, MyMoveCInv, MyUnlockCInv, MyStoreCInv, MyAdvanceCInv, MyRetreatCInv, MyLoadCInv
       DEF My!Inside
<1>2. CASE UNCHANGED My!vars
  BY <1>2 DEF My!vars, MyCInv, My!TypeOK, MyExcluded, MyKnows, MyCallsLeft, MyAllPushed, My!Depth,
              MyPushed, My!Char
<1>. QED  BY <1>1, <1>2

\* CInv is an invariant of the stack with the mutex only.
THEOREM MyCInvariance == My!Spec => []MyCInv
<1>1. My!Init => MyCInv
  BY MyInitCInv
<1>2. MyCInv /\ [My!Next]_(My!vars) => MyCInv'
  BY MyNextCInv
<1>. QED  BY <1>1, <1>2, PTL DEF My!Spec

\* Type correctness, for any threads and any size: however often a thread has
\* tried in vain, it never uses an index outside the buffer.
THEOREM StackMutexTypeCorrect == My!Spec => []My!TypeOK
<1>1. MyCInv => My!TypeOK
  BY DEF MyCInv
<1>. QED  BY <1>1, MyCInvariance, PTL
---------------------------------------------------------------------------
(* my_push and my_pop implement BoundedStack *)

MyContents == [i \in 1 .. My!Depth |-> my_buffer[i - 1]]

\* The contents are a sequence of characters as long as the stack is deep.
LEMMA MyContentsSeq ==
  ASSUME MyCInv
  PROVE  /\ MyContents \in Seq(My!Chars) /\ Len(MyContents) = My!Depth
         /\ \A i \in 1 .. My!Depth : MyContents[i] = my_buffer[i - 1]
         /\ DOMAIN MyContents = 1 .. My!Depth
<1>1. My!Depth \in Nat
  BY MyDepthFacts, MyThreadFacts
<1>2. \A i \in 0 .. My!Depth - 1 : my_buffer[i] \in My!Chars
  BY DEF MyCInv, MyAllPushed
<1>. QED  BY <1>1, <1>2, PrefixSeq DEF MyContents

\* A step that keeps the depth, and the buffer below it, keeps the contents.
LEMMA MySameContents ==
  ASSUME MyCInv, My!Depth' = My!Depth, \A i \in 0 .. My!Depth - 1 : my_buffer'[i] = my_buffer[i]
  PROVE  MyContents' = MyContents
<1>1. My!Depth \in Nat
  BY MyDepthFacts, MyThreadFacts
<1>2. \A i \in 1 .. My!Depth : my_buffer'[i - 1] = my_buffer[i - 1]
  BY <1>1
<1>. QED  BY <1>2 DEF MyContents

\* Advance is where a character gets on the stack.
LEMMA MyAdvancePushes ==
  ASSUME MyCInv, NEW t \in My!Threads, My!Advance(t)
  PROVE  My!Abstract!Push(My!Char(t)) /\ My!Char(t) \in My!Chars
<1>1. /\ MyCInv' /\ UNCHANGED <<my_buffer, my_popped>>
      /\ My!Depth = my_index /\ my_index < StackSize /\ My!Depth' = my_index + 1
      /\ my_buffer[my_index] = My!Char(t) /\ My!Char(t) \in My!Chars /\ ~MyPushed(t, my_todo[t])
  BY MyAdvanceCInv
<1>2. my_index \in Nat /\ My!Char(t)[1] = t /\ My!Char(t)[2] = my_todo[t]
  BY DEF MyCInv, My!TypeOK, My!Char
<1>3. Len(MyContents) < StackSize
  BY <1>1, MyContentsSeq
<1>4. My!Char(t) \notin my_popped
  BY <1>1, <1>2 DEF MyCInv, MyAllPushed
<1>5. My!Char(t) \notin Range(MyContents)
  <2>1. \A i \in 1 .. My!Depth : my_buffer[i - 1] # My!Char(t)
    BY <1>1, <1>2 DEF MyCInv, MyAllPushed
  <2>. QED  BY <2>1, MyContentsSeq DEF Range
<1>6. MyContents' = Append(MyContents, My!Char(t))
  <2>1. /\ MyContents' \in Seq(My!Chars) /\ Len(MyContents') = my_index + 1
        /\ \A i \in 1 .. my_index + 1 : MyContents'[i] = my_buffer[i - 1]
    <3>1. \A i \in 0 .. my_index + 1 - 1 : my_buffer[i] \in My!Chars
      BY <1>1, <1>2 DEF MyCInv, MyAllPushed
    <3>2. MyContents' = [i \in 1 .. my_index + 1 |-> my_buffer[i - 1]]
      BY <1>1 DEF MyContents
    <3>. QED  BY <1>2, <3>1, <3>2, PrefixSeq
  <2>2. /\ Append(MyContents, My!Char(t)) \in Seq(My!Chars)
        /\ Len(Append(MyContents, My!Char(t))) = my_index + 1
        /\ \A i \in 1 .. my_index : Append(MyContents, My!Char(t))[i] = my_buffer[i - 1]
        /\ Append(MyContents, My!Char(t))[my_index + 1] = My!Char(t)
    BY <1>1, <1>2, MyContentsSeq
  <2>. QED  BY <1>1, <1>2, <2>1, <2>2
<1>. QED
  BY <1>1, <1>3, <1>4, <1>5, <1>6 DEF My!Abstract!Push, MyContents, Range, My!Abstract!Range

\* Load is where a character leaves it.
LEMMA MyLoadPops ==
  ASSUME MyCInv, NEW t \in My!Threads, My!Load(t)
  PROVE  My!Abstract!Pop
<1>1. /\ MyCInv' /\ UNCHANGED my_buffer
      /\ My!Depth = my_index + 1 /\ My!Depth' = my_index
      /\ my_popped' = my_popped \union {my_buffer[my_index]}
  BY MyLoadCInv
<1>2. my_index \in Nat
  BY DEF MyCInv, My!TypeOK
<1>3. MyContents # <<>> /\ MyContents[Len(MyContents)] = my_buffer[my_index]
  BY <1>1, <1>2, MyContentsSeq
<1>4. MyContents' = SubSeq(MyContents, 1, Len(MyContents) - 1)
  <2>1. /\ MyContents' \in Seq(My!Chars) /\ Len(MyContents') = my_index
        /\ \A i \in 1 .. my_index : MyContents'[i] = my_buffer[i - 1]
    <3>1. \A i \in 0 .. my_index - 1 : my_buffer[i] \in My!Chars
      BY <1>1, <1>2 DEF MyCInv, MyAllPushed
    <3>2. MyContents' = [i \in 1 .. my_index |-> my_buffer[i - 1]]
      BY <1>1 DEF MyContents
    <3>. QED  BY <1>2, <3>1, <3>2, PrefixSeq
  <2>2. /\ SubSeq(MyContents, 1, Len(MyContents) - 1) \in Seq(My!Chars)
        /\ Len(SubSeq(MyContents, 1, Len(MyContents) - 1)) = my_index
        /\ \A i \in 1 .. my_index : SubSeq(MyContents, 1, Len(MyContents) - 1)[i] = my_buffer[i - 1]
    BY <1>1, <1>2, MyContentsSeq
  <2>. QED  BY <2>1, <2>2, SameSeq
<1>. QED  BY <1>1, <1>3, <1>4 DEF My!Abstract!Pop, MyContents

\* Every step is a push, a pop or a stutter of the abstract stack.
LEMMA MyStepsMap == MyCInv /\ [My!Next]_(My!vars) => [My!Abstract!Next]_(My!Abstract!vars)
<1>. SUFFICES ASSUME MyCInv, [My!Next]_(My!vars) PROVE [My!Abstract!Next]_(My!Abstract!vars)
  OBVIOUS
<1>1. ASSUME MyContents' = MyContents, my_popped' = my_popped PROVE UNCHANGED My!Abstract!vars
  BY <1>1 DEF MyContents, My!Abstract!vars
<1>2. CASE My!Next
  <2>. PICK t \in My!Threads : My!Lock(t) \/ My!Inside(t)
    BY <1>2 DEF My!Next
  <2>1. CASE My!Advance(t)
    <3>1. My!Abstract!Push(My!Char(t)) /\ My!Char(t) \in My!Chars
      BY <2>1, MyAdvancePushes
    <3>2. \E i \in My!Chars : My!Abstract!Push(i)
      BY <3>1 DEF My!Abstract!Push
    <3>. QED  BY <3>2 DEF My!Abstract!Next
  <2>2. CASE My!Load(t)
    BY <2>2, MyLoadPops DEF My!Abstract!Next
  <2>3. CASE My!Store(t)
    BY <2>3, <1>1, MyStoreCInv, MySameContents
  <2>4. CASE My!Lock(t) \/ My!Retreat(t) \/ My!Unlock(t) \/ My!Test(t) \/ My!Retry(t)
    <3>1. UNCHANGED <<My!Depth, my_buffer, my_popped>>
      BY <2>4, MyLockCInv, MyRetreatCInv, MyUnlockCInv, MyMoveCInv
    <3>. QED  BY <3>1, <1>1, MySameContents
  <2>. QED  BY <2>1, <2>2, <2>3, <2>4 DEF My!Inside
<1>3. CASE UNCHANGED My!vars
  BY <1>1, <1>3 DEF My!vars, MyContents, My!Depth
<1>. QED  BY <1>2, <1>3

\* my_push and my_pop implement the same bounded stack as push and pop, for any
\* threads that call them and any size, however long they are kept waiting.
THEOREM MutexImplementsStack == My!Spec => MyImplementsStack
<1>1. My!Init => My!Abstract!Init
  <2>. SUFFICES ASSUME My!Init PROVE My!Abstract!Init
    OBVIOUS
  <2>1. My!Depth = 0
    BY DEF My!Init, My!Depth
  <2>2. MyCInv
    BY MyInitCInv
  <2>3. MyContents = <<>>
    BY <2>1, <2>2, MyContentsSeq
  <2>. QED  BY <2>3 DEF My!Init, My!Abstract!Init, MyContents
<1>2. MyCInv /\ [My!Next]_(My!vars) => [My!Abstract!Next]_(My!Abstract!vars)
  BY MyStepsMap
<1>. QED  BY <1>1, <1>2, MyCInvariance, PTL
   DEF My!Spec, MyImplementsStack, My!ImplementsStack, My!Abstract!Spec
---------------------------------------------------------------------------
(* The program of main_test_stack.c: what is proved of each stack holds of it *)

\* A step of the program is a step of each stack, or leaves it alone.
LEMMA MainSteps ==
  [MainNext]_<<vars, my_vars>> => [Next]_vars /\ [My!Next]_(My!vars)
BY DEF MainNext, CondEnter, CondInside, CondWake, MyLock, MyInside, Next, My!Next, My!vars, my_vars,
       Threads, My!Threads

LEMMA MainStacks == MainSpec => Spec /\ My!Spec
<1>1. MainInit => Init /\ My!Init
  BY DEF MainInit
<1>2. [MainNext]_<<vars, my_vars>> => [Next]_vars /\ [My!Next]_(My!vars)
  BY MainSteps
<1>. QED  BY <1>1, <1>2, PTL DEF MainSpec, Spec, My!Spec

\* Both stacks of the program implement the bounded stack, for any threads, calls and
\* size: every character comes back once, the last one first.
THEOREM ProgramImplementsStacks == MainSpec => ImplementsStack /\ MyImplementsStack
BY MainStacks, MutexImplementsStack, ImplementsBoundedStack, PTL

\* And where they fit, the threads of the first never all sleep.
THEOREM ProgramNeverAllAsleep ==
  ASSUME Fits
  PROVE  MainSpec => [](TypeOK /\ SomeoneAwake)
BY MainStacks, StackCondTypeCorrect, NeverAllAsleep, PTL
===========================================================================
