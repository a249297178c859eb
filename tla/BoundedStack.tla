--------------------------- MODULE BoundedStack ---------------------------
(***************************************************************************)
(* What the stacks of test2 promise, with no thread, lock or condition in  *)
(* sight: every item is pushed at most once, the last one pushed is the    *)
(* first one popped, and no more than Size items are on the stack.         *)
(***************************************************************************)
EXTENDS Integers, Sequences, Functions

CONSTANTS Items, Size

VARIABLES stack,   \* the items on the stack, the top last
          popped   \* the items that have been handed out

vars == <<stack, popped>>

Init == stack = <<>> /\ popped = {}

Push(i) == /\ Len(stack) < Size
           /\ i \notin popped \union Range(stack)
           /\ stack' = Append(stack, i)
           /\ UNCHANGED popped

Pop == /\ stack # <<>>
       /\ popped' = popped \union {stack[Len(stack)]}
       /\ stack' = SubSeq(stack, 1, Len(stack) - 1)

Next == (\E i \in Items : Push(i)) \/ Pop

Spec == Init /\ [][Next]_vars
===========================================================================
