----------------------------- MODULE SeqNumbers -----------------------------
(***************************************************************************)
(* What the servers of hw10 promise: the allocation of unique sequential   *)
(* numbers.  A server gives each client the next SeqLen[c] numbers.  Its   *)
(* counter is in its memory: a server that is started again begins with 0. *)
(***************************************************************************)
EXTENDS Integers

CONSTANTS Clients,
          SeqLen     \* the numbers that each client asks for

VARIABLES
  run,       \* how often the server has been started
  next,      \* the next number
  given      \* each client: the run and the start of the sequence that it has,
             \* or Nothing

vars == <<run, next, given>>

Nothing  == [run |-> 0, start |-> 0]
Sequence == [run : Nat, start : Nat]

Init == run = 0 /\ next = 0 /\ given = [c \in Clients |-> Nothing]

\* The server is started.
Start == run' = run + 1 /\ next' = 0 /\ UNCHANGED given

\* A client is given its sequence.
Give(c) ==
  /\ run > 0 /\ given[c] = Nothing
  /\ given' = [given EXCEPT ![c] = [run |-> run, start |-> next]]
  /\ next' = next + SeqLen[c]
  /\ UNCHANGED run

\* A client that has gone costs its numbers all the same.
Waste(c) == run > 0 /\ next' = next + SeqLen[c] /\ UNCHANGED <<run, given>>

Next == Start \/ \E c \in Clients : Give(c) \/ Waste(c)

Spec == Init /\ [][Next]_vars
---------------------------------------------------------------------------
Has(c) == given[c] # Nothing
Numbers(c) == given[c].start .. given[c].start + SeqLen[c] - 1

\* No number of one run of the server is given to two clients.
Unique ==
  \A c, d \in Clients :
    c # d /\ Has(c) /\ Has(d) /\ given[c].run = given[d].run
      => Numbers(c) \intersect Numbers(d) = {}
===========================================================================
