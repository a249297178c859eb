---------------------------- MODULE Supervisor ----------------------------
(***************************************************************************)
(* hw12/program.c: the program that creates the shared memory, forks the   *)
(* broker, the workers and the producer in that order, waits, and brings   *)
(* everything down when the broker ends or when SIGINT arrives.            *)
(*                                                                         *)
(* fork and the assignment of its result are two steps: between them the   *)
(* child runs already and terminate_children does not know it.  The signal *)
(* handler runs between any two steps of main.  Children may end at any    *)
(* time by themselves; one that has been sent SIGTERM ends.                *)
(***************************************************************************)
EXTENDS Integers, FiniteSets

CONSTANTS WorkerCount,     \* argv[3]
          MaxInterrupts    \* bound: how many SIGINT arrive

ASSUME SupervisorAssumption == WorkerCount \in Nat /\ MaxInterrupts \in Nat

VARIABLES
  pc,                   \* "fork", "record", "test", "waitpid", "terminate",
                        \* "reap", "unlink", "return" or "failed"
  next,                 \* the child that main is about to fork, or has forked
  child,                \* each child: "none", "running", "zombie" or "reaped"
  pid,                  \* the children whose pid main has recorded
  shutdown_requested,
  termed,               \* the children that have been sent SIGTERM
  shm,                  \* "linked" or "unlinked"
  interrupts,           \* how many SIGINT have arrived
  cutShort              \* history: SIGINT interrupted the last waitpid loop

vars == <<pc, next, child, pid, shutdown_requested, termed, shm, interrupts, cutShort>>

\* In the order of the forks: the broker, the workers, the producer
BrokerChild   == 0
ProducerChild == WorkerCount + 1
Children      == BrokerChild .. ProducerChild

Alive(k)    == child[k] = "running"
Unreaped(k) == child[k] \in {"running", "zombie"}

Init ==
  /\ pc = "fork" /\ next = BrokerChild
  /\ child = [k \in Children |-> "none"]
  /\ pid = {}
  /\ shutdown_requested = FALSE
  /\ termed = {}
  /\ shm = "linked"
  /\ interrupts = 0
  /\ cutShort = FALSE
---------------------------------------------------------------------------
(* main *)

Fork ==
  /\ pc = "fork"
  /\ child' = [child EXCEPT ![next] = "running"]
  /\ pc' = "record"
  /\ UNCHANGED <<next, pid, shutdown_requested, termed, shm, interrupts, cutShort>>

\* perror and exit(1): the children forked so far and the segment stay behind.
ForkFails ==
  /\ pc = "fork"
  /\ pc' = "failed"
  /\ UNCHANGED <<next, child, pid, shutdown_requested, termed, shm, interrupts, cutShort>>

\* Mutant: the loop forks one child too many.
RecordOneMore ==
  /\ pc = "record"
  /\ pid' = pid \union {next}
  /\ next' = next + 1
  /\ pc' = IF next < ProducerChild THEN "fork" ELSE "test"
  /\ UNCHANGED <<child, shutdown_requested, termed, shm, interrupts, cutShort>>

Record ==
  /\ pc = "record"
  /\ pid' = pid \union {next}
  /\ \/ next < ProducerChild /\ next' = next + 1 /\ pc' = "fork"
     \/ next = ProducerChild /\ next' = next /\ pc' = "test"
  /\ UNCHANGED <<child, shutdown_requested, termed, shm, interrupts, cutShort>>

\* while(!shutdown_requested)
Test ==
  /\ pc = "test"
  /\ pc' = IF shutdown_requested THEN "terminate" ELSE "waitpid"
  /\ UNCHANGED <<next, child, pid, shutdown_requested, termed, shm, interrupts, cutShort>>

Reap(k) == child' = [child EXCEPT ![k] = "reaped"]

\* Mutant: the end of the program is taken from the producer, which has sent all.
WaitForProducer ==
  /\ pc = "waitpid"
  /\ \E k \in Children :
       /\ child[k] = "zombie"
       /\ Reap(k)
       /\ pc' = IF k = ProducerChild THEN "terminate" ELSE "test"
  /\ UNCHANGED <<next, pid, shutdown_requested, termed, shm, interrupts, cutShort>>

\* waitpid(-1, ...) blocks until some child has ended.  The branch for ECHILD, no
\* child left, is not modelled: BrokerToWaitFor says that it is never taken.
WaitAny ==
  /\ pc = "waitpid"
  /\ \E k \in Children :
       /\ child[k] = "zombie"
       /\ Reap(k)
       /\ pc' = IF k = BrokerChild THEN "terminate" ELSE "test"
  /\ UNCHANGED <<next, pid, shutdown_requested, termed, shm, interrupts, cutShort>>

\* Mutant: the producer is forgotten.
TerminateAllButProducer ==
  termed' = termed \union {k \in pid \ {ProducerChild} : Alive(k)}

\* kill(pid, SIGTERM) for every pid recorded, whether its process still runs,
\* has ended, or has been reaped.
TerminateChildren == termed' = termed \union {k \in pid : Alive(k)}

\* Mutant: main relies on the handler having terminated the children.
TerminateOnlyOnSigint ==
  /\ pc = "terminate"
  /\ pc' = "reap"
  /\ UNCHANGED <<next, child, pid, shutdown_requested, termed, shm, interrupts, cutShort>>

Terminate ==
  /\ pc = "terminate"
  /\ TerminateChildren
  /\ pc' = "reap"
  /\ UNCHANGED <<next, child, pid, shutdown_requested, shm, interrupts, cutShort>>

\* Mutant: an if in place of the while.
ReapOnce ==
  /\ pc = "reap"
  /\ pc' = "unlink"
  /\ \/ \E k \in Children : child[k] = "zombie" /\ Reap(k)
     \/ (\A k \in Children : ~Unreaped(k)) /\ UNCHANGED child
  /\ UNCHANGED <<next, pid, shutdown_requested, termed, shm, interrupts, cutShort>>

\* while(waitpid(-1, NULL, 0) > 0)
ReapAny ==
  /\ pc = "reap"
  /\ \/ \E k \in Children : child[k] = "zombie" /\ Reap(k)
        /\ UNCHANGED pc
     \/ /\ \A k \in Children : ~Unreaped(k)
        /\ pc' = "unlink"
        /\ UNCHANGED child
  /\ UNCHANGED <<next, pid, shutdown_requested, termed, shm, interrupts, cutShort>>

Unlink ==
  /\ pc = "unlink"
  /\ shm' = "unlinked"
  /\ pc' = "return"
  /\ UNCHANGED <<next, child, pid, shutdown_requested, termed, interrupts, cutShort>>
---------------------------------------------------------------------------
(* The signal handler and the children *)

\* handle_sigint.  There is no SA_RESTART: a waitpid that is blocked returns
\* EINTR, which the first loop retries and which ends the last loop.  The handler
\* may as well run just before waitpid is called, and then it interrupts nothing.
Blocked == /\ \E k \in Children : Unreaped(k)
           /\ \A k \in Children : child[k] # "zombie"

HandleSigint ==
  /\ pc \notin {"return", "failed"}
  /\ interrupts < MaxInterrupts
  /\ interrupts' = interrupts + 1
  /\ shutdown_requested' = TRUE
  /\ TerminateChildren
  /\ \/ pc = "waitpid" /\ Blocked /\ pc' = "test" /\ UNCHANGED cutShort
     \/ pc = "reap" /\ Blocked /\ pc' = "unlink" /\ cutShort' = TRUE
     \/ UNCHANGED <<pc, cutShort>>
  /\ UNCHANGED <<next, child, pid, shm>>

\* A child ends: it is done, its exec has failed, or SIGTERM has reached it.
ChildEnds(k) ==
  /\ Alive(k)
  /\ child' = [child EXCEPT ![k] = "zombie"]
  /\ UNCHANGED <<pc, next, pid, shutdown_requested, termed, shm, interrupts, cutShort>>
---------------------------------------------------------------------------
Main == \/ Fork \/ ForkFails \/ Record \/ Test \/ WaitAny
        \/ Terminate \/ ReapAny \/ Unlink

Next == Main \/ HandleSigint \/ \E k \in Children : ChildEnds(k)

Spec == Init /\ [][Next]_vars

\* main runs, and SIGTERM, which no child handles, ends a child.
FairSpec == /\ Spec
            /\ WF_vars(Main)
            /\ \A k \in Children : WF_vars(k \in termed /\ ChildEnds(k))
---------------------------------------------------------------------------
(* Properties *)

\* The types of the variables; next is always a child of the program.
TypeOK ==
  /\ pc \in {"fork", "record", "test", "waitpid", "terminate",
             "reap", "unlink", "return", "failed"}
  /\ next \in Children
  /\ child \in [Children -> {"none", "running", "zombie", "reaped"}]
  /\ pid \subseteq Children
  /\ shutdown_requested \in BOOLEAN
  /\ termed \subseteq Children
  /\ shm \in {"linked", "unlinked"}
  /\ interrupts \in Nat
  /\ cutShort \in BOOLEAN

\* Once the segment is unlinked, no child is left that still runs without having
\* been sent SIGTERM: however SIGINT falls between a fork and the assignment of
\* its pid, between the loop test and waitpid, or into the last loop, no broker,
\* worker or producer survives the program unnoticed.
NoSurvivor ==
  shm = "unlinked" => \A k \in Children : Alive(k) => k \in termed

\* When the program returns, it leaves no zombie and no running child, unless a
\* SIGINT cut the last waitpid loop short.
ReapsAll ==
  pc = "return" /\ ~cutShort => \A k \in Children : child[k] = "reaped"

\* The first waitpid loop always has a child to wait for: it has not reaped the
\* broker, whatever children it has reaped already and whatever SIGINT did.
BrokerToWaitFor == pc \in {"test", "waitpid"} => Unreaped(BrokerChild)

\* When the broker has ended, or a SIGINT has arrived, all of the program ends:
\* main returns and no child runs, unless a fork has failed.
EverythingEnds ==
  (child[BrokerChild] \in {"zombie", "reaped"} \/ shutdown_requested)
    ~> (pc = "failed" \/ (pc = "return" /\ \A k \in Children : ~Alive(k)))
============================================================================
