-------------------------- MODULE SupervisorProofs --------------------------
(***************************************************************************)
(* Theorems about Supervisor, for every number of workers and of SIGINT.   *)
(* The inductive invariant SInv says which pids main knows at each point   *)
(* and which children are left to reap; all three properties follow.       *)
(***************************************************************************)
EXTENDS Supervisor, TLAPS

\* The pids are recorded in the order of the forks, and main has them all once
\* it waits; the child just forked, if any, is not recorded yet.
Known ==
  /\ pc \in {"fork", "record"} => pid = {k \in Children : k < next}
  /\ pc \notin {"fork", "record", "failed"} => pid = Children

\* Children exist exactly when they have been forked.
Forked ==
  /\ pc = "fork" => \A k \in Children : child[k] # "none" <=> k < next
  /\ pc = "record" => \A k \in Children : child[k] # "none" <=> k <= next
  /\ pc \notin {"fork", "record", "failed"} => \A k \in Children : child[k] # "none"

\* After terminate_children, every child that still runs has been sent SIGTERM.
Terminated ==
  pc \in {"reap", "unlink", "return"} => \A k \in Children : Alive(k) => k \in termed

\* The last loop ends when nothing is left to reap, or it is cut short.
Reaped ==
  pc \in {"unlink", "return"} /\ ~cutShort
    => \A k \in Children : child[k] = "reaped"

\* Only main reaps: a child is reaped by the first loop or by the last.
NotYetReaped ==
  pc \in {"fork", "record"} => \A k \in Children : child[k] # "reaped"

Linked == shm = "unlinked" => pc = "return"

SInv == /\ TypeOK /\ Known /\ Forked /\ Terminated /\ Reaped
        /\ NotYetReaped /\ Linked /\ BrokerToWaitFor

\* The broker's index is the first of the children's, the producer's the last.
LEMMA ChildIndices ==
  /\ Children = 0 .. WorkerCount + 1
  /\ BrokerChild \in Children /\ ProducerChild \in Children
  /\ Children \subseteq Int
  /\ \A k \in Children : BrokerChild <= k /\ k <= ProducerChild
PROOF BY SupervisorAssumption DEF Children, BrokerChild, ProducerChild

\* terminate_children reaches every running child whose pid is recorded, and adds
\* no other.
LEMMA TermedWhat ==
  ASSUME TypeOK, TerminateChildren
  PROVE  /\ termed \subseteq termed' /\ termed' \subseteq Children
         /\ \A k \in pid : k \in termed' <=> k \in termed \/ Alive(k)
PROOF BY DEF TypeOK, TerminateChildren

\* The program starts with nothing forked and nothing recorded.
LEMMA InitSInv == Init => SInv
PROOF
<1> SUFFICES ASSUME Init PROVE SInv
  OBVIOUS
<1> USE ChildIndices DEF Init
<1>1. TypeOK
  BY DEF TypeOK
<1>2. Known
  <2>1. \A k \in Children : ~(k < next)
    BY SMT DEF BrokerChild
  <2>2. {k \in Children : k < next} = {}
    BY <2>1
  <2>3. QED
    BY <2>2 DEF Known
<1>3. Forked
  BY SMT DEF Forked, BrokerChild
<1>4. QED
  BY <1>1, <1>2, <1>3 DEF SInv, Terminated, Reaped, NotYetReaped, Linked, BrokerToWaitFor

\* Every step of main, of the handler and of a child keeps the invariant.
LEMMA NextSInv == SInv /\ [Next]_vars => SInv'
PROOF
<1> SUFFICES ASSUME SInv, [Next]_vars PROVE SInv'
  OBVIOUS
<1> USE ChildIndices
<1>1. CASE Fork
  BY <1>1, SMT DEF Fork, SInv, TypeOK, Known, Forked, Terminated,
     Reaped, NotYetReaped, Linked, BrokerToWaitFor, Alive, Unreaped
<1>2. CASE ForkFails
  BY <1>2, SMT DEF ForkFails, SInv, TypeOK, Known, Forked, Terminated,
     Reaped, NotYetReaped, Linked, BrokerToWaitFor, Alive, Unreaped
<1>3. CASE Record
  <2>1. next \in Children /\ pid = {k \in Children : k < next}
    BY <1>3 DEF Record, SInv, TypeOK, Known
  <2>2. {k \in Children : k < next} \union {next} = {k \in Children : k <= next}
    BY <2>1, SMT
  <2>3. pid' = {k \in Children : k <= next}
    BY <1>3, <2>1, <2>2 DEF Record
  <2>4. Known'
    <3>1. CASE next < ProducerChild
      <4>1. \A k \in Children : k <= next <=> k < next + 1
        BY <2>1, SMT
      <4>2. next' = next + 1 /\ pc' = "fork"
        BY <1>3, <3>1, SMT DEF Record
      <4>3. Children' = Children
        BY DEF Children, BrokerChild, ProducerChild
      <4>4. QED
        BY <2>3, <4>1, <4>2, <4>3 DEF Known
    <3>2. CASE next = ProducerChild
      <4>1. pid' = Children
        BY <2>3, <3>2
      <4>2. pc' = "test"
        BY <1>3, <3>2, <2>1, SMT DEF Record
      <4>3. QED
        BY <4>1, <4>2 DEF Known, Children, BrokerChild, ProducerChild
    <3>3. QED
      BY <1>3, <3>1, <3>2 DEF Record
  <2>5. TypeOK'
    <3>1. next' \in Children
      BY <1>3, <2>1, SupervisorAssumption, SMT
         DEF Record, Children, BrokerChild, ProducerChild
    <3>2. pid' \subseteq Children
      BY <2>3
    <3>3. QED
      BY <1>3, <3>1, <3>2 DEF Record, SInv, TypeOK, Children, BrokerChild, ProducerChild
  <2>6. (Forked /\ Terminated /\ Reaped /\ NotYetReaped /\ Linked /\ BrokerToWaitFor)'
    BY <1>3, <2>1, SMT DEF Record, SInv, Forked, Terminated,
       Reaped, NotYetReaped, Linked, BrokerToWaitFor, TypeOK, Alive, Unreaped
  <2>7. QED
    BY <2>4, <2>5, <2>6 DEF SInv
<1>4. CASE Test
  BY <1>4, SMT DEF Test, SInv, TypeOK, Known, Forked, Terminated,
     Reaped, NotYetReaped, Linked, BrokerToWaitFor, Alive, Unreaped
<1>5. CASE WaitAny
  BY <1>5, SMT DEF WaitAny, Reap, SInv, TypeOK, Known, Forked, Terminated,
     Reaped, NotYetReaped, Linked, BrokerToWaitFor, Alive, Unreaped
<1>6. CASE Terminate
  <2>1. /\ termed' \subseteq Children
        /\ \A k \in Children : k \in termed' <=> k \in termed \/ Alive(k)
    BY <1>6, TermedWhat DEF Terminate, SInv, Known
  <2>2. QED
    BY <1>6, <2>1, SMT DEF Terminate, SInv, TypeOK, Known, Forked, Terminated,
     Reaped, NotYetReaped, Linked, BrokerToWaitFor, Alive, Unreaped
<1>7. CASE ReapAny
  <2>1. ASSUME NEW k \in Children, child[k] = "zombie", Reap(k), UNCHANGED pc
        PROVE  SInv'
    BY <1>7, <2>1, SMT DEF ReapAny, Reap, SInv, TypeOK, Known, Forked, Terminated,
       Reaped, NotYetReaped, Linked, BrokerToWaitFor, Alive, Unreaped
  <2>2. ASSUME \A k \in Children : ~Unreaped(k), pc' = "unlink", UNCHANGED child
        PROVE  SInv'
    <3>1. \A k \in Children : child[k] = "reaped"
      BY <1>7, <2>2 DEF ReapAny, Unreaped, SInv, Forked, TypeOK
    <3>2. QED
      BY <1>7, <2>2, <3>1, SMT DEF ReapAny, SInv, TypeOK, Known, Forked, Terminated,
         Reaped, NotYetReaped, Linked, BrokerToWaitFor, Alive, Unreaped
  <2>3. QED
    BY <1>7, <2>1, <2>2 DEF ReapAny
<1>8. CASE Unlink
  BY <1>8, SMT DEF Unlink, SInv, TypeOK, Known, Forked, Terminated,
     Reaped, NotYetReaped, Linked, BrokerToWaitFor, Alive, Unreaped
<1>9. CASE HandleSigint
  <2>1. /\ termed \subseteq termed' /\ termed' \subseteq Children
        /\ \A k \in pid : Alive(k) => k \in termed'
    BY <1>9, TermedWhat DEF HandleSigint, SInv
  <2>2. pc' = pc \/ (pc = "waitpid" /\ pc' = "test")
          \/ (pc = "reap" /\ pc' = "unlink" /\ cutShort')
    BY <1>9 DEF HandleSigint
  <2>3. (cutShort' = cutShort \/ cutShort') /\ cutShort' \in BOOLEAN
    BY <1>9 DEF HandleSigint, SInv, TypeOK
  <2>4. UNCHANGED <<next, child, pid, shm>> /\ pc \notin {"return", "failed"}
        /\ shutdown_requested' \in BOOLEAN /\ interrupts' \in Nat
    BY <1>9, SMT DEF HandleSigint, SInv, TypeOK
  <2>5. QED
    BY <2>1, <2>2, <2>3, <2>4, SMT DEF SInv, TypeOK, Known, Forked, Terminated,
       Reaped, NotYetReaped, Linked, BrokerToWaitFor, Alive, Unreaped
<1>10. ASSUME NEW k \in Children, ChildEnds(k) PROVE SInv'
  BY <1>10, SMT DEF ChildEnds, SInv, TypeOK, Known, Forked, Terminated,
     Reaped, NotYetReaped, Linked, BrokerToWaitFor, Alive, Unreaped
<1>11. CASE UNCHANGED vars
  BY <1>11 DEF vars, SInv, TypeOK, Known, Forked, Terminated, Reaped,
     NotYetReaped, Linked, BrokerToWaitFor, Alive, Unreaped
<1>12. QED
  BY <1>1, <1>2, <1>3, <1>4, <1>5, <1>6, <1>7, <1>8, <1>9, <1>10, <1>11
     DEF Next, Main

\* SInv holds in every reachable state.
THEOREM SInvariance == Spec => []SInv
PROOF
<1>1. Init => SInv
  BY InitSInv
<1>2. SInv /\ [Next]_vars => SInv'
  BY NextSInv
<1>3. QED
  BY <1>1, <1>2, PTL DEF Spec

\* The variables keep their types: main never forks beyond the producer.
THEOREM ProgramTypeCorrect == Spec => []TypeOK
PROOF
<1>1. SInv => TypeOK
  BY DEF SInv
<1>2. QED
  BY <1>1, SInvariance, PTL

\* No broker, worker or producer survives the program without SIGTERM.
THEOREM NobodySurvives == Spec => []NoSurvivor
PROOF
<1>1. SInv => NoSurvivor
  BY DEF SInv, NoSurvivor, Linked, Terminated
<1>2. QED
  BY <1>1, SInvariance, PTL

\* The program leaves no zombie, unless SIGINT cuts its last loop short.
THEOREM AllReaped == Spec => []ReapsAll
PROOF
<1>1. SInv => ReapsAll
  BY DEF SInv, ReapsAll, Reaped
<1>2. QED
  BY <1>1, SInvariance, PTL

\* The first waitpid loop never finds itself without a child.
THEOREM WaitsForBroker == Spec => []BrokerToWaitFor
PROOF
<1>1. SInv => BrokerToWaitFor
  BY DEF SInv
<1>2. QED
  BY <1>1, SInvariance, PTL
============================================================================
