---------------------------- MODULE TaskLedger ----------------------------
(***************************************************************************)
(* What the dispatch system of src/hw12 promises, with no process, socket  *)
(* or message in sight: a fixed set of tasks, each of which is at last     *)
(* either done or dropped, at most Capacity of them running at a time,     *)
(* and a queue of bounded length, served in order, for those that find no  *)
(* server.  A drop is legitimate only when that queue is full or when the  *)
(* task is not one the broker was told about.  TaskDispatch implements it. *)
(***************************************************************************)
EXTENDS Integers, Sequences, FiniteSets

CONSTANTS Tasks,      \* the tasks the producer sends
          Expected,   \* the number of tasks the broker waits for
          Capacity,   \* how many tasks can be running at a time
          QueueSize   \* how many tasks can wait for a server

VARIABLES status,     \* the stage each task has reached
          queue,      \* the tasks that wait, oldest first
          stopped     \* the broker has left its loop

vars == <<status, queue, stopped>>

Stages == {"new", "queued", "running", "done", "dropped"}

At(stage)  == {t \in Tasks : status[t] = stage}
Finished(s) == {t \in Tasks : s[t] \in {"done", "dropped"}}
---------------------------------------------------------------------------
Init == /\ status = [t \in Tasks |-> "new"]
        /\ queue = <<>>
        /\ stopped = (Expected = 0)

\* A new task is given to a server that is free.
Start(t) == /\ ~stopped /\ status[t] = "new" /\ t < Expected
            /\ Cardinality(At("running")) < Capacity
            /\ status' = [status EXCEPT ![t] = "running"]
            /\ UNCHANGED <<queue, stopped>>

Queue(t) == /\ ~stopped /\ status[t] = "new" /\ t < Expected
            /\ Len(queue) < QueueSize
            /\ status' = [status EXCEPT ![t] = "queued"]
            /\ queue' = Append(queue, t)
            /\ UNCHANGED stopped

Drop(t) == /\ ~stopped /\ status[t] = "new"
           /\ t >= Expected \/ Len(queue) = QueueSize
           /\ status' = [status EXCEPT ![t] = "dropped"]
           /\ stopped' = (Cardinality(Finished(status')) >= Expected)
           /\ UNCHANGED queue

\* The server that is done with t takes the oldest task that waits, if any.
Complete(t) ==
  /\ ~stopped /\ status[t] = "running"
  /\ \/ /\ queue = <<>>
        /\ status' = [status EXCEPT ![t] = "done"]
        /\ UNCHANGED queue
     \/ /\ queue # <<>>
        /\ status' = [status EXCEPT ![t] = "done", ![Head(queue)] = "running"]
        /\ queue' = Tail(queue)
  /\ stopped' = (Cardinality(Finished(status')) >= Expected)

Next == \E t \in Tasks : Start(t) \/ Queue(t) \/ Drop(t) \/ Complete(t)

Spec == Init /\ [][Next]_vars
===========================================================================
