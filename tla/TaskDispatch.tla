--------------------------- MODULE TaskDispatch ---------------------------
(***************************************************************************)
(* The task dispatch system of src/hw12: one producer (producer.c), one    *)
(* broker (broker.c) and the workers (worker.c), which talk over ZeroMQ    *)
(* sockets, and the shared memory segment (latency_shm.h) in which the     *)
(* producer stamps the send time of every task.                            *)
(*                                                                         *)
(* A task is its number; the message that carries it is that number.  The  *)
(* messages of a worker are READY and DONE n.  The broker runs one branch  *)
(* of its loop per poll, and a branch is one action because nothing but    *)
(* the sockets is shared and the broker sends at most one message in it.   *)
(***************************************************************************)
EXTENDS Integers, Sequences, FiniteSets, Functions

CONSTANTS
  Workers,        \* the worker processes, by identity
  TaskCount,      \* argv[2] of the broker
  ProducerCount,  \* argv[2] of the producer, a program of its own
  QueueSize,      \* argv[5] of the broker
  FrontendHwm,    \* bound: messages between producer and broker (ZMQ's HWM)
  MaxCrashes      \* bound: how many workers may die

ASSUME WorkersAssumption == IsFiniteSet(Workers)
ASSUME CountsAssumption == /\ TaskCount \in Nat
                           /\ ProducerCount \in Nat
                           /\ QueueSize \in Nat
                           /\ FrontendHwm \in Nat \ {0}
                           /\ MaxCrashes \in Nat

VARIABLES
  sendPc,                \* producer: "stamp", "send" or "done"
  task_sequence,         \* producer: the next task
  send_ns,               \* shared memory: the tasks whose stamp is not -1
  frontend,              \* tasks on their way from the producer
  backend,               \* messages on their way from each worker
  inbox,                 \* tasks on their way to each worker
  brokerPc,              \* "poll", "task", "worker" or "exit"
  worker_queue, worker_count,
  pending_task_queue, pending_task_count,
  processed_task_count, dropped_task_count, latency_sample_count,
  workerPc,              \* each worker: "start", "recv", "work" or "dead"
  task_id,               \* each worker: the task it works on
  completed,             \* history: the tasks whose DONE the broker has read
  discarded,             \* history: the tasks the broker has dropped
  lost,                  \* history: the tasks that died with a worker
  crashes                \* history: how many workers have died

producerVars == <<sendPc, task_sequence, send_ns>>
queueVars    == <<worker_queue, worker_count,
                  pending_task_queue, pending_task_count>>
tallyVars    == <<processed_task_count, dropped_task_count,
                  latency_sample_count, completed, discarded>>
workerVars   == <<workerPc, task_id>>
vars == <<producerVars, frontend, backend, inbox, brokerPc, queueVars,
          tallyVars, workerVars, lost, crashes>>

Tasks  == 0 .. ProducerCount - 1
NoTask == -1
READY  == [kind |-> "READY", task |-> NoTask]
DONE(t) == [kind |-> "DONE", task |-> t]
Messages == {READY} \union {DONE(t) : t \in Tasks}

\* Mutant: the loop ends one task too early.
LoopPcEarly(processed, dropped) ==
  IF processed + dropped + 1 < TaskCount THEN "poll" ELSE "exit"

LoopPc(processed, dropped) ==
  IF processed + dropped < TaskCount THEN "poll" ELSE "exit"

Init ==
  /\ sendPc = IF ProducerCount = 0 THEN "done" ELSE "stamp"
  /\ task_sequence = 0
  /\ send_ns = {}
  /\ frontend = <<>>
  /\ backend = [w \in Workers |-> <<>>]
  /\ inbox = [w \in Workers |-> <<>>]
  /\ brokerPc = LoopPc(0, 0)
  /\ worker_queue = <<>> /\ worker_count = 0
  /\ pending_task_queue = <<>> /\ pending_task_count = 0
  /\ processed_task_count = 0 /\ dropped_task_count = 0
  /\ latency_sample_count = 0
  /\ workerPc = [w \in Workers |-> "start"]
  /\ task_id = [w \in Workers |-> NoTask]
  /\ completed = {} /\ discarded = {} /\ lost = {}
  /\ crashes = 0
---------------------------------------------------------------------------
(* The producer *)

\* send_ns[task_sequence] is written before the task is sent.
Stamp ==
  /\ sendPc = "stamp"
  /\ send_ns' = send_ns \union {task_sequence}
  /\ sendPc' = "send"
  /\ UNCHANGED <<task_sequence, frontend, backend, inbox, brokerPc, queueVars,
                 tallyVars, workerVars, lost, crashes>>

\* A DEALER socket blocks when its peer's queue is full.
Send ==
  /\ sendPc = "send"
  /\ Len(frontend) < FrontendHwm
  /\ frontend' = Append(frontend, task_sequence)
  /\ task_sequence' = task_sequence + 1
  /\ sendPc' = IF task_sequence' < ProducerCount THEN "stamp" ELSE "done"
  /\ UNCHANGED <<send_ns, backend, inbox, brokerPc, queueVars, tallyVars,
                 workerVars, lost, crashes>>
---------------------------------------------------------------------------
(* The broker *)

\* zmq_poll returns when a socket is readable; the frontend is looked at first.
Poll ==
  /\ brokerPc = "poll"
  /\ \/ frontend # <<>> /\ brokerPc' = "task"
     \/ /\ frontend = <<>> /\ \E w \in Workers : backend[w] # <<>>
        /\ brokerPc' = "worker"
  /\ UNCHANGED <<producerVars, frontend, backend, inbox, queueVars, tallyVars,
                 workerVars, lost, crashes>>

\* Mutant: the upper bound is off by one.
IsValidOrEqual(t) == t >= 0 /\ t <= TaskCount

IsValid(t) == t >= 0 /\ t < TaskCount
\* Mutant: one task too many is let in.
HasRoomForOneMore == pending_task_count <= QueueSize

HasRoom == pending_task_count < QueueSize

\* A ROUTER socket silently drops a message for a peer that is gone.
SendTask(w, t) ==
  IF workerPc[w] = "dead"
  THEN lost' = lost \union {t} /\ UNCHANGED inbox
  ELSE inbox' = [inbox EXCEPT ![w] = Append(@, t)] /\ UNCHANGED lost

\* Mutant: the task goes and is not counted.
CountNoDrop(t) ==
  /\ discarded' = discarded \union {t}
  /\ UNCHANGED <<dropped_task_count, processed_task_count, latency_sample_count,
                 completed>>

CountDropped(t) ==
  /\ dropped_task_count' = dropped_task_count + 1
  /\ discarded' = discarded \union {t}
  /\ UNCHANGED <<processed_task_count, latency_sample_count, completed>>

RejectInvalid(t) ==
  /\ ~IsValid(t)
  /\ CountDropped(t)
  /\ UNCHANGED <<queueVars, inbox, lost>>

\* Mutant: the worker stays in the idle queue.
AssignToIdleKept(t) ==
  /\ IsValid(t) /\ worker_queue # <<>>
  /\ SendTask(Head(worker_queue), t)
  /\ UNCHANGED <<queueVars, tallyVars>>

AssignToIdle(t) ==
  /\ IsValid(t) /\ worker_queue # <<>>
  /\ SendTask(Head(worker_queue), t)
  /\ worker_queue' = Tail(worker_queue)
  /\ worker_count' = worker_count - 1
  /\ UNCHANGED <<pending_task_queue, pending_task_count, tallyVars>>

Pend(t) ==
  /\ IsValid(t) /\ worker_queue = <<>> /\ HasRoom
  /\ pending_task_queue' = Append(pending_task_queue, t)
  /\ pending_task_count' = pending_task_count + 1
  /\ UNCHANGED <<worker_queue, worker_count, tallyVars, inbox, lost>>

DropTask(t) ==
  /\ IsValid(t) /\ worker_queue = <<>> /\ ~HasRoom
  /\ CountDropped(t)
  /\ UNCHANGED <<queueVars, inbox, lost>>

RecvTask ==
  /\ brokerPc = "task"
  /\ frontend' = Tail(frontend)
  /\ LET t == Head(frontend)
     IN  RejectInvalid(t) \/ AssignToIdle(t) \/ Pend(t) \/ DropTask(t)
  /\ brokerPc' = LoopPc(processed_task_count', dropped_task_count')
  /\ UNCHANGED <<producerVars, backend, workerVars, crashes>>

\* Mutant: worker_count is forgotten.
EnqueueIdleUncounted(w) ==
  /\ worker_queue' = Append(worker_queue, w)
  /\ UNCHANGED <<worker_count, pending_task_queue, pending_task_count, inbox, lost>>

EnqueueIdle(w) ==
  /\ worker_queue' = Append(worker_queue, w)
  /\ worker_count' = worker_count + 1
  /\ UNCHANGED <<pending_task_queue, pending_task_count, inbox, lost>>

\* Mutants: the pending task is not removed, or the newest one is taken.
DispatchPendingKept(w) ==
  /\ SendTask(w, Head(pending_task_queue))
  /\ UNCHANGED queueVars
DispatchPendingNewest(w) ==
  LET last == Len(pending_task_queue)
  IN  /\ SendTask(w, pending_task_queue[last])
      /\ pending_task_queue' = SubSeq(pending_task_queue, 1, last - 1)
      /\ pending_task_count' = pending_task_count - 1
      /\ UNCHANGED <<worker_queue, worker_count>>

DispatchPending(w) ==
  /\ SendTask(w, Head(pending_task_queue))
  /\ pending_task_queue' = Tail(pending_task_queue)
  /\ pending_task_count' = pending_task_count - 1
  /\ UNCHANGED <<worker_queue, worker_count>>

\* broker_receive_ns comes from calloc, so that its test never fails.
HasSample(t) == IsValid(t) /\ t \in send_ns

\* Mutant: a worker that is done always goes to the idle queue.
RecvDoneIdle(w, t) ==
  /\ processed_task_count' = processed_task_count + 1
  /\ latency_sample_count' = latency_sample_count + (IF HasSample(t) THEN 1 ELSE 0)
  /\ completed' = completed \union {t}
  /\ UNCHANGED <<dropped_task_count, discarded>>
  /\ EnqueueIdle(w)

RecvDone(w, t) ==
  /\ processed_task_count' = processed_task_count + 1
  /\ latency_sample_count' = latency_sample_count + (IF HasSample(t) THEN 1 ELSE 0)
  /\ completed' = completed \union {t}
  /\ UNCHANGED <<dropped_task_count, discarded>>
  /\ \/ pending_task_queue # <<>> /\ DispatchPending(w)
     \/ pending_task_queue = <<>> /\ EnqueueIdle(w)

RecvReady(w) == EnqueueIdle(w) /\ UNCHANGED tallyVars

RecvWorker(w) ==
  /\ brokerPc = "worker"
  /\ backend[w] # <<>>
  /\ backend' = [backend EXCEPT ![w] = Tail(@)]
  /\ LET m == Head(backend[w])
     IN  \/ m.kind = "DONE" /\ RecvDone(w, m.task)
         \/ m.kind = "READY" /\ RecvReady(w)
  /\ brokerPc' = LoopPc(processed_task_count', dropped_task_count')
  /\ UNCHANGED <<producerVars, frontend, workerVars, crashes>>
---------------------------------------------------------------------------
(* The workers *)

SendMessage(w, m) == backend' = [backend EXCEPT ![w] = Append(@, m)]

Start(w) ==
  /\ workerPc[w] = "start"
  /\ SendMessage(w, READY)
  /\ workerPc' = [workerPc EXCEPT ![w] = "recv"]
  /\ UNCHANGED <<producerVars, frontend, inbox, brokerPc, queueVars, tallyVars,
                 task_id, lost, crashes>>

Receive(w) ==
  /\ workerPc[w] = "recv"
  /\ inbox[w] # <<>>
  /\ task_id' = [task_id EXCEPT ![w] = Head(inbox[w])]
  /\ inbox' = [inbox EXCEPT ![w] = Tail(@)]
  /\ workerPc' = [workerPc EXCEPT ![w] = "work"]
  /\ UNCHANGED <<producerVars, frontend, backend, brokerPc, queueVars,
                 tallyVars, lost, crashes>>

Finish(w) ==
  /\ workerPc[w] = "work"
  /\ SendMessage(w, DONE(task_id[w]))
  /\ task_id' = [task_id EXCEPT ![w] = NoTask]
  /\ workerPc' = [workerPc EXCEPT ![w] = "recv"]
  /\ UNCHANGED <<producerVars, frontend, inbox, brokerPc, queueVars, tallyVars,
                 lost, crashes>>

\* A worker dies (one of its calls of exit(1), or a signal): what it was doing,
\* its inbox and any of its messages that had not left the process are gone.
Crash(w) ==
  /\ workerPc[w] # "dead"
  /\ crashes < MaxCrashes
  /\ \E n \in 0 .. Len(backend[w]) :
       \* what zmq_poll has announced is in the broker already
       /\ brokerPc = "worker" => n > 0 \/ \E v \in Workers \ {w} : backend[v] # <<>>
       /\ backend' = [backend EXCEPT ![w] = SubSeq(@, 1, n)]
       /\ lost' = (lost \union Range(inbox[w]) \union {task_id[w]}
                    \union {backend[w][i].task : i \in n + 1 .. Len(backend[w])})
                   \ {NoTask}
  /\ inbox' = [inbox EXCEPT ![w] = <<>>]
  /\ task_id' = [task_id EXCEPT ![w] = NoTask]
  /\ workerPc' = [workerPc EXCEPT ![w] = "dead"]
  /\ crashes' = crashes + 1
  /\ UNCHANGED <<producerVars, frontend, brokerPc, queueVars, tallyVars>>
---------------------------------------------------------------------------
Producer  == Stamp \/ Send
Broker    == Poll \/ RecvTask \/ \E w \in Workers : RecvWorker(w)
Worker(w) == Start(w) \/ Receive(w) \/ Finish(w)

Next == Producer \/ Broker \/ \E w \in Workers : Worker(w) \/ Crash(w)

Spec == Init /\ [][Next]_vars

\* Every process is scheduled by the operating system; nothing else is assumed.
Fairness == /\ WF_vars(Producer)
            /\ WF_vars(Broker)
            /\ \A w \in Workers : WF_vars(Worker(w))

FairSpec == Spec /\ Fairness
---------------------------------------------------------------------------
(* Properties *)

\* The type of every variable, with the bounds its declaration gives it.
TypeOK ==
  /\ sendPc \in {"stamp", "send", "done"}
  /\ task_sequence \in 0 .. ProducerCount
  /\ send_ns \subseteq Tasks
  /\ frontend \in Seq(Tasks)
  /\ backend \in [Workers -> Seq(Messages)]
  /\ inbox \in [Workers -> Seq(Tasks)]
  /\ brokerPc \in {"poll", "task", "worker", "exit"}
  /\ worker_queue \in Seq(Workers) /\ worker_count \in Nat
  /\ pending_task_queue \in Seq(Tasks) /\ pending_task_count \in Nat
  /\ processed_task_count \in Nat /\ dropped_task_count \in Nat
  /\ latency_sample_count \in Nat
  /\ workerPc \in [Workers -> {"start", "recv", "work", "dead"}]
  /\ task_id \in [Workers -> Tasks \union {NoTask}]
  /\ completed \subseteq Tasks /\ discarded \subseteq Tasks
  /\ lost \subseteq Tasks
  /\ crashes \in 0 .. MaxCrashes

\* The two counters broker.c keeps by hand beside its linked lists agree with
\* them, and the list of pending tasks never outgrows queue_size.
CountersAgree ==
  /\ worker_count = Len(worker_queue)
  /\ pending_task_count = Len(pending_task_queue)
  /\ Len(pending_task_queue) <= QueueSize

\* The average latency is taken over every task the broker was told of and
\* that has been processed: the DONE of a task never overtakes its stamp.
EverySampleCounted ==
  latency_sample_count = Cardinality({t \in completed : t < TaskCount})

Holds(w, t) == \/ t \in Range(inbox[w])
               \/ task_id[w] = t
               \/ DONE(t) \in Range(backend[w])
Busy(w) == \E t \in Tasks : Holds(w, t)

\* Where a task that has been sent is, as the set of all the places that have it.
Places(t) ==
     {<<"frontend", i>> : i \in {j \in DOMAIN frontend : frontend[j] = t}}
  \union {<<"pending", i>> : i \in {j \in DOMAIN pending_task_queue :
                                         pending_task_queue[j] = t}}
  \union {<<"worker", w>> : w \in {v \in Workers : Holds(v, t)}}
  \union {<<"end", e>> : e \in {k \in 1 .. 3 :
                            t \in <<completed, discarded, lost>>[k]}}

\* A task that has been sent is in one place: it is neither forgotten nor
\* duplicated by the handlers, the queues or the messages between them; and the
\* totals that the broker prints count the tasks in two of the places.
EveryTaskInOnePlace ==
  /\ \A t \in Tasks : Cardinality(Places(t)) = IF t < task_sequence THEN 1 ELSE 0
  /\ processed_task_count = Cardinality(completed)
  /\ dropped_task_count = Cardinality(discarded)

\* What stands for worker w: the READY it has to send or has sent, its entry in
\* worker_queue, the task it holds or its DONE.
Tokens(w) ==
    Len(backend[w]) + Len(inbox[w])
  + (IF workerPc[w] \in {"start", "work"} THEN 1 ELSE 0)
  + (IF w \in Range(worker_queue) THEN 1 ELSE 0)

\* The broker gives a worker a task only when it has nothing else to do, queues
\* it as idle once, and never forgets a worker that is alive.
OneTokenPerWorker ==
  /\ IsInjective(worker_queue)
  /\ \A w \in Workers : /\ Tokens(w) <= 1
                        /\ workerPc[w] # "dead" => Tokens(w) = 1

\* Once a task has been processed and while no worker has died, tasks wait only
\* if some worker holds a task, whose DONE will fetch the first of them.
PendingHasServer ==
  pending_task_queue # <<>> /\ completed # {} /\ crashes = 0
    => \E w \in Workers : Busy(w)

\* A broker that leaves its loop has settled every task: none is pending, with a
\* worker or lost with one that died (both programs being told the same count,
\* as program.c does).
ExitSettlesEverything ==
  brokerPc = "exit" /\ ProducerCount = TaskCount
    => /\ completed \union discarded = Tasks
       /\ frontend = <<>> /\ pending_task_queue = <<>> /\ lost = {}
       /\ \A w \in Workers : ~Busy(w)

\* The stage of a task, as TaskLedger has it.
Status(t) ==
  CASE t \in completed -> "done"
    [] t \in discarded -> "dropped"
    [] t \in Range(pending_task_queue) -> "queued"
    [] t \in lost \/ \E w \in Workers : Holds(w, t) -> "running"
    [] OTHER -> "new"

Ledger == INSTANCE TaskLedger
            WITH Expected <- TaskCount, Capacity <- Cardinality(Workers),
                 status <- [t \in Tasks |-> Status(t)],
                 queue <- pending_task_queue,
                 stopped <- (brokerPc = "exit")

\* The broker, its workers and the messages between them implement the ledger.
ImplementsLedger == Ledger!Spec

\* Once a task has been processed, and if no worker dies, the broker leaves its
\* loop: the DONE of every task fetches the next, until none is left.
ServedBrokerExits == completed # {} ~> brokerPc = "exit"

\* A task that has been put in the pending queue is assigned to a worker.
PendingIsAssigned ==
  \A t \in Tasks : t \in Range(pending_task_queue)
                    ~> t \notin Range(pending_task_queue)
===========================================================================
