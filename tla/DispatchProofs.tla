-------------------------- MODULE DispatchProofs --------------------------
(***************************************************************************)
(* Proofs about TaskDispatch, for any number of workers and tasks, any     *)
(* size of the queue and any number of crashes; and about DispatchMonitor, *)
(* the same system with monitors that come and go.                         *)
(***************************************************************************)
EXTENDS DispatchMonitor, SequenceTheorems, FiniteSetTheorems, TLAPS

\* What adding at the end of a sequence and removing its head make of it.
LEMMA AppendFacts ==
  ASSUME NEW S, NEW s \in Seq(S), NEW x \in S
  PROVE  /\ Append(s, x) \in Seq(S) /\ Append(s, x) # <<>>
         /\ Len(Append(s, x)) = Len(s) + 1
BY AppendProperties

\* What a sequence that is not empty is made of.
LEMMA TailFacts ==
  ASSUME NEW S, NEW s \in Seq(S), s # <<>>
  PROVE  /\ Head(s) \in S /\ Tail(s) \in Seq(S)
         /\ Len(s) \in Nat \ {0} /\ Len(Tail(s)) = Len(s) - 1
<1>1. Len(s) \in Nat \ {0}
  BY EmptySeq
<1>. QED  BY <1>1, HeadTailProperties

\* A worker's message is READY or the DONE of a task.
LEMMA MessageFacts ==
  /\ READY \in Messages
  /\ \A t \in Tasks : DONE(t) \in Messages
  /\ \A m \in Messages : \/ m.kind = "READY" /\ m.task = NoTask
                         \/ m.kind = "DONE" /\ m.task \in Tasks /\ m = DONE(m.task)
<1>1. READY \in Messages
  BY DEF Messages
<1>2. \A t \in Tasks : DONE(t) \in Messages
  BY Zenon DEF Messages
<1>3. ASSUME NEW m \in Messages
      PROVE  \/ m.kind = "READY" /\ m.task = NoTask
             \/ m.kind = "DONE" /\ m.task \in Tasks /\ m = DONE(m.task)
  <2>1. CASE m = READY
    BY <2>1 DEF READY
  <2>2. CASE \E t \in Tasks : m = DONE(t)
    <3>1. PICK t \in Tasks : m = DONE(t)
      BY <2>2
    <3>2. m.kind = "DONE" /\ m.task = t
      BY <3>1 DEF DONE
    <3>. QED  BY <3>1, <3>2
  <2>. QED  BY <1>3, <2>1, <2>2, Zenon DEF Messages
<1>. QED  BY <1>1, <1>2, <1>3

\* -1 is no task.
LEMMA NoTaskFact == NoTask \notin Tasks
  BY CountsAssumption DEF NoTask, Tasks

---------------------------------------------------------------------------
(* Type correctness and the hand-kept counters *)

\* What the types rest on: a producer that is not done has a task left, the
\* frontend is readable when zmq_poll says so, and a worker at work has a task.
PcOK ==
  /\ sendPc \in {"stamp", "send"} => task_sequence < ProducerCount
  /\ brokerPc = "task" => frontend # <<>>
  /\ \A w \in Workers : workerPc[w] = "work" <=> task_id[w] \in Tasks

TInv == TypeOK /\ CountersAgree /\ PcOK

\* The functions and the sequence of the state.
LEMMA FunFacts ==
  ASSUME TInv
  PROVE  /\ backend \in [Workers -> Seq(Messages)] /\ inbox \in [Workers -> Seq(Tasks)]
         /\ workerPc \in [Workers -> {"start", "recv", "work", "dead"}]
         /\ worker_queue \in Seq(Workers)
  BY DEF TInv, TypeOK

\* The messages on their way from a worker are messages.
LEMMA BackendFacts ==
  ASSUME TInv, NEW w \in Workers, NEW i \in 1 .. Len(backend[w])
  PROVE  /\ backend[w][i] \in Messages
         /\ backend[w][i].task \in Tasks \union {NoTask}
<1>1. backend[w] \in Seq(Messages)
  BY FunFacts
<1>2. backend[w][i] \in Messages
  BY <1>1
<1>. QED  BY <1>2, MessageFacts

\* A task is there when the broker reads the frontend.
LEMMA HeadTask ==
  ASSUME TInv, RecvTask
  PROVE  frontend # <<>> /\ Head(frontend) \in Tasks
<1>1. frontend \in Seq(Tasks) /\ frontend # <<>>
  BY DEF TInv, TypeOK, PcOK, RecvTask
<1>. QED  BY <1>1, TailFacts

\* Initially.
LEMMA InitTInv == Init => TInv
<1>. USE CountsAssumption
<1>. QED  BY DEF Init, TInv, TypeOK, CountersAgree, PcOK, LoopPc, Tasks, NoTask

\* The steps of the producer.
LEMMA ProducerTInv == TInv /\ Producer => TInv'
<1>. SUFFICES ASSUME TInv, Producer PROVE TInv'
  OBVIOUS
<1>. USE CountsAssumption DEF TInv, TypeOK, CountersAgree, PcOK
<1>1. CASE Stamp
  BY <1>1 DEF Stamp, Tasks, queueVars, tallyVars, workerVars
<1>2. CASE Send
  <2>1. task_sequence \in Tasks
    BY <1>2 DEF Send, Tasks
  <2>2. frontend' \in Seq(Tasks) /\ frontend' # <<>>
    BY <1>2, <2>1, AppendFacts DEF Send
  <2>3. task_sequence' \in 0 .. ProducerCount
    BY <1>2 DEF Send
  <2>4. sendPc' \in {"stamp", "done"} /\ (sendPc' = "stamp" => task_sequence' < ProducerCount)
    BY <1>2 DEF Send
  <2>. QED  BY <1>2, <2>2, <2>3, <2>4 DEF Send, queueVars, tallyVars, workerVars
<1>. QED  BY <1>1, <1>2 DEF Producer

\* A task the broker sends arrives at the worker or is lost.
LEMMA SendTaskTypes ==
  ASSUME TypeOK, NEW w \in Workers, NEW t \in Tasks, SendTask(w, t)
  PROVE  inbox' \in [Workers -> Seq(Tasks)] /\ lost' \subseteq Tasks
<1>1. CASE workerPc[w] = "dead"
  BY <1>1 DEF TypeOK, SendTask
<1>2. CASE workerPc[w] # "dead"
  <2>1. Append(inbox[w], t) \in Seq(Tasks)
    BY DEF TypeOK
  <2>. QED  BY <1>2, <2>1 DEF TypeOK, SendTask
<1>. QED  BY <1>1, <1>2

\* The broker's actions on a task from the producer.
LEMMA RecvTaskTInv == TInv /\ RecvTask => TInv'
<1>. SUFFICES ASSUME TInv, RecvTask PROVE TInv'
  OBVIOUS
<1>. USE CountsAssumption DEF TInv, TypeOK, CountersAgree, PcOK
<1>. DEFINE t == Head(frontend)
<1>1. /\ t \in Tasks /\ frontend' \in Seq(Tasks)
      /\ brokerPc' \in {"poll", "exit"}
      /\ UNCHANGED <<producerVars, backend, workerVars, crashes>>
  BY DEF RecvTask, LoopPc
<1>2. CASE RejectInvalid(t) \/ DropTask(t)
  <2>1. /\ dropped_task_count' \in Nat /\ discarded' \subseteq Tasks
        /\ UNCHANGED <<processed_task_count, latency_sample_count, completed,
                       queueVars, inbox, lost>>
    BY <1>1, <1>2 DEF RejectInvalid, DropTask, CountDropped
  <2>. QED  BY <1>1, <2>1 DEF queueVars, producerVars, workerVars
<1>3. CASE AssignToIdle(t)
  <2>1. Head(worker_queue) \in Workers /\ Tail(worker_queue) \in Seq(Workers)
    BY <1>3 DEF AssignToIdle
  <2>2. inbox' \in [Workers -> Seq(Tasks)] /\ lost' \subseteq Tasks
    BY <1>1, <1>3, <2>1, SendTaskTypes DEF AssignToIdle
  <2>3. worker_queue' \in Seq(Workers) /\ worker_count' = Len(worker_queue') /\ worker_count' \in Nat
    BY <1>3, <2>1, TailFacts DEF AssignToIdle
  <2>4. UNCHANGED <<pending_task_queue, pending_task_count, tallyVars>>
    BY <1>3 DEF AssignToIdle
  <2>. QED  BY <1>1, <2>2, <2>3, <2>4 DEF tallyVars, producerVars, workerVars
<1>4. CASE Pend(t)
  <2>1. /\ pending_task_queue' \in Seq(Tasks) /\ pending_task_count' \in Nat
        /\ pending_task_count' = Len(pending_task_queue')
        /\ Len(pending_task_queue') <= QueueSize
    BY <1>1, <1>4, AppendFacts DEF Pend, HasRoom
  <2>2. UNCHANGED <<worker_queue, worker_count, tallyVars, inbox, lost>>
    BY <1>4 DEF Pend
  <2>. QED  BY <1>1, <2>1, <2>2 DEF tallyVars, producerVars, workerVars
<1>. QED  BY <1>2, <1>3, <1>4 DEF RecvTask

\* The broker's actions on a message from a worker.
LEMMA RecvWorkerTInv ==
  ASSUME TInv, NEW w \in Workers, RecvWorker(w)
  PROVE  TInv'
<1>. USE CountsAssumption DEF TInv, TypeOK, CountersAgree, PcOK
<1>. DEFINE m == Head(backend[w])
<1>1. /\ m \in Messages /\ backend' \in [Workers -> Seq(Messages)]
      /\ brokerPc' \in {"poll", "exit"}
      /\ UNCHANGED <<producerVars, frontend, workerVars, crashes>>
  BY DEF RecvWorker, LoopPc
<1>2. EnqueueIdle(w) =>
        /\ worker_queue' \in Seq(Workers) /\ worker_count' \in Nat
        /\ worker_count' = Len(worker_queue')
        /\ UNCHANGED <<pending_task_queue, pending_task_count, inbox, lost>>
  BY DEF EnqueueIdle
<1>3. CASE m.kind = "DONE" /\ RecvDone(w, m.task)
  <2>1. m.task \in Tasks
    BY <1>1, <1>3, MessageFacts
  <2>2. /\ processed_task_count' \in Nat /\ latency_sample_count' \in Nat
        /\ completed' \subseteq Tasks
        /\ UNCHANGED <<dropped_task_count, discarded>>
    BY <1>3, <2>1 DEF RecvDone
  <2>3. CASE pending_task_queue # <<>> /\ DispatchPending(w)
    <3>1. /\ Head(pending_task_queue) \in Tasks
          /\ Tail(pending_task_queue) \in Seq(Tasks)
      BY <2>3
    <3>2. inbox' \in [Workers -> Seq(Tasks)] /\ lost' \subseteq Tasks
      BY <2>3, <3>1, SendTaskTypes DEF DispatchPending
    <3>3. /\ pending_task_queue' \in Seq(Tasks) /\ pending_task_count' \in Nat
          /\ pending_task_count' = Len(pending_task_queue')
          /\ Len(pending_task_queue') <= QueueSize
          /\ UNCHANGED <<worker_queue, worker_count>>
      BY <2>3, <3>1, TailFacts DEF DispatchPending
    <3>. QED  BY <1>1, <2>2, <3>2, <3>3 DEF producerVars, workerVars
  <2>4. CASE EnqueueIdle(w)
    BY <1>1, <1>2, <2>2, <2>4 DEF producerVars, workerVars
  <2>. QED  BY <1>3, <2>3, <2>4 DEF RecvDone
<1>4. CASE RecvReady(w)
  BY <1>1, <1>2, <1>4 DEF RecvReady, tallyVars, producerVars, workerVars
<1>. QED  BY <1>3, <1>4 DEF RecvWorker

\* The steps of a worker.
LEMMA WorkerTInv ==
  ASSUME TInv, NEW w \in Workers, Worker(w) \/ Crash(w)
  PROVE  TInv'
<1>. USE CountsAssumption DEF TInv, TypeOK, CountersAgree, PcOK
<1>1. CASE Start(w)
  BY <1>1, MessageFacts DEF Start, SendMessage, producerVars, queueVars, tallyVars
<1>2. CASE Receive(w)
  <2>1. Head(inbox[w]) \in Tasks /\ Tail(inbox[w]) \in Seq(Tasks)
    BY <1>2 DEF Receive
  <2>. QED  BY <1>2, <2>1 DEF Receive, producerVars, queueVars, tallyVars
<1>3. CASE Finish(w)
  <2>1. DONE(task_id[w]) \in Messages
    BY <1>3, MessageFacts DEF Finish
  <2>2. backend' \in [Workers -> Seq(Messages)]
    <3>. Append(backend[w], DONE(task_id[w])) \in Seq(Messages)
      BY <2>1
    <3>. QED  BY <1>3 DEF Finish, SendMessage
  <2>. QED  BY <1>3, <2>2, NoTaskFact DEF Finish, producerVars, queueVars, tallyVars
<1>4. CASE Crash(w)
  <2>1. PICK n \in 0 .. Len(backend[w]) :
          /\ backend' = [backend EXCEPT ![w] = SubSeq(@, 1, n)]
          /\ lost' = (lost \union Range(inbox[w]) \union {task_id[w]}
                       \union {backend[w][i].task : i \in n + 1 .. Len(backend[w])})
                      \ {NoTask}
    BY <1>4 DEF Crash
  <2>2. backend' \in [Workers -> Seq(Messages)]
    <3>1. SubSeq(backend[w], 1, n) \in Seq(Messages)
      OBVIOUS
    <3>. QED  BY <2>1, <3>1
  <2>3. \A i \in 1 .. Len(backend[w]) : backend[w][i].task \in Tasks \union {NoTask}
    BY BackendFacts
  <2>4. Range(inbox[w]) \subseteq Tasks
    BY DEF Range
  <2>5. lost' \subseteq Tasks
    BY <2>1, <2>3, <2>4
  <2>6. crashes' \in 0 .. MaxCrashes
    BY <1>4 DEF Crash
  <2>7. inbox' = [inbox EXCEPT ![w] = <<>>] /\ inbox' \in [Workers -> Seq(Tasks)]
    BY <1>4 DEF Crash
  <2>. QED  BY <1>4, <2>2, <2>5, <2>6, <2>7, NoTaskFact
            DEF Crash, producerVars, queueVars, tallyVars
<1>. QED  BY <1>1, <1>2, <1>3, <1>4 DEF Worker

\* zmq_poll announces the frontend only when a task is there.
LEMMA PollTInv == TInv /\ Poll => TInv'
<1>. SUFFICES ASSUME TInv, Poll PROVE TInv'
  OBVIOUS
<1>. QED  BY DEF TInv, TypeOK, CountersAgree, PcOK, Poll, producerVars,
                 queueVars, tallyVars, workerVars

\* Every step keeps the invariant.
LEMMA NextTInv == TInv /\ [Next]_vars => TInv'
<1>. SUFFICES ASSUME TInv, [Next]_vars PROVE TInv'
  OBVIOUS
<1>1. CASE Producer
  BY <1>1, ProducerTInv
<1>2. CASE Broker
  BY <1>2, PollTInv, RecvTaskTInv, RecvWorkerTInv DEF Broker
<1>3. CASE \E w \in Workers : Worker(w) \/ Crash(w)
  BY <1>3, WorkerTInv
<1>4. CASE UNCHANGED vars
  BY <1>4 DEF TInv, TypeOK, CountersAgree, PcOK, vars, producerVars, queueVars,
              tallyVars, workerVars
<1>. QED  BY <1>1, <1>2, <1>3, <1>4 DEF Next

\* The types, the hand-kept counters and what they rest on hold in every
\* reachable state.
THEOREM TInvariance == Spec => []TInv
<1>. QED  BY InitTInv, NextTInv, PTL DEF Spec

\* Every variable keeps its type: in particular no counter of the broker ever
\* goes below zero, and it reads no socket that is empty.
THEOREM TypeCorrect == Spec => []TypeOK
<1>1. TInv => TypeOK
  BY DEF TInv
<1>. QED  BY <1>1, TInvariance, PTL

\* worker_count and pending_task_count always are the lengths of their lists,
\* and the pending list never outgrows queue_size.
THEOREM CountersCorrect == Spec => []CountersAgree
<1>1. TInv => CountersAgree
  BY DEF TInv
<1>. QED  BY <1>1, TInvariance, PTL
---------------------------------------------------------------------------
(* One token per worker *)

\* A queue as a set with no repetitions: what the two ends of it do.
LEMMA AppendNew ==
  ASSUME NEW S, NEW q \in Seq(S), NEW w \in S, IsInjective(q), w \notin Range(q)
  PROVE  IsInjective(Append(q, w)) /\ Range(Append(q, w)) = Range(q) \union {w}
<1>. DEFINE r == Append(q, w)
<1>1. /\ DOMAIN r = 1 .. Len(q) + 1 /\ r[Len(q) + 1] = w
      /\ \A i \in 1 .. Len(q) : r[i] = q[i]
      /\ DOMAIN q = 1 .. Len(q) /\ Len(q) \in Nat
  OBVIOUS
<1>2. \A i \in 1 .. Len(q) : q[i] # w
  BY <1>1 DEF Range
<1>3. IsInjective(r)
  BY <1>1, <1>2 DEF IsInjective
<1>4. Range(r) \subseteq Range(q) \union {w}
  BY <1>1 DEF Range
<1>5. Range(q) \union {w} \subseteq Range(r)
  <2>1. w \in Range(r)
    BY <1>1 DEF Range
  <2>2. ASSUME NEW v \in Range(q) PROVE v \in Range(r)
    <3>1. PICK i \in 1 .. Len(q) : q[i] = v
      BY <1>1, <2>2 DEF Range
    <3>. QED  BY <1>1, <3>1 DEF Range
  <2>. QED  BY <2>1, <2>2
<1>. QED  BY <1>3, <1>4, <1>5

\* Taking the first element takes it out of the queue for good.
LEMMA TailOfNew ==
  ASSUME NEW S, NEW q \in Seq(S), q # <<>>, IsInjective(q)
  PROVE  IsInjective(Tail(q)) /\ Range(Tail(q)) = Range(q) \ {Head(q)}
<1>. DEFINE r == Tail(q)
<1>1. /\ DOMAIN r = 1 .. Len(q) - 1 /\ DOMAIN q = 1 .. Len(q)
      /\ \A i \in 1 .. Len(q) - 1 : r[i] = q[i + 1]
      /\ Head(q) = q[1] /\ Len(q) \in Nat \ {0}
  OBVIOUS
<1>2. IsInjective(r)
  BY <1>1 DEF IsInjective
<1>3. ASSUME NEW v \in Range(r) PROVE v \in Range(q) \ {Head(q)}
  <2>1. PICK i \in 1 .. Len(q) - 1 : r[i] = v
    BY <1>1, <1>3 DEF Range
  <2>. QED  BY <1>1, <2>1 DEF Range, IsInjective
<1>4. ASSUME NEW v \in Range(q) \ {Head(q)} PROVE v \in Range(r)
  <2>1. PICK i \in 1 .. Len(q) : q[i] = v
    BY <1>1, <1>4 DEF Range
  <2>2. i - 1 \in 1 .. Len(q) - 1 /\ r[i - 1] = v
    BY <1>1, <1>4, <2>1
  <2>. QED  BY <1>1, <2>2 DEF Range
<1>. QED  BY <1>2, <1>3, <1>4

\* A worker whose sockets, pc and place in the idle queue stay as they are keeps
\* its tokens.
TokenOK(w) == Tokens(w) <= 1 /\ (workerPc[w] # "dead" => Tokens(w) = 1)
SameTokens(w) == /\ backend'[w] = backend[w] /\ inbox'[w] = inbox[w]
                 /\ workerPc'[w] = workerPc[w]
                 /\ w \in Range(worker_queue') <=> w \in Range(worker_queue)

\* A step that changes nothing of a worker changes nothing of its tokens.
LEMMA TokenFrame ==
  ASSUME NEW w \in Workers, TokenOK(w), SameTokens(w)
  PROVE  TokenOK(w)'
  BY DEF TokenOK, SameTokens, Tokens

\* The tokens of a worker are a number.
LEMMA LenFacts ==
  ASSUME TInv, NEW w \in Workers
  PROVE  Len(backend[w]) \in Nat /\ Len(inbox[w]) \in Nat /\ Tokens(w) \in Nat
<1>1. PICK b \in Nat, i \in Nat : Len(backend[w]) = b /\ Len(inbox[w]) = i
  BY FunFacts
<1>2. Tokens(w) \in Nat
  BY <1>1 DEF Tokens
<1>. QED  BY <1>1, <1>2

\* A worker turns its one token into the next: READY, task, DONE; it dies with it.
LEMMA WorkerTokens ==
  ASSUME TInv, OneTokenPerWorker, NEW w \in Workers, Worker(w) \/ Crash(w)
  PROVE  OneTokenPerWorker'
<1>1. worker_queue' = worker_queue
  BY DEF Worker, Start, Receive, Finish, Crash, queueVars
<1>2. \A v \in Workers : TokenOK(v)
  BY DEF OneTokenPerWorker, TokenOK
<1>3. ASSUME NEW v \in Workers, v # w PROVE TokenOK(v)'
  <2>1. SameTokens(v)
    BY <1>1, <1>3, FunFacts DEF SameTokens, Worker, Start, Receive, Finish, Crash, SendMessage
  <2>. QED  BY <1>2, <2>1, TokenFrame
<1>4. TokenOK(w)'
  <2>1. PICK b \in Nat, i \in Nat : Len(backend[w]) = b /\ Len(inbox[w]) = i
    BY LenFacts
  <2>0. TokenOK(w)
    BY <1>2
  <2>. USE <1>1, <2>0 DEF TokenOK, Tokens
  <2>2. CASE Start(w)
    <3>1. /\ backend'[w] = Append(backend[w], READY) /\ inbox' = inbox
          /\ workerPc[w] = "start" /\ workerPc'[w] = "recv"
      BY <2>2, FunFacts DEF Start, SendMessage
    <3>2. Len(backend'[w]) = b + 1 /\ Len(inbox'[w]) = i
      BY <2>1, <3>1, AppendFacts, FunFacts, MessageFacts
    <3>3. workerPc[w] = "start" /\ workerPc'[w] = "recv"
      BY <3>1
    <3>. QED  BY <2>1, <3>2, <3>3
  <2>3. CASE Receive(w)
    <3>1. /\ inbox'[w] = Tail(inbox[w]) /\ inbox[w] # <<>> /\ backend' = backend
          /\ workerPc[w] = "recv" /\ workerPc'[w] = "work"
      BY <2>3, FunFacts DEF Receive
    <3>2. Len(inbox'[w]) = i - 1 /\ Len(backend'[w]) = b
      BY <2>1, <3>1, TailFacts, FunFacts
    <3>3. workerPc[w] = "recv" /\ workerPc'[w] = "work"
      BY <3>1
    <3>. QED  BY <2>1, <3>2, <3>3
  <2>4. CASE Finish(w)
    <3>1. DONE(task_id[w]) \in Messages
      BY <2>4, MessageFacts DEF Finish, TInv, PcOK
    <3>2. /\ backend'[w] = Append(backend[w], DONE(task_id[w])) /\ inbox' = inbox
          /\ workerPc[w] = "work" /\ workerPc'[w] = "recv"
      BY <2>4, FunFacts DEF Finish, SendMessage
    <3>3. Len(backend'[w]) = b + 1 /\ Len(inbox'[w]) = i
      BY <2>1, <3>1, <3>2, AppendFacts, FunFacts
    <3>4. workerPc[w] = "work" /\ workerPc'[w] = "recv"
      BY <3>2
    <3>. QED  BY <2>1, <3>3, <3>4
  <2>5. CASE Crash(w)
    <3>1. PICK n \in 0 .. b : backend' = [backend EXCEPT ![w] = SubSeq(@, 1, n)]
      BY <2>1, <2>5 DEF Crash
    <3>2. Len(backend'[w]) = n
      BY <2>1, <3>1, FunFacts
    <3>3. inbox'[w] = <<>> /\ workerPc'[w] = "dead"
      BY <2>5, FunFacts DEF Crash
    <3>4. Len(inbox'[w]) = 0
      BY <3>3
    <3>. QED  BY <2>1, <3>2, <3>3, <3>4
  <2>. QED  BY <2>2, <2>3, <2>4, <2>5 DEF Worker
<1>5. IsInjective(worker_queue')
  BY <1>1 DEF OneTokenPerWorker
<1>. QED  BY <1>3, <1>4, <1>5 DEF OneTokenPerWorker, TokenOK

\* A task sent to worker w is one token more, if w is alive.
LEMMA SendTaskTokens ==
  ASSUME TInv, NEW w \in Workers, NEW t \in Tasks, SendTask(w, t)
  PROVE  /\ \A v \in Workers \ {w} : inbox'[v] = inbox[v]
         /\ workerPc[w] = "dead" => inbox'[w] = inbox[w]
         /\ workerPc[w] # "dead" => /\ Len(inbox'[w]) = Len(inbox[w]) + 1
                                    /\ inbox'[w] = Append(inbox[w], t)
<1>1. CASE workerPc[w] = "dead"
  BY <1>1 DEF SendTask
<1>2. CASE workerPc[w] # "dead"
  <2>1. Len(Append(inbox[w], t)) = Len(inbox[w]) + 1
    BY AppendFacts, FunFacts
  <2>2. inbox' = [inbox EXCEPT ![w] = Append(inbox[w], t)]
    BY <1>2 DEF SendTask
  <2>. QED  BY <1>2, <2>1, <2>2, FunFacts
<1>. QED  BY <1>1, <1>2

\* Worker w, which has just lost its token, gets a task (if it is alive).
LEMMA RefillTokens ==
  ASSUME TInv, NEW w \in Workers, NEW t \in Tasks, SendTask(w, t), TokenOK(w),
         workerPc' = workerPc,
         \/ /\ w \in Range(worker_queue) /\ w \notin Range(worker_queue')
            /\ backend' = backend
         \/ /\ w \in Range(worker_queue') <=> w \in Range(worker_queue)
            /\ Len(backend'[w]) \in Nat /\ Len(backend'[w]) = Len(backend[w]) - 1
  PROVE  TokenOK(w)'
<1>1. PICK b \in Nat, i \in Nat : Len(backend[w]) = b /\ Len(inbox[w]) = i
  BY LenFacts
<1>2. PICK bb \in Nat : Len(backend'[w]) = bb
  BY <1>1, LenFacts
<1>3. CASE workerPc[w] = "dead"
  <2>1. Len(inbox'[w]) = i
    BY <1>1, <1>3, SendTaskTokens
  <2>. QED  BY <1>1, <1>2, <1>3, <2>1 DEF TokenOK, Tokens
<1>4. CASE workerPc[w] # "dead"
  <2>1. Len(inbox'[w]) = i + 1
    BY <1>1, <1>4, SendTaskTokens
  <2>. QED  BY <1>1, <1>2, <1>4, <2>1 DEF TokenOK, Tokens
<1>. QED  BY <1>3, <1>4

\* A task from the producer turns an idle entry into a task for that worker.
LEMMA RecvTaskTokens == TInv /\ OneTokenPerWorker /\ RecvTask => OneTokenPerWorker'
<1>. SUFFICES ASSUME TInv, OneTokenPerWorker, RecvTask PROVE OneTokenPerWorker'
  OBVIOUS
<1>. DEFINE t == Head(frontend)
<1>1. t \in Tasks /\ backend' = backend /\ workerPc' = workerPc
  BY DEF RecvTask, TInv, TypeOK, PcOK, workerVars
<1>2. \A v \in Workers : TokenOK(v)
  BY DEF OneTokenPerWorker, TokenOK
<1>3. CASE RejectInvalid(t) \/ Pend(t) \/ DropTask(t)
  <2>1. UNCHANGED <<worker_queue, inbox>>
    BY <1>3 DEF RejectInvalid, Pend, DropTask, queueVars
  <2>. QED  BY <1>1, <2>1 DEF OneTokenPerWorker, Tokens
<1>4. CASE AssignToIdle(t)
  <2>. PICK w \in Workers : w = Head(worker_queue)
    BY <1>4, FunFacts DEF AssignToIdle
  <2>1. /\ worker_queue' = Tail(worker_queue) /\ SendTask(w, t)
        /\ w \in Range(worker_queue) /\ worker_queue # <<>>
    BY <1>4, FunFacts DEF AssignToIdle, Range
  <2>2. IsInjective(worker_queue') /\ Range(worker_queue') = Range(worker_queue) \ {w}
    BY <2>1, TailOfNew, FunFacts DEF OneTokenPerWorker
  <2>3. ASSUME NEW v \in Workers, v # w PROVE TokenOK(v)'
    <3>1. SameTokens(v)
      BY <1>1, <2>1, <2>2, <2>3, SendTaskTokens DEF SameTokens
    <3>. QED  BY <1>2, <3>1, TokenFrame
  <2>4. TokenOK(w)'
    BY <1>1, <1>2, <2>1, <2>2, RefillTokens
  <2>. QED  BY <2>2, <2>3, <2>4 DEF OneTokenPerWorker, TokenOK
<1>. QED  BY <1>3, <1>4 DEF RecvTask

\* A message of a worker becomes its next task or its idle entry.
LEMMA RecvWorkerTokens ==
  ASSUME TInv, OneTokenPerWorker, NEW w \in Workers, RecvWorker(w)
  PROVE  OneTokenPerWorker'
<1>. DEFINE m == Head(backend[w])
<1>1. /\ backend' = [backend EXCEPT ![w] = Tail(@)] /\ workerPc' = workerPc
      /\ backend[w] # <<>>
  BY DEF RecvWorker, workerVars
<1>2. /\ Len(backend'[w]) = Len(backend[w]) - 1 /\ Len(backend'[w]) \in Nat
      /\ m \in Messages
      /\ \A v \in Workers \ {w} : backend'[v] = backend[v]
  BY <1>1, TailFacts, FunFacts
<1>3. \A v \in Workers : TokenOK(v)
  BY DEF OneTokenPerWorker, TokenOK
<1>4. PICK b \in Nat, i \in Nat : Len(backend'[w]) = b /\ Len(backend[w]) = b + 1 /\ Len(inbox[w]) = i
  <2>1. PICK b \in Nat : b = Len(backend'[w])
    BY <1>2
  <2>. QED  BY <1>2, <2>1, LenFacts
<1>5. CASE EnqueueIdle(w)
  <2>1. inbox' = inbox /\ worker_queue' = Append(worker_queue, w)
    BY <1>5 DEF EnqueueIdle
  <2>2. w \notin Range(worker_queue)
    <3>1. TokenOK(w)
      BY <1>3
    <3>. QED  BY <1>4, <3>1 DEF TokenOK, Tokens
  <2>3. IsInjective(worker_queue') /\ Range(worker_queue') = Range(worker_queue) \union {w}
    BY <2>1, <2>2, AppendNew, FunFacts DEF OneTokenPerWorker
  <2>4. ASSUME NEW v \in Workers, v # w PROVE TokenOK(v)'
    <3>1. SameTokens(v)
      BY <1>1, <1>2, <2>1, <2>3, <2>4 DEF SameTokens
    <3>. QED  BY <1>3, <3>1, TokenFrame
  <2>5. TokenOK(w)'
    <3>1. Len(inbox'[w]) = i /\ w \in Range(worker_queue') /\ workerPc' = workerPc
      BY <1>1, <1>4, <2>1, <2>3
    <3>2. TokenOK(w)
      BY <1>3
    <3>. QED  BY <1>4, <2>2, <3>1, <3>2 DEF TokenOK, Tokens
  <2>. QED  BY <2>3, <2>4, <2>5 DEF OneTokenPerWorker, TokenOK
<1>6. CASE pending_task_queue # <<>> /\ DispatchPending(w)
  <2>1. PICK t \in Tasks : SendTask(w, t) /\ worker_queue' = worker_queue
    BY <1>6 DEF DispatchPending, TInv, TypeOK
  <2>2. ASSUME NEW v \in Workers, v # w PROVE TokenOK(v)'
    <3>1. SameTokens(v)
      BY <1>1, <1>2, <2>1, <2>2, SendTaskTokens DEF SameTokens
    <3>. QED  BY <1>3, <3>1, TokenFrame
  <2>3. TokenOK(w)'
    BY <1>1, <1>2, <1>3, <2>1, RefillTokens
  <2>. QED  BY <2>1, <2>2, <2>3 DEF OneTokenPerWorker, TokenOK
<1>. QED  BY <1>5, <1>6 DEF RecvWorker, RecvDone, RecvReady

\* Every step keeps it.
LEMMA NextTokens == TInv /\ OneTokenPerWorker /\ [Next]_vars => OneTokenPerWorker'
<1>. SUFFICES ASSUME TInv, OneTokenPerWorker, [Next]_vars PROVE OneTokenPerWorker'
  OBVIOUS
<1>1. CASE Producer \/ Poll \/ UNCHANGED vars
  <2>1. UNCHANGED <<backend, inbox, workerPc, worker_queue>>
    BY <1>1 DEF Producer, Stamp, Send, Poll, vars, queueVars, workerVars
  <2>. QED  BY <2>1 DEF OneTokenPerWorker, Tokens
<1>. QED  BY <1>1, RecvTaskTokens, RecvWorkerTokens, WorkerTokens DEF Next, Broker

\* Every worker starts with the READY it has to send.
LEMMA InitTokens == Init => OneTokenPerWorker
  BY DEF Init, OneTokenPerWorker, Tokens, IsInjective, Range

\* The broker never gives a worker a second task while it has one, never lists
\* it twice as idle, and never loses track of one that is alive, however many
\* workers there are and however many of them die.
THEOREM TokensCorrect == Spec => []OneTokenPerWorker
<1>. QED  BY InitTokens, NextTokens, TInvariance, PTL DEF Spec
---------------------------------------------------------------------------
(* Pending tasks have a server *)

\* What the ends of a queue do to the set of its elements.
LEMMA RangeFacts ==
  ASSUME NEW S, NEW s \in Seq(S)
  PROVE  /\ \A x \in S : \A y \in Range(s) \union {x} : y \in Range(Append(s, x))
         /\ s # <<>> => \A y \in Range(s) : y = Head(s) \/ y \in Range(Tail(s))
<1>1. ASSUME NEW x \in S, NEW y \in Range(s) \union {x} PROVE y \in Range(Append(s, x))
  <2>1. /\ DOMAIN Append(s, x) = 1 .. Len(s) + 1 /\ Append(s, x)[Len(s) + 1] = x
        /\ \A i \in 1 .. Len(s) : Append(s, x)[i] = s[i]
        /\ DOMAIN s = 1 .. Len(s) /\ Len(s) \in Nat
    OBVIOUS
  <2>2. CASE y = x
    BY <2>1, <2>2 DEF Range
  <2>3. CASE y \in Range(s)
    <3>1. PICK i \in 1 .. Len(s) : s[i] = y
      BY <2>1, <2>3 DEF Range
    <3>. QED  BY <2>1, <3>1 DEF Range
  <2>. QED  BY <1>1, <2>2, <2>3
<1>2. ASSUME s # <<>>, NEW y \in Range(s) PROVE y = Head(s) \/ y \in Range(Tail(s))
  <2>1. /\ DOMAIN Tail(s) = 1 .. Len(s) - 1 /\ DOMAIN s = 1 .. Len(s)
        /\ \A i \in 1 .. Len(s) - 1 : Tail(s)[i] = s[i + 1]
        /\ Head(s) = s[1] /\ Len(s) \in Nat \ {0}
    BY <1>2
  <2>2. PICK i \in 1 .. Len(s) : s[i] = y
    BY <1>2, <2>1 DEF Range
  <2>3. CASE i # 1
    <3>1. i - 1 \in 1 .. Len(s) - 1 /\ Tail(s)[i - 1] = y
      BY <2>1, <2>2, <2>3
    <3>. QED  BY <2>1, <3>1 DEF Range
  <2>. QED  BY <2>1, <2>2, <2>3
<1>. QED  BY <1>1, <1>2

\* The strengthening: while nobody has died, a broker that has processed a task
\* knows a worker that is past its READY - a busy one, or one it lists as idle.
NoneDead == crashes = 0 => \A w \in Workers : workerPc[w] # "dead"
SomeServer == completed # {} /\ crashes = 0
                => \E w \in Workers : Busy(w) \/ w \in Range(worker_queue)

SInv == NoneDead /\ SomeServer /\ PendingHasServer

\* A worker that takes a task or finishes one stays busy.
LEMMA WorkerStaysBusy ==
  ASSUME TInv, NEW w \in Workers, Worker(w), NEW v \in Workers, Busy(v)
  PROVE  Busy(v)'
<1>1. PICK t \in Tasks : Holds(v, t)
  BY DEF Busy
<1>2. CASE v # w
  BY <1>1, <1>2, FunFacts DEF Busy, Holds, Worker, Start, Receive, Finish, SendMessage, TInv, TypeOK
<1>3. CASE v = w /\ Start(w)
  <2>1. /\ backend'[w] = Append(backend[w], READY) /\ UNCHANGED <<inbox, task_id>>
    BY <1>3, FunFacts DEF Start, SendMessage
  <2>2. \A m \in Range(backend[w]) : m \in Range(backend'[w])
    BY <2>1, FunFacts, RangeFacts, MessageFacts
  <2>. QED  BY <1>1, <1>3, <2>1, <2>2 DEF Busy, Holds
<1>4. CASE v = w /\ Receive(w)
  <2>1. /\ inbox'[w] = Tail(inbox[w]) /\ task_id'[w] = Head(inbox[w]) /\ inbox[w] # <<>>
        /\ inbox[w] \in Seq(Tasks) /\ backend' = backend /\ workerPc[w] = "recv"
    BY <1>4 DEF Receive, TInv, TypeOK
  <2>2. Head(inbox[w]) \in Tasks
    BY <2>1
  <2>. QED  BY <1>4, <2>1, <2>2 DEF Busy, Holds
<1>5. CASE v = w /\ Finish(w)
  <2>1. /\ backend'[w] = Append(backend[w], DONE(task_id[w])) /\ task_id[w] \in Tasks
    BY <1>5 DEF Finish, SendMessage, TInv, TypeOK, PcOK
  <2>2. DONE(task_id[w]) \in Range(backend'[w])
    BY <2>1, FunFacts, RangeFacts, MessageFacts
  <2>. QED  BY <1>5, <2>1, <2>2 DEF Busy, Holds
<1>. QED  BY <1>2, <1>3, <1>4, <1>5 DEF Worker

\* A task sent to a live worker makes it busy, and no other worker is disturbed.
LEMMA SendTaskBusy ==
  ASSUME TInv, NEW w \in Workers, NEW t \in Tasks, SendTask(w, t), task_id' = task_id
  PROVE  /\ workerPc[w] # "dead" => Busy(w)'
         /\ \A v \in Workers \ {w} : Busy(v) /\ backend'[v] = backend[v] => Busy(v)'
<1>1. ASSUME workerPc[w] # "dead" PROVE Busy(w)'
  <2>1. inbox'[w] = Append(inbox[w], t)
    BY <1>1, SendTaskTokens
  <2>2. t \in Range(inbox'[w])
    BY <2>1, FunFacts, RangeFacts
  <2>. QED  BY <2>2 DEF Busy, Holds
<1>2. ASSUME NEW v \in Workers \ {w}, Busy(v), backend'[v] = backend[v] PROVE Busy(v)'
  BY <1>2, SendTaskTokens DEF Busy, Holds
<1>. QED  BY <1>1, <1>2

\* A task is put in the pending queue only while no worker is idle.
LEMMA RecvTaskServer ==
  TInv /\ SInv /\ RecvTask => SInv'
<1>. SUFFICES ASSUME TInv, SInv, RecvTask PROVE SInv'
  OBVIOUS
<1>. DEFINE t == Head(frontend)
<1>1. /\ t \in Tasks
      /\ UNCHANGED <<backend, workerPc, task_id, crashes>>
  BY DEF RecvTask, TInv, TypeOK, PcOK, workerVars
<1>2. CASE RejectInvalid(t) \/ DropTask(t)
  <2>1. UNCHANGED <<worker_queue, pending_task_queue, inbox, completed>>
    BY <1>2 DEF RejectInvalid, DropTask, CountDropped, queueVars
  <2>. QED  BY <1>1, <2>1 DEF SInv, NoneDead, SomeServer, PendingHasServer, Busy, Holds
<1>3. CASE Pend(t)
  <2>1. UNCHANGED <<worker_queue, inbox, completed>> /\ worker_queue = <<>>
    BY <1>3 DEF Pend, tallyVars
  <2>2. Range(worker_queue) = {}
    BY <2>1 DEF Range
  <2>. QED  BY <1>1, <2>1, <2>2 DEF SInv, NoneDead, SomeServer, PendingHasServer, Busy, Holds
<1>4. CASE AssignToIdle(t)
  <2>1. PICK w \in Workers : w = Head(worker_queue) /\ SendTask(w, t)
    BY <1>4, FunFacts DEF AssignToIdle
  <2>2. UNCHANGED <<completed, pending_task_queue>>
    BY <1>4 DEF AssignToIdle, tallyVars
  <2>3. NoneDead'
    BY <1>1 DEF SInv, NoneDead
  <2>4. crashes = 0 => Busy(w)'
    BY <1>1, <2>1, SendTaskBusy DEF SInv, NoneDead
  <2>. QED  BY <1>1, <2>2, <2>3, <2>4 DEF SInv, SomeServer, PendingHasServer
<1>. QED  BY <1>2, <1>3, <1>4 DEF RecvTask

\* A worker whose READY is on its way holds no task.
LEMMA ReadyNotBusy ==
  ASSUME TInv, OneTokenPerWorker, NEW w \in Workers, backend[w] # <<>>,
         Head(backend[w]).kind = "READY"
  PROVE  ~Busy(w)
<1>1. PICK b \in Nat, i \in Nat : Len(backend[w]) = b /\ Len(inbox[w]) = i
  BY LenFacts
<1>2. TokenOK(w) /\ b # 0
  BY <1>1, FunFacts DEF OneTokenPerWorker, TokenOK
<1>3. b = 1 /\ i = 0 /\ workerPc[w] # "work"
  BY <1>1, <1>2 DEF TokenOK, Tokens
<1>4. Range(inbox[w]) = {}
  BY <1>1, <1>3, FunFacts DEF Range
<1>5. task_id[w] \notin Tasks
  BY <1>3 DEF TInv, PcOK
<1>6. \A m \in Range(backend[w]) : m = Head(backend[w])
  BY <1>1, <1>3, FunFacts DEF Range
<1>7. \A t \in Tasks : DONE(t) \notin Range(backend[w])
  BY <1>6 DEF DONE
<1>. QED  BY <1>4, <1>5, <1>7 DEF Busy, Holds

\* A DONE leaves a pending task behind only if its worker has got another one.
LEMMA RecvWorkerServer ==
  ASSUME TInv, OneTokenPerWorker, SInv, NEW w \in Workers, RecvWorker(w)
  PROVE  SInv'
<1>. DEFINE m == Head(backend[w])
<1>1. /\ backend' = [backend EXCEPT ![w] = Tail(@)]
      /\ UNCHANGED <<workerPc, task_id, crashes>> /\ backend[w] # <<>>
  BY DEF RecvWorker, workerVars
<1>2. \A v \in Workers \ {w} : backend'[v] = backend[v]
  BY <1>1, FunFacts
<1>3. NoneDead'
  BY <1>1 DEF SInv, NoneDead
<1>4. CASE pending_task_queue # <<>> /\ DispatchPending(w)
  <2>1. PICK t \in Tasks : SendTask(w, t)
    BY <1>4 DEF DispatchPending, TInv, TypeOK
  <2>2. crashes = 0 => Busy(w)'
    BY <1>1, <2>1, SendTaskBusy DEF SInv, NoneDead
  <2>. QED  BY <1>1, <1>3, <2>2 DEF SInv, SomeServer, PendingHasServer
<1>5. CASE EnqueueIdle(w)
  <2>1. inbox' = inbox /\ w \in Range(worker_queue') /\ UNCHANGED pending_task_queue
    BY <1>5, FunFacts, RangeFacts DEF EnqueueIdle
  <2>2. CASE RecvReady(w) /\ m.kind = "READY"
    <3>1. completed' = completed /\ ~Busy(w)
      BY <1>1, <2>2, ReadyNotBusy DEF RecvReady, tallyVars
    <3>2. \A v \in Workers : Busy(v) => Busy(v)'
      BY <1>1, <1>2, <2>1, <3>1 DEF Busy, Holds
    <3>. QED  BY <1>1, <1>3, <2>1, <3>1, <3>2 DEF SInv, SomeServer, PendingHasServer
  <2>3. CASE pending_task_queue = <<>>
    BY <1>3, <2>1, <2>3 DEF SInv, SomeServer, PendingHasServer
  <2>. QED  BY <1>4, <2>2, <2>3 DEF RecvWorker, RecvDone
<1>. QED  BY <1>4, <1>5 DEF RecvWorker, RecvDone, RecvReady

\* A worker keeps the task it holds until its DONE has been read.
LEMMA WorkerServer ==
  ASSUME TInv, SInv, NEW w \in Workers, Worker(w) \/ Crash(w)
  PROVE  SInv'
<1>1. CASE Worker(w)
  <2>1. UNCHANGED <<worker_queue, pending_task_queue, completed, crashes>>
    BY <1>1 DEF Worker, Start, Receive, Finish, queueVars, tallyVars
  <2>2. \A v \in Workers : Busy(v) => Busy(v)'
    BY <1>1, WorkerStaysBusy
  <2>3. \A v \in Workers : workerPc[v] # "dead" => workerPc'[v] # "dead"
    BY <1>1, FunFacts DEF Worker, Start, Receive, Finish
  <2>. QED  BY <2>1, <2>2, <2>3 DEF SInv, NoneDead, SomeServer, PendingHasServer
<1>2. CASE Crash(w)
  <2>1. crashes' # 0
    BY <1>2 DEF Crash, TInv, TypeOK
  <2>. QED  BY <2>1 DEF SInv, NoneDead, SomeServer, PendingHasServer
<1>. QED  BY <1>1, <1>2

\* Every step keeps a server for the pending tasks.
LEMMA NextServer ==
  TInv /\ OneTokenPerWorker /\ SInv /\ [Next]_vars => SInv'
<1>. SUFFICES ASSUME TInv, OneTokenPerWorker, SInv, [Next]_vars PROVE SInv'
  OBVIOUS
<1>1. CASE Producer \/ Poll \/ UNCHANGED vars
  <2>1. UNCHANGED <<backend, inbox, workerPc, task_id, worker_queue,
                    pending_task_queue, completed, crashes>>
    BY <1>1 DEF Producer, Stamp, Send, Poll, vars, queueVars, tallyVars, workerVars
  <2>. QED  BY <2>1 DEF SInv, NoneDead, SomeServer, PendingHasServer, Busy, Holds
<1>. QED  BY <1>1, RecvTaskServer, RecvWorkerServer, WorkerServer DEF Next, Broker

\* Once a task has been processed, and while no worker has died, the pending
\* tasks never wait for nothing: some worker holds a task.
THEOREM PendingServed == Spec => []PendingHasServer
<1>1. Init => SInv
  BY DEF Init, SInv, NoneDead, SomeServer, PendingHasServer
<1>2. SInv => PendingHasServer
  BY DEF SInv
<1>. QED  BY <1>1, <1>2, NextServer, TInvariance, TokensCorrect, PTL DEF Spec
---------------------------------------------------------------------------
(* Every task is in one place *)

\* Where a task can be, apart from the workers and the three ends.
Front(t) == t \in Range(frontend)
Waits(t) == t \in Range(pending_task_queue)
Held(t)  == \E w \in Workers : Holds(w, t)

\* A task is somewhere, and if so, nowhere else.
Somewhere(t) == \/ Front(t) \/ Waits(t) \/ Held(t)
                \/ t \in completed \/ t \in discarded \/ t \in lost
Apart(t) ==
  /\ Front(t) => ~Waits(t) /\ ~Held(t) /\ t \notin completed \union discarded \union lost
  /\ Waits(t) => ~Held(t) /\ t \notin completed \union discarded \union lost
  /\ Held(t)  => t \notin completed \union discarded \union lost
  /\ t \in completed => t \notin discarded \union lost
  /\ t \in discarded => t \notin lost
  /\ \A v, w \in Workers : Holds(v, t) /\ Holds(w, t) => v = w

OneSite(t) == Apart(t) /\ (t < task_sequence <=> Somewhere(t))

\* The invariant: the two queues hold a task once, and no place has a task that
\* another place has.
PlaceInv == /\ IsInjective(frontend) /\ IsInjective(pending_task_queue)
            /\ \A t \in Tasks : OneSite(t)

\* A task that no step of the places concerns stays where it is.
SameSite(t) ==
  /\ Front(t)' <=> Front(t)
  /\ Waits(t)' <=> Waits(t)
  /\ \A w \in Workers : Holds(w, t)' <=> Holds(w, t)
  /\ t \in completed' <=> t \in completed
  /\ t \in discarded' <=> t \in discarded
  /\ t \in lost' <=> t \in lost

LEMMA SiteFrame ==
  ASSUME NEW t \in Tasks, OneSite(t), SameSite(t), task_sequence' = task_sequence
  PROVE  OneSite(t)'
<1>1. Held(t)' <=> Held(t)
  BY DEF SameSite, Held
<1>. QED  BY <1>1 DEF OneSite, Apart, Somewhere, SameSite

\* The places of the frontend and of the pending tasks as their queues have them.
LEMMA QueueFacts ==
  ASSUME TInv
  PROVE  /\ frontend \in Seq(Tasks) /\ pending_task_queue \in Seq(Tasks)
         /\ task_id \in [Workers -> Tasks \union {NoTask}]
         /\ completed \subseteq Tasks /\ discarded \subseteq Tasks /\ lost \subseteq Tasks
BY DEF TInv, TypeOK

\* The empty sequence has no elements, and nothing else has none.
LEMMA EmptyRange ==
  ASSUME NEW S, NEW s \in Seq(S)
  PROVE  /\ s = <<>> <=> Len(s) = 0
         /\ s = <<>> <=> Range(s) = {}
         /\ s # <<>> => Head(s) \in Range(s)
<1>1. DOMAIN s = 1 .. Len(s) /\ Len(s) \in Nat /\ (s = <<>> <=> Len(s) = 0)
  BY EmptySeq
<1>2. Len(s) = 0 => Range(s) = {}
  BY <1>1 DEF Range
<1>3. s # <<>> => Head(s) \in Range(s)
  <2>. SUFFICES ASSUME s # <<>> PROVE Head(s) \in Range(s)
    OBVIOUS
  <2>1. 1 \in DOMAIN s /\ Head(s) = s[1]
    BY <1>1
  <2>. QED  BY <2>1 DEF Range
<1>. QED  BY <1>1, <1>2, <1>3

\* A worker with one token: what it stands for is in one place, and the other
\* places of that worker are empty.
LEMMA TokenPlaces ==
  ASSUME TInv, OneTokenPerWorker, NEW w \in Workers
  PROVE  /\ w \in Range(worker_queue) =>
              backend[w] = <<>> /\ inbox[w] = <<>> /\ task_id[w] \notin Tasks
         /\ backend[w] # <<>> =>
              /\ Len(backend[w]) = 1 /\ inbox[w] = <<>> /\ task_id[w] \notin Tasks
              /\ w \notin Range(worker_queue)
         /\ inbox[w] # <<>> =>
              Len(inbox[w]) = 1 /\ backend[w] = <<>> /\ task_id[w] \notin Tasks
         /\ task_id[w] \in Tasks => backend[w] = <<>> /\ inbox[w] = <<>>
<1>1. PICK b \in Nat, i \in Nat : Len(backend[w]) = b /\ Len(inbox[w]) = i
  BY LenFacts
<1>2. TokenOK(w)
  BY DEF OneTokenPerWorker, TokenOK
<1>3. /\ w \in Range(worker_queue) => b = 0 /\ i = 0 /\ workerPc[w] # "work"
      /\ b # 0 => b = 1 /\ i = 0 /\ workerPc[w] # "work" /\ w \notin Range(worker_queue)
      /\ i # 0 => i = 1 /\ b = 0 /\ workerPc[w] # "work"
      /\ workerPc[w] = "work" => b = 0 /\ i = 0
  BY <1>1, <1>2 DEF TokenOK, Tokens
<1>4. (b = 0 <=> backend[w] = <<>>) /\ (i = 0 <=> inbox[w] = <<>>)
  BY <1>1, FunFacts, EmptyRange
<1>5. workerPc[w] = "work" <=> task_id[w] \in Tasks
  BY DEF TInv, PcOK
<1>. QED  BY <1>1, <1>3, <1>4, <1>5

\* What a worker with one token holds.
LEMMA HoldsFacts ==
  ASSUME TInv, OneTokenPerWorker, NEW w \in Workers
  PROVE  /\ w \in Range(worker_queue) => \A t \in Tasks : ~Holds(w, t)
         /\ backend[w] # <<>> =>
              \A t \in Tasks : Holds(w, t) <=> Head(backend[w]) = DONE(t)
         /\ inbox[w] # <<>> => \A t \in Tasks : Holds(w, t) <=> Head(inbox[w]) = t
         /\ \A t, u \in Tasks : Holds(w, t) /\ Holds(w, u) => t = u
<1>1. \A t \in Tasks : DONE(t).task = t
  BY DEF DONE
<1>2. CASE backend[w] # <<>>
  <2>1. inbox[w] = <<>> /\ task_id[w] \notin Tasks /\ Len(backend[w]) = 1
        /\ w \notin Range(worker_queue)
    BY <1>2, TokenPlaces
  <2>2. Range(inbox[w]) = {} /\ Range(backend[w]) = {Head(backend[w])}
    BY <2>1, FunFacts DEF Range
  <2>3. \A t \in Tasks : Holds(w, t) <=> Head(backend[w]) = DONE(t)
    BY <2>1, <2>2 DEF Holds
  <2>. QED  BY <1>1, <2>1, <2>3
<1>3. CASE inbox[w] # <<>>
  <2>1. backend[w] = <<>> /\ task_id[w] \notin Tasks /\ Len(inbox[w]) = 1
        /\ w \notin Range(worker_queue)
    BY <1>3, TokenPlaces
  <2>2. Range(backend[w]) = {} /\ Range(inbox[w]) = {Head(inbox[w])}
    BY <2>1, FunFacts DEF Range
  <2>3. \A t \in Tasks : Holds(w, t) <=> Head(inbox[w]) = t
    BY <2>1, <2>2 DEF Holds
  <2>. QED  BY <2>1, <2>3
<1>4. CASE backend[w] = <<>> /\ inbox[w] = <<>>
  <2>1. Range(backend[w]) = {} /\ Range(inbox[w]) = {}
    BY <1>4 DEF Range
  <2>2. \A t \in Tasks : Holds(w, t) <=> task_id[w] = t
    BY <2>1 DEF Holds
  <2>. QED  BY <1>4, <2>2, TokenPlaces
<1>. QED  BY <1>2, <1>3, <1>4

\* The elements of a sequence to which one is added, or of which the head is taken.
LEMMA AppendRange ==
  ASSUME NEW S, NEW s \in Seq(S), NEW x \in S
  PROVE  Range(Append(s, x)) = Range(s) \union {x}
<1>1. /\ DOMAIN Append(s, x) = 1 .. Len(s) + 1 /\ Append(s, x)[Len(s) + 1] = x
      /\ \A i \in 1 .. Len(s) : Append(s, x)[i] = s[i]
      /\ DOMAIN s = 1 .. Len(s) /\ Len(s) \in Nat
  OBVIOUS
<1>2. Range(Append(s, x)) \subseteq Range(s) \union {x}
  BY <1>1 DEF Range
<1>. QED  BY <1>2, RangeFacts

LEMMA TailRange ==
  ASSUME NEW S, NEW s \in Seq(S), s # <<>>
  PROVE  Range(s) = Range(Tail(s)) \union {Head(s)}
<1>1. /\ DOMAIN Tail(s) = 1 .. Len(s) - 1 /\ DOMAIN s = 1 .. Len(s)
      /\ \A i \in 1 .. Len(s) - 1 : Tail(s)[i] = s[i + 1]
      /\ Head(s) = s[1] /\ Len(s) \in Nat \ {0}
  OBVIOUS
<1>2. \A x \in Range(Tail(s)) : x \in Range(s)
  <2>. SUFFICES ASSUME NEW i \in 1 .. Len(s) - 1 PROVE Tail(s)[i] \in Range(s)
    BY <1>1 DEF Range
  <2>1. i + 1 \in DOMAIN s /\ Tail(s)[i] = s[i + 1]
    BY <1>1
  <2>. QED  BY <2>1 DEF Range
<1>. QED  BY <1>2, RangeFacts, EmptyRange
\* A worker that takes a task or finishes one keeps it.
LEMMA WorkerHolds ==
  ASSUME TInv, NEW w \in Workers, Worker(w), NEW v \in Workers, NEW t \in Tasks
  PROVE  Holds(v, t)' <=> Holds(v, t)
<1>1. CASE v # w
  BY <1>1, FunFacts, QueueFacts DEF Holds, Worker, Start, Receive, Finish, SendMessage
<1>2. CASE v = w /\ Start(w)
  <2>1. /\ backend'[w] = Append(backend[w], READY) /\ UNCHANGED <<inbox, task_id>>
    BY <1>2, FunFacts DEF Start, SendMessage
  <2>2. Range(backend'[w]) = Range(backend[w]) \union {READY}
    BY <2>1, FunFacts, MessageFacts, AppendRange
  <2>3. DONE(t) # READY
    BY DEF DONE, READY
  <2>. QED  BY <1>2, <2>1, <2>2, <2>3 DEF Holds
<1>3. CASE v = w /\ Receive(w)
  <2>1. /\ inbox'[w] = Tail(inbox[w]) /\ task_id'[w] = Head(inbox[w]) /\ inbox[w] # <<>>
        /\ backend' = backend /\ workerPc[w] = "recv"
    BY <1>3, FunFacts, QueueFacts DEF Receive
  <2>2. task_id[w] \notin Tasks
    BY <2>1 DEF TInv, PcOK
  <2>3. Range(inbox[w]) = Range(inbox'[w]) \union {task_id'[w]}
    BY <2>1, FunFacts, TailRange
  <2>. QED  BY <1>3, <2>1, <2>2, <2>3 DEF Holds
<1>4. CASE v = w /\ Finish(w)
  <2>1. /\ backend'[w] = Append(backend[w], DONE(task_id[w])) /\ task_id'[w] = NoTask
        /\ inbox' = inbox /\ task_id[w] \in Tasks
    BY <1>4, FunFacts, QueueFacts DEF Finish, SendMessage, TInv, PcOK
  <2>2. Range(backend'[w]) = Range(backend[w]) \union {DONE(task_id[w])}
    BY <2>1, FunFacts, MessageFacts, AppendRange
  <2>3. DONE(t) = DONE(task_id[w]) <=> t = task_id[w]
    BY DEF DONE
  <2>4. t # NoTask
    BY NoTaskFact
  <2>. QED  BY <1>4, <2>1, <2>2, <2>3, <2>4 DEF Holds
<1>. QED  BY <1>1, <1>2, <1>3, <1>4 DEF Worker

\* The steps of a worker move no task to another place.
LEMMA WorkerPlaces ==
  ASSUME TInv, PlaceInv, NEW w \in Workers, Worker(w)
  PROVE  PlaceInv'
<1>1. UNCHANGED <<frontend, pending_task_queue, completed, discarded, lost, task_sequence>>
  BY DEF Worker, Start, Receive, Finish, producerVars, queueVars, tallyVars
<1>2. ASSUME NEW t \in Tasks PROVE SameSite(t)
  BY <1>1, WorkerHolds DEF SameSite, Front, Waits
<1>. QED  BY <1>1, <1>2, SiteFrame DEF PlaceInv

\* A worker that dies takes its task with it, unless its DONE has been sent.
LEMMA CrashPlaces ==
  ASSUME TInv, OneTokenPerWorker, PlaceInv, NEW w \in Workers, Crash(w)
  PROVE  PlaceInv'
<1>1. UNCHANGED <<frontend, pending_task_queue, completed, discarded, task_sequence>>
  BY DEF Crash, producerVars, queueVars, tallyVars
<1>2. PICK n \in 0 .. Len(backend[w]) :
        /\ backend' = [backend EXCEPT ![w] = SubSeq(@, 1, n)]
        /\ lost' = (lost \union Range(inbox[w]) \union {task_id[w]}
                     \union {backend[w][i].task : i \in n + 1 .. Len(backend[w])})
                    \ {NoTask}
  BY DEF Crash
<1>3. /\ inbox'[w] = <<>> /\ task_id'[w] = NoTask
      /\ \A v \in Workers \ {w} : /\ backend'[v] = backend[v] /\ inbox'[v] = inbox[v]
                                  /\ task_id'[v] = task_id[v]
  BY <1>2, FunFacts, QueueFacts DEF Crash
<1>4. Range(inbox'[w]) = {} /\ task_id'[w] \notin Tasks
  BY <1>3, NoTaskFact DEF Range
<1>5. ASSUME NEW t \in Tasks PROVE OneSite(t)'
  <2>1. \A v \in Workers \ {w} : Holds(v, t)' <=> Holds(v, t)
    BY <1>3 DEF Holds
  <2>2. OneSite(t)
    BY DEF PlaceInv
  <2>3. CASE ~Holds(w, t)
    <3>1. t \notin Range(inbox[w]) /\ t # task_id[w]
      BY <2>3 DEF Holds
    <3>2. \A i \in n + 1 .. Len(backend[w]) : backend[w][i].task # t
      <4>. SUFFICES ASSUME NEW i \in n + 1 .. Len(backend[w]), backend[w][i].task = t
                    PROVE  FALSE
        OBVIOUS
      <4>1. i \in 1 .. Len(backend[w]) /\ i \in DOMAIN backend[w]
        BY FunFacts
      <4>2. backend[w][i] = DONE(t)
        BY <4>1, BackendFacts, MessageFacts, NoTaskFact
      <4>. QED  BY <2>3, <4>1, <4>2 DEF Holds, Range
    <3>3. t \in lost' <=> t \in lost
      BY <1>2, <3>1, <3>2, NoTaskFact
    <3>4. ~Holds(w, t)'
      <4>1. DONE(t) \notin Range(SubSeq(backend[w], 1, n))
        BY <2>3, FunFacts DEF Holds, Range
      <4>2. backend'[w] = SubSeq(backend[w], 1, n)
        BY <1>2, FunFacts
      <4>. QED  BY <1>4, <4>1, <4>2 DEF Holds
    <3>5. SameSite(t)
      BY <1>1, <2>1, <2>3, <3>3, <3>4 DEF SameSite, Front, Waits
    <3>. QED  BY <1>1, <2>2, <3>5, SiteFrame
  <2>4. CASE Holds(w, t) /\ backend[w] # <<>> /\ n # 0
    <3>1. Len(backend[w]) = 1 /\ inbox[w] = <<>> /\ task_id[w] \notin Tasks
      BY <2>4, TokenPlaces
    <3>2. n = 1 /\ n + 1 .. Len(backend[w]) = {} /\ Range(inbox[w]) = {}
      BY <2>4, <3>1 DEF Range
    <3>3. t \in lost' <=> t \in lost
      BY <1>2, <3>1, <3>2, NoTaskFact
    <3>4. backend' = backend
      BY <1>2, <3>1, <3>2, FunFacts
    <3>5. Holds(w, t)'
      BY <2>4, <3>1, <3>2, <3>4 DEF Holds
    <3>6. SameSite(t)
      BY <1>1, <2>1, <2>4, <3>3, <3>5 DEF SameSite, Front, Waits
    <3>. QED  BY <1>1, <2>2, <3>6, SiteFrame
  <2>5. CASE Holds(w, t) /\ (backend[w] = <<>> \/ n = 0)
    <3>1. t \in lost'
      <4>1. CASE t \in Range(inbox[w]) \/ task_id[w] = t
        BY <1>2, <4>1, NoTaskFact
      <4>2. CASE DONE(t) \in Range(backend[w])
        <5>1. PICK i \in 1 .. Len(backend[w]) : backend[w][i] = DONE(t)
          BY <4>2, FunFacts DEF Range
        <5>2. backend[w] # <<>> /\ n = 0
          BY <2>5, <5>1
        <5>3. i \in n + 1 .. Len(backend[w]) /\ backend[w][i].task = t
          BY <5>1, <5>2 DEF DONE
        <5>. QED  BY <1>2, <5>3, NoTaskFact
      <4>. QED  BY <2>5, <4>1, <4>2 DEF Holds
    <3>2. backend'[w] = <<>>
      BY <1>2, <2>5, FunFacts
    <3>3. ~Holds(w, t)'
      <4>1. Range(backend'[w]) = {}
        BY <3>2 DEF Range
      <4>. QED  BY <1>4, <4>1 DEF Holds
    <3>4. /\ Held(t) /\ ~Held(t)' /\ \A v \in Workers : ~Holds(v, t)'
      <4>1. \A v \in Workers \ {w} : ~Holds(v, t)
        BY <2>2, <2>5 DEF OneSite, Apart
      <4>. QED  BY <2>1, <2>5, <3>3, <4>1 DEF Held
    <3>. QED  BY <1>1, <2>2, <3>1, <3>4 DEF OneSite, Apart, Somewhere, Front, Waits
  <2>. QED  BY <2>3, <2>4, <2>5
<1>. QED  BY <1>1, <1>5 DEF PlaceInv
\* The steps of the producer: the task that is sent was nowhere before.
LEMMA ProducerPlaces == TInv /\ PlaceInv /\ Producer => PlaceInv'
<1>. SUFFICES ASSUME TInv, PlaceInv, Producer PROVE PlaceInv'
  OBVIOUS
<1>1. UNCHANGED <<backend, inbox, task_id, pending_task_queue, completed, discarded, lost>>
  BY DEF Producer, Stamp, Send, queueVars, tallyVars, workerVars
<1>2. CASE Stamp
  <2>1. UNCHANGED <<frontend, task_sequence>>
    BY <1>2 DEF Stamp
  <2>2. \A t \in Tasks : SameSite(t)
    BY <1>1, <2>1 DEF SameSite, Front, Waits, Holds
  <2>. QED  BY <1>1, <2>1, <2>2, SiteFrame DEF PlaceInv
<1>3. CASE Send
  <2>. DEFINE s == task_sequence
  <2>1. s \in Tasks /\ frontend' = Append(frontend, s) /\ task_sequence' = s + 1
    BY <1>3, CountsAssumption DEF Send, TInv, TypeOK, PcOK, Tasks
  <2>2. OneSite(s) /\ ~(s < s)
    BY <2>1 DEF PlaceInv, Tasks
  <2>3. ~Front(s) /\ ~Waits(s) /\ ~Held(s) /\ s \notin completed \union discarded \union lost
    BY <2>2 DEF OneSite, Somewhere
  <2>4. IsInjective(frontend')
    BY <2>1, <2>3, QueueFacts, AppendNew DEF Front, PlaceInv
  <2>5. Range(frontend') = Range(frontend) \union {s}
    BY <2>1, QueueFacts, AppendRange
  <2>6. \A t \in Tasks : /\ Waits(t)' <=> Waits(t)
                         /\ \A w \in Workers : Holds(w, t)' <=> Holds(w, t)
                         /\ Held(t)' <=> Held(t)
    BY <1>1 DEF Waits, Holds, Held
  <2>7. ASSUME NEW t \in Tasks PROVE OneSite(t)'
    <3>1. OneSite(t) /\ (t < s + 1 <=> t < s \/ t = s)
      BY <2>1 DEF PlaceInv, Tasks
    <3>2. Front(t)' <=> Front(t) \/ t = s
      BY <2>5 DEF Front
    <3>. QED  BY <1>1, <2>1, <2>3, <2>6, <3>1, <3>2 DEF OneSite, Apart, Somewhere
  <2>. QED  BY <1>1, <2>4, <2>7 DEF PlaceInv
<1>. QED  BY <1>2, <1>3 DEF Producer

\* A task that is sent to a worker with empty hands: the worker holds it, and
\* nothing else, or it is lost.
LEMMA SendTaskSites ==
  ASSUME TInv, NEW w \in Workers, NEW p \in Tasks, SendTask(w, p), task_id' = task_id,
         backend'[w] = <<>>, inbox[w] = <<>>, task_id[w] \notin Tasks,
         \A v \in Workers \ {w} : backend'[v] = backend[v]
  PROVE  /\ \A v \in Workers \ {w}, t \in Tasks : Holds(v, t)' <=> Holds(v, t)
         /\ \A t \in Tasks \ {p} : ~Holds(w, t)' /\ (t \in lost' <=> t \in lost)
         /\ \/ ~Holds(w, p)' /\ p \in lost'
            \/ Holds(w, p)' /\ lost' = lost
<1>1. \A v \in Workers \ {w} : inbox'[v] = inbox[v]
  BY SendTaskTokens
<1>2. \A v \in Workers \ {w}, t \in Tasks : Holds(v, t)' <=> Holds(v, t)
  BY <1>1 DEF Holds
<1>3. Range(backend'[w]) = {} /\ Range(inbox[w]) = {} /\ task_id'[w] \notin Tasks
  BY DEF Range
<1>4. CASE workerPc[w] = "dead"
  <2>1. lost' = lost \union {p} /\ inbox'[w] = inbox[w]
    BY <1>4 DEF SendTask
  <2>. QED  BY <1>2, <1>3, <2>1 DEF Holds
<1>5. CASE workerPc[w] # "dead"
  <2>1. lost' = lost /\ inbox'[w] = Append(inbox[w], p)
    BY <1>5, SendTaskTokens DEF SendTask
  <2>2. Append(<<>>, p) = <<p>>
    OBVIOUS
  <2>3. Range(inbox'[w]) = {p}
    BY <2>1, <2>2 DEF Range
  <2>. QED  BY <1>2, <1>3, <2>1, <2>3 DEF Holds
<1>. QED  BY <1>4, <1>5

\* The task that the broker takes from the producer goes to one of four places.
LEMMA RecvTaskPlaces ==
  ASSUME TInv, OneTokenPerWorker, PlaceInv, RecvTask
  PROVE  PlaceInv'
<1>0. PICK p \in Tasks : p = Head(frontend)
  BY HeadTask
<1>1. /\ frontend # <<>> /\ frontend' = Tail(frontend)
      /\ UNCHANGED <<backend, task_id, task_sequence>>
  BY DEF RecvTask, TInv, TypeOK, PcOK, producerVars, workerVars
<1>2. IsInjective(frontend') /\ Range(frontend') = Range(frontend) \ {p}
  BY <1>0, <1>1, QueueFacts, TailOfNew DEF PlaceInv
<1>3. Front(p) /\ OneSite(p)
  BY <1>0, <1>1, QueueFacts, EmptyRange DEF Front, PlaceInv
<1>4. \A t \in Tasks : OneSite(t) /\ (Front(t)' <=> Front(t) /\ t # p)
  BY <1>2 DEF Front, PlaceInv
<1>5. CASE RejectInvalid(p) \/ DropTask(p)
  <2>1. /\ discarded' = discarded \union {p}
        /\ UNCHANGED <<pending_task_queue, inbox, completed, lost>>
    BY <1>5 DEF RejectInvalid, DropTask, CountDropped, queueVars
  <2>2. \A t \in Tasks : /\ Waits(t)' <=> Waits(t)
                         /\ \A w \in Workers : Holds(w, t)' <=> Holds(w, t)
                         /\ Held(t)' <=> Held(t)
    BY <1>1, <2>1 DEF Waits, Holds, Held
  <2>3. \A t \in Tasks : OneSite(t)'
    BY <1>1, <1>3, <1>4, <2>1, <2>2 DEF OneSite, Apart, Somewhere
  <2>. QED  BY <1>2, <2>1, <2>3 DEF PlaceInv
<1>6. CASE Pend(p)
  <2>1. /\ pending_task_queue' = Append(pending_task_queue, p)
        /\ UNCHANGED <<inbox, completed, discarded, lost>>
    BY <1>6 DEF Pend, tallyVars
  <2>2. \A t \in Tasks : /\ \A w \in Workers : Holds(w, t)' <=> Holds(w, t)
                         /\ Held(t)' <=> Held(t)
    BY <1>1, <2>1 DEF Holds, Held
  <2>3. ~Waits(p)
    BY <1>3 DEF OneSite, Apart
  <2>4. /\ IsInjective(pending_task_queue')
        /\ Range(pending_task_queue') = Range(pending_task_queue) \union {p}
    BY <1>1, <2>1, <2>3, QueueFacts, AppendNew DEF PlaceInv, Waits
  <2>5. \A t \in Tasks : Waits(t)' <=> Waits(t) \/ t = p
    BY <2>4 DEF Waits
  <2>6. \A t \in Tasks : OneSite(t)'
    BY <1>1, <1>3, <1>4, <2>1, <2>2, <2>5 DEF OneSite, Apart, Somewhere
  <2>. QED  BY <1>2, <2>4, <2>6 DEF PlaceInv
<1>7. CASE AssignToIdle(p)
  <2>1. PICK w \in Workers : w = Head(worker_queue)
    BY <1>7, FunFacts, EmptyRange DEF AssignToIdle
  <2>2. w \in Range(worker_queue) /\ SendTask(w, p)
        /\ UNCHANGED <<pending_task_queue, completed, discarded>>
    BY <1>7, <2>1, FunFacts, EmptyRange DEF AssignToIdle, tallyVars
  <2>3. backend[w] = <<>> /\ inbox[w] = <<>> /\ task_id[w] \notin Tasks
    BY <2>2, TokenPlaces
  <2>4. \A t \in Tasks : ~Holds(w, t)
    BY <2>2, HoldsFacts
  <2>5. /\ \A v \in Workers \ {w}, t \in Tasks : Holds(v, t)' <=> Holds(v, t)
        /\ \A t \in Tasks \ {p} : ~Holds(w, t)' /\ (t \in lost' <=> t \in lost)
        /\ \/ ~Holds(w, p)' /\ p \in lost'
           \/ Holds(w, p)' /\ lost' = lost
    BY <1>1, <2>2, <2>3, SendTaskSites
  <2>6. \A t \in Tasks : Waits(t)' <=> Waits(t)
    BY <2>2 DEF Waits
  <2>7. ASSUME NEW t \in Tasks, t # p PROVE OneSite(t)'
    <3>1. SameSite(t)
      BY <1>4, <2>2, <2>4, <2>5, <2>6, <2>7 DEF SameSite
    <3>. QED  BY <1>1, <1>4, <3>1, SiteFrame
  <2>8. OneSite(p)'
    <3>1. \A v \in Workers : ~Holds(v, p)
      BY <1>3, <1>1 DEF OneSite, Apart, Held
    <3>2. \A v \in Workers : Holds(v, p)' => v = w
      BY <1>1, <2>5, <3>1
    <3>3. Held(p)' <=> Holds(w, p)'
      BY <3>2 DEF Held
    <3>4. p \notin lost /\ ~Front(p)' /\ ~Waits(p)' /\ p \notin completed' \union discarded'
      BY <1>1, <1>3, <1>4, <2>2, <2>6 DEF OneSite, Apart
    <3>. QED  BY <1>1, <1>3, <2>5, <3>2, <3>3, <3>4 DEF OneSite, Apart, Somewhere
  <2>. QED  BY <1>2, <2>2, <2>7, <2>8 DEF PlaceInv
<1>. QED  BY <1>0, <1>5, <1>6, <1>7 DEF RecvTask

\* A task whose DONE the broker reads is completed; the first that waits, if any,
\* takes its place with the worker.
LEMMA RecvWorkerPlaces ==
  ASSUME TInv, OneTokenPerWorker, PlaceInv, NEW w \in Workers, RecvWorker(w)
  PROVE  PlaceInv'
<1>0. PICK m \in Messages : m = Head(backend[w])
  BY FunFacts DEF RecvWorker
<1>1. /\ backend[w] # <<>> /\ backend' = [backend EXCEPT ![w] = Tail(@)]
      /\ UNCHANGED <<frontend, task_id, task_sequence>>
  BY DEF RecvWorker, producerVars, workerVars
<1>2. /\ Len(backend[w]) = 1 /\ inbox[w] = <<>> /\ task_id[w] \notin Tasks
      /\ \A t \in Tasks : Holds(w, t) <=> m = DONE(t)
  BY <1>0, <1>1, TokenPlaces, HoldsFacts
<1>3. backend'[w] = <<>> /\ \A v \in Workers \ {w} : backend'[v] = backend[v]
  <2>1. Tail(backend[w]) \in Seq(Messages) /\ Len(Tail(backend[w])) = 0
    BY <1>1, <1>2, FunFacts, TailFacts
  <2>2. Tail(backend[w]) = <<>>
    BY <2>1, EmptyRange
  <2>. QED  BY <1>1, <2>2, FunFacts
<1>4. Range(backend'[w]) = {} /\ Range(inbox[w]) = {} /\ task_id'[w] \notin Tasks
  BY <1>1, <1>2, <1>3 DEF Range
<1>5. \A t \in Tasks : OneSite(t) /\ (Front(t)' <=> Front(t))
  BY <1>1 DEF PlaceInv, Front
<1>6. \A t \in Tasks : DONE(t).kind = "DONE" /\ DONE(t).task = t
  BY DEF DONE
<1>7. CASE m.kind = "READY" /\ RecvReady(w)
  <2>1. UNCHANGED <<pending_task_queue, inbox, completed, discarded, lost>>
    BY <1>7 DEF RecvReady, EnqueueIdle, tallyVars
  <2>2. \A t \in Tasks : ~Holds(w, t) /\ ~Holds(w, t)'
    BY <1>2, <1>4, <1>6, <1>7, <2>1 DEF Holds
  <2>3. \A v \in Workers \ {w}, t \in Tasks : Holds(v, t)' <=> Holds(v, t)
    BY <1>1, <1>3, <2>1 DEF Holds
  <2>4. \A t \in Tasks : SameSite(t)
    BY <1>5, <2>1, <2>2, <2>3 DEF SameSite, Waits
  <2>. QED  BY <1>1, <1>5, <2>1, <2>4, SiteFrame DEF PlaceInv
<1>8. CASE m.kind = "DONE" /\ RecvDone(w, m.task)
  <2>1. PICK d \in Tasks : m = DONE(d) /\ m.task = d
    BY <1>8, MessageFacts
  <2>2. completed' = completed \union {d} /\ discarded' = discarded
    BY <1>8, <2>1 DEF RecvDone
  <2>3. Holds(w, d) /\ \A t \in Tasks \ {d} : ~Holds(w, t)
    BY <1>2, <1>6, <2>1
  <2>4. Held(d) /\ ~Front(d) /\ ~Waits(d) /\ d \notin completed \union discarded \union lost
    BY <1>5, <2>3 DEF Held, OneSite, Apart
  <2>5. \A v \in Workers \ {w} : ~Holds(v, d)
    BY <1>5, <2>3 DEF OneSite, Apart
  <2>6. CASE pending_task_queue = <<>> /\ EnqueueIdle(w)
    <3>1. UNCHANGED <<pending_task_queue, inbox, lost>>
      BY <2>6 DEF EnqueueIdle
    <3>2. \A t \in Tasks : ~Holds(w, t)'
      BY <1>4, <3>1 DEF Holds
    <3>3. \A v \in Workers \ {w}, t \in Tasks : Holds(v, t)' <=> Holds(v, t)
      BY <1>1, <1>3, <3>1 DEF Holds
    <3>4. \A t \in Tasks : Waits(t)' <=> Waits(t)
      BY <3>1 DEF Waits
    <3>5. ASSUME NEW t \in Tasks \ {d} PROVE OneSite(t)'
      <4>1. SameSite(t)
        BY <1>5, <2>2, <2>3, <3>1, <3>2, <3>3, <3>4 DEF SameSite
      <4>. QED  BY <1>1, <1>5, <4>1, SiteFrame
    <3>6. OneSite(d)'
      <4>1. \A v \in Workers : ~Holds(v, d)'
        BY <2>5, <3>2, <3>3
      <4>2. ~Held(d)' /\ ~Front(d)' /\ ~Waits(d)'
        BY <1>5, <2>4, <3>4, <4>1 DEF Held
      <4>3. d < task_sequence
        BY <1>5, <2>4 DEF OneSite, Somewhere
      <4>. QED  BY <1>1, <2>2, <2>4, <3>1, <4>1, <4>2, <4>3 DEF OneSite, Apart, Somewhere
    <3>. QED  BY <1>1, <3>1, <3>5, <3>6 DEF PlaceInv
  <2>7. CASE pending_task_queue # <<>> /\ DispatchPending(w)
    <3>0. PICK p \in Tasks : p = Head(pending_task_queue)
      BY <2>7, QueueFacts
    <3>1. SendTask(w, p) /\ pending_task_queue' = Tail(pending_task_queue)
      BY <2>7, <3>0 DEF DispatchPending
    <3>2. /\ IsInjective(pending_task_queue')
          /\ Range(pending_task_queue') = Range(pending_task_queue) \ {p}
      BY <2>7, <3>0, <3>1, QueueFacts, TailOfNew DEF PlaceInv
    <3>3. Waits(p) /\ p # d /\ \A t \in Tasks : Waits(t)' <=> Waits(t) /\ t # p
      BY <2>4, <2>7, <3>0, <3>2, QueueFacts, EmptyRange DEF Waits
    <3>4. /\ \A v \in Workers \ {w}, t \in Tasks : Holds(v, t)' <=> Holds(v, t)
          /\ \A t \in Tasks \ {p} : ~Holds(w, t)' /\ (t \in lost' <=> t \in lost)
          /\ \/ ~Holds(w, p)' /\ p \in lost'
             \/ Holds(w, p)' /\ lost' = lost
      BY <1>1, <1>2, <1>3, <3>1, SendTaskSites
    <3>5. ASSUME NEW t \in Tasks \ {d, p} PROVE OneSite(t)'
      <4>1. SameSite(t)
        BY <1>5, <2>2, <2>3, <3>3, <3>4 DEF SameSite
      <4>. QED  BY <1>1, <1>5, <4>1, SiteFrame
    <3>6. OneSite(d)'
      <4>1. \A v \in Workers : ~Holds(v, d)'
        BY <2>5, <3>3, <3>4
      <4>2. ~Held(d)' /\ ~Front(d)' /\ ~Waits(d)' /\ d \notin lost'
        BY <1>5, <2>4, <3>3, <3>4, <4>1 DEF Held
      <4>3. d < task_sequence
        BY <1>5, <2>4 DEF OneSite, Somewhere
      <4>. QED  BY <1>1, <2>2, <2>4, <4>1, <4>2, <4>3 DEF OneSite, Apart, Somewhere
    <3>7. OneSite(p)'
      <4>1. \A v \in Workers : ~Holds(v, p)
        BY <1>5, <3>3 DEF OneSite, Apart, Held
      <4>2. \A v \in Workers : Holds(v, p)' => v = w
        BY <3>4, <4>1
      <4>3. Held(p)' <=> Holds(w, p)'
        BY <4>2 DEF Held
      <4>4. /\ p \notin lost /\ ~Front(p)' /\ ~Waits(p)' /\ p < task_sequence
            /\ p \notin completed' \union discarded'
        BY <1>5, <2>2, <3>3 DEF OneSite, Apart, Somewhere
      <4>. QED  BY <1>1, <3>4, <4>2, <4>3, <4>4 DEF OneSite, Apart, Somewhere
    <3>. QED  BY <1>1, <3>2, <3>5, <3>6, <3>7 DEF PlaceInv
  <2>. QED  BY <1>8, <2>6, <2>7 DEF RecvDone
<1>. QED  BY <1>0, <1>7, <1>8 DEF RecvWorker

\* Every step keeps each task in one place.
LEMMA NextPlaces ==
  TInv /\ OneTokenPerWorker /\ PlaceInv /\ [Next]_vars => PlaceInv'
<1>. SUFFICES ASSUME TInv, OneTokenPerWorker, PlaceInv, [Next]_vars PROVE PlaceInv'
  OBVIOUS
<1>1. CASE Poll \/ UNCHANGED vars
  <2>1. UNCHANGED <<frontend, pending_task_queue, backend, inbox, task_id,
                    completed, discarded, lost, task_sequence>>
    BY <1>1 DEF Poll, vars, producerVars, queueVars, tallyVars, workerVars
  <2>2. \A t \in Tasks : SameSite(t)
    BY <2>1 DEF SameSite, Front, Waits, Holds
  <2>. QED  BY <2>1, <2>2, SiteFrame DEF PlaceInv
<1>. QED  BY <1>1, ProducerPlaces, RecvTaskPlaces, RecvWorkerPlaces, WorkerPlaces,
             CrashPlaces DEF Next, Broker

\* No task is anywhere before it is sent.
LEMMA InitPlaces == Init => PlaceInv
<1>. SUFFICES ASSUME Init PROVE PlaceInv
  OBVIOUS
<1>1. /\ frontend = <<>> /\ pending_task_queue = <<>> /\ task_sequence = 0
      /\ completed = {} /\ discarded = {} /\ lost = {}
      /\ \A w \in Workers : backend[w] = <<>> /\ inbox[w] = <<>> /\ task_id[w] = NoTask
  BY DEF Init
<1>2. IsInjective(frontend) /\ IsInjective(pending_task_queue)
  BY <1>1 DEF IsInjective
<1>3. ASSUME NEW t \in Tasks PROVE ~Somewhere(t) /\ ~(t < task_sequence)
  <2>1. \A w \in Workers : ~Holds(w, t)
    BY <1>1, NoTaskFact DEF Holds, Range
  <2>. QED  BY <1>1, <2>1 DEF Somewhere, Front, Waits, Held, Range, Tasks
<1>4. \A t \in Tasks : OneSite(t)
  BY <1>3 DEF OneSite, Apart, Somewhere, Held
<1>. QED  BY <1>2, <1>4 DEF PlaceInv

\* No task is ever in two places, or forgotten.
LEMMA PlaceInvariance == Spec => []PlaceInv
<1>. QED  BY InitPlaces, NextPlaces, TInvariance, TokensCorrect, PTL DEF Spec

\* What the broker has counted: it counts a task only when it comes to its end, its
\* sample with it, since the stamp of a task was written before the task was sent;
\* and it leaves its loop when enough of them have.
StampsFirst == /\ \A t \in Tasks : t < task_sequence => t \in send_ns
               /\ sendPc = "send" => task_sequence \in send_ns
LoopEnds == brokerPc = "exit" <=> processed_task_count + dropped_task_count >= TaskCount
Counted  == /\ processed_task_count = Cardinality(completed)
            /\ dropped_task_count = Cardinality(discarded)

CountInv == StampsFirst /\ LoopEnds /\ Counted /\ EverySampleCounted

\* A set of tasks is finite, and one more task counts for one.
LEMMA TaskSets ==
  ASSUME NEW S, S \subseteq Tasks
  PROVE  /\ IsFiniteSet(S) /\ Cardinality(S) \in Nat
         /\ \A t \in Tasks : t \notin S => Cardinality(S \union {t}) = Cardinality(S) + 1
<1>1. IsFiniteSet(Tasks)
  BY FS_Interval, CountsAssumption DEF Tasks
<1>2. IsFiniteSet(S) /\ Cardinality(S) \in Nat
  BY <1>1, FS_Subset, FS_CardinalityType
<1>. QED  BY <1>2, FS_AddElement

\* A step that leaves the totals alone.
LEMMA CountFrame ==
  ASSUME CountInv, UNCHANGED tallyVars, UNCHANGED <<send_ns, sendPc, task_sequence>>,
         brokerPc' = "exit" <=> brokerPc = "exit"
  PROVE  CountInv'
BY DEF CountInv, StampsFirst, LoopEnds, Counted, EverySampleCounted, tallyVars

\* The steps of the producer: a task is stamped, and then sent.
LEMMA ProducerCounts == TInv /\ CountInv /\ Producer => CountInv'
<1>. SUFFICES ASSUME TInv, CountInv, Producer PROVE CountInv'
  OBVIOUS
<1>1. UNCHANGED tallyVars /\ brokerPc' = brokerPc
  BY DEF Producer, Stamp, Send
<1>2. task_sequence \in Nat /\ \A t \in Tasks : t \in Nat
  BY DEF TInv, TypeOK, Tasks
<1>3. StampsFirst'
  <2>1. CASE Stamp
    BY <2>1 DEF Stamp, CountInv, StampsFirst
  <2>2. CASE Send
    <3>1. /\ sendPc = "send" /\ sendPc' # "send" /\ send_ns' = send_ns
          /\ task_sequence' = task_sequence + 1
      BY <2>2 DEF Send
    <3>2. \A t \in Tasks : t < task_sequence + 1 => t < task_sequence \/ t = task_sequence
      BY <1>2
    <3>. QED  BY <3>1, <3>2 DEF CountInv, StampsFirst
  <2>. QED  BY <2>1, <2>2 DEF Producer
<1>. QED  BY <1>1, <1>3 DEF CountInv, LoopEnds, Counted, EverySampleCounted, tallyVars

\* What LoopPc makes of the totals.
LEMMA LoopPcEnds ==
  ASSUME NEW p \in Nat, NEW d \in Nat
  PROVE  LoopPc(p, d) = "exit" <=> p + d >= TaskCount
BY CountsAssumption DEF LoopPc

\* A task from the producer is counted if it is dropped.
LEMMA RecvTaskCounts == TInv /\ PlaceInv /\ CountInv /\ RecvTask => CountInv'
<1>. SUFFICES ASSUME TInv, PlaceInv, CountInv, RecvTask PROVE CountInv'
  OBVIOUS
<1>0. PICK p \in Tasks : p = Head(frontend)
  BY HeadTask
<1>1. Front(p) /\ p \notin discarded
  <2>1. Front(p)
    BY <1>0, QueueFacts, EmptyRange DEF Front, RecvTask, TInv, PcOK
  <2>. QED  BY <2>1 DEF PlaceInv, OneSite, Apart
<1>2. StampsFirst'
  BY DEF RecvTask, producerVars, CountInv, StampsFirst
<1>3. UNCHANGED <<completed, processed_task_count, latency_sample_count>>
  BY DEF RecvTask, RejectInvalid, AssignToIdle, Pend, DropTask, CountDropped, tallyVars
<1>4. Counted'
  <2>1. CASE RejectInvalid(p) \/ DropTask(p)
    <3>1. discarded' = discarded \union {p} /\ dropped_task_count' = dropped_task_count + 1
      BY <2>1 DEF RejectInvalid, DropTask, CountDropped
    <3>. QED  BY <1>1, <1>3, <3>1, QueueFacts, TaskSets DEF CountInv, Counted
  <2>2. CASE AssignToIdle(p) \/ Pend(p)
    BY <2>2 DEF AssignToIdle, Pend, tallyVars, CountInv, Counted
  <2>. QED  BY <1>0, <2>1, <2>2 DEF RecvTask
<1>5. LoopEnds'
  <2>1. processed_task_count' \in Nat /\ dropped_task_count' \in Nat
    BY RecvTaskTInv DEF TInv, TypeOK
  <2>2. brokerPc' = LoopPc(processed_task_count', dropped_task_count')
    BY DEF RecvTask
  <2>. QED  BY <2>1, <2>2, LoopPcEnds DEF LoopEnds
<1>. QED  BY <1>2, <1>3, <1>4, <1>5 DEF CountInv, EverySampleCounted

\* A DONE is counted, with the sample of its task.
LEMMA RecvWorkerCounts ==
  ASSUME TInv, OneTokenPerWorker, PlaceInv, CountInv, NEW w \in Workers, RecvWorker(w)
  PROVE  CountInv'
<1>0. PICK m \in Messages : m = Head(backend[w])
  BY FunFacts DEF RecvWorker
<1>1. StampsFirst'
  BY DEF RecvWorker, producerVars, CountInv, StampsFirst
<1>2. LoopEnds'
  <2>1. processed_task_count' \in Nat /\ dropped_task_count' \in Nat
    BY RecvWorkerTInv DEF TInv, TypeOK
  <2>2. brokerPc' = LoopPc(processed_task_count', dropped_task_count')
    BY DEF RecvWorker
  <2>. QED  BY <2>1, <2>2, LoopPcEnds DEF LoopEnds
<1>3. CASE RecvReady(w)
  BY <1>1, <1>2, <1>3 DEF RecvReady, tallyVars, CountInv, Counted, EverySampleCounted
<1>4. CASE m.kind = "DONE" /\ RecvDone(w, m.task)
  <2>1. PICK d \in Tasks : m = DONE(d) /\ m.task = d
    BY <1>4, MessageFacts
  <2>2. /\ completed' = completed \union {d} /\ discarded' = discarded
        /\ processed_task_count' = processed_task_count + 1
        /\ dropped_task_count' = dropped_task_count
        /\ latency_sample_count' = latency_sample_count + (IF HasSample(d) THEN 1 ELSE 0)
    BY <1>4, <2>1 DEF RecvDone
  <2>3. Held(d)
    BY <1>0, <2>1, HoldsFacts DEF RecvWorker, Held
  <2>4. d \notin completed /\ d < task_sequence
    BY <2>3 DEF PlaceInv, OneSite, Apart, Somewhere
  <2>5. d \in send_ns
    BY <2>4 DEF CountInv, StampsFirst
  <2>6. Counted'
    BY <2>2, <2>4, QueueFacts, TaskSets DEF CountInv, Counted
  <2>7. EverySampleCounted'
    <3>. DEFINE known == {t \in completed : t < TaskCount}
    <3>1. known \subseteq Tasks /\ d \notin known /\ latency_sample_count = Cardinality(known)
      BY <2>4, QueueFacts DEF CountInv, EverySampleCounted
    <3>2. CASE d < TaskCount
      <4>1. known' = known \union {d}
        BY <2>2, <3>2
      <4>2. HasSample(d)
        BY <2>5, <3>2 DEF HasSample, IsValid, Tasks
      <4>3. Cardinality(known \union {d}) = Cardinality(known) + 1
        BY <3>1, TaskSets
      <4>. QED  BY <2>2, <3>1, <4>1, <4>2, <4>3 DEF EverySampleCounted
    <3>3. CASE ~(d < TaskCount)
      <4>1. known' = known
        BY <2>2, <3>3
      <4>2. ~HasSample(d)
        BY <3>3 DEF HasSample, IsValid
      <4>3. latency_sample_count' = latency_sample_count
        BY <2>2, <4>2 DEF TInv, TypeOK
      <4>. QED  BY <3>1, <4>1, <4>3 DEF EverySampleCounted
    <3>. QED  BY <3>2, <3>3
  <2>. QED  BY <1>1, <1>2, <2>6, <2>7 DEF CountInv
<1>. QED  BY <1>0, <1>3, <1>4 DEF RecvWorker

\* Every step counts what it should.
LEMMA NextCounts ==
  TInv /\ OneTokenPerWorker /\ PlaceInv /\ CountInv /\ [Next]_vars => CountInv'
<1>. SUFFICES ASSUME TInv, OneTokenPerWorker, PlaceInv, CountInv, [Next]_vars
              PROVE  CountInv'
  OBVIOUS
<1>1. CASE Poll \/ UNCHANGED vars
  BY <1>1, CountFrame DEF Poll, vars, producerVars
<1>2. ASSUME NEW w \in Workers, Worker(w) \/ Crash(w) PROVE CountInv'
  BY <1>2, CountFrame DEF Worker, Start, Receive, Finish, Crash, producerVars
<1>. QED  BY <1>1, <1>2, ProducerCounts, RecvTaskCounts, RecvWorkerCounts DEF Next, Broker

LEMMA InitCounts == Init => CountInv
<1>. SUFFICES ASSUME Init PROVE CountInv
  OBVIOUS
<1>1. StampsFirst /\ Counted /\ EverySampleCounted
  <2>1. {t \in completed : t < TaskCount} = {} /\ completed = {} /\ discarded = {}
    BY DEF Init
  <2>2. \A t \in Tasks : ~(t < task_sequence)
    BY DEF Init, Tasks
  <2>. QED  BY <2>1, <2>2, FS_EmptySet DEF Init, StampsFirst, Counted, EverySampleCounted
<1>2. LoopEnds
  BY LoopPcEnds DEF Init, LoopEnds
<1>. QED  BY <1>1, <1>2 DEF CountInv

LEMMA CountInvariance == Spec => []CountInv
<1>. QED  BY InitCounts, NextCounts, TInvariance, TokensCorrect, PlaceInvariance, PTL DEF Spec

\* The average latency that the broker prints is taken over every task that has
\* been processed, whoever dies and however the messages overtake one another.
THEOREM SamplesCorrect == Spec => []EverySampleCounted
<1>1. CountInv => EverySampleCounted
  BY DEF CountInv
<1>. QED  BY <1>1, CountInvariance, PTL

\* A task that is in a queue without repetitions is at one position of it.
LEMMA OnePosition ==
  ASSUME NEW S, NEW q \in Seq(S), IsInjective(q), NEW x
  PROVE  /\ x \in Range(q) => \E i : {j \in DOMAIN q : q[j] = x} = {i}
         /\ x \notin Range(q) => {j \in DOMAIN q : q[j] = x} = {}
<1>1. ASSUME x \in Range(q)
      PROVE  \E i : {j \in DOMAIN q : q[j] = x} = {i}
  <2>1. PICK i \in DOMAIN q : q[i] = x
    BY <1>1 DEF Range
  <2>2. {j \in DOMAIN q : q[j] = x} = {i}
    BY <2>1 DEF IsInjective
  <2>. QED  BY <2>2
<1>2. ASSUME x \notin Range(q)
      PROVE  {j \in DOMAIN q : q[j] = x} = {}
  BY <1>2 DEF Range
<1>. QED  BY <1>1, <1>2

\* The set of the places of a task has one element if the task has been sent.
LEMMA CountPlaces ==
  ASSUME TInv, PlaceInv, NEW t \in Tasks
  PROVE  Cardinality(Places(t)) = IF t < task_sequence THEN 1 ELSE 0
<1>. DEFINE F == {<<"frontend", i>> : i \in {j \in DOMAIN frontend : frontend[j] = t}}
            P == {<<"pending", i>> : i \in {j \in DOMAIN pending_task_queue :
                                                 pending_task_queue[j] = t}}
            W == {<<"worker", w>> : w \in {v \in Workers : Holds(v, t)}}
            E == {<<"end", e>> : e \in {k \in 1 .. 3 :
                                          t \in <<completed, discarded, lost>>[k]}}
<1>1. Places(t) = F \union P \union W \union E
  BY DEF Places
<1>2. OneSite(t)
  BY DEF PlaceInv
<1>3. (Front(t) => \E x : F = {x}) /\ (~Front(t) => F = {})
  <2>. DEFINE I == {j \in DOMAIN frontend : frontend[j] = t}
  <2>1. frontend \in Seq(Tasks) /\ IsInjective(frontend)
    BY QueueFacts DEF PlaceInv
  <2>2. (Front(t) => \E i : I = {i}) /\ (~Front(t) => I = {})
    BY <2>1, OnePosition DEF Front
  <2>3. \A i : I = {i} => F = {<<"frontend", i>>}
    OBVIOUS
  <2>4. I = {} => F = {}
    OBVIOUS
  <2>. HIDE DEF I, F
  <2>. QED  BY <2>2, <2>3, <2>4
<1>4. (Waits(t) => \E x : P = {x}) /\ (~Waits(t) => P = {})
  <2>. DEFINE I == {j \in DOMAIN pending_task_queue : pending_task_queue[j] = t}
  <2>1. pending_task_queue \in Seq(Tasks) /\ IsInjective(pending_task_queue)
    BY QueueFacts DEF PlaceInv
  <2>2. (Waits(t) => \E i : I = {i}) /\ (~Waits(t) => I = {})
    BY <2>1, OnePosition DEF Waits
  <2>3. \A i : I = {i} => P = {<<"pending", i>>}
    OBVIOUS
  <2>4. I = {} => P = {}
    OBVIOUS
  <2>. HIDE DEF I, P
  <2>. QED  BY <2>2, <2>3, <2>4
<1>5. (Held(t) => \E x : W = {x}) /\ (~Held(t) => W = {})
  <2>1. ASSUME Held(t) PROVE \E x : W = {x}
    <3>1. PICK w \in Workers : Holds(w, t)
      BY <2>1 DEF Held
    <3>2. {v \in Workers : Holds(v, t)} = {w}
      BY <1>2, <3>1 DEF OneSite, Apart
    <3>3. W = {<<"worker", w>>}
      BY <3>2
    <3>. QED  BY <3>3
  <2>. QED  BY <2>1 DEF Held
<1>6. /\ t \in completed /\ t \notin discarded /\ t \notin lost => \E x : E = {x}
      /\ t \notin completed /\ t \in discarded /\ t \notin lost => \E x : E = {x}
      /\ t \notin completed /\ t \notin discarded /\ t \in lost => \E x : E = {x}
      /\ t \notin completed /\ t \notin discarded /\ t \notin lost => E = {}
  <2>. DEFINE K == {k \in 1 .. 3 : t \in <<completed, discarded, lost>>[k]}
  <2>1. \A k \in 1 .. 3 : k \in K <=> \/ k = 1 /\ t \in completed
                                      \/ k = 2 /\ t \in discarded
                                      \/ k = 3 /\ t \in lost
    OBVIOUS
  <2>2. \A k : K = {k} => E = {<<"end", k>>}
    OBVIOUS
  <2>3. K = {} => E = {}
    OBVIOUS
  <2>4. K \subseteq 1 .. 3
    OBVIOUS
  <2>5. /\ t \in completed /\ t \notin discarded /\ t \notin lost => K = {1}
        /\ t \notin completed /\ t \in discarded /\ t \notin lost => K = {2}
        /\ t \notin completed /\ t \notin discarded /\ t \in lost => K = {3}
        /\ t \notin completed /\ t \notin discarded /\ t \notin lost => K = {}
    <3>1. 1 \in 1 .. 3 /\ 2 \in 1 .. 3 /\ 3 \in 1 .. 3
      OBVIOUS
    <3>2. \A k : k \in K <=> \/ k = 1 /\ t \in completed
                             \/ k = 2 /\ t \in discarded
                             \/ k = 3 /\ t \in lost
      <4>. HIDE DEF K
      <4>. QED  BY <2>1, <2>4, <3>1
    <3>. HIDE DEF K
    <3>. QED  BY <3>2
  <2>. HIDE DEF K, E
  <2>. QED  BY <2>2, <2>3, <2>5
<1>7. (Somewhere(t) => \E x : Places(t) = {x}) /\ (~Somewhere(t) => Places(t) = {})
  <2>. HIDE DEF F, P, W, E
  <2>. QED  BY <1>1, <1>2, <1>3, <1>4, <1>5, <1>6 DEF OneSite, Apart, Somewhere
<1>8. Somewhere(t) <=> t < task_sequence
  BY <1>2 DEF OneSite
<1>. QED  BY <1>7, <1>8, FS_Singleton, FS_EmptySet

\* No task is forgotten or duplicated, by the handlers, the queues, the messages or
\* the death of workers, and the totals count the tasks: for any number of each.
THEOREM TasksInOnePlace == Spec => []EveryTaskInOnePlace
<1>1. TInv /\ PlaceInv /\ CountInv => EveryTaskInOnePlace
  BY CountPlaces DEF EveryTaskInOnePlace, CountInv, Counted
<1>. QED  BY <1>1, TInvariance, PlaceInvariance, CountInvariance, PTL

\* The broker leaves its loop only when every task has come to its end: the totals
\* are those of two sets without a common element, which then are all tasks.
THEOREM ExitSettled == Spec => []ExitSettlesEverything
<1>1. ASSUME TInv, PlaceInv, CountInv, brokerPc = "exit", ProducerCount = TaskCount
      PROVE  /\ completed \union discarded = Tasks
             /\ frontend = <<>> /\ pending_task_queue = <<>> /\ lost = {}
             /\ \A w \in Workers : ~Busy(w)
  <2>. DEFINE ends == completed \union discarded
  <2>1. completed \intersect discarded = {} /\ ends \subseteq Tasks
    BY <1>1, QueueFacts DEF PlaceInv, OneSite, Apart
  <2>2. Cardinality(ends) = Cardinality(completed) + Cardinality(discarded)
    <3>1. IsFiniteSet(completed) /\ IsFiniteSet(discarded)
      BY <1>1, QueueFacts, TaskSets
    <3>2. Cardinality(ends) = Cardinality(completed) + Cardinality(discarded)
                              - Cardinality(completed \intersect discarded)
      BY <3>1, FS_Union
    <3>. QED  BY <1>1, <2>1, <3>2, QueueFacts, TaskSets, FS_EmptySet
  <2>3. Cardinality(ends) >= TaskCount
    BY <1>1, <2>2 DEF CountInv, Counted, LoopEnds
  <2>4. IsFiniteSet(Tasks) /\ Cardinality(Tasks) = TaskCount
    BY <1>1, FS_Interval, CountsAssumption DEF Tasks
  <2>5. ends = Tasks
    <3>1. Cardinality(ends) <= Cardinality(Tasks) /\ Cardinality(ends) \in Nat
      BY <2>1, <2>4, FS_Subset, TaskSets
    <3>. QED  BY <2>1, <2>3, <2>4, <3>1, FS_Subset, CountsAssumption
  <2>6. \A t \in Tasks : ~Front(t) /\ ~Waits(t) /\ ~Held(t) /\ t \notin lost
    BY <1>1, <2>5 DEF PlaceInv, OneSite, Apart
  <2>7. Range(frontend) = {} /\ Range(pending_task_queue) = {} /\ lost = {}
    <3>1. Range(frontend) \subseteq Tasks /\ Range(pending_task_queue) \subseteq Tasks
      BY <1>1, QueueFacts DEF Range
    <3>. QED  BY <1>1, <2>6, <3>1, QueueFacts DEF Front, Waits
  <2>8. frontend = <<>> /\ pending_task_queue = <<>>
    BY <1>1, <2>7, QueueFacts, EmptyRange
  <2>. QED  BY <2>5, <2>6, <2>7, <2>8 DEF Busy, Held
<1>2. TInv /\ PlaceInv /\ CountInv => ExitSettlesEverything
  BY <1>1 DEF ExitSettlesEverything
<1>. QED  BY <1>2, TInvariance, PlaceInvariance, CountInvariance, PTL
---------------------------------------------------------------------------
(* The system implements TaskLedger *)

\* A worker that has died and whose token is spent gets no other, so that the tasks
\* that are lost and the workers that have a token are never more than the workers.
Live   == {w \in Workers : Tokens(w) = 1}
CapInv == Cardinality(lost) + Cardinality(Live) <= Cardinality(Workers)

\* The sets of workers are finite.
LEMMA WorkerSets ==
  ASSUME NEW S, S \subseteq Workers
  PROVE  /\ IsFiniteSet(S) /\ Cardinality(S) \in Nat
         /\ Cardinality(S) <= Cardinality(Workers)
         /\ \A w \in S : Cardinality(S \ {w}) = Cardinality(S) - 1
<1>1. IsFiniteSet(S) /\ Cardinality(S) \in Nat /\ Cardinality(S) <= Cardinality(Workers)
  BY WorkersAssumption, FS_Subset, FS_CardinalityType
<1>. QED  BY <1>1, FS_RemoveElement

\* A step loses at most one task, and then a worker its token.
LEMMA CapStep ==
  ASSUME TInv, CapInv, TInv', Live' \subseteq Live,
         \/ lost' = lost
         \/ \E t \in Tasks : lost' = lost \union {t} /\ \E w \in Live : w \notin Live'
  PROVE  CapInv'
<1>1. /\ Live \subseteq Workers /\ Live' \subseteq Workers
      /\ IsFiniteSet(Live) /\ IsFiniteSet(Live')
      /\ Cardinality(Live) \in Nat /\ Cardinality(Live') \in Nat
      /\ Cardinality(Workers) \in Nat
      /\ Cardinality(Live') <= Cardinality(Live)
  <2>1. Live \subseteq Workers /\ Live' \subseteq Workers
    BY DEF Live
  <2>2. IsFiniteSet(Live) /\ IsFiniteSet(Live')
    BY <2>1, WorkerSets
  <2>. QED  BY <2>1, <2>2, WorkerSets, FS_Subset
<1>2. Cardinality(lost) \in Nat /\ Cardinality(lost') \in Nat
  BY QueueFacts, TaskSets DEF TInv, TypeOK
<1>3. CASE lost' = lost
  BY <1>1, <1>2, <1>3 DEF CapInv
<1>4. ASSUME NEW t \in Tasks, lost' = lost \union {t}, NEW w \in Live, w \notin Live'
      PROVE  CapInv'
  <2>1. Cardinality(lost') <= Cardinality(lost) + 1
    <3>1. CASE t \in lost
      <4>1. lost' = lost
        BY <1>4, <3>1
      <4>. QED  BY <1>2, <4>1
    <3>2. CASE t \notin lost
      BY <1>2, <1>4, <3>2, QueueFacts, TaskSets
    <3>. QED  BY <3>1, <3>2
  <2>2. Live' \subseteq Live \ {w} /\ Cardinality(Live \ {w}) = Cardinality(Live) - 1
    BY <1>1, <1>4, WorkerSets
  <2>3. Cardinality(Live') <= Cardinality(Live \ {w})
    <3>1. IsFiniteSet(Live \ {w})
      BY <1>1, WorkerSets
    <3>. QED  BY <2>2, <3>1, FS_Subset
  <2>. QED  BY <1>1, <1>2, <2>1, <2>2, <2>3 DEF CapInv
<1>. QED  BY <1>3, <1>4

\* A worker that stands for something has a token.
LEMMA LiveFacts ==
  ASSUME TInv, OneTokenPerWorker, NEW w \in Workers,
         \/ workerPc[w] # "dead" \/ w \in Range(worker_queue)
         \/ backend[w] # <<>> \/ inbox[w] # <<>>
  PROVE  w \in Live
<1>1. PICK b \in Nat, i \in Nat : Len(backend[w]) = b /\ Len(inbox[w]) = i
  BY LenFacts
<1>2. (b = 0 <=> backend[w] = <<>>) /\ (i = 0 <=> inbox[w] = <<>>)
  BY <1>1, FunFacts, EmptyRange
<1>3. TokenOK(w)
  BY DEF OneTokenPerWorker, TokenOK
<1>4. Tokens(w) \in Nat /\ Tokens(w) <= 1
  BY <1>3, LenFacts DEF TokenOK
<1>5. workerPc[w] # "dead" => Tokens(w) = 1
  BY <1>3 DEF TokenOK
<1>6. w \in Range(worker_queue) \/ b # 0 \/ i # 0 => Tokens(w) # 0
  BY <1>1 DEF Tokens
<1>7. Tokens(w) = 1
  BY <1>2, <1>4, <1>5, <1>6
<1>. QED  BY <1>7 DEF Live

\* A worker that is left with nothing has no token.
LEMMA Spent ==
  ASSUME NEW w \in Workers, workerPc'[w] = "dead", w \notin Range(worker_queue'),
         backend'[w] = <<>>, inbox'[w] = <<>>
  PROVE  w \notin Live'
<1>1. Len(backend'[w]) = 0 /\ Len(inbox'[w]) = 0
  OBVIOUS
<1>2. Tokens(w)' = 0
  BY <1>1 DEF Tokens
<1>. QED  BY <1>2 DEF Live

\* A step that is about worker w only, who has a token before it.
LEMMA LiveStep ==
  ASSUME NEW w \in Live, \A v \in Workers \ {w} : SameTokens(v)
  PROVE  Live' \subseteq Live
BY DEF Live, SameTokens, Tokens

LEMMA WorkerCap ==
  ASSUME TInv, OneTokenPerWorker, CapInv, TInv', NEW w \in Workers, Worker(w)
  PROVE  CapInv'
<1>1. lost' = lost /\ worker_queue' = worker_queue
  BY DEF Worker, Start, Receive, Finish, queueVars
<1>2. w \in Live
  BY LiveFacts DEF Worker, Start, Receive, Finish
<1>3. \A v \in Workers \ {w} : SameTokens(v)
  BY <1>1, FunFacts DEF SameTokens, Worker, Start, Receive, Finish, SendMessage
<1>. QED  BY <1>1, <1>2, <1>3, LiveStep, CapStep

\* The death of a worker loses at most the one task it has, and its token then.
LEMMA CrashCap ==
  ASSUME TInv, OneTokenPerWorker, OneTokenPerWorker', CapInv, TInv',
         NEW w \in Workers, Crash(w)
  PROVE  CapInv'
<1>1. PICK n \in 0 .. Len(backend[w]) :
        /\ backend' = [backend EXCEPT ![w] = SubSeq(@, 1, n)]
        /\ lost' = (lost \union Range(inbox[w]) \union {task_id[w]}
                     \union {backend[w][i].task : i \in n + 1 .. Len(backend[w])})
                    \ {NoTask}
  BY DEF Crash
<1>2. /\ worker_queue' = worker_queue /\ inbox'[w] = <<>> /\ workerPc'[w] = "dead"
      /\ workerPc[w] # "dead"
  BY FunFacts DEF Crash, queueVars
<1>3. w \in Live
  BY <1>2, LiveFacts
<1>4. \A v \in Workers \ {w} : SameTokens(v)
  BY <1>1, <1>2, FunFacts DEF SameTokens, Crash
<1>5. Live' \subseteq Live
  BY <1>3, <1>4, LiveStep
<1>6. NoTask \notin lost /\ lost \subseteq Tasks
  BY QueueFacts, NoTaskFact
<1>7. CASE w \in Range(worker_queue)
  <2>1. backend[w] = <<>> /\ inbox[w] = <<>> /\ task_id[w] = NoTask
    BY <1>7, TokenPlaces, QueueFacts
  <2>2. Range(inbox[w]) = {} /\ n + 1 .. Len(backend[w]) = {}
    BY <2>1 DEF Range
  <2>3. lost' = lost
    BY <1>1, <1>6, <2>1, <2>2
  <2>. QED  BY <1>5, <2>3, CapStep
<1>8. CASE backend[w] # <<>>
  <2>1. /\ Len(backend[w]) = 1 /\ inbox[w] = <<>> /\ task_id[w] = NoTask
        /\ w \notin Range(worker_queue)
    BY <1>8, TokenPlaces, QueueFacts
  <2>2. Range(inbox[w]) = {}
    BY <2>1 DEF Range
  <2>3. CASE n = 1
    <3>1. n + 1 .. Len(backend[w]) = {}
      BY <2>1, <2>3
    <3>2. lost' = lost
      BY <1>1, <1>6, <2>1, <2>2, <3>1
    <3>. QED  BY <1>5, <3>2, CapStep
  <2>4. CASE n = 0
    <3>1. n + 1 .. Len(backend[w]) = {1} /\ backend[w][1].task \in Tasks \union {NoTask}
      BY <2>1, <2>4, BackendFacts
    <3>2. \/ lost' = lost
          \/ lost' = lost \union {backend[w][1].task} /\ backend[w][1].task \in Tasks
      BY <1>1, <1>6, <2>1, <2>2, <3>1
    <3>3. backend'[w] = <<>>
      BY <1>1, <2>4, FunFacts
    <3>4. w \notin Live'
      BY <1>2, <2>1, <3>3, Spent
    <3>. QED  BY <1>3, <1>5, <3>2, <3>4, CapStep
  <2>. QED  BY <2>1, <2>3, <2>4
<1>9. CASE backend[w] = <<>> /\ w \notin Range(worker_queue)
  <2>1. n + 1 .. Len(backend[w]) = {} /\ backend'[w] = <<>>
    BY <1>1, <1>9, FunFacts
  <2>2. w \notin Live'
    BY <1>2, <1>9, <2>1, Spent
  <2>3. CASE inbox[w] # <<>>
    <3>1. Len(inbox[w]) = 1 /\ task_id[w] = NoTask
      BY <2>3, TokenPlaces, QueueFacts
    <3>2. Range(inbox[w]) = {Head(inbox[w])} /\ Head(inbox[w]) \in Tasks
      <4>1. inbox[w] \in Seq(Tasks)
        BY FunFacts
      <4>2. Head(inbox[w]) \in Tasks
        BY <2>3, <4>1, TailFacts
      <4>3. Range(inbox[w]) = {Head(inbox[w])}
        BY <3>1, <4>1 DEF Range
      <4>. QED  BY <4>2, <4>3
    <3>3. lost' = lost \union {Head(inbox[w])}
      BY <1>1, <1>6, <2>1, <3>1, <3>2, NoTaskFact
    <3>. QED  BY <1>3, <1>5, <2>2, <3>2, <3>3, CapStep
  <2>4. CASE inbox[w] = <<>>
    <3>1. Range(inbox[w]) = {} /\ task_id[w] \in Tasks \union {NoTask}
      BY <2>4, QueueFacts DEF Range
    <3>2. \/ lost' = lost
          \/ lost' = lost \union {task_id[w]} /\ task_id[w] \in Tasks
      BY <1>1, <1>6, <2>1, <3>1, NoTaskFact
    <3>. QED  BY <1>3, <1>5, <2>2, <3>2, CapStep
  <2>. QED  BY <2>3, <2>4
<1>. QED  BY <1>7, <1>8, <1>9

\* A task sent to worker w, which has just given up its token, for it: the worker
\* has a token again, or is dead and the task is lost.
LEMMA SendTaskCap ==
  ASSUME TInv, TInv', OneTokenPerWorker, CapInv, NEW w \in Live, NEW p \in Tasks,
         SendTask(w, p), backend'[w] = <<>>, inbox[w] = <<>>,
         w \notin Range(worker_queue'), workerPc' = workerPc,
         \A v \in Workers \ {w} : SameTokens(v)
  PROVE  CapInv'
<1>1. Live' \subseteq Live /\ w \in Workers
  BY LiveStep DEF Live
<1>2. CASE workerPc[w] = "dead"
  <2>1. lost' = lost \union {p} /\ inbox' = inbox
    BY <1>2 DEF SendTask
  <2>2. w \notin Live'
    BY <1>1, <1>2, <2>1, Spent
  <2>. QED  BY <1>1, <2>1, <2>2, CapStep
<1>3. CASE workerPc[w] # "dead"
  <2>1. lost' = lost
    BY <1>3 DEF SendTask
  <2>. QED  BY <1>1, <2>1, CapStep
<1>. QED  BY <1>2, <1>3

LEMMA RecvTaskCap ==
  ASSUME TInv, TInv', OneTokenPerWorker, CapInv, RecvTask
  PROVE  CapInv'
<1>0. PICK p \in Tasks : p = Head(frontend)
  BY HeadTask
<1>1. UNCHANGED <<backend, workerPc>>
  BY DEF RecvTask, workerVars
<1>2. CASE RejectInvalid(p) \/ DropTask(p) \/ Pend(p)
  <2>1. UNCHANGED <<worker_queue, inbox, lost>>
    BY <1>2 DEF RejectInvalid, DropTask, Pend, queueVars
  <2>. QED  BY <1>1, <2>1 DEF CapInv, Live, Tokens
<1>3. CASE AssignToIdle(p)
  <2>1. PICK w \in Workers : w = Head(worker_queue)
    BY <1>3, FunFacts, EmptyRange DEF AssignToIdle
  <2>2. /\ w \in Range(worker_queue) /\ SendTask(w, p) /\ worker_queue # <<>>
        /\ worker_queue' = Tail(worker_queue)
    BY <1>3, <2>1, FunFacts, EmptyRange DEF AssignToIdle
  <2>3. Range(worker_queue') = Range(worker_queue) \ {w}
    BY <2>1, <2>2, TailOfNew, FunFacts DEF OneTokenPerWorker
  <2>4. \A v \in Workers \ {w} : SameTokens(v)
    BY <1>1, <2>2, <2>3, SendTaskTokens DEF SameTokens
  <2>5. w \in Live /\ backend'[w] = <<>> /\ inbox[w] = <<>>
    BY <1>1, <2>2, LiveFacts, TokenPlaces
  <2>. QED  BY <1>1, <2>2, <2>3, <2>4, <2>5, SendTaskCap
<1>. QED  BY <1>0, <1>2, <1>3 DEF RecvTask

LEMMA RecvWorkerCap ==
  ASSUME TInv, TInv', OneTokenPerWorker, CapInv, NEW w \in Workers, RecvWorker(w)
  PROVE  CapInv'
<1>1. /\ backend[w] # <<>> /\ backend' = [backend EXCEPT ![w] = Tail(@)]
      /\ workerPc' = workerPc
  BY DEF RecvWorker, workerVars
<1>2. /\ Len(backend[w]) = 1 /\ inbox[w] = <<>> /\ w \in Live
      /\ w \notin Range(worker_queue)
  BY <1>1, TokenPlaces, LiveFacts
<1>3. backend'[w] = <<>> /\ \A v \in Workers \ {w} : backend'[v] = backend[v]
  <2>1. Tail(backend[w]) \in Seq(Messages) /\ Len(Tail(backend[w])) = 0
    BY <1>1, <1>2, FunFacts, TailFacts
  <2>2. Tail(backend[w]) = <<>>
    BY <2>1, EmptyRange
  <2>. QED  BY <1>1, <2>2, FunFacts
<1>4. CASE EnqueueIdle(w)
  <2>1. lost' = lost /\ inbox' = inbox /\ worker_queue' = Append(worker_queue, w)
    BY <1>4 DEF EnqueueIdle
  <2>2. Range(worker_queue') = Range(worker_queue) \union {w}
    BY <1>2, <2>1, AppendNew, FunFacts DEF OneTokenPerWorker
  <2>3. \A v \in Workers \ {w} : SameTokens(v)
    BY <1>1, <1>3, <2>1, <2>2 DEF SameTokens
  <2>. QED  BY <1>2, <2>1, <2>3, LiveStep, CapStep
<1>5. CASE pending_task_queue # <<>> /\ DispatchPending(w)
  <2>1. PICK p \in Tasks : SendTask(w, p) /\ worker_queue' = worker_queue
    BY <1>5, QueueFacts DEF DispatchPending
  <2>2. \A v \in Workers \ {w} : SameTokens(v)
    BY <1>1, <1>3, <2>1, SendTaskTokens DEF SameTokens
  <2>. QED  BY <1>1, <1>2, <1>3, <2>1, <2>2, SendTaskCap
<1>. QED  BY <1>4, <1>5 DEF RecvWorker, RecvDone, RecvReady

\* Every step keeps the number of the lost tasks and the tokens within that of the
\* workers.
LEMMA NextCap ==
  TInv /\ OneTokenPerWorker /\ CapInv /\ [Next]_vars => CapInv'
<1>. SUFFICES ASSUME TInv, OneTokenPerWorker, CapInv, [Next]_vars PROVE CapInv'
  OBVIOUS
<1>1. TInv' /\ OneTokenPerWorker'
  BY NextTInv, NextTokens
<1>2. CASE Producer \/ Poll \/ UNCHANGED vars
  <2>1. UNCHANGED <<backend, inbox, workerPc, worker_queue, lost>>
    BY <1>2 DEF Producer, Stamp, Send, Poll, vars, queueVars, workerVars
  <2>. QED  BY <2>1 DEF CapInv, Live, Tokens
<1>. QED  BY <1>1, <1>2, RecvTaskCap, RecvWorkerCap, WorkerCap, CrashCap DEF Next, Broker

LEMMA CapInvariance == Spec => []CapInv
<1>1. Init => CapInv
  <2>. SUFFICES ASSUME Init PROVE CapInv
    OBVIOUS
  <2>1. Cardinality(lost) = 0
    BY FS_EmptySet DEF Init
  <2>2. Cardinality(Live) <= Cardinality(Workers) /\ Cardinality(Live) \in Nat
    BY WorkerSets DEF Live
  <2>. QED  BY <2>1, <2>2 DEF CapInv
<1>. QED  BY <1>1, NextCap, TInvariance, TokensCorrect, PTL DEF Spec

\* The stage of a task by the places that the ledger tells apart: from the time it
\* leaves the frontend until it waits or ends, it is running.
Stage(t) == IF t \in completed THEN "done"
            ELSE IF t \in discarded THEN "dropped"
            ELSE IF Waits(t) THEN "queued"
            ELSE IF t < task_sequence /\ ~Front(t) THEN "running"
            ELSE "new"

Staged == \A t \in Tasks : Status(t) = Stage(t)

LEMMA StatusStage == PlaceInv => Staged
<1>. SUFFICES ASSUME PlaceInv, NEW t \in Tasks PROVE Status(t) = Stage(t)
  BY DEF Staged
<1>1. Apart(t) /\ (t < task_sequence <=> Somewhere(t))
  BY DEF PlaceInv, OneSite
<1>2. CASE t \in completed
  <2>1. t \notin discarded \union lost /\ ~Waits(t) /\ ~Held(t)
    BY <1>1, <1>2 DEF Apart
  <2>. QED  BY <1>2, <2>1 DEF Status, Stage, Waits, Held
<1>3. CASE t \notin completed /\ t \in discarded
  <2>1. t \notin lost /\ ~Waits(t) /\ ~Held(t)
    BY <1>1, <1>3 DEF Apart
  <2>. QED  BY <1>3, <2>1 DEF Status, Stage, Waits, Held
<1>4. CASE t \notin completed \union discarded /\ Waits(t)
  <2>1. t \notin lost /\ ~Held(t)
    BY <1>1, <1>4 DEF Apart
  <2>. QED  BY <1>4, <2>1 DEF Status, Stage, Waits, Held
<1>5. CASE t \notin completed \union discarded /\ ~Waits(t) /\ (t \in lost \/ Held(t))
  <2>1. Status(t) = "running"
    BY <1>5 DEF Status, Waits, Held
  <2>2. t < task_sequence /\ ~Front(t)
    BY <1>1, <1>5 DEF Apart, Somewhere
  <2>. QED  BY <1>5, <2>1, <2>2 DEF Stage
<1>6. CASE t \notin completed \union discarded \union lost /\ ~Waits(t) /\ ~Held(t)
  <2>1. Status(t) = "new"
    BY <1>6 DEF Status, Waits, Held
  <2>2. t < task_sequence => Front(t)
    BY <1>1, <1>6 DEF Somewhere
  <2>. QED  BY <1>6, <2>1, <2>2 DEF Stage
<1>. QED  BY <1>2, <1>3, <1>4, <1>5, <1>6

LEMMA StatusStageNext == PlaceInv' => Staged'
BY StatusStage, PTL

\* A step that changes the stage of no task, and neither the pending queue nor the
\* broker's loop, is no step of the ledger.
LEMMA LedgerStutters ==
  ASSUME PlaceInv, PlaceInv', \A t \in Tasks : Stage(t)' = Stage(t),
         pending_task_queue' = pending_task_queue,
         brokerPc' = "exit" <=> brokerPc = "exit"
  PROVE  UNCHANGED Ledger!vars
<1>1. \A t \in Tasks : Status(t)' = Status(t)
  BY StatusStage, StatusStageNext DEF Staged
<1>2. [t \in Tasks |-> Status(t)]' = [t \in Tasks |-> Status(t)]
  BY <1>1
<1>. QED  BY <1>2 DEF Ledger!vars

\* A step that takes one task to another stage.
LEMMA LedgerMoves ==
  ASSUME PlaceInv, PlaceInv', NEW p \in Tasks, NEW e, Stage(p)' = e,
         \A t \in Tasks \ {p} : Stage(t)' = Stage(t)
  PROVE  [t \in Tasks |-> Status(t)]' = [[t \in Tasks |-> Status(t)] EXCEPT ![p] = e]
<1>1. Status(p)' = e /\ \A t \in Tasks \ {p} : Status(t)' = Status(t)
  BY StatusStage, StatusStageNext DEF Staged
<1>. QED  BY <1>1

\* What the ledger counts as finished is what the broker has counted.
EndsCounted == Cardinality(Ledger!Finished([t \in Tasks |-> Status(t)]))
                 = processed_task_count + dropped_task_count

LEMMA FinishedTasks == TInv /\ PlaceInv /\ CountInv => EndsCounted
<1>. SUFFICES ASSUME TInv, PlaceInv, CountInv PROVE EndsCounted
  OBVIOUS
<1>1. Ledger!Finished([t \in Tasks |-> Status(t)]) = completed \union discarded
  <2>1. ASSUME NEW t \in Tasks
        PROVE  Status(t) \in {"done", "dropped"} <=> t \in completed \union discarded
    BY StatusStage DEF Staged, Stage
  <2>. QED  BY <2>1, QueueFacts DEF Ledger!Finished
<1>2. completed \intersect discarded = {}
  BY QueueFacts DEF PlaceInv, OneSite, Apart
<1>3. IsFiniteSet(completed) /\ IsFiniteSet(discarded)
  BY QueueFacts, TaskSets
<1>4. Cardinality(completed \union discarded)
        = Cardinality(completed) + Cardinality(discarded)
          - Cardinality(completed \intersect discarded)
  BY <1>3, FS_Union
<1>5. Cardinality(completed) \in Nat /\ Cardinality(discarded) \in Nat
  BY QueueFacts, TaskSets
<1>6. Cardinality(completed \union discarded) = processed_task_count + dropped_task_count
  BY <1>2, <1>4, <1>5, FS_EmptySet DEF CountInv, Counted
<1>. QED  BY <1>1, <1>6, Zenon DEF EndsCounted

LEMMA FinishedTasksNext == TInv' /\ PlaceInv' /\ CountInv' => EndsCounted'
BY FinishedTasks, PTL

\* While a worker is idle, fewer tasks are running than there are workers: each of
\* them is with a worker that has a token and is not idle, or is lost.
LEMMA RunningTasks ==
  ASSUME TInv, OneTokenPerWorker, PlaceInv, CapInv, NEW w \in Range(worker_queue)
  PROVE  Cardinality({t \in Tasks : Status(t) = "running"}) < Cardinality(Workers)
<1>. DEFINE H == {t \in Tasks : Held(t)}
            L == Live \ {w}
            f == [t \in H |-> CHOOSE v \in Workers : Holds(v, t)]
<1>1. w \in Workers /\ w \in Live
  <2>1. w \in Workers
    BY FunFacts DEF Range
  <2>. QED  BY <2>1, LiveFacts
<1>2. /\ IsFiniteSet(Live) /\ IsFiniteSet(L) /\ Live \subseteq Workers
      /\ Cardinality(Live) \in Nat /\ Cardinality(L) = Cardinality(Live) - 1
      /\ Cardinality(Workers) \in Nat
  <2>1. Live \subseteq Workers /\ Workers \subseteq Workers
    BY DEF Live
  <2>. QED  BY <1>1, <2>1, WorkerSets
<1>3. /\ IsFiniteSet(H) /\ Cardinality(H) \in Nat
      /\ IsFiniteSet(lost) /\ Cardinality(lost) \in Nat /\ lost \subseteq Tasks
  BY QueueFacts, TaskSets
<1>4. ASSUME NEW t \in H
      PROVE  f[t] \in L /\ Holds(f[t], t)
  <2>1. f[t] \in Workers /\ Holds(f[t], t) /\ t \in Tasks
    BY <1>4 DEF Held
  <2>2. f[t] # w
    BY <1>1, <2>1, HoldsFacts
  <2>3. backend[f[t]] # <<>> \/ inbox[f[t]] # <<>> \/ workerPc[f[t]] = "work"
    <3>1. PICK v \in Workers : v = f[t]
      BY <2>1
    <3>. HIDE DEF f
    <3>2. backend[v] = <<>> => Range(backend[v]) = {}
      BY FunFacts, EmptyRange
    <3>3. inbox[v] = <<>> => Range(inbox[v]) = {}
      BY FunFacts, EmptyRange
    <3>4. task_id[v] = t => workerPc[v] = "work"
      BY <2>1 DEF TInv, PcOK
    <3>. QED  BY <2>1, <3>1, <3>2, <3>3, <3>4 DEF Holds
  <2>4. f[t] \in Live
    <3>. HIDE DEF f
    <3>. QED  BY <2>1, <2>3, LiveFacts
  <2>. QED  BY <2>1, <2>2, <2>4
<1>5. Cardinality(H) <= Cardinality(L)
  <2>. SUFFICES ASSUME Cardinality(L) < Cardinality(H) PROVE FALSE
    BY <1>2, <1>3
  <2>1. f \in [H -> L]
    BY <1>4
  <2>2. PICK t, u \in H : t # u /\ f[t] = f[u]
    <3>. HIDE DEF f, H, L
    <3>. QED  BY <1>2, <1>3, <2>1, FS_PigeonHole
  <2>3. Holds(f[t], t) /\ Holds(f[t], u) /\ f[t] \in Workers /\ t \in Tasks /\ u \in Tasks
    BY <1>2, <1>4, <2>2
  <2>. HIDE DEF f
  <2>. QED  BY <2>2, <2>3, HoldsFacts
<1>6. {t \in Tasks : Status(t) = "running"} \subseteq lost \union H
  <2>1. ASSUME NEW t \in Tasks, Status(t) = "running" PROVE t \in lost \union H
    <3>1. t < task_sequence /\ ~Front(t) /\ ~Waits(t) /\ t \notin completed \union discarded
      <4>1. Stage(t) = "running"
        BY <2>1, StatusStage DEF Staged
      <4>. QED  BY <4>1 DEF Stage
    <3>. QED  BY <3>1 DEF PlaceInv, OneSite, Somewhere
  <2>. QED  BY <2>1
<1>7. /\ IsFiniteSet(lost \union H) /\ Cardinality(lost \union H) \in Nat
      /\ Cardinality(lost \union H) <= Cardinality(lost) + Cardinality(H)
  <2>. HIDE DEF H
  <2>1. IsFiniteSet(lost \union H) /\ IsFiniteSet(lost \intersect H)
        /\ Cardinality(lost \union H) = Cardinality(lost) + Cardinality(H)
                                        - Cardinality(lost \intersect H)
    BY <1>3, FS_Union, FS_Intersection
  <2>. QED  BY <1>3, <2>1, FS_CardinalityType
<1>8. /\ Cardinality({t \in Tasks : Status(t) = "running"}) \in Nat
      /\ Cardinality({t \in Tasks : Status(t) = "running"}) <= Cardinality(lost \union H)
  <2>1. {t \in Tasks : Status(t) = "running"} \subseteq Tasks
    OBVIOUS
  <2>. HIDE DEF H
  <2>. QED  BY <1>6, <1>7, <2>1, FS_Subset, TaskSets
<1>. HIDE DEF H, L
<1>. QED  BY <1>2, <1>3, <1>5, <1>7, <1>8 DEF CapInv

\* The two modules count alike.
LEMMA SameCardinality == \A S : Ledger!Cardinality(S) = Cardinality(S)
BY DEF Ledger!Cardinality, Cardinality

\* A worker, the poll of the broker and the producer do nothing the ledger sees: a
\* task is new until the broker takes it from the frontend.
LEMMA QuietSteps ==
  ASSUME TInv, TInv', PlaceInv, PlaceInv',
         Producer \/ Poll \/ (\E w \in Workers : Worker(w) \/ Crash(w)) \/ UNCHANGED vars
  PROVE  UNCHANGED Ledger!vars
<1>1. UNCHANGED <<pending_task_queue, completed, discarded>>
  BY DEF Producer, Stamp, Send, Poll, Worker, Start, Receive, Finish, Crash, vars,
         queueVars, tallyVars
<1>2. brokerPc' = "exit" <=> brokerPc = "exit"
  BY DEF Producer, Stamp, Send, Poll, Worker, Start, Receive, Finish, Crash, vars
<1>3. CASE UNCHANGED <<frontend, task_sequence>>
  <2>1. \A t \in Tasks : Stage(t)' = Stage(t)
    BY <1>1, <1>3 DEF Stage, Waits, Front
  <2>. QED  BY <1>1, <1>2, <2>1, LedgerStutters
<1>4. CASE Send
  <2>. DEFINE s == task_sequence
  <2>1. s \in Tasks /\ frontend' = Append(frontend, s) /\ task_sequence' = s + 1
    BY <1>4, CountsAssumption DEF Send, TInv, TypeOK, PcOK, Tasks
  <2>2. Range(frontend') = Range(frontend) \union {s}
    BY <2>1, QueueFacts, AppendRange
  <2>3. \A t \in Tasks : /\ Front(t)' <=> Front(t) \/ t = s
                         /\ t # s => (t < task_sequence' <=> t < s)
                         /\ ~(s < s)
    BY <2>1, <2>2 DEF Front, Tasks
  <2>4. \A t \in Tasks : Stage(t)' = Stage(t)
    BY <1>1, <2>3 DEF Stage, Waits
  <2>. QED  BY <1>1, <1>2, <2>4, LedgerStutters
<1>5. Send \/ UNCHANGED <<frontend, task_sequence>>
  BY DEF Producer, Stamp, Poll, Worker, Start, Receive, Finish, Crash, vars, producerVars
<1>. QED  BY <1>3, <1>4, <1>5

\* The task that the broker takes from the producer is started, queued or dropped.
LEMMA RecvTaskLedger ==
  ASSUME TInv, TInv', OneTokenPerWorker, PlaceInv, PlaceInv', CountInv, CountInv', CapInv,
         RecvTask
  PROVE  Ledger!Next
<1>0. PICK p \in Tasks : p = Head(frontend)
  BY HeadTask
<1>1. /\ frontend # <<>> /\ frontend' = Tail(frontend) /\ task_sequence' = task_sequence
      /\ brokerPc = "task"
  BY DEF RecvTask, TInv, TypeOK, PcOK, producerVars
<1>2. Range(frontend') = Range(frontend) \ {p}
  BY <1>0, <1>1, QueueFacts, TailOfNew DEF PlaceInv
<1>3. Front(p) /\ p < task_sequence /\ ~Waits(p) /\ p \notin completed \union discarded
  <2>1. Front(p)
    BY <1>0, <1>1, QueueFacts, EmptyRange DEF Front
  <2>. QED  BY <2>1 DEF PlaceInv, OneSite, Apart, Somewhere
<1>4. Status(p) = "new"
  BY <1>3, StatusStage DEF Staged, Stage
<1>5. \A t \in Tasks : Front(t)' <=> Front(t) /\ t # p
  BY <1>2 DEF Front
<1>6. completed' = completed
  BY DEF RecvTask, RejectInvalid, AssignToIdle, Pend, DropTask, CountDropped, tallyVars
<1>7. CASE RejectInvalid(p) \/ DropTask(p)
  <2>1. discarded' = discarded \union {p} /\ pending_task_queue' = pending_task_queue
    BY <1>7 DEF RejectInvalid, DropTask, CountDropped, queueVars
  <2>2. Stage(p)' = "dropped" /\ \A t \in Tasks \ {p} : Stage(t)' = Stage(t)
    BY <1>1, <1>3, <1>5, <1>6, <2>1 DEF Stage, Waits
  <2>3. [t \in Tasks |-> Status(t)]' = [[t \in Tasks |-> Status(t)] EXCEPT ![p] = "dropped"]
    BY <2>2, LedgerMoves
  <2>4. p >= TaskCount \/ Len(pending_task_queue) = QueueSize
    BY <1>7, CountsAssumption, QueueFacts
       DEF RejectInvalid, DropTask, IsValid, HasRoom, Tasks, TInv, CountersAgree, TypeOK
  <2>5. (brokerPc = "exit")' =
          (Cardinality(Ledger!Finished([t \in Tasks |-> Status(t)]')) >= TaskCount)
    BY FinishedTasksNext DEF EndsCounted, CountInv, LoopEnds
  <2>6. Ledger!Drop(p)
    BY <1>1, <1>4, <2>1, <2>3, <2>4, <2>5, SameCardinality DEF Ledger!Drop
  <2>. QED  BY <2>6 DEF Ledger!Next
<1>8. CASE Pend(p)
  <2>1. /\ pending_task_queue' = Append(pending_task_queue, p) /\ UNCHANGED tallyVars
        /\ p < TaskCount /\ Len(pending_task_queue) < QueueSize
    BY <1>8 DEF Pend, IsValid, HasRoom, TInv, CountersAgree
  <2>2. Range(pending_task_queue') = Range(pending_task_queue) \union {p}
    BY <2>1, QueueFacts, AppendRange
  <2>3. Stage(p)' = "queued" /\ \A t \in Tasks \ {p} : Stage(t)' = Stage(t)
    BY <1>1, <1>3, <1>5, <2>1, <2>2 DEF Stage, Waits, tallyVars
  <2>4. [t \in Tasks |-> Status(t)]' = [[t \in Tasks |-> Status(t)] EXCEPT ![p] = "queued"]
    BY <2>3, LedgerMoves
  <2>5. brokerPc' # "exit"
    BY <1>1, <2>1 DEF CountInv, LoopEnds, tallyVars
  <2>6. Ledger!Queue(p)
    BY <1>1, <1>4, <2>1, <2>4, <2>5 DEF Ledger!Queue
  <2>. QED  BY <2>6 DEF Ledger!Next
<1>9. CASE AssignToIdle(p)
  <2>1. /\ p < TaskCount /\ worker_queue # <<>>
        /\ UNCHANGED <<pending_task_queue, tallyVars>>
    BY <1>9 DEF AssignToIdle, IsValid
  <2>2. Stage(p)' = "running" /\ \A t \in Tasks \ {p} : Stage(t)' = Stage(t)
    BY <1>1, <1>3, <1>5, <2>1 DEF Stage, Waits, tallyVars
  <2>3. [t \in Tasks |-> Status(t)]' = [[t \in Tasks |-> Status(t)] EXCEPT ![p] = "running"]
    BY <2>2, LedgerMoves
  <2>4. Cardinality(Ledger!At("running")) < Cardinality(Workers)
    <3>1. Head(worker_queue) \in Range(worker_queue)
      BY <2>1, FunFacts, EmptyRange
    <3>2. Ledger!At("running") = {t \in Tasks : Status(t) = "running"}
      BY DEF Ledger!At
    <3>. QED  BY <3>1, <3>2, RunningTasks
  <2>5. brokerPc' # "exit"
    BY <1>1, <2>1 DEF CountInv, LoopEnds, tallyVars
  <2>6. Ledger!Start(p)
    BY <1>1, <1>4, <2>1, <2>3, <2>4, <2>5, SameCardinality DEF Ledger!Start
  <2>. QED  BY <2>6 DEF Ledger!Next
<1>. QED  BY <1>0, <1>7, <1>8, <1>9 DEF RecvTask

\* A DONE completes its task, and the first that waits, if any, starts to run; a
\* READY is nothing to the ledger.
LEMMA RecvWorkerLedger ==
  ASSUME TInv, TInv', OneTokenPerWorker, PlaceInv, PlaceInv', CountInv, CountInv',
         NEW w \in Workers, RecvWorker(w)
  PROVE  Ledger!Next \/ UNCHANGED Ledger!vars
<1>0. PICK m \in Messages : m = Head(backend[w])
  BY FunFacts DEF RecvWorker
<1>1. /\ UNCHANGED <<frontend, task_sequence>> /\ brokerPc = "worker" /\ backend[w] # <<>>
      /\ \A t \in Tasks : Front(t)' <=> Front(t)
  BY DEF RecvWorker, producerVars, Front
<1>2. CASE RecvReady(w)
  <2>1. UNCHANGED <<pending_task_queue, tallyVars>>
    BY <1>2 DEF RecvReady, EnqueueIdle
  <2>2. brokerPc' # "exit"
    BY <1>1, <2>1 DEF CountInv, LoopEnds, tallyVars
  <2>3. \A t \in Tasks : Stage(t)' = Stage(t)
    BY <1>1, <2>1 DEF Stage, Waits, tallyVars
  <2>. QED  BY <1>1, <2>1, <2>2, <2>3, LedgerStutters
<1>3. CASE m.kind = "DONE" /\ RecvDone(w, m.task)
  <2>1. PICK d \in Tasks : m = DONE(d) /\ m.task = d
    BY <1>3, MessageFacts
  <2>2. completed' = completed \union {d} /\ discarded' = discarded
    BY <1>3, <2>1 DEF RecvDone
  <2>3. Held(d)
    BY <1>0, <1>1, <2>1, HoldsFacts DEF Held
  <2>4. d < task_sequence /\ ~Front(d) /\ ~Waits(d) /\ d \notin completed \union discarded
    BY <2>3 DEF PlaceInv, OneSite, Apart, Somewhere
  <2>5. Status(d) = "running"
    BY <2>4, StatusStage DEF Staged, Stage
  <2>6. (brokerPc = "exit")' =
          (Cardinality(Ledger!Finished([t \in Tasks |-> Status(t)]')) >= TaskCount)
    BY FinishedTasksNext DEF EndsCounted, CountInv, LoopEnds
  <2>7. CASE pending_task_queue = <<>> /\ EnqueueIdle(w)
    <3>1. pending_task_queue' = pending_task_queue
      BY <2>7 DEF EnqueueIdle
    <3>2. Stage(d)' = "done" /\ \A t \in Tasks \ {d} : Stage(t)' = Stage(t)
      BY <1>1, <2>2, <3>1 DEF Stage, Waits
    <3>3. [t \in Tasks |-> Status(t)]' = [[t \in Tasks |-> Status(t)] EXCEPT ![d] = "done"]
      BY <3>2, LedgerMoves
    <3>4. Ledger!Complete(d)
      BY <1>1, <2>5, <2>6, <2>7, <3>1, <3>3, SameCardinality DEF Ledger!Complete
    <3>. QED  BY <3>4 DEF Ledger!Next
  <2>8. CASE pending_task_queue # <<>> /\ DispatchPending(w)
    <3>0. PICK p \in Tasks : p = Head(pending_task_queue)
      BY <2>8, QueueFacts
    <3>1. pending_task_queue' = Tail(pending_task_queue)
      BY <2>8 DEF DispatchPending
    <3>2. Range(pending_task_queue') = Range(pending_task_queue) \ {p}
      BY <2>8, <3>0, <3>1, QueueFacts, TailOfNew DEF PlaceInv
    <3>3. Waits(p) /\ p # d /\ \A t \in Tasks : Waits(t)' <=> Waits(t) /\ t # p
      BY <2>4, <2>8, <3>0, <3>2, QueueFacts, EmptyRange DEF Waits
    <3>4. p < task_sequence /\ ~Front(p) /\ p \notin completed \union discarded
      BY <3>3 DEF PlaceInv, OneSite, Apart, Somewhere
    <3>5. /\ Stage(d)' = "done" /\ Stage(p)' = "running"
          /\ \A t \in Tasks \ {d, p} : Stage(t)' = Stage(t)
      BY <1>1, <2>2, <3>3, <3>4 DEF Stage
    <3>6. /\ Status(d)' = "done" /\ Status(p)' = "running"
          /\ \A t \in Tasks \ {d, p} : Status(t)' = Status(t)
      BY <3>5, StatusStage, StatusStageNext DEF Staged
    <3>7. [t \in Tasks |-> Status(t)]' =
            [[t \in Tasks |-> Status(t)] EXCEPT ![d] = "done",
                                                ![Head(pending_task_queue)] = "running"]
      BY <3>0, <3>3, <3>6
    <3>8. Ledger!Complete(d)
      BY <1>1, <2>5, <2>6, <2>8, <3>1, <3>7, SameCardinality DEF Ledger!Complete
    <3>. QED  BY <3>8 DEF Ledger!Next
  <2>. QED  BY <1>3, <2>1, <2>7, <2>8 DEF RecvDone
<1>. QED  BY <1>0, <1>2, <1>3 DEF RecvWorker

\* Every step of the system is one of the ledger or leaves it as it is.
LEMMA LedgerSteps ==
  /\ TInv /\ OneTokenPerWorker /\ PlaceInv /\ CountInv /\ CapInv
  /\ TInv' /\ PlaceInv' /\ CountInv' /\ [Next]_vars
  => [Ledger!Next]_(Ledger!vars)
BY QuietSteps, RecvTaskLedger, RecvWorkerLedger DEF Next, Broker

LEMMA LedgerInit == Init => Ledger!Init
<1>. SUFFICES ASSUME Init PROVE Ledger!Init
  OBVIOUS
<1>1. \A t \in Tasks : Status(t) = "new"
  <2>1. PlaceInv
    BY InitPlaces
  <2>2. \A t \in Tasks : Stage(t) = "new"
    BY DEF Init, Stage, Waits, Range, Tasks
  <2>. QED  BY <2>1, <2>2, StatusStage DEF Staged
<1>2. (brokerPc = "exit") = (TaskCount = 0)
  BY CountsAssumption DEF Init, LoopPc
<1>3. pending_task_queue = <<>>
  BY DEF Init
<1>. QED  BY <1>1, <1>2, <1>3 DEF Ledger!Init

\* The broker, its workers, the producer and all the messages between them are an
\* implementation of TaskLedger, whatever dies: a task is started only when a server
\* is free, waits only in a queue with room, is dropped only for the two reasons it
\* may be, is completed once, and the broker stops when enough have come to an end.
THEOREM LedgerImplemented == Spec => ImplementsLedger
<1>1. Spec => [](TInv /\ OneTokenPerWorker /\ PlaceInv /\ CountInv /\ CapInv)
  BY TInvariance, TokensCorrect, PlaceInvariance, CountInvariance, CapInvariance, PTL
<1>. QED  BY <1>1, LedgerInit, LedgerSteps, PTL DEF Spec, ImplementsLedger, Ledger!Spec
---------------------------------------------------------------------------
(* The monitor.  The system it watches is that of TaskDispatch, whose      *)
(* invariants are used: every step of MSpec is a step of TaskDispatch or   *)
(* leaves its variables alone.                                             *)

\* What has been published holds for states of the past: their totals are in order, and
\* behind those of the broker, which was in its loop.
PastOK ==
  /\ \A k \in DOMAIN past : /\ past[k].processed <= Cardinality(completed)
                           /\ past[k].dropped <= Cardinality(discarded)
                           /\ past[k].processed + past[k].dropped < TaskCount
  /\ \A k, m \in DOMAIN past : k <= m => /\ past[k].processed <= past[m].processed
                                        /\ past[k].dropped <= past[m].dropped

MInv == MonitorTypeOK /\ PastOK /\ SomeOf(Feed, past)

\* Every step is one of TaskDispatch or leaves its variables alone.
LEMMA StepOfDispatch == [MNext]_<<vars, watchVars>> => [Next]_vars
BY DEF MNext, MBroker, Test, Wait, Handle, Others, StartMonitor, Subscribe, Show,
       StopMonitor, Next, Broker

\* The broker's totals never go down.
Grows == /\ processed_task_count' \in Nat /\ processed_task_count' >= processed_task_count
         /\ dropped_task_count' \in Nat /\ dropped_task_count' >= dropped_task_count

LEMMA TotalsGrow == TInv /\ [Next]_vars => Grows
<1>. SUFFICES ASSUME TInv, [Next]_vars PROVE Grows
  OBVIOUS
<1>1. processed_task_count \in Nat /\ dropped_task_count \in Nat
  BY DEF TInv, TypeOK
<1>2. CASE UNCHANGED tallyVars
  BY <1>1, <1>2 DEF tallyVars, Grows
<1>3. CASE RecvTask
  BY <1>1, <1>3 DEF RecvTask, RejectInvalid, AssignToIdle, Pend, DropTask,
                    CountDropped, tallyVars, Grows
<1>4. ASSUME NEW w \in Workers, RecvWorker(w)
      PROVE  Grows
  BY <1>1, <1>4 DEF RecvWorker, RecvDone, RecvReady, tallyVars, Grows
<1>5. CASE Producer
  BY <1>2, <1>5 DEF Producer, Stamp, Send
<1>6. ASSUME NEW w \in Workers, Worker(w) \/ Crash(w)
      PROVE  UNCHANGED tallyVars
  BY <1>6 DEF Worker, Start, Receive, Finish, Crash
<1>7. CASE Poll
  BY <1>2, <1>7 DEF Poll
<1>8. CASE UNCHANGED vars
  BY <1>2, <1>8 DEF vars
<1>. QED  BY <1>2, <1>3, <1>4, <1>5, <1>6, <1>7, <1>8 DEF Next, Broker

\* What the broker publishes is the state that it is in.
LEMMA SnapshotIsState ==
  ASSUME TInv, CountInv
  PROVE  Snapshot = Figures /\ Figures \in Snapshots
<1>1. /\ worker_count = Len(worker_queue) /\ pending_task_count = Len(pending_task_queue)
      /\ processed_task_count = Cardinality(completed)
      /\ dropped_task_count = Cardinality(discarded)
      /\ pending_task_count \in Nat /\ worker_count \in Nat /\ QueueSize \in Nat
      /\ processed_task_count \in Nat /\ dropped_task_count \in Nat
  BY CountsAssumption DEF TInv, TypeOK, CountersAgree, CountInv, Counted
<1>2. Snapshot = Figures
  BY <1>1 DEF Snapshot, Figures
<1>3. Snapshot \in Snapshots
  BY <1>1 DEF Snapshot, Snapshots
<1>. QED  BY <1>2, <1>3
---------------------------------------------------------------------------
(* Reports in the order of the states *)

\* What adding at the end of a sequence makes of it.
LEMMA Longer ==
  ASSUME NEW S, NEW q \in Seq(S), NEW s \in S
  PROVE  /\ Append(q, s) \in Seq(S) /\ Len(Append(q, s)) = Len(q) + 1
         /\ Len(q) \in Nat /\ DOMAIN q = 1 .. Len(q) /\ DOMAIN Append(q, s) = 1 .. Len(q) + 1
         /\ \A i \in 1 .. Len(q) : Append(q, s)[i] = q[i]
         /\ Append(q, s)[Len(q) + 1] = s
<1>1. Append(q, s) \in Seq(S) /\ Len(Append(q, s)) = Len(q) + 1
  BY AppendProperties
<1>2. (\A i \in 1 .. Len(q) : Append(q, s)[i] = q[i]) /\ Append(q, s)[Len(q) + 1] = s
  BY AppendProperties
<1>. QED  BY <1>1, <1>2

\* A state that is not reported, and one that is.
LEMMA SomeOfMore ==
  ASSUME NEW S, NEW reports \in Seq(S), NEW states \in Seq(S), NEW s \in S,
         SomeOf(reports, states)
  PROVE  SomeOf(reports, Append(states, s)) /\ SomeOf(Append(reports, s), Append(states, s))
<1>. DEFINE n == Len(reports)
            m == Len(states)
<1>1. /\ n \in Nat /\ DOMAIN reports = 1 .. n /\ DOMAIN Append(reports, s) = 1 .. n + 1
      /\ \A i \in 1 .. n : Append(reports, s)[i] = reports[i]
      /\ Append(reports, s)[n + 1] = s
  BY Longer
<1>2. /\ m \in Nat /\ DOMAIN states = 1 .. m /\ DOMAIN Append(states, s) = 1 .. m + 1
      /\ \A i \in 1 .. m : Append(states, s)[i] = states[i]
      /\ Append(states, s)[m + 1] = s
  BY Longer
<1>. HIDE DEF n, m
<1>3. PICK at \in [1 .. n -> 1 .. m] :
        /\ \A i \in 1 .. n : reports[i] = states[at[i]]
        /\ \A i, j \in 1 .. n : i < j => at[i] < at[j]
  BY <1>1, <1>2 DEF SomeOf
<1>4. SomeOf(reports, Append(states, s))
  <2>1. at \in [1 .. n -> 1 .. m + 1]
    BY <1>2, <1>3
  <2>2. \A i \in 1 .. n : reports[i] = Append(states, s)[at[i]]
    BY <1>2, <1>3
  <2>. QED  BY <1>1, <1>2, <1>3, <2>1, <2>2 DEF SomeOf
<1>5. SomeOf(Append(reports, s), Append(states, s))
  <2>. DEFINE more == [i \in 1 .. n + 1 |-> IF i = n + 1 THEN m + 1 ELSE at[i]]
  <2>1. \A i \in 1 .. n : at[i] \in 1 .. m /\ i # n + 1 /\ i \in 1 .. n + 1
    BY <1>1, <1>3
  <2>2. more[n + 1] = m + 1 /\ \A i \in 1 .. n : more[i] = at[i]
    BY <1>1, <2>1
  <2>3. \A i \in 1 .. n + 1 : i = n + 1 \/ i \in 1 .. n
    BY <1>1
  <2>4. more \in [1 .. n + 1 -> 1 .. m + 1]
    BY <1>2, <2>1, <2>3
  <2>. HIDE DEF more
  <2>5. \A i \in 1 .. n + 1 : Append(reports, s)[i] = Append(states, s)[more[i]]
    BY <1>1, <1>2, <1>3, <2>1, <2>2, <2>3
  <2>6. \A i, j \in 1 .. n + 1 : i < j => more[i] < more[j]
    <3>. SUFFICES ASSUME NEW i \in 1 .. n + 1, NEW j \in 1 .. n + 1, i < j
                  PROVE  more[i] < more[j]
      OBVIOUS
    <3>1. i \in 1 .. n
      BY <1>1
    <3>2. CASE j = n + 1
      BY <1>2, <2>1, <2>2, <3>1, <3>2
    <3>3. CASE j \in 1 .. n
      BY <1>3, <2>2, <3>1, <3>3
    <3>. QED  BY <2>3, <3>2, <3>3
  <2>. QED  BY <1>1, <1>2, <2>4, <2>5, <2>6 DEF SomeOf
<1>. QED  BY <1>4, <1>5

LEMMA SomeOfNone ==
  ASSUME NEW S, NEW states \in Seq(S)
  PROVE  SomeOf(<<>>, states)
<1>. DEFINE at == [i \in {} |-> 1]
<1>1. DOMAIN <<>> = {} /\ at \in [{} -> DOMAIN states]
  OBVIOUS
<1>. HIDE DEF at
<1>. QED  BY <1>1 DEF SomeOf

\* What is sent comes last in the feed, and what is printed keeps its place in it.
LEMMA FeedFacts ==
  ASSUME NEW S, NEW screen \in Seq(S), NEW ch \in Seq(S)
  PROVE  /\ screen \o ch \in Seq(S) /\ <<>> \o ch = ch
         /\ \A s \in S : screen \o Append(ch, s) = Append(screen \o ch, s)
         /\ ch # <<>> => /\ Head(ch) \in S /\ Tail(ch) \in Seq(S) /\ Len(Tail(ch)) = Len(ch) - 1
                         /\ Append(screen, Head(ch)) \in Seq(S)
                         /\ Append(screen, Head(ch)) \o Tail(ch) = screen \o ch
<1>1. screen \o ch \in Seq(S) /\ <<>> \o ch = ch
  BY ConcatProperties, ConcatEmptySeq
<1>2. ASSUME NEW s \in S  PROVE screen \o Append(ch, s) = Append(screen \o ch, s)
  <2>1. <<s>> \in Seq(S)
    OBVIOUS
  <2>2. Append(ch, s) = ch \o <<s>> /\ Append(screen \o ch, s) = (screen \o ch) \o <<s>>
    BY <1>1, AppendIsConcat
  <2>. QED  BY <2>1, <2>2, ConcatAssociative
<1>3. ASSUME ch # <<>>
      PROVE  /\ Head(ch) \in S /\ Tail(ch) \in Seq(S) /\ Len(Tail(ch)) = Len(ch) - 1
             /\ Append(screen, Head(ch)) \in Seq(S)
             /\ Append(screen, Head(ch)) \o Tail(ch) = screen \o ch
  <2>. DEFINE h == Head(ch)
              t == Tail(ch)
  <2>1. h \in S /\ t \in Seq(S) /\ Len(t) = Len(ch) - 1
    BY <1>3, HeadTailProperties
  <2>2. <<h>> \in Seq(S)
    BY <2>1
  <2>3. ch = <<h>> \o t
    BY <1>3, <2>1
  <2>4. Append(screen, h) = screen \o <<h>> /\ Append(screen, h) \in Seq(S)
    BY <2>1, AppendIsConcat, AppendProperties
  <2>. HIDE DEF h, t
  <2>5. (screen \o <<h>>) \o t = screen \o (<<h>> \o t)
    BY <2>1, <2>2, ConcatAssociative
  <2>6. Append(screen, h) \o t = screen \o ch
    BY <2>3, <2>4, <2>5
  <2>. QED  BY <2>1, <2>4, <2>6 DEF h, t
<1>. QED  BY <1>1, <1>2, <1>3
---------------------------------------------------------------------------
(* The steps *)

LEMMA InitMInv == MInit => MInv
<1>. SUFFICES ASSUME MInit PROVE MInv
  OBVIOUS
<1>1. <<>> \in Seq(Snapshots) /\ Len(<<>>) = 0 /\ DOMAIN <<>> = {}
  OBVIOUS
<1>2. MonitorTypeOK
  <2>1. /\ tested = FALSE /\ monitorPc = "down" /\ monitors = 0
        /\ channel = <<>> /\ shown = <<>> /\ past = <<>>
    BY DEF MInit
  <2>2. 0 <= MonitorHwm /\ 0 <= MaxSnapshots /\ 0 \in 0 .. MaxMonitors
    BY MonitorAssumption
  <2>3. channel \in Seq(Snapshots) /\ Len(channel) <= MonitorHwm
    BY <1>1, <2>1, <2>2
  <2>4. past \in Seq(Snapshots) /\ Len(past) <= MaxSnapshots
    BY <1>1, <2>1, <2>2
  <2>5. shown \in Seq(Snapshots) /\ monitors \in 0 .. MaxMonitors
    BY <1>1, <2>1, <2>2
  <2>. QED  BY <2>1, <2>3, <2>4, <2>5 DEF MonitorTypeOK
<1>3. PastOK
  BY <1>1 DEF MInit, PastOK
<1>4. SomeOf(Feed, past)
  <2>1. Feed = <<>> /\ past = <<>>
    BY <1>1, FeedFacts DEF MInit, Feed
  <2>. QED  BY <1>1, <2>1, SomeOfNone
<1>. QED  BY <1>2, <1>3, <1>4 DEF MInv

\* What the totals of the past are compared with only grows.
LEMMA PastFrame ==
  ASSUME TInv, CountInv, CountInv', MInv, Grows, UNCHANGED past
  PROVE  PastOK'
<1>1. /\ Cardinality(completed)' >= Cardinality(completed)
      /\ Cardinality(discarded)' >= Cardinality(discarded)
      /\ Cardinality(completed) \in Nat /\ Cardinality(completed)' \in Nat
      /\ Cardinality(discarded) \in Nat /\ Cardinality(discarded)' \in Nat
  BY DEF TInv, TypeOK, Grows, CountInv, Counted
<1>2. \A k \in DOMAIN past : past[k].processed \in Nat /\ past[k].dropped \in Nat
  <2>1. \A k \in DOMAIN past : past[k] \in Snapshots
    BY DEF MInv, MonitorTypeOK
  <2>. QED  BY <2>1 DEF Snapshots
<1>. QED  BY <1>1, <1>2 DEF MInv, PastOK

\* The broker publishes the state in which it is in its loop.
LEMMA PublishMInv ==
  ASSUME TInv, CountInv, MInv, Test, Publish
  PROVE  MInv'
<1>. DEFINE f == Figures
<1>1. f \in Snapshots /\ Snapshot = f
  BY SnapshotIsState
<1>2. /\ channel \in Seq(Snapshots) /\ shown \in Seq(Snapshots) /\ past \in Seq(Snapshots)
      /\ Len(channel) \in Nat /\ Len(past) \in Nat
  BY DEF MInv, MonitorTypeOK
<1>3. /\ past' = Append(past, f) /\ Len(past) < MaxSnapshots
      /\ tested' = TRUE /\ UNCHANGED <<monitorPc, shown, monitors, completed, discarded>>
      /\ brokerPc = "poll"
  BY DEF Test, Publish, vars, tallyVars
<1>4. channel' = channel \/ (channel' = Append(channel, f) /\ monitorPc = "up" /\ Len(channel) < MonitorHwm)
  BY <1>1 DEF Publish
<1>5. /\ f.processed = Cardinality(completed) /\ f.dropped = Cardinality(discarded)
      /\ f.processed \in Nat /\ f.dropped \in Nat
      /\ f.processed + f.dropped < TaskCount
  BY <1>3, CountsAssumption DEF Figures, TInv, TypeOK, CountInv, Counted, LoopEnds
<1>. HIDE DEF f
<1>6. /\ past' \in Seq(Snapshots) /\ Len(past') = Len(past) + 1
      /\ DOMAIN past = 1 .. Len(past) /\ DOMAIN past' = 1 .. Len(past) + 1
      /\ \A k \in 1 .. Len(past) : past'[k] = past[k]
      /\ past'[Len(past) + 1] = f
  BY <1>1, <1>2, <1>3, Longer
<1>7. MonitorTypeOK'
  <2>1. channel' \in Seq(Snapshots) /\ Len(channel') <= MonitorHwm /\ (monitorPc # "up" => channel' = <<>>)
    <3>1. CASE channel' = channel
      BY <3>1 DEF MInv, MonitorTypeOK
    <3>2. CASE channel' = Append(channel, f) /\ monitorPc = "up" /\ Len(channel) < MonitorHwm
      BY <1>1, <1>2, <3>2, MonitorAssumption, Longer
    <3>. QED  BY <1>4, <3>1, <3>2
  <2>. QED  BY <1>2, <1>3, <1>6, <2>1, MonitorAssumption DEF MInv, MonitorTypeOK
<1>8. PastOK'
  <2>1. \A k \in 1 .. Len(past) : /\ past[k].processed <= f.processed
                                  /\ past[k].dropped <= f.dropped
                                  /\ past[k].processed + past[k].dropped < TaskCount
    BY <1>5, <1>6 DEF MInv, PastOK
  <2>2. \A k \in 1 .. Len(past) + 1 : k \in 1 .. Len(past) \/ k = Len(past) + 1
    BY <1>2
  <2>3. \A k \in DOMAIN past' : /\ past'[k].processed <= f.processed
                               /\ past'[k].dropped <= f.dropped
                               /\ past'[k].processed + past'[k].dropped < TaskCount
    BY <1>5, <1>6, <2>1, <2>2
  <2>4. ASSUME NEW k \in DOMAIN past', NEW m \in DOMAIN past', k <= m
        PROVE  past'[k].processed <= past'[m].processed /\ past'[k].dropped <= past'[m].dropped
    <3>1. CASE m = Len(past) + 1
      BY <1>6, <2>3, <3>1
    <3>2. CASE m \in 1 .. Len(past)
      <4>1. k \in 1 .. Len(past)
        BY <1>2, <1>6, <2>4, <3>2
      <4>. QED  BY <1>6, <2>4, <3>2, <4>1 DEF MInv, PastOK
    <3>. QED  BY <1>6, <2>2, <3>1, <3>2
  <2>. QED  BY <1>3, <1>5, <2>3, <2>4 DEF PastOK
<1>9. SomeOf(Feed, past)'
  <2>1. Feed \in Seq(Snapshots) /\ SomeOf(Feed, past)
    BY <1>2, FeedFacts DEF Feed, MInv
  <2>2. Feed' = Feed \/ Feed' = Append(Feed, f)
    <3>1. shown \o Append(channel, f) = Append(shown \o channel, f)
      BY <1>1, <1>2, FeedFacts
    <3>2. Feed' = shown \o channel'
      BY <1>3 DEF Feed
    <3>. QED  BY <1>4, <3>1, <3>2 DEF Feed
  <2>3. SomeOf(Feed, Append(past, f)) /\ SomeOf(Append(Feed, f), Append(past, f))
    BY <1>1, <1>2, <2>1, SomeOfMore
  <2>4. SomeOf(Feed', past')
    BY <1>3, <2>2, <2>3
  <2>. QED  BY <2>4
<1>. QED  BY <1>7, <1>8, <1>9 DEF MInv

\* What is printed was the first on its way.
LEMMA ShowMInv ==
  ASSUME TInv, CountInv, CountInv', MInv, Grows, Show
  PROVE  MInv'
<1>1. /\ channel \in Seq(Snapshots) /\ shown \in Seq(Snapshots) /\ channel # <<>> /\ Len(channel) \in Nat
      /\ shown' = Append(shown, Head(channel)) /\ channel' = Tail(channel)
      /\ UNCHANGED <<tested, monitorPc, monitors, past>> /\ monitorPc = "up"
  BY DEF Show, MInv, MonitorTypeOK
<1>2. /\ channel' \in Seq(Snapshots) /\ Len(channel') = Len(channel) - 1
      /\ shown' \in Seq(Snapshots) /\ shown' \o channel' = shown \o channel
  BY <1>1, FeedFacts
<1>3. MonitorTypeOK'
  BY <1>1, <1>2, MonitorAssumption DEF MInv, MonitorTypeOK
<1>4. Feed' = Feed
  BY <1>2 DEF Feed
<1>5. SomeOf(Feed, past)'
  BY <1>1, <1>4 DEF MInv
<1>. QED  BY <1>1, <1>3, <1>5, PastFrame DEF MInv

\* A monitor that is stopped takes its screen and what was on its way with it.
LEMMA StopMInv ==
  ASSUME TInv, CountInv, CountInv', MInv, Grows, StopMonitor
  PROVE  MInv'
<1>1. /\ shown' = <<>> /\ channel' = <<>> /\ monitorPc' = "down"
      /\ UNCHANGED <<tested, monitors, past>>
  BY DEF StopMonitor
<1>2. <<>> \in Seq(Snapshots) /\ Len(<<>>) = 0 /\ past \in Seq(Snapshots)
  BY DEF MInv, MonitorTypeOK
<1>3. MonitorTypeOK'
  BY <1>1, <1>2, MonitorAssumption DEF MInv, MonitorTypeOK
<1>4. SomeOf(Feed', past')
  <2>1. Feed' = <<>>
    BY <1>1, <1>2, FeedFacts DEF Feed
  <2>. QED  BY <1>1, <1>2, <2>1, SomeOfNone
<1>. QED  BY <1>1, <1>3, <1>4, PastFrame DEF MInv

\* The other steps leave the reports alone.
LEMMA QuietMInv ==
  ASSUME TInv, CountInv, CountInv', MInv, Grows, UNCHANGED <<channel, shown, past>>, MonitorTypeOK'
  PROVE  MInv'
<1>1. SomeOf(Feed', past')
  BY DEF Feed, MInv
<1>. QED  BY <1>1, PastFrame DEF MInv

LEMMA NextMInv ==
  ASSUME TInv, CountInv, CountInv', MInv, [MNext]_<<vars, watchVars>>
  PROVE  MInv'
<1>1. Grows
  BY StepOfDispatch, TotalsGrow
<1>2. CASE Test
  <2>1. CASE UNCHANGED <<channel, past>>
    <3>1. UNCHANGED <<channel, shown, past>> /\ MonitorTypeOK'
      BY <1>2, <2>1 DEF Test, MInv, MonitorTypeOK
    <3>. QED  BY <1>1, <3>1, QuietMInv
  <2>. QED  BY <1>2, <2>1, PublishMInv DEF Test
<1>3. CASE Wait \/ Handle \/ Others \/ UNCHANGED <<vars, watchVars>>
  <2>1. UNCHANGED <<monitorPc, channel, shown, monitors, past>> /\ tested' \in BOOLEAN
    BY <1>3 DEF Wait, Handle, Others, watchVars, monitorVars, MInv, MonitorTypeOK
  <2>2. MonitorTypeOK'
    BY <2>1 DEF MInv, MonitorTypeOK
  <2>. QED  BY <1>1, <2>1, <2>2, QuietMInv
<1>4. CASE StartMonitor \/ Subscribe
  <2>1. UNCHANGED <<channel, shown, past>>
    BY <1>4 DEF StartMonitor, Subscribe
  <2>2. MonitorTypeOK'
    BY <1>4, MonitorAssumption DEF StartMonitor, Subscribe, MInv, MonitorTypeOK
  <2>. QED  BY <1>1, <2>1, <2>2, QuietMInv
<1>. QED  BY <1>1, <1>2, <1>3, <1>4, ShowMInv, StopMInv DEF MNext, MBroker

\* The feed takes its order and its bounds from the past.
LEMMA MInvReports ==
  ASSUME MInv
  PROVE  ReportsThePast
<1>1. PICK at \in [DOMAIN Feed -> DOMAIN past] :
        /\ \A i \in DOMAIN Feed : Feed[i] = past[at[i]]
        /\ \A i, j \in DOMAIN Feed : i < j => at[i] < at[j]
  BY DEF MInv, SomeOf
<1>2. Feed \in Seq(Snapshots) /\ past \in Seq(Snapshots)
  BY FeedFacts DEF Feed, MInv, MonitorTypeOK
<1>3. (\A i \in DOMAIN Feed : i \in Nat) /\ (\A k \in DOMAIN past : k \in Nat)
  BY <1>2
<1>4. \A i, j \in DOMAIN Feed : i <= j => at[i] \in DOMAIN past /\ at[j] \in DOMAIN past /\ at[i] <= at[j]
  <2>. SUFFICES ASSUME NEW i \in DOMAIN Feed, NEW j \in DOMAIN Feed, i <= j
                PROVE  at[i] \in DOMAIN past /\ at[j] \in DOMAIN past /\ at[i] <= at[j]
    OBVIOUS
  <2>1. at[i] \in DOMAIN past /\ at[j] \in DOMAIN past /\ at[i] \in Nat /\ at[j] \in Nat
    BY <1>1, <1>3
  <2>2. i = j \/ i < j
    BY <1>3
  <2>. QED  BY <1>1, <2>1, <2>2
<1>. QED  BY <1>1, <1>4 DEF ReportsThePast, MInv, PastOK

\* However long the system runs, whoever is dropped on the way and whoever dies: what
\* reaches a monitor are states that the broker has been in, each of one moment, in
\* their order, and all of them while it had tasks to wait for.
THEOREM ReportsRight == MSpec => []ReportsThePast
<1>1. MInit => Init
  BY DEF MInit
<1>2. MSpec => Spec
  BY <1>1, StepOfDispatch, PTL DEF MSpec, Spec
<1>3. Spec => [](TInv /\ CountInv)
  BY TInvariance, CountInvariance, PTL
<1>. QED  BY <1>2, <1>3, InitMInv, NextMInv, MInvReports, PTL DEF MSpec
===========================================================================
