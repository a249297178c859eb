# A verification of the network application programming assignments

The repository holds the assignments of a course on network application
programming in C: a dozen small systems of processes and threads that talk over
ZeroMQ sockets, System V semaphores and shared memory, pipes, FIFOs, message
queues and signals, and some sequential tools.  This directory models these
systems in TLA+, checks small instances with TLC, and proves the main safety
properties for all values of the parameters with TLAPS.

`PROJECT.json` lists components, runs, mutants, the lines behind every
definition, hazards, findings and theorems; this file explains them.


## 1. The repository, part by part

Each entry says what state the part keeps, what is hard about it, and what it
means for it to be correct.

**Task dispatch, `src/hw12`.**  `broker.c` is the centre: a `producer.c` sends
numbered tasks to its frontend, several `worker.c` talk to its backend, each
saying `READY` once and `DONE <n>` after every task.  The broker keeps a queue of
idle workers and a queue of pending tasks, each with a counter kept by hand, and
three totals.  The producer stamps the send time of each task in shared memory
(`latency_shm.h`), which the broker reads.  *Hard*: messages interleave; a worker
may die with a task, and a ROUTER socket then drops what is sent to it without a
word; a worker may say READY after tasks have been queued; producer and broker
are told their task counts separately; the loop ends only when two counters add
up.  *Correct*: every task sent is in exactly one place, no worker is given two
tasks or forgotten, counters and totals tell the truth, tasks wait only while
somebody will fetch them, and the broker ends with everything settled.

**Monitor, `src/hw12/monitor.c`.**  The broker publishes four figures when a
second has passed; monitors are started and stopped at will and print them.
*Hard*: a PUB socket drops what nobody can take, and the broker publishes only
when something has woken it.  *Correct*: what is shown has been so, all four figures at the
same time, and later reports are of later times.

**Supervisor, `src/hw12/program.c`.**  It creates the segment, forks broker,
workers and producer, waits for the broker, sends SIGTERM to everybody, reaps and
unlinks.  *Hard*: `handle_sigint` may run between any two of its steps.
*Correct*: nobody survives, no zombies are left, and it ends.  `run_exp2.c` runs
it seven times, one after the other.

**Semaphore stack, `src/hw9/prod_cons.c`.**  M processes push N items each on a
stack in shared memory, one pops M*N.  *Hard*: the slot is read after the unlock;
the mark of a full stack is `max_size - 1`; segments with fixed keys outlive a
killed run.  *Correct*: mutual exclusion, an index that counts what the semaphore
counts, every item read once, termination.

**Thread stacks, `src/test2`.**  `stack_cond.c` has a mutex and one condition
variable for pushers and poppers, `stack_mutex_only.c` waits busily;
`main_test_stack.c` runs threads against the first and then the second.
*Correct*: both are bounded stacks, and no thread waits for ever for others that wait.

**Dictionary service, `src/hw11` and `src/hw6/part3`.**  `convert.c` turns a text
into records of fixed length, filled up with blanks; the clients of `hw6` look words
up in that file (linear search).  Those of `hw11` ask a server (binary search) over
ipc or tcp, or workers behind a ROUTER/DEALER proxy; the servers have a `fixrec` of
their own, which comes with the programs and whose fields end with nulls.  *Hard*:
replies of several workers in any order, a server that dies with a request, records
without a terminator, two formats that each search knows one of.  *Correct*: each
client gets an answer to each of its words, the one that the dictionary gives which is
searched for it.

**Sequence-number servers, `src/hw10/ex44_6` and `ex46_2`.**  A server hands out
consecutive numbers, asked over a FIFO or a message queue and answered over the
client's own.  *Hard*: a client that opens its FIFO late or never, or is killed;
a server that is killed and started again.  *Correct*: no number twice in a run,
no request lost, clients that wait in time are answered.

**FIFO open modes, `src/hw10/ex44_7`.**  Two processes open the two ends of a FIFO,
blocking or not; the outcome depends on their sleeps.

**System V signal functions and signal ping-pong, `src/hw8`.**  `sigset`,
`sighold`, `sigrelse`, `sigignore` and `sigpause` made of POSIX calls, their test,
and two programs that send a signal to and fro.  *Hard*: one function is several
system calls, between which signals come.  *Correct*: held signals go to the
right handler, returned dispositions are right, no signal is lost.

**popen (`src/hw7`), remote command (`src/extra1`), pipe exercises
(`src/hw6/part1`).**  Processes, pipes and who holds which end.  *Correct*:
everything written arrives, ends of files are seen, the right child is waited
for, and descriptors last.

**Shells, `src/hw4` and `src/hw6/part2`.**  Words, builtins, background jobs, and
in the second one pipelines and redirections.  *Correct*: the same, for every
line, and a shell that is clean when it prompts again.

Section 6 names what is not modelled, and why.


## 2. Modules

| module | models | stands on |
|---|---|---|
| `TaskLedger` | what task dispatch promises (abstract) | |
| `TaskDispatch` | `broker.c`, `worker.c`, `producer.c`, the stamps | implements `TaskLedger` |
| `DispatchMonitor` | `monitor.c` and the broker's snapshots | composed with `TaskDispatch` |
| `Supervisor` | `program.c` | |
| `ProdCons` | `prod_cons.c` | |
| `BoundedStack` | what push and pop promise (abstract) | |
| `StackCond`, `StackMutex` | `stack_cond.c`, `stack_mutex_only.c` | both implement `BoundedStack` |
| `StackMain` | `main_test_stack.c` | composes the two stacks |
| `SeqNumbers` | what the servers of hw10 promise (abstract) | |
| `SeqService` | what both servers have in common | |
| `FifoSeqNum`, `MsgSeqNum` | `ex44_6`, `ex46_2` | `SeqService` |
| `SeqServers` | one or the other | implements `SeqNumbers` |
| `DictRecords` | `convert.c` and the two searches, as operators | |
| `Dictionary` | clients, servers, workers, the proxy | `DictRecords` |
| `Signals` | masks, dispositions, `SystemVsigs.c` | |
| `SignalPrograms` | the programs of hw8, and any user of the functions | `Signals` |
| `Processes` | fork, exec, wait, pipes, FIFOs, descriptors | |
| `PipePrograms` | `pipe_ls.c`, `mycat.c`, `popen_close.c` and its `main.c`, `toCapital.c`, `run_exp2.c`, `myrpc.c`, `nonblock_verify.c` | `Processes` |
| `Shell` | both shells | `Processes` |
| `UnixPrograms` | any one of these programs, running | `PipePrograms`, `Shell` |
| `MC...` | instances for TLC | |
| `...Proofs` | theorems, TLAPS | |

Mutated definitions, each marked "Mutant", stand before the definition that they
mutate.  They are not part of any specification: each is a plausible bug, and
`PROJECT.json` names the property that finds it.

### 2.1 `TaskDispatch`

A task is its number and a message is the task, READY or DONE n.  The sockets
are queues: `frontend` from the producer to the broker, bounded by `FrontendHwm`
as ZeroMQ's high-water mark bounds it, `backend[w]` and `inbox[w]` from and to
each worker.  Those are not bounded: a worker has one message under way at most,
which is a theorem (`TokensCorrect`).

The broker's loop is `Poll` (which socket is readable; the frontend is looked
at first) and then one action per branch, `RecvTask` or `RecvWorker`, each with
the whole handler in it: the choice among `RejectInvalid`, `AssignToIdle`,
`Pend` and `DropTask`, or among `RecvReady` and `RecvDone` with `DispatchPending`
or `EnqueueIdle`, all counters, and the loop test (`LoopPc`).  A branch is atomic
because the broker shares nothing but the stamps with other processes and sends
one message at most in it.  The stamp and the send of the producer are two
steps.  `Crash(w)` is a worker's end, by one of its `exit(1)` or a signal: its
inbox, its task, and any of its messages that had not left the process are lost.
What `zmq_poll` has announced is in the broker already and stays.

Of shared memory the model keeps which tasks are stamped.  `broker_receive_ns`
comes from `calloc`, so that the test `>= 0` at broker.c:240 never fails and
the model has no such test.  `completed`, `discarded`, `lost` and `crashes` are
history.

### 2.2 `DispatchMonitor`

Every action of `TaskDispatch` stays as it is; `tested` splits a round of the
broker's loop into the look at the clock (`Test`, which may publish), the poll
(`Wait`) and the branch (`Handle`).  The clock may say at any round that a second
has passed.  `Publish` puts the four figures into `channel` if a monitor has
subscribed and there is room; a monitor is started, subscribes later, shows what
it gets and is stopped.  What a monitor has printed (`shown`) goes with it when it is
stopped.  `past` is history: the state of the broker (`Figures`, from its lists and from
the tasks that have ended) each time that it published the figures it keeps beside these
(`Snapshot`), whether or not anybody got them.

### 2.3 `Supervisor`

`fork` and the assignment of its result are two steps (`Fork`, `Record`);
`HandleSigint` may run between any two steps, and interrupts `waitpid` or not
according to whether it was blocked: the first loop retries, the last one ends.
A child ends on its own at any time, and must end once it has been sent SIGTERM.
The branch of the first loop for ECHILD is not an action: `BrokerToWaitFor`,
proved for any number of workers, says that it is dead.

### 2.4 `ProdCons`

One action per access: the lock, the test, the two stores of `push`, the index
with the unlock, the post; and in `pop` the wait on the semaphore, the lock, the
decrement with the unlock, and then the two loads of `data[*shared_index]`, which
no lock covers.  `StaleIndex` is what an earlier run has left in the segment; the
array has as many slots as the larger of the two runs needed.

### 2.5 `StackCond`, `StackMutex`, `StackMain`

One action per access again.  `pthread_cond_wait` is `Wait` (release and sleep),
then `Wake` without a signal or the `Signal` of another thread, then `Relock`.
A signal wakes any one of those that wait.  In `StackMutex` a thread that cannot
go on releases the mutex (`Retry`) and locks it again.  A character is the pair
of its pusher and its number, so that two pushes can be told apart.  The
refinement mapping takes the stack to be the buffer below `Depth`, which is the
index, or one more while a popper has moved the index and not loaded its
character yet.  In `StackMain` the threads of the second stack start when those
of the first have been joined.

### 2.6 `SeqService`, `FifoSeqNum`, `MsgSeqNum`, `SeqServers`

The server handles one request at a time: it reads, opens the client's FIFO
without waiting, tries once more after 100 ms (`FOpen`, `FRetry`), writes, and
advances its number whether or not the client has got it (`FAnswer`,
`NextNumber`).  A FIFO that nobody has open forgets what it holds (`Kept`); a
message queue does not.  A client opens its own FIFO, or never does: the code
decides at random (`FChoose`).  Clients among `Mortal` may be killed at any point,
and so may the server, which is started again up to `MaxRuns` times with number 0.
The time of the retry is not modelled: anything may happen before it.

### 2.7 `DictRecords`, `Dictionary`

A word is a number in dictionary order, a text a sequence of lines.  There are two files
and two searches.  `Table` is what `convert` writes, record by record, with texts cut to
the room there is and fields filled up with blanks: `lookup1` fills the word that it seeks
up likewise and finds it (`Linear`).  `Fixrec` is the file of the servers, records with
what fills up their fields.  `lookup5` compares by `strcmp` (`Before`), which ends at a
null: where a field is filled up with blanks it has no end, and a word that is sought
comes before every field that begins with it, so that `bsearch` (`Binary`) takes the lower
half and never stops at the word.  Where fields end with nulls the word is found, and
`strcpy` copies its text.  `strncpy` with the length of the source writes no terminator,
and what stood behind the text stays (`Junk`).  A client sends one
request and waits (REQ); a server receives one and answers it (REP); the proxy
deals requests to any worker that is connected, busy or not.  A server that dies
takes with it what has reached it (`lost`).  `Missing` are the processes that name
a dictionary that is not there: a server ends with its first request, a client is
told that its word is not there, and ends at its second (`LookUpMissing`).

### 2.8 `Signals`, `SignalPrograms`

A process has functions left to call (`todo`) and, of the one it is in, system calls
(`calls`), with its mask, dispositions and pending signals. A signal is delivered
before the next call, unless it is blocked, and ends a `sigsuspend`, which returns -1
with EINTR (`errno`), as `sigpause` does then. The System V functions are sequences of
calls, as in `SystemVsigs.c`. The programs are the test, the two ping-pongs, and
"user": any `MaxCalls` calls of the functions, while others send up to `MaxSent`
signals at any time. `Enter` and `Return` make no call: they record what a call of
`sigset` is asked for and returns.

### 2.9 `Processes`, `PipePrograms`, `Shell`, `UnixPrograms`

A process is a list of calls again, with descriptors that refer to open files, so
that who holds which end of a pipe is exact: a reader sees the end of the file when
no process has the write end, and a writer without readers is killed by SIGPIPE.
A child is created with copies of the descriptors; `exec` replaces the calls.  Data
comes in items; a pipe holds `PipeSize` of them.  Each program of `PipePrograms` is
the sequence of calls that the C code makes, path by path.  `Shell` computes the
calls from the words of each line, as `parse.c`, `is_background.c`, `redirect_*.c`,
`pipe_present.c`, `pipe_command.c` and `builtin.c` do, in their order.

A process has `OpenMax` descriptors; `pipe` fails when two are not left, and the programs
exit then (`DoNoRoom`).  `Ask` is a program that waits for the user's next line, which
the user may type (`Type`) or not; a program whose loop has no end (`Forever`) may be
interrupted at any moment (`Interrupt`).

Memory that is used out of bounds is `Undefined`, with the ways in which the process may
end of it: either nothing comes of it, or one of those.  `pipe_command.c` ends both
vectors one place behind the memory that they have (lines 47 and 55), which `malloc` may
find (`Overrun`), and the place before the terminator of the right side holds whatever the
heap held, so that the command crashes, or finds an argument that is not its own
(`Terminator`).  Behind a redirection at the end of a line the loop of `redirect_in.c` and
`redirect_out.c` goes on at a word that has been freed (`Dangling`).

`Tick` lets time pass when nobody has anything to do: the sleeps of these programs
are long beside all that they do.  This is what `nonblock_verify.c` rests on, and
an assumption of the model.


## 3. What TLC checks

| run | instance | properties |
|---|---|---|
| `dispatch_safety` | 3 workers, 2 crashes, 5 tasks, queue of 2, frontend of 2 | `TypeOK`, `CountersAgree`, `EveryTaskInOnePlace`, `OneTokenPerWorker`, `PendingHasServer`, `ExitSettlesEverything`, `ImplementsLedger` |
| `dispatch_served` | 2 workers, broker told 3 tasks and producer 4, queue of 1, 1 monitor, 2 snapshots of which one is under way at a time | `EverySampleCounted`, `ReportsThePast`, `ServedBrokerExits` |
| `dispatch_stranded` | 2 workers, 3 tasks, queue of 2, no crash | `PendingIsAssigned`, **violated** |
| `supervisor` | 2 workers, 2 SIGINT | `TypeOK`, `NoSurvivor`, `ReapsAll`, `BrokerToWaitFor`, `EverythingEnds` |
| `prodcons_fresh` | 3 producers, 1 item each | `TypeOK`, `Exclusion`, `PopFindsItem`, `Terminates` |
| `prodcons_stale` | 2 producers, 2 items each, index 3 left behind | `IndexMatchesSemaphore` |
| `prodcons_lost` | 2 producers, 1 item each | `EveryItemReadOnce`, **violated** |
| `stack_main` | 2 pushers and 2 poppers per stack, 2 calls each, 2 places | `TypeOK`, `SomeoneAwake`, `ImplementsStack`, `MyImplementsStack`, `MainReturns` |
| `unix_programs` | 13 runs of programs and 7 shell sessions, pipes of 2 items, 9 descriptors | `TypeOK`, `Transcript`, `RightChildren`, `NoChildLeft`, `Finishes` |
| `seq_servers` | 3 clients, one mortal; the server started twice; both services | `ImplementsNumbers`, `RequestsKept`, `Served` |
| `dictionary` | 3 clients with 2 words each, 2 servers, one death, one client and one server without dictionary; the three variants | `RightAnswers`, `OnePlace`, `Answered` |
| `signals` | the test; 3 rounds of both ping-pongs; every 3 calls with 2 signals | `TestPasses`, `SigsetRight`, `TakeTurns`, `Finishes` |

**Task dispatch.**  `CountersAgree`: the two counters are the lengths of the two
lists, and the pending list stays within its size.  `EverySampleCounted`: a DONE
never overtakes the stamp of its task, and only tasks within the broker's count are
sampled.  `EveryTaskInOnePlace`: a task that has been sent is in exactly one of the
frontend, the pending queue, a worker's hands, or one of the three ends (processed,
dropped, died with a worker), and the broker's totals count two of these.
`OneTokenPerWorker`: one thing stands for each worker (its READY, its entry as idle,
its task, its DONE), so that it is never given two tasks and never forgotten.
`PendingHasServer`: once a task has been processed, tasks wait only while a busy
worker will fetch them.  `ExitSettlesEverything`: a broker that ends has settled
every task.  `ImplementsLedger`: seen from outside, tasks are started, queued in
order, dropped only when the queue is full or the task is not the broker's, and
completed.  `ServedBrokerExits`: once a task has been processed, the loop ends.
`ReportsThePast`: the reports that a monitor has printed, followed by those on their way
to it, are some of the states in which the broker has published, in the order of these and
none of them twice.  Each report is one state, all four of its figures of one moment; the
states are taken from the lists and from the tasks that have ended, not from the counters
that are published.  The totals on the screen never go back nor get ahead of the broker,
and never show the end, because the broker leaves its loop before it would publish it.

*Bounds.*  Five tasks with a queue of two and three workers put tasks in every place
at a time: some running, two waiting in an order that matters, one dropped; two
crashes in three workers leave one that goes on.  The frontend of two makes the
producer block and lets tasks overtake DONEs.  The second instance has a task that is
not the broker's, a queue that overflows, and snapshots that are lost because nobody has
subscribed, because there is no room, and because a monitor is stopped; two of them are
enough to go back, or to be mixed up.  It is without crashes, since a crash in its place
keeps the broker waiting for ever.  Symmetry of the workers is used in the first instance
only: it checks no liveness, and none of its properties tells one worker from another.

**Supervisor.**  `NoSurvivor`: when the segment is unlinked, a child that still
runs has been sent SIGTERM.  `ReapsAll`: the program leaves no zombie unless a
SIGINT cut its last loop short.  `EverythingEnds`: the end of the broker or a
SIGINT brings everything down, unless a fork failed.  Two workers and two SIGINT
cover a signal before and after each fork and a second one in the last loop.

**Semaphore stack.**  `Exclusion`; `PopFindsItem`: the loop and the last return
of `pop`, marked "[never arrive this]", are never taken when the stack is fresh;
`IndexMatchesSemaphore`: the index is what was left behind plus what the
semaphore counts, items being pushed or popped included; `Terminates`.  With
three producers one finds the stack full.  An index of 3 left to a stack of 2
takes the branch in which a push stores nothing; such pushes are signalled all
the same, so that the consumer can find the stack empty and wait for ever, which
is why `Terminates` and `PopFindsItem` are stated of a fresh stack.  With one
producer the mark of a full stack is index 0, the index of an empty one, and the
program would never end.

**Thread stacks.**  `ImplementsStack`, `MyImplementsStack`: items come back once and
in order.  `SomeoneAwake`: never do all threads with calls left sleep on the
condition.  `MainReturns`: every call returns and every character is popped, or the busy
waiting of the second stack starves a thread: from some time on a thread that would go on
if it had the mutex never gets it, although it is released again and again.  A pthread
mutex does not rule that out, so that no more can be claimed of `stack_mutex_only.c`; what
the property excludes is a mutex that is kept, threads that all wait for one another, and
a thread of the first stack that is not woken.  Two
pushers and two poppers on two places are as many of each kind as there are places.
`SomeoneAwake` holds up to there, which is a theorem (`Fits`), and not beyond: with
one pusher and two poppers on one place, or four pushers and two poppers on three, a
signal meant for a pusher can wake a popper in its place until all of them sleep.
`main_test_stack.c` has one thread of each kind and three places.

**Processes.**  `TypeOK`: descriptors refer to files that there are.  Those that the
commander of `myrpc` leaves open add up, one for every command and two with `-f`
(`CommanderKeeps`), and it is the only one that ever lacks descriptors for a pipe
(`OnlyMyRpcRunsOut`).  `Transcript`: each run shows and stores what it should, every item
once and in order; and `myrpc` gives up at the first command for which its descriptors do
not last.  `RightChildren`: a wait gets the child that it means, with the exception that
the code has (`mypclose` of two open streams takes whichever child ends first, because
the parent never records a pid); and a shell that prompts has waited for its foreground
and holds no pipe or file of a command.  `NoChildLeft`: no process ends with children
behind it but the four that the code never waits for (a background job, the right side of
a pipe, whose parent becomes the left command, the client of `nonblock_verify`, the child
of `toCapital`).

`Finishes`: every program ends with all its processes, but two.  `pipe_ls.c` waits for its
child before it reads: with a listing longer than the pipe it never ends, parent and child
waiting for each other (`Jammed`), and with one that fits it does.  `toCapital.c` does not
see the end of its input: it waits for the user, or behind the last line goes round for
ever (`Forever`); only an interrupt ends it, at any moment, and then its child sees the end
of its pipe and ends too.

The programs in `MCUnixPrograms` cover `pipe_ls` with both listings, both directions of
popen and two streams at once, the four modes of `nonblock_verify`, and for the shells
background jobs at the start of a line and at its end, chains of two pipes, a pipe with a
side missing, both redirections, a redirection with no file or a missing one, builtins and
their arguments.  With `OpenMax` 9, `myrpc` has descriptors for four commands on the
terminal and for two with `-f`: the sessions of five and of three commands run out of them,
the one of two does not.  `Transcript` leaves out the executions in which a process has
ended by memory that was not its own or by an interrupt: what they show is not defined.

A pipe holds two items, so that `ls` fills it without waiting and `large_ls` has to wait.
Everywhere but in `pipe_ls.c` somebody reads while the other writes.  One limit of the code lies
beyond the instance: of two streams that `mypopen` has opened for writing, the one closed
first would never end, since the other's child holds it too.  Nothing in the repository
claims otherwise, and `main.c` never has two.

**Sequence numbers.**  `ImplementsNumbers`: `SeqNumbers` is implemented however clients
and server are killed; that no number is given twice in a run follows from it.  `RequestsKept`: a request is
not lost before it is read, though the server be killed: each client keeps the
server's FIFO open, and queues last.  `Served`: a client that waits while its request
is pending is answered, or a kill intervenes; the retry included.  Three clients give
one that is served, one that is late, and one that dies; c1 asks for two numbers, the
others for one.

**Dictionary.**  `RightAnswers` has two parts.  `FileAnswers`: what a client shows that
searches convert's file is what the text says, perhaps followed by what the record held
behind it.  `ServedAnswers`: what a client shows that asks servers is what their `fixrec`
says.  `OnePlace`: a request or its
reply is in one place, and a client waits exactly while there is one, or it has died
with a server.  `Answered`: it is answered, unless its server dies or none is up.  The
words asked for include the first, the last, one whose text is cut, one that has none,
and one that is missing.  `SearchesFind`, that each search finds in its file what this
says, is proved from `TextOK` and `FixrecOK`; TLC evaluates these for the files of
`MCDictionary`.  That a reply finds its client is ZeroMQ's doing (the envelope that ROUTER
and DEALER keep), and the model's by construction: it is assumed, not checked.

**Signals.** `TestPasses`: every check of `test_systemvsigs.c` holds, whenever the
alarm goes off, that `sigpause` has returned with EINTR among them. `SigsetRight`: a
held signal goes to the handler that `sigset` was given, and the value returned is
right, whatever is delivered meanwhile. `TakeTurns`: the two processes of the
ping-pongs alternate, and the signal ends neither. `Finishes`: no signal is lost
between release and wait. Two signals that arrive in three calls can arrive before,
inside and after each of them.

`CHECK_DEADLOCK FALSE` stands in every configuration because every one of these
programs ends, or may.

### Fairness

The operating system runs every process and thread: weak fairness of each one's
steps.  Beyond that:

* `Supervisor`: a child that has been sent SIGTERM ends, because none of them handles
  or blocks it; a child that has not need not end.
* `ProdCons`: the lock is strongly fair, since `semop` serves waiting processes in
  order.
* `StackMain`: taking the mutex of the first stack is strongly fair: its threads sleep
  between their calls (`usleep`), so that the mutex is free for long times.  Of the
  second one, where threads wait busily, only that somebody takes the mutex while it is
  free (`WF` of the disjunction of all `MyLock(t)`), and that whoever has it goes on.
* `UnixPrograms`: only that some process goes on, or time passes, while that is possible
  (`WF_vars(Processing)`); no program has a loop that waits neither for another process
  nor for the user.  The user need not do anything: neither `Type` nor `Interrupt` is fair.
* `SignalPrograms`: likewise for the processes; signals of others are never forced.
* `SeqServers`, `Dictionary`: clients, servers and the network go on; nobody has to
  start or kill anything.
* `DispatchMonitor`: producer, workers and the broker's loop; whether a monitor runs,
  and whether the clock says that it is time, is open.

Crashes, SIGINT, spurious wake-ups and failing forks are never fair.  In
`TaskDispatch` there is no fairness of branches: the poll looks at the frontend
first, and the producer's tasks are finite.

### Findings

* **Stranded tasks** (`dispatch_stranded`).  If all tasks arrive before the first
  READY, those that fit are queued, and READY then makes each worker idle without
  a look at the pending queue (broker.c:285).  With no later task and no DONE
  nothing moves any more, and the broker never leaves its loop.
* **Unlocked read** (`prodcons_lost`).  `pop` reads `data[*shared_index]` after its
  unlock (prod_cons.c:79); a push in between makes it read another item, so that
  items are summed twice or never.

A third disagreement is a theorem and needs no run.  **Blanks for nulls**
(`ConvertedNotFound`): convert.c:43-44 says that the unused characters of both fields are
padded with nulls, and the code pads them with blanks (lines 93, 102).  `lookup5.c`, which
is for "a file of fixed-size records of type Dictrec" (lines 4-5), compares by `strcmp`
and finds no word in such a file: a server that is told convert's file says Not Found to
everything.

Other things worth knowing that no document of the repository contradicts are told
where they belong above: one producer in `prod_cons`, more threads of a
kind than places on `stack_cond`, two streams of `mypopen`, a long listing in `pipe_ls`,
the descriptors of `myrpc`, the end of the input of `toCapital`, the vectors in
`pipe_command.c:47` and `:55`, the second lookup without a dictionary.


## 4. What is proved

The theorems hold for every value of the constants that the named assumptions
admit (finite sets of workers or threads, counts that are natural numbers, at
least one slot or producer).  Where the assumptions are not of the module itself
they stand in the theorem (`ParametersOK`, `LenOK`).

**`DispatchProofs`, the system.**  `TInv` is `TypeOK`, `CountersAgree`, and what the
broker's and the workers' program counters imply (`PcOK`): types alone are not
inductive, because `Head(frontend)` has a type only when `zmq_poll` has said so,
and `pending_task_count - 1` is a natural number only when the counter agrees
with the list.  Theorems: `TypeCorrect`, `CountersCorrect`.  `OneTokenPerWorker`
is inductive relative to `TInv` (`TokensCorrect`): each handler moves a token
from one place to another, and `Refill...`, `Idle...` and `SendTask...` lemmas say
which.  `PendingHasServer` needs that, while nobody has died, a broker that has
processed a task knows a busy or an idle worker (`SomeServer`), since pending
tasks are queued only when no worker is idle (`PendingServed`).

`TasksInOnePlace` needs more than its property says: the frontend and the pending
queue hold no task twice, no two workers hold the same one, and the places exclude
each other (`PlaceInv`).  Each action is shown to move one task from one place to
another (`Site...`), and to leave the rest where they are (`SameSite`).  `CountInv`
adds the totals: they are the sizes of the sets of tasks that ended, a stamp is
written before its task is sent, and the loop has ended when the totals say so; this
gives `SamplesCorrect` and, with the places, `ExitSettled`: if the totals add up to
all tasks, then nothing is left over for a worker to have.

`LedgerImplemented` is the refinement, one step of the ledger for each action.  The
ledger sees the stage of a task, which by `PlaceInv` is decided by fewer places
(`Stage`, `Staged`): most actions change the stage of no task (`LedgerStutters`) and
the others that of one (`LedgerMoves`).  That the ledger's bound on running tasks is
kept needs `CapInv`: dead workers' tasks and live workers' tokens together are never
more than the workers, since a worker that has died gets no new token.

**`DispatchProofs`, the monitor.**  Every step of `DispatchMonitor` is one of
`TaskDispatch` or leaves its variables alone (`StepOfDispatch`), so that `TInv` and
`CountInv` carry over: they say that the figures published are those of the lists and of
the tasks that have ended.  The rest of `MInv`: the states in `past` are in order and not
ahead of the broker (`PastOK`), because totals never go down and a broker in its loop has a
task left; and the reports are some of them in their order (`SomeOf`), which a report that
is appended, shown or lost leaves so.  Theorem: `ReportsRight`.

**`SupervisorProofs`.**  `SInv` says which children exist and are recorded at each
point of `main` (`Known`, `Forked`), that once `main` has left its first loop every
recorded child has been sent SIGTERM or has ended (`Terminated`), and who may have
been reaped (`Reaped`, `NotYetReaped`).  It gives `ProgramTypeCorrect`,
`NobodySurvives`, `AllReaped` and `WaitsForBroker`.

**`ProdConsProofs`.**  `IInv` is type correctness, `Exclusion`, what a process knows
at each label, and that a fresh stack skips nothing.  `IndexMatchesSemaphore` is
then inductive, with lemmas on the cardinality of the set of producers that have
pushed and not yet signalled.  Theorems: `StackTypeCorrect`, `MutualExclusion`,
`IndexCorrect`, `PopSucceeds`.

**`StackProofs`: the stacks.**  `CInv` says that a thread in its section
holds the mutex (`Excluded`), what it knows there of the index and the buffer
(`Knows`), that it has a call left, and that what is on the stack or popped has been
pushed already (`AllPushed`, from which a new character is new).  It gives type
correctness and the refinements `ImplementsBoundedStack` and `MutexImplementsStack`:
`Advance` maps to `Push`, `Load` to `Pop`, and every other step to a stutter.  In
`StackMutex` the index that a thread has looked at in vain is forgotten with the
mutex, and the same invariant holds without the condition.

`NeverAllAsleep` counts threads.  `Served`: pushers and poppers never sleep at the
same time; while poppers sleep, every character on the stack has a popper that is
awake and on its way to it or a signal that a pusher owes, and the other way round
for pushers and free places.  That signals wake whom they are meant for rests on the
first part, which is kept only if neither kind has more threads than there are places
(`Fits`): if the stack is full then, not every pusher can be asleep without a popper
on its way.  `Balance`, what is left to pop is what is left to push and what lies on
the stack, shows that the last sleeper has somebody who wakes it.

**`StackProofs`: the program.**  Both stacks keep what is proved of them in the program that
runs one after the other: its steps are steps of each or leave it alone
(`MainSteps`).  Theorems: `ProgramImplementsStacks`, `ProgramNeverAllAsleep`.

**`SeqServersProofs`.**  `QInv`: a client's request is in one place (not sent, in the
queue once, or with the server) and only clients without a number have one; a client
that has its number in the queue has not shown it (`OneNumber`).  With it each step
is mapped: the answer gives a number or wastes one, a new start begins a run, all
others leave every number alone (`Quiet`).  Theorems: `NumbersImplemented`, the
action property `RequestsSafe`, and `NumbersAreUnique`, from the refinement:
everything that the present run has given lies below its next number (`Below`), so
that a new sequence meets no other one of the same run (`Apart`).

**`DictionaryProofs`.**  `DInv` gives each request its one place among the client's
socket, the proxy, the queue and the hands of each server, the reply and the dead
(`Somewhere`, `OnlyThere`); every action moves one request.  Theorem:
`RequestsInOnePlace`.  `AnswersRight` needs that a server with a request in hand has
that of a client that waits, so that the word it reads is the one the client asks
(`Asks`), and that the searches are right.

The searches are proved right (`SearchesRight`): the linear one for every text whose words
are in order, each with the lines of its definition (`TextOK`), from what `convert` makes of
that text; the binary one for every file of the servers in order (`FixrecOK`).  And the
binary one is proved to find nothing in convert's file, whatever the text and the word
(`ConvertedNotFound`; TLC evaluates it for the words of `MCDictionary`).
Both recurse, over lines and over halves of the file.  The library's induction rules
cannot be used, since they take an operator as a parameter, but the least element of a set
can: `WFMin` of `WellFoundedInduction` on the pairs of `<` gives every non-empty set of
numbers a least one (`LeastNumber`), from which a set with 0 and the successors of its
members has all numbers (`Induction`).  `Read(file, n)` says what the file is after n lines:
its records stand for the words among them, in order, each with the part of its text that
has been read (`IsText`), the last one still growing while `inText`; `ReadStep` takes it
from one line to the next.  `BinaryFinds` and `BinaryMisses` do the same for the range that
a binary search has left (`RoundFinds`, `RoundMisses`).

**`SignalProofs`.**  `Fine` says at which of its calls a process is when it is inside
`sigset` (`ToChange`, `ToRelease`, `ToHold`, `ToQuery`, `ToReturn`), and what is known
there: every disposition is the one last asked for, except that the signal `sigset` is
about to change may still have its old one *while it is held*; and the old mask and
disposition that are left to read are those from which the value to return follows
(`Was`).  Outside `sigset` all is settled.  It holds for processes with any functions
left to call (`Functions`), so that the programs need only be shown to consist of
those.  Theorem: `SigsetIsRight`, for any number of calls, signals and rounds.

`TurnInv` is about the two that play: after the fork either one of them is to send and
the other can only wait (`Turn`), or a signal is on its way to one and both can only
wait (`OnItsWay`).  That nothing is lost is where each is: the signal is blocked except
in `sigsuspend` (`Waits`, `Sleeps`), and a signal that has come before the wait is
still pending.  Each round has one kill (`Left`), so that none is over early.  A step
leaves the turn (`QuietStep`), receives (`ReceiveStep`) or sends (`KillStep`).
Theorem: `TurnsAreTaken`, for any number of rounds.

**`UnixProofs`.**  The theorems are about a run that begins with either shell and any
`Session`: any number of lines, each of any words, the programs of `Programs` being what
they may.  TLC runs seven such sessions; the pipe programs of `PipePrograms` are its alone.
The proof has three parts.

*What the shell computes.*  `Parse`, the redirections, `PipePresent` and the sides of a
pipeline are folds and recursive functions over the words of a line.  `RecursionExists`
and `RecursionIn` do once for all what each needs: a recursive function exists, and its
values stay in a set that each step stays in.  A line yields `Lines`: calls of the shell
itself, and forks, where each fork in the foreground is followed at once by the wait for it
and each wait follows such a fork.  What a fork runs is `Orderly`: it forks no children but
the right sides of pipes, to any depth (`HasRight`), and its descriptors go the way they
should (`Keeps`).  Both of these are about lists that contain lists, without a bound on the
depth; each is said by a set of lists that is closed under what the calls lead to
(`Closed`, `Leading`), so that no induction on depth is needed.

*`Inv`.*  The shell's record has its two files and its lines left, or the wait for the
command whose pid it holds and then lines (`MainCalls`); and the children of it that are
not reaped are jobs in the background, and in the second case that command (`Left`).
Children of anybody else are right sides.  `RightChildren` alone is not inductive:
that the shell is clean when it prompts depends on where in a line it is, and what it waits
for on the pid that the fork has left in its memory.  Theorems: `ShellRightChildren`, and
the action property `ShellLeavesNoChild`.

*Descriptors.*  A process of a command has its descriptors in one of five `Shapes`: the two
it has begun with, these and a redirected file, the two ends of a pipe, or one of them.
`Leads` says which call takes which shape to which, `Fits` which descriptors and variables
belong to it; the shape of a process fits the calls that it has left (`Shaped`).  So a
`close` or `dup2` always finds its variable, and the lowest free descriptor is known
(`LowestDescriptors`).  Theorem: `ShellTypeOK`, for any `OpenMax` of at least four, which
are enough for any length of pipeline, because each side has closed both ends before its
command, and the right side is started from the shape "pipe": no `pipe` of a shell or a
command fails for want of descriptors (`TwoDescriptors`).

**Model-checked only.**  Liveness, which the prover does not handle
(`ServedBrokerExits`, `EverythingEnds`, `Terminates`, `MainReturns`, `Served`,
`Answered`, and the two `Finishes`).  `TestPasses`, whose program has no parameter: TLC's
run is complete for it.  `Transcript`, because what a run is to show is given program by
program (`shows`, `stored`); a general statement would be a semantics of shell lines beside
the model.  And the properties of `UnixPrograms` for the programs of `PipePrograms`: each
is one program without parameter but the size of a pipe, and what it waits for rests on
its own order of closing ends, not on an invariant that the programs share.


## 5. What the models leave out

* `TaskDispatch`: the sums of latencies (only which tasks are sampled), failing
  system calls of the broker (each ends it with `exit(1)`), the sizes of identities
  and messages, and the sleeping times.
* `DispatchMonitor`: the text of a snapshot, which `sscanf` reads back as it was.
* `Supervisor`: failing `shm_open`, `ftruncate` and `mmap` before the first fork, and
  the reuse of a reaped child's pid by another program.
* `ProdCons`: failing system calls, and the random numbers, of which only who
  produced them and in which order is kept.
* `StackCond`, `StackMutex`: the messages that are printed.
* `SeqServers`: failing system calls but those that a dead or late partner causes, and
  the time between the two tries.
* `Dictionary`: the characters of words and texts, and with them words that begin with
  another word or fill their field, a `fixrec` with fields of both kinds, and failing
  socket calls; the envelopes of ROUTER and DEALER.
* `Signals`: `SA_RESTART`, real-time signals and their queueing; a handler only counts.
* `UnixPrograms`: the sizes of reads and writes (an item each), the echo and the prompt
  texts, what `toCapital` prints behind the end of its input, and calls that fail for want
  of memory or processes.


## 6. Not modelled

* **Resource allocator, `src/hw13`.**  It does not build: `dispatcher.c:37` uses
  `zmq_pool`, which is declared nowhere.  There is no program whose behaviour a model
  could be faithful to.
* **Process tools, `src/hw5`.**  Readers of `/proc`: input, formatting and output in one
  process.  `pstree.c` keeps a pointer in a `char`, so that its behaviour is not
  defined.
* **File tools, `src/hw2`, `src/hw3`.**  Copying, seeking and drawing in one process,
  without state that outlives a call.
* **`mydate.c`, `printdir.c`, `hostinfo.c`** (`src/hw6/part1`) print what one system call
  returns.
* **Vendored helpers**, `error_functions.c` and `get_num.c` with their headers, copied
  from a textbook.


## 7. State of the work

Every safety property of the runs is a theorem, for all values of the constants, save
`TestPasses` and `Transcript`, and those of `UnixPrograms` where it runs a program other
than a shell (section 4 says why).  Every refinement of an abstract specification
(`TaskLedger`, `BoundedStack` twice, `SeqNumbers`) is proved step by step.  Liveness is
TLC's.

What could still be added: the programs of `PipePrograms` with a number of streams, rounds
or children as a parameter, so that they too could be proved about; and an abstract
specification of a shell line, from which `Transcript` would follow for any session.
