----------------------------- MODULE Processes -----------------------------
(***************************************************************************)
(* Unix processes as the assignments use them: fork, exec, exit, waitpid,  *)
(* pipe, close, dup2, read, write, FIFOs and sleep.  A process is the list *)
(* of the calls that it has left, so that a program of the repository is a *)
(* sequence of calls: see PipePrograms and Shell.                          *)
(*                                                                         *)
(* Data comes in items <<source, number>>.  A read or a write moves one    *)
(* item; a pipe holds PipeSize of them.                                    *)
(***************************************************************************)
EXTENDS Integers, Sequences, SequencesExt, FiniteSets, FiniteSetsExt, TLC

CONSTANTS PipeSize,   \* the items that a pipe holds
          OpenMax,    \* the descriptors that a process may have
          Programs    \* the programs that may be started: a sequence of records
                      \* with calls: what main does,
                      \* shows: for each source, how many of its items a
                      \*        finished run has printed,
                      \* stored: the same for the file "out",
                      \* ends: "itself", "user" or "never"

ASSUME PipeSizeAssumption == PipeSize \in Nat \ {0}

\* POSIX lets a process have twenty.
ASSUME OpenMaxAssumption == OpenMax \in Nat /\ OpenMax >= 4

VARIABLES
  expected,  \* history: the program that was started: what it is to show and store,
             \* and how it ends
  procs,     \* the processes; the first one is the program itself
  files,     \* what each open file holds
  waits      \* history: the children that were asked for, and those reaped

vars == <<expected, procs, files, waits>>

\* Files that are there from the start; pipes come after them.
Keyboard == 1
Terminal == 2
InFile   == 3   \* "in": has one item
OutFile  == 4   \* "out"
Fifo     == 5
Endless  == {Terminal, OutFile}   \* never full, and no one need read them

\* Statuses of a process that a signal has ended.
SIGABRT == 134
SIGSEGV == 139
SIGPIPE == 141
SIGINT  == 130
Stray   == 2     \* status of a command that has failed on a stray argument
---------------------------------------------------------------------------
(* The calls *)

Pipe(r, w)     == [call |-> "pipe", rd |-> r, wr |-> w]
Fork(v, calls) == [call |-> "fork", var |-> v, calls |-> calls]
Close(v)       == [call |-> "close", var |-> v]
Dup2(v, to)    == [call |-> "dup2", var |-> v, to |-> to]
Write(v, item) == [call |-> "write", var |-> v, item |-> item]
Exec(cmd)      == [call |-> "exec", cmd |-> cmd]
Exit(status)   == [call |-> "exit", status |-> status]
Sleep(time)    == [call |-> "sleep", time |-> time]
Chdir(dir)     == [call |-> "chdir", dir |-> dir]

\* read into buf; at the end of the file the calls eof follow instead.
Read(v, eof)   == [call |-> "read", var |-> v, eof |-> eof]
\* Execute the command whose name was read.
ExecRead       == [call |-> "execread"]
\* Read one item and write it; and do so until the end of the file.
Copy(v, to)    == [call |-> "copy", var |-> v, to |-> to]
CopyAll(v, to) == [call |-> "copyall", var |-> v, to |-> to]
\* The same, with every letter in upper case.
UpperAll(v, to) == [call |-> "upperall", var |-> v, to |-> to]
\* waitpid for the child v; for any child, if v is "any".  The child that the
\* program means is that of the fork `for'.
Wait(v, for)   == [call |-> "wait", var |-> v, for |-> for]
\* open an existing file, or the FIFO; if that fails the calls fail follow
\* instead of those that follow success.
Open(v, file, mode) == [call |-> "open", var |-> v, file |-> file, mode |-> mode]
OpenFifo(v, mode, nonblock, done, fail) ==
  [call |-> "fifo", var |-> v, mode |-> mode, nonblock |-> nonblock,
   done |-> done, fail |-> fail]
\* The program has read or written memory that is not its own: nothing comes of it,
\* or one of these ends.
Undefined(statuses) == [call |-> "undefined", statuses |-> statuses]
\* The user types the next line, or ends the input; the calls are made for ever.
Ask           == [call |-> "ask"]
Forever(calls) == [call |-> "forever", calls |-> calls]
\* A shell prompts for a line; and prints its working directory.
Prompt == [call |-> "prompt"]
Pwd    == [call |-> "pwd"]

\* hw12/program with 1, 2, 5, ... workers, which prints one report.
Experiments == {"program 1", "program 2", "program 5", "program 10", "program 20",
                "program 50", "program 100"}

\* The programs that the repository executes: `ls' prints two items, and three in a
\* large directory, `cat' copies its input, `head' one item of it, `true' prints
\* nothing, and the commands of hw7/main.c print one item.
Command(cmd) ==
  CASE cmd = "ls"   -> <<Write("stdout", <<"ls", 1>>), Write("stdout", <<"ls", 2>>), Exit(0)>>
    [] cmd = "large_ls" -> <<Write("stdout", <<cmd, 1>>), Write("stdout", <<cmd, 2>>),
                             Write("stdout", <<cmd, 3>>), Exit(0)>>
    [] cmd = "cat"  -> <<CopyAll("stdin", "stdout"), Exit(0)>>
    [] cmd = "head" -> <<Copy("stdin", "stdout"), Exit(0)>>
    [] cmd = "true" -> <<Exit(0)>>
    [] cmd = "hello_from_child" -> <<Write("stdout", <<cmd, 1>>), Exit(0)>>
    [] cmd = "first_done"  -> <<Sleep(2), Write("stdout", <<cmd, 1>>), Exit(0)>>
    [] cmd = "second_done" -> <<Sleep(4), Write("stdout", <<cmd, 1>>), Exit(0)>>
    [] cmd \in Experiments -> <<Write("stdout", <<cmd, 1>>), Exit(0)>>
    [] OTHER        -> <<Exit(1)>>
---------------------------------------------------------------------------
(* The state *)

Pids    == DOMAIN procs
Running == {p \in Pids : procs[p].state = "running"}
Ended   == Running = {}

\* The open files behind the descriptors of a process.
Ends(p)  == {procs[p].fds[n] : n \in DOMAIN procs[p].fds}
Holds(f, mode) == {p \in Running : [file |-> f, mode |-> mode] \in Ends(p)}

With(f, x, value) == [y \in DOMAIN f \union {x} |-> IF y = x THEN value ELSE f[y]]
Without(f, x)     == [y \in DOMAIN f \ {x} |-> f[y]]

Lowest(fds)      == Min(0 .. Cardinality(DOMAIN fds) \ DOMAIN fds)
Opened(fds, end) == With(fds, Lowest(fds), end)

\* The call that p makes next, if it is `name' and p does not sleep.
At(p, name) == /\ procs[p].state = "running" /\ procs[p].asleep = 0
               /\ procs[p].calls # <<>> /\ procs[p].calls[1].call = name
Arg(p)     == procs[p].calls[1]
Rest(p)    == Tail(procs[p].calls)
File(p, v) == procs[p].fds[procs[p].env[v]].file

NewProcess(calls) ==
  [parent |-> 0, name |-> "main", state |-> "running", status |-> 0,
   calls |-> calls, asleep |-> 0, cwd |-> "/", buf |-> <<"", 0>>,
   env |-> [v \in {"stdin", "stdout"} |-> IF v = "stdin" THEN 0 ELSE 1],
   fds |-> [n \in {0, 1} |->
              IF n = 0 THEN [file |-> Keyboard, mode |-> "r"]
              ELSE [file |-> Terminal, mode |-> "w"]]]

Init ==
  /\ \E i \in DOMAIN Programs :
       /\ expected = [shows |-> Programs[i].shows, stored |-> Programs[i].stored,
                      ends |-> Programs[i].ends]
       /\ procs = <<NewProcess(Programs[i].calls)>>
  /\ files = <<<<>>, <<>>, <<<<"in", 1>>>>, <<>>, <<>>>>
  /\ waits = {}

\* p goes on with other calls; p changes and goes on.
Continue(p, calls) == procs' = [procs EXCEPT ![p].calls = calls]
Becomes(p, r)      == procs' = [procs EXCEPT ![p] = r]
---------------------------------------------------------------------------
(* Processes *)

DoFork(p) ==
  /\ At(p, "fork")
  /\ LET child == [procs[p] EXCEPT !.parent = p, !.name = Arg(p).var,
                                   !.calls = Arg(p).calls]
         mine  == [procs[p] EXCEPT !.calls = Rest(p),
                                   !.env = With(procs[p].env, Arg(p).var, Len(procs) + 1)]
     IN procs' = Append([procs EXCEPT ![p] = mine], child)
  /\ UNCHANGED <<expected, files, waits>>

DoExec(p) ==
  /\ \/ At(p, "exec") /\ Continue(p, Command(Arg(p).cmd))
     \/ At(p, "execread") /\ Continue(p, Command(procs[p].buf[1]))
  /\ UNCHANGED <<expected, files, waits>>

\* The descriptors are closed; whoever has no parent left is reaped by init.
End(p, status) ==
  procs' = [q \in Pids |->
    LET r == IF procs[q].parent = p THEN [procs[q] EXCEPT !.parent = 0] ELSE procs[q]
        e == IF q = p THEN [r EXCEPT !.state = "zombie", !.status = status,
                                     !.calls = <<>>, !.fds = <<>>] ELSE r
    IN IF e.state = "zombie" /\ e.parent = 0 THEN [e EXCEPT !.state = "reaped"] ELSE e]

DoExit(p) ==
  /\ At(p, "exit")
  /\ End(p, Arg(p).status)
  /\ UNCHANGED <<expected, files, waits>>

\* waitpid, with a child to wait for.
DoWait(p) ==
  /\ At(p, "wait")
  /\ \E q \in IF Arg(p).var = "any" THEN Pids ELSE {procs[p].env[Arg(p).var]} :
       /\ procs[q].parent = p /\ procs[q].state = "zombie"
       /\ procs' = [procs EXCEPT ![q].state = "reaped", ![p].calls = Rest(p)]
       /\ waits' = waits \union {[asked |-> procs[p].env[Arg(p).for], got |-> q]}
  /\ UNCHANGED <<expected, files>>

DoUndefined(p) ==
  /\ At(p, "undefined")
  /\ \/ Continue(p, Rest(p))
     \/ \E status \in Arg(p).statuses : End(p, status)
  /\ UNCHANGED <<expected, files, waits>>

DoForever(p) ==
  /\ At(p, "forever")
  /\ Continue(p, Arg(p).calls \o procs[p].calls)
  /\ UNCHANGED <<expected, files, waits>>

DoChdir(p) ==
  /\ At(p, "chdir")
  /\ Becomes(p, [procs[p] EXCEPT !.calls = Rest(p), !.cwd = Arg(p).dir])
  /\ UNCHANGED <<expected, files, waits>>

DoPrompt(p) ==
  /\ At(p, "prompt")
  /\ Continue(p, Rest(p))
  /\ UNCHANGED <<expected, files, waits>>

DoPwd(p) ==
  /\ At(p, "pwd")
  /\ Continue(p, <<Write("stdout", <<procs[p].cwd, 1>>)>> \o Rest(p))
  /\ UNCHANGED <<expected, files, waits>>

DoSleep(p) ==
  /\ At(p, "sleep")
  /\ Becomes(p, [procs[p] EXCEPT !.calls = Rest(p), !.asleep = Arg(p).time])
  /\ UNCHANGED <<expected, files, waits>>
---------------------------------------------------------------------------
(* Descriptors *)

\* How many more descriptors p may have.
Room(p) == OpenMax - Cardinality(DOMAIN procs[p].fds)

\* pipe fails when there are no two descriptors left, and the programs exit.  (What
\* else needs a descriptor always finds one: see TypeOK of UnixPrograms.)
DoNoRoom(p) ==
  /\ At(p, "pipe") /\ Room(p) < 2
  /\ End(p, 1)
  /\ UNCHANGED <<expected, files, waits>>

DoPipe(p) ==
  /\ At(p, "pipe") /\ Room(p) >= 2
  /\ LET f  == Len(files) + 1
         r  == Opened(procs[p].fds, [file |-> f, mode |-> "r"])
         w  == Opened(r, [file |-> f, mode |-> "w"])
     IN Becomes(p, [procs[p] EXCEPT !.calls = Rest(p), !.fds = w,
                      !.env = With(With(procs[p].env, Arg(p).wr, Lowest(r)),
                                   Arg(p).rd, Lowest(procs[p].fds))])
  /\ files' = Append(files, <<>>)
  /\ UNCHANGED <<expected, waits>>

DoClose(p) ==
  /\ At(p, "close")
  /\ Becomes(p, [procs[p] EXCEPT !.calls = Rest(p),
                                 !.fds = Without(procs[p].fds, procs[p].env[Arg(p).var])])
  /\ UNCHANGED <<expected, files, waits>>

DoDup2(p) ==
  /\ At(p, "dup2")
  /\ LET end == procs[p].fds[procs[p].env[Arg(p).var]]
     IN Becomes(p, [procs[p] EXCEPT !.calls = Rest(p),
                                    !.fds = With(procs[p].fds, procs[p].env[Arg(p).to], end)])
  /\ UNCHANGED <<expected, files, waits>>

\* The open that truncates a file, or reads it from its start.
DoOpen(p) ==
  /\ At(p, "open")
  /\ Becomes(p, [procs[p] EXCEPT !.calls = Rest(p),
                   !.env = With(procs[p].env, Arg(p).var, Lowest(procs[p].fds)),
                   !.fds = Opened(procs[p].fds, [file |-> Arg(p).file, mode |-> Arg(p).mode])])
  /\ files' = [files EXCEPT ![Arg(p).file] = IF Arg(p).mode = "w" THEN <<>> ELSE @]
  /\ UNCHANGED <<expected, waits>>

\* write: blocks on a full pipe, and kills the process if no one can read it.
DoWrite(p) ==
  /\ At(p, "write")
  /\ LET f == File(p, Arg(p).var)
     IN \/ /\ f \in Endless \/ Len(files[f]) < PipeSize
           /\ f \in Endless \/ Holds(f, "r") # {}
           /\ files' = [files EXCEPT ![f] = Append(@, Arg(p).item)]
           /\ Continue(p, Rest(p))
        \/ /\ f \notin Endless /\ Holds(f, "r") = {}
           /\ End(p, SIGPIPE)
           /\ UNCHANGED files
  /\ UNCHANGED <<expected, waits>>

Upper(word) == IF word = "abc" THEN "ABC" ELSE word

\* What follows a read that returns an item, and one that returns 0.
AfterItem(p, item) ==
  CASE Arg(p).call = "read"    -> Rest(p)
    [] Arg(p).call = "copy"    -> <<Write(Arg(p).to, item)>> \o Rest(p)
    [] Arg(p).call = "copyall" -> <<Write(Arg(p).to, item)>> \o procs[p].calls
    [] Arg(p).call = "upperall" ->
         <<Write(Arg(p).to, <<Upper(item[1]), item[2]>>)>> \o procs[p].calls
AfterEnd(p) == IF Arg(p).call = "read" THEN Arg(p).eof ELSE Rest(p)

\* read: blocks on an empty pipe that somebody can still write.
DoRead(p) ==
  /\ At(p, "read") \/ At(p, "copy") \/ At(p, "copyall")
     \/ At(p, "upperall")
  /\ LET f == File(p, Arg(p).var)
     IN \/ /\ files[f] # <<>>
           /\ Becomes(p, [procs[p] EXCEPT !.calls = AfterItem(p, Head(files[f])),
                                          !.buf = Head(files[f])])
           /\ files' = [files EXCEPT ![f] = Tail(@)]
        \/ /\ files[f] = <<>> /\ Holds(f, "w") = {}
           /\ Continue(p, AfterEnd(p))
           /\ UNCHANGED files
  /\ UNCHANGED <<expected, waits>>
---------------------------------------------------------------------------
(* FIFOs *)

Other(mode) == IF mode = "r" THEN "w" ELSE "r"

\* Those whose open waits for the other end of the FIFO.
Blocked(mode) ==
  {q \in Running : At(q, "partner") /\ Arg(q).mode = mode}

\* open: it completes once the other end is, or has been, opened; O_NONBLOCK
\* makes it complete at once for reading, and fail with ENXIO for writing.  The
\* end counts as open while the call still waits.
DoFifo(p) ==
  /\ At(p, "fifo")
  /\ LET c     == Arg(p)
         alone == Holds(Fifo, Other(c.mode)) = {}
         fails == alone /\ c.nonblock /\ c.mode = "w"
         after == IF alone /\ ~c.nonblock
                  THEN <<[call |-> "partner", mode |-> c.mode]>> \o c.done
                  ELSE c.done
         mine  == IF fails THEN [procs[p] EXCEPT !.calls = c.fail \o Rest(p)]
                  ELSE [procs[p] EXCEPT !.calls = after \o Rest(p),
                          !.env = With(procs[p].env, c.var, Lowest(procs[p].fds)),
                          !.fds = Opened(procs[p].fds, [file |-> Fifo, mode |-> c.mode])]
         woken == IF fails THEN {} ELSE Blocked(Other(c.mode))
     IN procs' = [q \in Pids |->
                    IF q = p THEN mine
                    ELSE IF q \in woken THEN [procs[q] EXCEPT !.calls = Rest(q)]
                    ELSE procs[q]]
  /\ UNCHANGED <<expected, files, waits>>
---------------------------------------------------------------------------
\* A process makes its next call.
Call(p) == \/ DoFork(p) \/ DoExec(p) \/ DoExit(p) \/ DoWait(p) \/ DoChdir(p)
           \/ DoPrompt(p) \/ DoPwd(p) \/ DoForever(p)
           \/ DoUndefined(p) \/ DoSleep(p) \/ DoPipe(p) \/ DoNoRoom(p) \/ DoClose(p)
           \/ DoDup2(p) \/ DoOpen(p) \/ DoWrite(p) \/ DoRead(p) \/ DoFifo(p)
---------------------------------------------------------------------------
(* The user *)

Type(p) == At(p, "ask") /\ Continue(p, Rest(p)) /\ UNCHANGED <<expected, files, waits>>

\* SIGINT, at any moment, for a program that does not end of itself.
Interrupt(p) ==
  /\ procs[p].state = "running" /\ procs[p].calls # <<>>
  /\ Last(procs[p].calls).call = "forever"
  /\ End(p, SIGINT)
  /\ UNCHANGED <<expected, files, waits>>

User(p) == Type(p) \/ Interrupt(p)
===========================================================================
