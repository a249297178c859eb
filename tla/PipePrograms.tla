--------------------------- MODULE PipePrograms ---------------------------
(***************************************************************************)
(* Programs that copy, or fork children and talk to them: pipe_ls.c and    *)
(* mycat.c (hw6/part1), mypopen and mypclose (hw7) with their tests,       *)
(* toCapital.c (hw7), run_exp2.c (hw12), myrpc.c (extra1) and              *)
(* nonblock_verify.c (hw10/ex44_7).  Calls that fail only for want of      *)
(* memory or of processes are taken to succeed.                            *)
(***************************************************************************)
EXTENDS Processes

---------------------------------------------------------------------------
(* hw6/part1/pipe_ls.c *)

\* Mutant: the parent keeps the end that it does not use.
PipeLsOpen(ls) ==
  <<Pipe("p[0]", "p[1]"),
    Fork("pid", <<Close("p[0]"), Dup2("p[1]", "stdout"), Close("p[1]"), Exec(ls)>>),
    Wait("pid", "pid"), CopyAll("p[0]", "stdout"), Close("p[0]"), Exit(0)>>

\* The parent reads what the child has printed once the child has ended.  The child
\* is `ls -l', of a directory with few files or with many.
PipeLs(ls) ==
  <<Pipe("p[0]", "p[1]"),
    Fork("pid", <<Close("p[0]"), Dup2("p[1]", "stdout"), Close("p[1]"), Exec(ls)>>),
    Close("p[1]"), Wait("pid", "pid"),
    CopyAll("p[0]", "stdout"), Close("p[0]"), Exit(0)>>

\* hw6/part1/mycat.c, of the file "in".
MyCat == <<Open("fd", InFile, "r"), CopyAll("fd", "stdout"), Exit(0)>>
---------------------------------------------------------------------------
(* hw7/popen_close.c: a stream is the names of its descriptors and child *)

Stream(s) == CASE s = "a" -> [rd |-> "a[0]", wr |-> "a[1]", pid |-> "a"]
               [] s = "b" -> [rd |-> "b[0]", wr |-> "b[1]", pid |-> "b"]

\* The table of children is filled in the child only, so that child_count is
\* always 0 in the parent: no child closes a stream that was opened before it.
MyPopen(s, mode, command) ==
  LET mine  == IF mode = "r" THEN s.rd ELSE s.wr
      yours == IF mode = "r" THEN s.wr ELSE s.rd
      std   == IF mode = "r" THEN "stdout" ELSE "stdin"
  IN <<Pipe(s.rd, s.wr),
       Fork(s.pid, <<Close(mine), Dup2(yours, std), Close(yours), Exec(command)>>),
       Close(yours)>>

\* Mutant: the child is not waited for.
MyPcloseNoWait(s, mode) == <<Close(IF mode = "r" THEN s.rd ELSE s.wr)>>

\* For the same reason child_pid[fd] is 0 in the parent, and waitpid returns the
\* status of whichever child ends first.
MyPclose(s, mode) ==
  <<Close(IF mode = "r" THEN s.rd ELSE s.wr), Wait("any", s.pid)>>

\* hw7/main.c: fgets from the stream and printf; fprintf to the stream.
TestReadMode ==
  MyPopen(Stream("a"), "r", "hello_from_child") \o <<Copy("a[0]", "stdout")>>
  \o MyPclose(Stream("a"), "r")

TestWriteMode ==
  MyPopen(Stream("a"), "w", "cat") \o <<Write("a[1]", <<"abc xyz", 1>>)>>
  \o MyPclose(Stream("a"), "w")

TestMultipleChildren ==
  MyPopen(Stream("a"), "r", "first_done") \o MyPopen(Stream("b"), "r", "second_done")
  \o <<Copy("a[0]", "stdout"), Copy("b[0]", "stdout")>>
  \o MyPclose(Stream("a"), "r") \o MyPclose(Stream("b"), "r")

PopenMain == TestReadMode \o TestWriteMode \o TestMultipleChildren \o <<Exit(0)>>

\* hw7/toCapital.c: each line that the user types goes to the child and comes back
\* in capitals.  After the last one the loop goes on: fgets leaves the line before
\* in the buffer, and it is sent again and again.  (What is printed then is not kept.)
ToCapital(lines) ==
  <<Pipe("raw_pd[0]", "raw_pd[1]"), Pipe("processed_pd[0]", "processed_pd[1]"),
    Fork("capital", <<Close("raw_pd[1]"), Close("processed_pd[0]"),
                      UpperAll("raw_pd[0]", "processed_pd[1]"),
                      Close("raw_pd[0]"), Close("processed_pd[1]"), Exit(0)>>),
    Close("raw_pd[0]"), Close("processed_pd[1]")>>
  \o FlattenSeq([i \in 1 .. lines |-> <<Ask, Write("raw_pd[1]", <<"abc", i>>),
                                       Copy("processed_pd[0]", "stdout")>>])
  \o <<Ask, Forever(<<Write("raw_pd[1]", <<"abc", lines>>), Read("processed_pd[0]", <<>>)>>)>>
---------------------------------------------------------------------------
(* hw12/run_exp2.c: the program is run with one number of workers after the  *)
(* other, each when the one before has ended                                 *)

RunExp2 ==
  FlattenSeq([i \in 1 .. 7 |->
    <<Fork("pid", <<Exec("program " \o ToString(<<1, 2, 5, 10, 20, 50, 100>>[i])),
                    Exit(0)>>),
      Wait("any", "pid")>>])
  \o <<Exit(0)>>
---------------------------------------------------------------------------
(* extra1/myrpc.c *)

RpcCommand ==
  <<Dup2("back_pipe[1]", "stdout"), Close("back_pipe[1]"), ExecRead>>

Executor ==
  <<Close("to_pipe[1]"), Close("back_pipe[0]"),
    Read("to_pipe[0]", <<Close("to_pipe[0]"), Close("back_pipe[1]"), Exit(0)>>),
    Close("to_pipe[0]"),
    Fork("pid", RpcCommand), Wait("pid", "pid"), Close("back_pipe[1]"), Exit(0)>>

\* Mutant: the commander keeps the end that the executor reads from.
CommanderOpen(command, to) ==
  <<Close("back_pipe[1]"), Write("to_pipe[1]", <<command, 1>>), Close("to_pipe[1]"),
    CopyAll("back_pipe[0]", to), Wait("any", "executor")>>

\* back_pipe[0] and fd stay open: every command costs the commander descriptors,
\* until there are too few for two pipes.
Commander(command, to) ==
  <<Close("to_pipe[0]"), Close("back_pipe[1]"),
    Write("to_pipe[1]", <<command, 1>>), Close("to_pipe[1]"),
    CopyAll("back_pipe[0]", to), Wait("any", "executor")>>

\* One round of the loop of main; `to' is "fd" with -f, which truncates the file
\* for every command.
MyRpcRound(command, to) ==
  (IF to = "fd" THEN <<Open("fd", OutFile, "w")>> ELSE <<>>)
  \o <<Pipe("to_pipe[0]", "to_pipe[1]"), Pipe("back_pipe[0]", "back_pipe[1]"),
       Fork("executor", Executor)>>
  \o Commander(command, to)

MyRpc(commands, to) ==
  FlattenSeq([i \in DOMAIN commands |-> MyRpcRound(commands[i], to)]) \o <<Exit(0)>>
---------------------------------------------------------------------------
(* hw10/ex44_7/nonblock_verify.c: time in half seconds; block or nonblock is *)
(* written for the server first, and the mode numbers are those of the code  *)

Say(what, n) == Write("stdout", <<what, n>>)

OpenAndClose(who, mode, nonblock, n) ==
  OpenFifo("fd", mode, nonblock, <<Say(who, n), Close("fd")>>, <<Say("ENXIO", 1)>>)

Client(mode) ==
  CASE mode = 0 -> <<OpenAndClose("client", "w", FALSE, 1), Sleep(1), Sleep(6),
                     OpenAndClose("client", "w", FALSE, 2)>>
    [] mode = 1 -> <<OpenAndClose("client", "w", TRUE, 1), Sleep(6),
                     OpenAndClose("client", "w", TRUE, 1)>>
    [] mode = 2 -> <<Sleep(2), OpenAndClose("client", "w", FALSE, 1)>>
    [] mode = 3 -> <<OpenAndClose("client", "w", TRUE, 1)>>

Server(mode) ==
  CASE mode = 0 -> <<Sleep(6), OpenAndClose("server", "r", FALSE, 1),
                     Sleep(1), OpenAndClose("server", "r", FALSE, 2)>>
    [] mode = 1 -> <<Sleep(2), OpenAndClose("server", "r", FALSE, 1)>>
    [] mode = 2 -> <<OpenAndClose("server", "r", TRUE, 1), Sleep(6),
                     OpenAndClose("server", "r", TRUE, 2)>>
    [] mode = 3 -> <<Sleep(2), OpenAndClose("server", "r", TRUE, 1), Sleep(2)>>

\* The child is the client; the server does not wait for it.
NonblockVerify(mode) ==
  <<Fork("client", Client(mode) \o <<Exit(0)>>)>> \o Server(mode) \o <<Exit(0)>>
===========================================================================
