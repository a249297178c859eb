---------------------------- MODULE UnixPrograms ----------------------------
(***************************************************************************)
(* The programs of PipePrograms and Shell, one of them at a time, with all *)
(* their processes.                                                        *)
(***************************************************************************)
EXTENDS PipePrograms, Shell

\* Time passes only when nobody has anything to do: the sleeps of the programs
\* are long beside all that they do.
Busy == \E p \in Running : ENABLED Call(p)

Tick ==
  LET asleep == {procs[p].asleep : p \in Running} \ {0}
  IN /\ asleep # {} /\ ~Busy
     /\ procs' = [p \in Pids |-> IF procs[p].asleep = 0 THEN procs[p]
                                 ELSE [procs[p] EXCEPT !.asleep = @ - Min(asleep)]]
     /\ UNCHANGED <<expected, files, waits>>

Processing == (\E p \in Pids : Call(p)) \/ Tick

Next == Processing \/ \E p \in Pids : User(p)

Spec == Init /\ [][Next]_vars

\* While some process can go on, one of them does.  Fairness among the processes
\* is not needed, for none of them loops without waiting for another.  The user may
\* do nothing.
FairSpec == Spec /\ WF_vars(Processing)
---------------------------------------------------------------------------
(* Properties *)

\* The commands that myrpc has served.
Served == Cardinality({w \in waits : procs[w.asked].name = "executor"})

\* What the commander of myrpc has open when it makes the pipes for a command: beside
\* its input and output one descriptor for every command before, two with -f.
CommanderKeeps ==
  At(1, "pipe") /\ Arg(1).rd = "to_pipe[0]"
    => Cardinality(DOMAIN procs[1].fds)
       = IF "fd" \in DOMAIN procs[1].env THEN 3 + 2 * Served ELSE 2 + Served

\* No other program, whatever its processes leave open, lacks the descriptors for a
\* pipe.
OnlyMyRpcRunsOut ==
  \A p \in Pids :
    At(p, "pipe") /\ Room(p) < 2 => p = 1 /\ Arg(p).rd \in {"to_pipe[0]", "back_pipe[0]"}

\* The types; every descriptor refers to a file that exists, no process has more of
\* them than it may, and those that the commander of myrpc leaves open add up.
TypeOK ==
  /\ \A p \in Pids :
       /\ procs[p].state \in {"running", "zombie", "reaped"}
       /\ procs[p].parent \in 0 .. p - 1
       /\ DOMAIN procs[p].fds \subseteq 0 .. OpenMax - 1
       /\ \A e \in Ends(p) : e.file \in DOMAIN files /\ e.mode \in {"r", "w"}
  /\ \A f \in DOMAIN files : f \in Endless \/ Len(files[f]) <= PipeSize
  /\ waits \subseteq [asked : Pids, got : Pids]
  /\ CommanderKeeps /\ OnlyMyRpcRunsOut

Crashed == \E p \in Pids : procs[p].status \in {SIGABRT, SIGSEGV, SIGINT, Stray}

\* The program has ended, or has had all its input and runs on for ever.
Over == Ended \/ At(1, "forever")

\* The items of a source that a file holds.
Of(f, source) == SelectSeq(files[f], LAMBDA item : item[1] = source)

Lists(f, counts) ==
  /\ \A s \in DOMAIN counts : Of(f, s) = [i \in 1 .. counts[s] |-> <<s, i>>]
  /\ \A i \in DOMAIN files[f] : files[f][i][1] \in DOMAIN counts

\* Through every pipe everything arrives, once and in order, before the end of
\* the file is seen; redirections and FIFOs behave as the programs expect; and myrpc
\* gives up at the first command for which it has no descriptors left.
Transcript ==
  Over /\ ~Crashed => /\ Lists(Terminal, expected.shows)
                      /\ Lists(OutFile, expected.stored)

\* The status that a wait returns is that of the child it is for, unless two
\* streams of mypopen are open: mypclose takes whichever child ends first.
OwnStatus ==
  \A w \in waits :
    w.got # w.asked => {procs[w.got].name, procs[w.asked].name} = {"a", "b"}

\* Between two commands the shell has no children but jobs in the background, and
\* none of the pipes or files of the commands open.
PromptIsClean ==
  At(1, "prompt") =>
    /\ DOMAIN procs[1].fds = {0, 1}
    /\ \A p \in Pids : procs[p].parent = 1 /\ procs[p].state # "reaped"
                        => procs[p].name = "background"

\* Every wait gets the status of the child it is meant for (popen and pclose, the
\* shell), and no command in the foreground outlives its line.
RightChildren == OwnStatus /\ PromptIsClean

\* The children that the code does not wait for: a job in the background, the
\* right side of a pipe, the client of nonblock_verify, the child of toCapital.
Unwaited == {"background", "right", "client", "capital"}

\* No process leaves a child behind, save those.
NoChildLeft ==
  [][\A p, q \in Pids :
       procs[p].state = "running" /\ procs'[p].state # "running"
         /\ procs[q].parent = p /\ procs[q].state # "reaped"
       => procs[q].name \in Unwaited]_vars

\* The child of pipe_ls has filled the pipe, which only the parent may read, and the
\* parent waits for its end.
Jammed ==
  /\ At(1, "wait")
  /\ \E q \in Running : At(q, "write")
       /\ LET f == File(q, Arg(q).var)
          IN Len(files[f]) = PipeSize /\ Holds(f, "r") = {1}

\* A program ends, with all its processes: every reader sees the end of its file.
\* toCapital ends, child and all, if the user interrupts it; if not, it waits for the
\* user or, behind the end of its input, goes on for ever.  Only pipe_ls, with a
\* listing that is longer than its pipe, never ends.
Finishes ==
  /\ expected.ends = "itself" => <>Ended
  /\ expected.ends = "user"   => <>Ended \/ <>[]At(1, "ask") \/ []<>At(1, "forever")
  /\ expected.ends = "never"  => <>[]Jammed
===========================================================================
