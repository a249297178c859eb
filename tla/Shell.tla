------------------------------- MODULE Shell -------------------------------
(***************************************************************************)
(* The shells: hw6/part2, with pipelines, redirection and background jobs, *)
(* and hw4, with background jobs only.  A line of input is a sequence of   *)
(* words and of white space.                                               *)
(***************************************************************************)
EXTENDS Processes

White  == " "   \* between two words
NoWord == ""    \* in the place of a word that is not there

\* parse.c: the words of a line.  No words at all count as no line.
Parse(line) ==
  LET words[n \in 0 .. Len(line)] ==
        IF n = 0 THEN <<>>
        ELSE IF line[n] = White THEN words[n - 1] ELSE Append(words[n - 1], line[n])
  IN words[Len(line)]

First(argv) == IF argv = <<>> THEN NoWord ELSE argv[1]

\* The words from a to b.
Words(argv, a, b) == SubSeq(argv, a, b)

\* The first place of a word, or the place behind the last word.
Find(argv, word) ==
  Min({i \in DOMAIN argv : argv[i] = word} \union {Len(argv) + 1})
---------------------------------------------------------------------------
(* is_background.c *)

IsBackground(argv) == Find(argv, "&") <= Len(argv)

\* The first "&" is taken out, and the words behind it move up.
NoAmpersand(argv) ==
  LET i == Find(argv, "&") IN Words(argv, 1, i - 1) \o Words(argv, i + 1, Len(argv))
---------------------------------------------------------------------------
(* redirect_in.c, redirect_out.c: the calls, and the words that are left *)

\* Mutant: the redirected descriptor stays open.
OpensKept(sign, name) ==
  IF sign = "<"
  THEN IF name = "in" THEN <<Open("fd", InFile, "r"), Dup2("fd", "stdin"), Close("fd")>>
       ELSE <<Exit(1)>>
  ELSE IF name = NoWord THEN <<Exit(1)>> ELSE <<Open("fd", OutFile, "w"), Close("fd")>>

\* open, dup2, close; without a file to open the child exits.
Opens(sign, name) ==
  IF sign = "<"
  THEN IF name = "in" THEN <<Open("fd", InFile, "r"), Dup2("fd", "stdin"), Close("fd")>>
       ELSE <<Exit(1)>>
  ELSE IF name = NoWord THEN <<Exit(1)>>
       ELSE <<Open("fd", OutFile, "w"), Dup2("fd", "stdout"), Close("fd")>>

\* Behind a redirection that was the last of the line the loop goes on at the word
\* for its file, which has been freed: if what is there looks like another
\* redirection, no file can be opened for it.
Dangling == <<Undefined({Stray})>>

\* A redirection is taken out with its file, and then the index advances all the
\* same: the word that has moved up stays, and is not looked at.
Scan(scan, word, sign) ==
  IF scan.next = "file"
  THEN [scan EXCEPT !.calls = scan.calls \o Opens(sign, word), !.next = "skip"]
  ELSE IF scan.next = "look" /\ word = sign
  THEN [scan EXCEPT !.next = "file"]
  ELSE [scan EXCEPT !.argv = Append(scan.argv, word), !.next = "look"]

Redirect(argv, sign) ==
  LET scan[n \in 0 .. Len(argv)] ==
        IF n = 0 THEN [calls |-> <<>>, argv |-> <<>>, next |-> "look"]
        ELSE Scan(scan[n - 1], argv[n], sign)
      end == scan[Len(argv)]
  IN IF end.next = "look" THEN end
     ELSE [end EXCEPT !.calls = end.calls \o (IF end.next = "file" THEN Opens(sign, NoWord)
                                               ELSE Dangling)]
---------------------------------------------------------------------------
(* pipe_present.c, pipe_command.c *)

\* Where "|" is: 0 if nowhere, -1 if it has no command beside it.
PipePresent(argv) ==
  LET i == Find(argv, "|")
  IN IF i \in {1, Len(argv)} THEN -1
     ELSE IF i > Len(argv) THEN 0 ELSE i

\* right_argv is ended one place too far: what is in the place between depends
\* on what the heap held.
Terminator == <<Undefined({SIGSEGV, Stray})>>

\* Both vectors are ended behind the memory that they have, which malloc may find.
Overrun == <<Undefined({SIGABRT})>>

\* The running process becomes the left side, a child of it the right one.
PipeSides(left, right) ==
  Overrun \o
  <<Pipe("pipefds[0]", "pipefds[1]"),
    Fork("right", <<Close("pipefds[1]"), Dup2("pipefds[0]", "stdin"),
                    Close("pipefds[0]")>> \o Terminator \o right),
    Close("pipefds[0]"), Dup2("pipefds[1]", "stdout"), Close("pipefds[1]"),
    Exec(First(left))>>

\* The right side is a pipeline itself, of the words behind the "|".
PipeAndExec(argv) ==
  LET pipeline[from \in 1 .. Len(argv) + 1] ==
        LET side == Words(argv, from, Len(argv))
            i    == PipePresent(side)
        IN IF i = -1 THEN <<Exit(1)>>
           ELSE IF i = 0 THEN <<Exec(First(side))>>
           ELSE PipeSides(Words(side, 1, i - 1), pipeline[from + i])
  IN pipeline[1]
---------------------------------------------------------------------------
(* run_command.c *)

\* The child of the shell: redirections of the whole line, then the pipeline.
RunChild(argv) ==
  LET in  == Redirect(argv, "<")
      out == Redirect(in.argv, ">")
  IN in.calls \o out.calls \o PipeAndExec(out.argv) \o <<Exit(1)>>

\* Mutant: wait for any child.
RunCommandAny(words) ==
  LET argv == NoAmpersand(words)
  IN IF IsBackground(words) THEN <<Fork("background", RunChild(argv))>>
     ELSE <<Fork("pid", RunChild(argv)), Wait("any", "pid")>>

\* A job in the background is never waited for.
RunCommand(words) ==
  LET argv == NoAmpersand(words)
  IN IF IsBackground(words) THEN <<Fork("background", RunChild(argv))>>
     ELSE <<Fork("pid", RunChild(argv)), Wait("pid", "pid")>>

\* hw4/run_command.c: the words are executed as they are.
RunCommand4(words) ==
  LET child == <<Exec(First(NoAmpersand(words))), Exit(1)>>
  IN IF IsBackground(words) THEN <<Fork("background", child)>>
     ELSE <<Fork("pid", child), Wait("pid", "pid")>>
---------------------------------------------------------------------------
(* builtin.c *)

\* The tables of inbuilts.
Inbuilts  == {"builtin", "echo", "quit", "exit", "bye", "logout", "cd", "pwd",
              "id", "hostname"}
Inbuilts4 == {"cd", "exit", "pwd", "echo"}

IsBuiltin(shell, word) == word \in (IF shell = "hw4" THEN Inbuilts4 ELSE Inbuilts)

Puts(what) == <<Write("stdout", <<what, 1>>)>>

\* Without an argument, or to a directory that is not there, nothing happens.
BiCd(argv) == IF Len(argv) > 1 /\ argv[2] \in {"/", "/tmp"} THEN <<Chdir(argv[2])>> ELSE <<>>

BiEcho(argv) ==
  LET from == IF Len(argv) > 1 /\ argv[2] = "-n" THEN 3 ELSE 2
  IN [i \in 1 .. Len(argv) - from + 1 |-> Write("stdout", <<argv[from + i - 1], 1>>)]

BiBuiltin(argv) ==
  IF Len(argv) = 1 THEN <<>>
  ELSE Puts(IF IsBuiltin("hw6", argv[2]) THEN "is a builtin" ELSE "is NOT a builtin")

BiQuit == <<Exit(0)>>

DoBuiltin(argv) ==
  IF argv[1] = "cd" THEN BiCd(argv)
  ELSE IF argv[1] = "echo" THEN BiEcho(argv)
  ELSE IF argv[1] = "builtin" THEN BiBuiltin(argv)
  ELSE IF argv[1] = "pwd" THEN <<Pwd>>
  ELSE IF argv[1] \in {"id", "hostname"} THEN Puts(argv[1])
  ELSE BiQuit
---------------------------------------------------------------------------
(* shell.c *)

\* One line of the loop; one without words does nothing.
ShellLine(shell, line) ==
  LET words == Parse(line)
  IN <<Prompt>> \o
     (IF words = <<>> THEN <<>>
      ELSE IF IsBuiltin(shell, First(words)) THEN DoBuiltin(words)
      ELSE IF shell = "hw4" THEN RunCommand4(words)
      ELSE RunCommand(words))

\* A shell that reads these lines, and then the end of its input.
ShellMain(shell, lines) ==
  FlattenSeq([i \in DOMAIN lines |-> ShellLine(shell, lines[i])]) \o <<Prompt, Exit(0)>>
===========================================================================
