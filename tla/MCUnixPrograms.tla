-------------------------- MODULE MCUnixPrograms --------------------------
(* UnixPrograms with the programs that TLC runs.                           *)
EXTENDS UnixPrograms

Program(calls, shows, stored) ==
  [calls |-> calls, shows |-> shows, stored |-> stored, ends |-> "itself"]
Nothing == [s \in {} |-> 0]
Shows(calls, shows) == Program(calls, shows, Nothing)
EndsBy(program, how) == [program EXCEPT !.ends = how]

PipeProgramList ==
  <<Shows(PipeLs("ls"), [ls |-> 2]),
   EndsBy(Shows(PipeLs("large_ls"), Nothing), "never"),
   Shows(MyCat, ("in" :> 1)),
   Shows(PopenMain, [hello_from_child |-> 1, first_done |-> 1, second_done |-> 1]
                    @@ ("abc xyz" :> 1)),
   EndsBy(Shows(ToCapital(2), [ABC |-> 2]), "user"),
   Shows(RunExp2, [e \in Experiments |-> 1]),
   Shows(MyRpc(<<"ls", "true", "large_ls", "true", "hello_from_child">>, "stdout"),
         [ls |-> 2] @@ [large_ls |-> 3]),
   Program(MyRpc(<<"true", "large_ls">>, "fd"), Nothing, [large_ls |-> 3]),
   Program(MyRpc(<<"ls", "ls", "ls">>, "fd"), Nothing, Nothing),
   Shows(NonblockVerify(0), [client |-> 2, server |-> 2]),
   Shows(NonblockVerify(1), [ENXIO |-> 1, client |-> 1, server |-> 1]),
   Shows(NonblockVerify(2), [client |-> 1, server |-> 2]),
   Shows(NonblockVerify(3), [ENXIO |-> 1, server |-> 1])>>

ShellPrograms ==
  <<Shows(ShellMain("hw4", <<<<"true", "&">>, <<"ls">>, <<"exit">>, <<"ls">>>>), [ls |-> 2]),
   Shows(ShellMain("hw6", <<<<"&", " ", "true">>, <<"ls", "|", "cat", "|", "cat">>>>), [ls |-> 2]),
   Shows(ShellMain("hw6", <<<<"ls", "|", " ", "cat", "-u">>, <<" ">>, <<"|", "cat">>>>), [ls |-> 2]),
   Shows(ShellMain("hw6", <<<<"ls", "|", "head">>, <<"ls", "|">>>>), [ls |-> 1]),
   Program(ShellMain("hw6", <<<<"cat", "<", "in", ">", "out">>, <<"cat", "<", "none">>>>),
           Nothing, ("in" :> 1)),
   Program(ShellMain("hw6", <<<<"ls", ">", "out", "|", "cat">>, <<"cat", ">">>>>),
           Nothing, [ls |-> 2]),
   Shows(ShellMain("hw6", <<<<"cd", "/tmp">>, <<"cd", "/none">>, <<"pwd">>, <<"cd">>,
                            <<"echo", "-n", "a", "b">>, <<"builtin", "id">>, <<"builtin">>,
                            <<"builtin", "ls">>, <<"hostname">>, <<"bye">>, <<"ls">>>>),
         ("/tmp" :> 1) @@ [a |-> 1, b |-> 1, hostname |-> 1] @@ ("is a builtin" :> 1)
         @@ ("is NOT a builtin" :> 1))>>

MCPrograms == PipeProgramList \o ShellPrograms
===========================================================================
