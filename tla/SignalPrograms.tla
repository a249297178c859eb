--------------------------- MODULE SignalPrograms ---------------------------
(***************************************************************************)
(* The programs of hw8: the test of the System V functions, the two that   *)
(* send a signal to and fro, and one that stands for any user of the       *)
(* functions, to which others send signals at any time.                    *)
(***************************************************************************)
EXTENDS Signals

CONSTANTS NumSigs,    \* the argument of sig_speed_...
          MaxCalls,   \* the calls that the user makes
          MaxSent     \* the signals that others send it

ASSUME SignalAssumption == NumSigs \in Nat /\ MaxCalls \in Nat /\ MaxSent \in Nat

VARIABLE program
vars == <<program, procs, sent>>
---------------------------------------------------------------------------
(* test_systemvsigs.c: h1 is usr1_handler, and h2 alrm_handler *)

TestSigset ==
  <<sigset("USR1", "DFL"), sigrelse("USR1"), sigset("USR1", "h1"),
    <<Raise("USR1"), Expect("usr1_count", {1})>>>>

TestSighold ==
  <<sighold("USR1"), <<Raise("USR1"), Expect("usr1_count", {1}),
                       Expect("USR1_pending", {TRUE})>>>>

TestSigrelse  == <<sigrelse("USR1"), <<Expect("usr1_count", {2})>>>>
TestSigignore == <<sigignore("USR1"), <<Raise("USR1"), Expect("usr1_count", {2})>>>>

TestSighold2 ==
  <<sigset("USR1", "h1"), sigset("USR1", "HOLD"), <<Expect("prev", {"h1"})>>,
    <<Raise("USR1"), Expect("usr1_count", {2})>>,
    sigset("USR1", "h1"), <<Expect("prev", {"HOLD"})>>>>

TestSigpause ==
  <<sigset("ALRM", "h2"), sighold("ALRM"), <<Alarm>>, sigpause("ALRM"),
    <<Expect("errno", {"EINTR"}), Expect("alrm_count", {1})>>>>

Test == TestSigset \o TestSighold \o TestSigrelse \o TestSigignore
        \o TestSighold2 \o TestSigpause
---------------------------------------------------------------------------
(* sig_speed_sigsuspend.c, sig_speed_sigwaitinfo.c *)

Parent == 1
Child  == 2

Times(n, calls) == [i \in 1 .. n |-> calls]

Sigsuspend ==
  <<<<Action("USR1", "h1"), Mask("set", {"USR1"}),
      Fork(Times(NumSigs, <<Kill(Parent, "USR1"), Suspend({})>>))>>>>
  \o Times(NumSigs, <<Suspend({}), Kill(Child, "USR1")>>)

\* Mutant: the signal is blocked after the fork.
SigwaitinfoLate ==
  <<<<Fork(<<<<Mask("set", {"USR1"})>>>>
           \o Times(NumSigs, <<Kill(Parent, "USR1"), WaitInfo("USR1")>>)),
      Mask("set", {"USR1"})>>>>
  \o Times(NumSigs, <<WaitInfo("USR1"), Kill(Child, "USR1")>>)

Sigwaitinfo ==
  <<<<Mask("set", {"USR1"}),
      Fork(Times(NumSigs, <<Kill(Parent, "USR1"), WaitInfo("USR1")>>))>>>>
  \o Times(NumSigs, <<WaitInfo("USR1"), Kill(Child, "USR1")>>)
---------------------------------------------------------------------------
(* Any user of the functions *)

UserCalls ==
  {sigset("USR1", h) : h \in {"h1", "h2", "IGN", "HOLD"}}
  \union {sighold("USR1"), sigrelse("USR1"), sigignore("USR1"), sigpause("USR1")}

\* The user has installed a handler, and then makes MaxCalls calls.
UserPrograms ==
  {<<sigset("USR1", "h1")>> \o calls : calls \in [1 .. MaxCalls -> UserCalls]}

\* Others send it the signal, once it has a handler.
Others ==
  /\ program = "user" /\ sent < MaxSent /\ Alive(1)
  /\ procs[1].act["USR1"] # "DFL"
  /\ sent' = sent + 1
  /\ procs' = [procs EXCEPT ![1] = Sent(@, "USR1")]
---------------------------------------------------------------------------
Init ==
  /\ sent = 0
  /\ \/ program = "test" /\ procs = <<NewProcess(Test)>>
     \/ program = "sigsuspend" /\ procs = <<NewProcess(Sigsuspend)>>
     \/ program = "sigwaitinfo" /\ procs = <<NewProcess(Sigwaitinfo)>>
     \/ program = "user" /\ \E todo \in UserPrograms : procs = <<NewProcess(todo)>>

Next == /\ Others \/ \E p \in Pids : Step(p)
        /\ UNCHANGED program

Spec == Init /\ [][Next]_vars

\* Some process goes on while one can, and the alarm goes off.
FairSpec == Spec /\ WF_vars((\E p \in Pids : Step(p)) /\ UNCHANGED program)
---------------------------------------------------------------------------
(* Properties *)

\* Every test of test_systemvsigs.c passes, whenever the alarm goes off.
TestPasses == \A p \in Pids : procs[p].failed = {}

\* A signal that was held when sigset was called goes to the handler that sigset
\* was given, never to the one before; and sigset returns SIG_HOLD if the signal
\* was held, otherwise the disposition that it had, whatever is delivered
\* meanwhile.
SigsetRight == \A p \in Pids : ~procs[p].wrongHandler /\ ~procs[p].wrongReturn

\* The two processes of sig_speed_... take turns, and the signal ends neither.
TakeTurns ==
  program \in {"sigsuspend", "sigwaitinfo"} =>
    /\ Len(procs) = 2 => procs[Child].kills - procs[Parent].kills \in {0, 1}
    /\ \A p \in Pids : procs[p].ended => procs[p].calls = <<>> /\ procs[p].todo = <<>>

\* The test, and the programs that send a signal to and fro, come to their end:
\* no signal is lost between its release and the wait for it.
Finishes == <>(program = "user" \/ \A p \in Pids : procs[p].ended)
===========================================================================
