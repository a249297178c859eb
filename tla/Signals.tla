------------------------------ MODULE Signals ------------------------------
(***************************************************************************)
(* Signals as hw8 uses them: masks, dispositions, pending signals, kill,   *)
(* sigsuspend and sigwaitinfo; and, on top of those, the System V          *)
(* functions of SystemVsigs.c.  A process has functions left to call, and  *)
(* of the one that it is in, the calls of the system that are left.  A     *)
(* signal is delivered before the next call of the process; a handler only *)
(* counts.                                                                 *)
(***************************************************************************)
EXTENDS Integers, Sequences

Sigs     == {"USR1", "ALRM"}
Handlers == {"h1", "h2"}          \* functions
Actions  == Handlers \union {"DFL", "IGN"}

VARIABLES
  procs,   \* the processes
  sent     \* the signals that others have sent so far

(* The calls *)
Mask(how, sigs)   == [call |-> "mask", how |-> how, sigs |-> sigs]
Action(sig, act)  == [call |-> "action", sig |-> sig, act |-> act]
Kill(pid, sig)    == [call |-> "kill", pid |-> pid, sig |-> sig]
Raise(sig)        == [call |-> "raise", sig |-> sig]
Alarm             == [call |-> "alarm"]
\* Wait for a signal that is not in the mask; without sig among those of the mask.
Suspend(mask)     == [call |-> "suspend", mask |-> mask]
SuspendWithout(sig) == [call |-> "suspendwithout", sig |-> sig]
WaitInfo(sig)     == [call |-> "waitinfo", sig |-> sig]
Fork(todo)        == [call |-> "fork", todo |-> todo]
\* The value that sigset returns, from what its calls have returned.
Return(sig)       == [call |-> "return", sig |-> sig]
\* The entry to sigset: no call of the system.
Enter(sig, act)   == [call |-> "enter", sig |-> sig, act |-> act]
\* A test of the program: what holds a value in value.
Expect(what, values) == [call |-> "expect", what |-> what, values |-> values]
---------------------------------------------------------------------------
(* The state of a process *)

NewProcess(todo) ==
  [todo |-> todo, calls |-> <<>>, ended |-> FALSE, alarm |-> FALSE,
   act     |-> [s \in Sigs |-> "DFL"],    \* dispositions
   mask    |-> {}, pending |-> {},
   resume  |-> {},                        \* the mask to return to from sigsuspend
   runs    |-> [h \in Handlers |-> 0],    \* how often each handler has run
   oldset  |-> {}, oldsa |-> "DFL",       \* what the calls of sigset have returned
   ret     |-> "DFL",                     \* what sigset has returned
   errno   |-> "0",                       \* EINTR: sigsuspend has returned -1 with it
   \* history: the disposition that sigset was asked for; what it is to return;
   \* whether another handler has run, or something else was returned; the tests
   \* that have failed; the signals sent to other processes
   asked   |-> [s \in Sigs |-> "DFL"], before |-> "DFL",
   wrongHandler |-> FALSE, wrongReturn |-> FALSE, failed |-> {}, kills |-> 0]

Pids    == DOMAIN procs
Alive(p) == ~procs[p].ended

Ready(p) == procs[p].pending \ procs[p].mask # {}
At(p, name) == /\ Alive(p) /\ ~Ready(p) /\ procs[p].calls # <<>>
               /\ procs[p].calls[1].call = name
Arg(p)  == procs[p].calls[1]
On(p)   == [procs[p] EXCEPT !.calls = Tail(@)]

\* A signal is sent to r: it is dropped if it is ignored and not blocked; a
\* signal that is pending already is not counted again.
Sent(r, sig) ==
  IF r.act[sig] = "IGN" /\ sig \notin r.mask THEN r
  ELSE [r EXCEPT !.pending = @ \union {sig}]

\* A pending signal is delivered.  The handler ends a sigsuspend, or a pause.
Handled(r, sig) ==
  LET waits == r.calls # <<>> /\ r.calls[1].call = "suspended"
      run   == [r EXCEPT !.runs[r.act[sig]] = @ + 1,
                         !.wrongHandler = @ \/ r.act[sig] # r.asked[sig]]
  IN IF waits THEN [run EXCEPT !.calls = Tail(@), !.mask = r.resume, !.errno = "EINTR"]
     ELSE run

Taken(r, sig) == [r EXCEPT !.pending = @ \ {sig}]

Delivered(r, sig) == CASE r.act[sig] \in Handlers -> Handled(r, sig)
                       [] r.act[sig] = "IGN" -> r
                       [] r.act[sig] = "DFL" -> [r EXCEPT !.ended = TRUE]

Deliver(p) ==
  /\ Alive(p)
  /\ \E sig \in procs[p].pending \ procs[p].mask :
       procs' = [procs EXCEPT ![p] = Delivered(Taken(procs[p], sig), sig)]
  /\ UNCHANGED sent
---------------------------------------------------------------------------
\* A function has returned, and the next one is called; or there is none.
Begin(p) ==
  /\ Alive(p) /\ ~Ready(p) /\ procs[p].calls = <<>> /\ procs[p].todo # <<>>
  /\ procs' = [procs EXCEPT ![p].calls = Head(procs[p].todo), ![p].todo = Tail(@)]
  /\ UNCHANGED sent

DoExit(p) ==
  /\ Alive(p) /\ ~Ready(p) /\ procs[p].calls = <<>> /\ procs[p].todo = <<>>
  /\ procs' = [procs EXCEPT ![p].ended = TRUE]
  /\ UNCHANGED sent
---------------------------------------------------------------------------
(* The calls of the system *)

DoMask(p) ==
  /\ At(p, "mask")
  /\ procs' = [procs EXCEPT ![p] = [On(p) EXCEPT
       !.oldset = procs[p].mask,
       !.mask = CASE Arg(p).how = "block"   -> @ \union Arg(p).sigs
                  [] Arg(p).how = "unblock" -> @ \ Arg(p).sigs
                  [] Arg(p).how = "set"     -> Arg(p).sigs]]
  /\ UNCHANGED sent

\* "query" changes nothing; to ignore a signal drops it if it is pending.
DoAction(p) ==
  /\ At(p, "action")
  /\ LET sig == Arg(p).sig
         act == Arg(p).act
         r   == [On(p) EXCEPT !.oldsa = procs[p].act[sig]]
     IN procs' = [procs EXCEPT ![p] =
          IF act = "query" THEN r
          ELSE [r EXCEPT !.act[sig] = act, !.asked[sig] = act,
                         !.pending = IF act = "IGN" THEN @ \ {sig} ELSE @]]
  /\ UNCHANGED sent

DoKill(p) ==
  /\ At(p, "kill") /\ Arg(p).pid \in Pids
  /\ LET counted == [procs EXCEPT ![p] = [On(p) EXCEPT !.kills = @ + 1]]
     IN procs' = [counted EXCEPT ![Arg(p).pid] = Sent(@, Arg(p).sig)]
  /\ UNCHANGED sent

DoRaise(p) ==
  /\ At(p, "raise")
  /\ procs' = [procs EXCEPT ![p] = Sent(On(p), Arg(p).sig)]
  /\ UNCHANGED sent

DoAlarm(p) ==
  /\ At(p, "alarm")
  /\ procs' = [procs EXCEPT ![p] = [On(p) EXCEPT !.alarm = TRUE]]
  /\ UNCHANGED sent

\* The second has passed: at any time after the call.
AlarmGoesOff(p) ==
  /\ Alive(p) /\ procs[p].alarm
  /\ procs' = [procs EXCEPT ![p] = Sent([@ EXCEPT !.alarm = FALSE], "ALRM")]
  /\ UNCHANGED sent

\* sigsuspend: the mask changes and the process waits, in one step.
DoSuspend(p) ==
  /\ At(p, "suspend") \/ At(p, "suspendwithout")
  /\ procs' = [procs EXCEPT ![p] =
       [procs[p] EXCEPT !.calls[1] = [call |-> "suspended"], !.resume = procs[p].mask,
          !.mask = IF Arg(p).call = "suspend" THEN Arg(p).mask ELSE @ \ {Arg(p).sig}]]
  /\ UNCHANGED sent

\* sigwaitinfo takes the signal itself: no handler runs.
DoWaitInfo(p) ==
  /\ At(p, "waitinfo") /\ Arg(p).sig \in procs[p].pending
  /\ procs' = [procs EXCEPT ![p] = [On(p) EXCEPT !.pending = @ \ {Arg(p).sig}]]
  /\ UNCHANGED sent

\* The child has the mask and the dispositions of its parent.
DoFork(p) ==
  /\ At(p, "fork")
  /\ procs' = Append([procs EXCEPT ![p] = On(p)],
                     [procs[p] EXCEPT !.todo = Arg(p).todo, !.calls = <<>>, !.pending = {}])
  /\ UNCHANGED sent

\* The entry and the return of sigset: what it is asked for counts at once for a
\* signal that is held, and otherwise from its sigaction on.
DoEnter(p) ==
  /\ At(p, "enter")
  /\ LET sig  == Arg(p).sig
         act  == Arg(p).act
         held == sig \in procs[p].mask
     IN procs' = [procs EXCEPT ![p] = [On(p) EXCEPT
          !.before = IF held THEN "HOLD" ELSE procs[p].act[sig],
          !.asked[sig] = IF held /\ act # "HOLD" THEN act ELSE @]]
  /\ UNCHANGED sent

DoReturn(p) ==
  /\ At(p, "return")
  /\ LET ret == IF Arg(p).sig \in procs[p].oldset THEN "HOLD" ELSE procs[p].oldsa
     IN procs' = [procs EXCEPT ![p] = [On(p) EXCEPT
          !.ret = ret, !.wrongReturn = @ \/ ret # procs[p].before]]
  /\ UNCHANGED sent

DoExpect(p) ==
  /\ At(p, "expect")
  /\ LET what  == Arg(p).what
         value == CASE what = "usr1_count"   -> procs[p].runs["h1"]
                    [] what = "alrm_count"   -> procs[p].runs["h2"]
                    [] what = "USR1_pending" -> "USR1" \in procs[p].pending
                    [] what = "prev"         -> procs[p].ret
                    [] what = "errno"        -> procs[p].errno
     IN procs' = [procs EXCEPT ![p] =
          IF value \in Arg(p).values THEN On(p)
          ELSE [On(p) EXCEPT !.failed = @ \union {what}]]
  /\ UNCHANGED sent

Step(p) == \/ Begin(p) \/ Deliver(p) \/ AlarmGoesOff(p) \/ DoMask(p) \/ DoAction(p)
           \/ DoKill(p) \/ DoRaise(p) \/ DoAlarm(p) \/ DoSuspend(p)
           \/ DoWaitInfo(p) \/ DoFork(p) \/ DoEnter(p) \/ DoReturn(p)
           \/ DoExpect(p) \/ DoExit(p)
---------------------------------------------------------------------------
(* SystemVsigs.c *)

\* Mutant: the signal is released before the handler is changed.
SigsetReleased(sig, handler) ==
  IF handler = "HOLD"
  THEN <<Enter(sig, handler), Mask("block", {sig}), Action(sig, "query"), Return(sig)>>
  ELSE <<Enter(sig, handler), Mask("unblock", {sig}), Action(sig, handler), Return(sig)>>

\* A handler is changed first, so that a signal that was held goes to the new one.
sigset(sig, handler) ==
  IF handler = "HOLD"
  THEN <<Enter(sig, handler), Mask("block", {sig}), Action(sig, "query"), Return(sig)>>
  ELSE <<Enter(sig, handler), Action(sig, handler), Mask("unblock", {sig}), Return(sig)>>

\* Mutant: nothing is blocked.
sigholdNot(sig) == <<Mask("block", {})>>

sighold(sig)   == <<Mask("block", {sig})>>
sigrelse(sig)  == <<Mask("unblock", {sig})>>
sigignore(sig) == <<Action(sig, "IGN")>>

\* Mutant: the signal is released, and only then waited for.
sigpauseInSteps(sig) ==
  <<Mask("unblock", {sig}), SuspendWithout(sig), Mask("block", {sig})>>

sigpause(sig)  == <<SuspendWithout(sig)>>
===========================================================================
