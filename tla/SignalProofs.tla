---------------------------- MODULE SignalProofs ----------------------------
(***************************************************************************)
(* Proofs about the signal programs of hw8, for any calls of the System V  *)
(* functions, any signals and any number of rounds: the handler and the    *)
(* value of sigset are right, and the ping-pongs alternate.                *)
(***************************************************************************)
EXTENDS SignalPrograms, SequenceTheorems, TLAPS

(* The types *)

Suspended == [call |-> "suspended"]

Checks  == {"usr1_count", "alrm_count", "USR1_pending", "prev", "errno"}
Expects == [call : {"expect"}, what : Checks, values : {{1}, {2}, {TRUE}, {"h1"}, {"HOLD"}, {"EINTR"}}]

\* The calls that a program makes by itself, and those that sigset makes besides.
Simple ==
  [call : {"mask"}, how : {"block", "unblock", "set"}, sigs : SUBSET Sigs]
  \union [call : {"action"}, sig : Sigs, act : Actions]
  \union [call : {"kill"}, pid : {Parent, Child}, sig : Sigs]
  \union [call : {"raise", "suspendwithout", "waitinfo"}, sig : Sigs]
  \union [call : {"suspend"}, mask : SUBSET Sigs]
  \union {Alarm, Suspended} \union Expects
Plain == Simple \union [call : {"fork"}, todo : Seq(Seq(Simple))]
Calls == Plain \union [call : {"return"}, sig : Sigs]
               \union [call : {"action"}, sig : Sigs, act : {"query"}]
               \union [call : {"enter"}, sig : Sigs, act : Actions \union {"HOLD"}]

Wanted    == Actions \union {"HOLD"}     \* what sigset may be asked for
Functions == Seq(Plain) \union {sigset(sig, h) : sig \in Sigs, h \in Wanted}

Process ==
  [todo : Seq(Functions), calls : Seq(Calls), ended : BOOLEAN, alarm : BOOLEAN,
   act : [Sigs -> Actions], mask : SUBSET Sigs, pending : SUBSET Sigs, resume : SUBSET Sigs,
   runs : [Handlers -> Nat], oldset : SUBSET Sigs, oldsa : Actions, ret : Wanted,
   errno : {"0", "EINTR"}, asked : [Sigs -> Actions], before : Wanted,
   wrongHandler : BOOLEAN, wrongReturn : BOOLEAN, failed : SUBSET Checks, kills : Nat]
---------------------------------------------------------------------------
(* sigset, call by call *)

\* Every disposition is the one last asked for.
Settled(r) == r.act = r.asked

Was(r, sig, oldset, oldsa) == r.before = IF sig \in oldset THEN "HOLD" ELSE oldsa

\* It is to change the disposition: until it has, a signal that is held has the old one.
ToChange(r, sig, h) ==
  /\ r.calls = <<Action(sig, h), Mask("unblock", {sig}), Return(sig)>>
  /\ Was(r, sig, r.mask, r.act[sig])
  /\ \A s \in Sigs : s # sig => r.act[s] = r.asked[s]
  /\ sig \in r.mask \/ r.act[sig] = r.asked[sig]

ToRelease(r, sig) ==
  /\ r.calls = <<Mask("unblock", {sig}), Return(sig)>>
  /\ Was(r, sig, r.mask, r.oldsa) /\ Settled(r)

ToHold(r, sig) ==
  /\ r.calls = <<Mask("block", {sig}), Action(sig, "query"), Return(sig)>>
  /\ Was(r, sig, r.mask, r.act[sig]) /\ Settled(r)

ToQuery(r, sig) ==
  /\ r.calls = <<Action(sig, "query"), Return(sig)>>
  /\ Was(r, sig, r.oldset, r.act[sig]) /\ Settled(r)

ToReturn(r, sig) ==
  /\ r.calls = <<Return(sig)>>
  /\ Was(r, sig, r.oldset, r.oldsa) /\ Settled(r)

InSigset(r, sig, h) ==
  \/ r.calls = sigset(sig, h) /\ Settled(r)
  \/ h # "HOLD" /\ ToChange(r, sig, h)
  \/ ToRelease(r, sig) \/ ToHold(r, sig) \/ ToQuery(r, sig) \/ ToReturn(r, sig)

Outside(r) == r.calls \in Seq(Plain) /\ Settled(r)

Fine(r) ==
  /\ Outside(r) \/ \E sig \in Sigs, h \in Wanted : InSigset(r, sig, h)
  /\ ~r.wrongHandler /\ ~r.wrongReturn

VInv == \A p \in Pids : Fine(procs[p])
---------------------------------------------------------------------------
(* Facts about calls and processes *)

LEMMA Tails ==
  \A a, b, c, d :
    /\ <<a, b, c, d>>[1] = a /\ Tail(<<a, b, c, d>>) = <<b, c, d>> /\ <<a, b, c, d>> # <<>>
    /\ <<b, c, d>>[1] = b /\ Tail(<<b, c, d>>) = <<c, d>> /\ <<b, c, d>> # <<>>
    /\ <<c, d>>[1] = c /\ Tail(<<c, d>>) = <<d>> /\ <<c, d>> # <<>>
    /\ <<d>>[1] = d /\ Tail(<<d>>) = <<>> /\ <<d>> # <<>>
OBVIOUS

\* What the name of a call says of its arguments.
LEMMA PlainArguments ==
  ASSUME NEW c \in Plain
  PROVE  /\ c.call \in {"mask", "action", "kill", "raise", "suspendwithout", "waitinfo", "suspend",
                        "alarm", "suspended", "expect", "fork"}
         /\ c.call = "mask" => c.how \in {"block", "unblock", "set"} /\ c.sigs \in SUBSET Sigs
         /\ c.call = "action" => c.sig \in Sigs /\ c.act \in Actions
         /\ c.call = "kill" => c.pid \in {Parent, Child}
         /\ c.call \in {"kill", "raise", "suspendwithout", "waitinfo"} => c.sig \in Sigs
         /\ c.call = "suspend" => c.mask \in SUBSET Sigs
         /\ c.call = "expect" => c.what \in Checks
         /\ c.call = "fork" => c.todo \in Seq(Seq(Simple))
<1>1. CASE c \in [call : {"mask"}, how : {"block", "unblock", "set"}, sigs : SUBSET Sigs]
  BY <1>1
<1>2. CASE c \in [call : {"action"}, sig : Sigs, act : Actions]
  BY <1>2
<1>3. CASE c \in [call : {"kill"}, pid : {Parent, Child}, sig : Sigs]
  BY <1>3
<1>4. CASE c \in [call : {"raise", "suspendwithout", "waitinfo"}, sig : Sigs]
  BY <1>4
<1>5. CASE c \in [call : {"suspend"}, mask : SUBSET Sigs]
  BY <1>5
<1>6. CASE c \in {Alarm, Suspended}
  BY <1>6 DEF Alarm, Suspended
<1>7. CASE c \in Expects
  BY <1>7 DEF Expects
<1>8. CASE c \in [call : {"fork"}, todo : Seq(Seq(Simple))]
  BY <1>8
<1>. QED  BY <1>1, <1>2, <1>3, <1>4, <1>5, <1>6, <1>7, <1>8 DEF Plain, Simple

LEMMA CallTypes ==
  /\ \A sig \in Sigs, h \in Actions : Action(sig, h) \in Calls
  /\ \A sig \in Sigs : Action(sig, "query") \in Calls /\ Return(sig) \in Calls
  /\ \A sig \in Sigs : Mask("block", {sig}) \in Calls /\ Mask("unblock", {sig}) \in Calls
  /\ \A sig \in Sigs, h \in Wanted : Enter(sig, h) \in Calls
BY DEF Calls, Plain, Simple, Action, Return, Mask, Enter, Wanted

LEMMA FunctionTypes == Functions \subseteq Seq(Calls)
<1>1. Seq(Plain) \subseteq Seq(Calls)
  <2>1. Plain \subseteq Calls
    BY DEF Calls
  <2>. QED  BY <2>1
<1>2. \A sig \in Sigs, h \in Wanted : sigset(sig, h) \in Seq(Calls)
  <2>1. ASSUME NEW sig \in Sigs, NEW h \in Wanted PROVE sigset(sig, h) \in Seq(Calls)
    <3>1. CASE h = "HOLD"
      BY <3>1, CallTypes DEF sigset
    <3>2. CASE h # "HOLD"
      <4>1. h \in Actions
        BY <3>2 DEF Wanted
      <4>2. sigset(sig, h) = <<Enter(sig, h), Action(sig, h), Mask("unblock", {sig}), Return(sig)>>
        BY <3>2 DEF sigset
      <4>3. /\ Enter(sig, h) \in Calls /\ Action(sig, h) \in Calls
            /\ Mask("unblock", {sig}) \in Calls /\ Return(sig) \in Calls
        BY <4>1, CallTypes
      <4>. QED  BY <4>2, <4>3
    <3>. QED  BY <3>1, <3>2
  <2>. QED  BY <2>1
<1>. QED  BY <1>1, <1>2 DEF Functions

\* What a process may do about the calls it has left.
LEMMA CallFacts ==
  ASSUME NEW r \in Process, r.calls # <<>>
  PROVE  /\ r.calls[1] \in Calls /\ Tail(r.calls) \in Seq(Calls)
         /\ \A c \in Calls : [r.calls EXCEPT ![1] = c] \in Seq(Calls)
BY DEF Process

\* Where a process is outside sigset, its next call is a plain one.
LEMMA PlainFacts ==
  ASSUME NEW r \in Process, r.calls # <<>>, r.calls \in Seq(Plain)
  PROVE  /\ r.calls[1] \in Plain /\ Tail(r.calls) \in Seq(Plain)
         /\ [r.calls EXCEPT ![1] = Suspended] \in Seq(Plain)
BY DEF Plain, Simple

\* The next call of a process inside sigset.
LEMMA SigsetFacts ==
  ASSUME NEW r, NEW sig \in Sigs, NEW h \in Wanted, InSigset(r, sig, h)
  PROVE  /\ r.calls # <<>>
         /\ r.calls[1].call \in {"enter", "action", "mask", "return"}
         /\ r.calls[1].call = "enter" =>
              r.calls = sigset(sig, h) /\ Settled(r) /\ r.calls[1] = Enter(sig, h)
         /\ r.calls[1].call = "action" =>
              \/ h \in Actions /\ ToChange(r, sig, h) /\ r.calls[1] = Action(sig, h)
              \/ ToQuery(r, sig) /\ r.calls[1] = Action(sig, "query")
         /\ r.calls[1].call = "mask" =>
              \/ ToRelease(r, sig) /\ r.calls[1] = Mask("unblock", {sig})
              \/ ToHold(r, sig) /\ r.calls[1] = Mask("block", {sig})
         /\ r.calls[1].call = "return" => ToReturn(r, sig) /\ r.calls[1] = Return(sig)
<1>1. CASE r.calls = sigset(sig, h) /\ Settled(r)
  BY <1>1 DEF sigset, Enter
<1>2. CASE h # "HOLD" /\ ToChange(r, sig, h)
  BY <1>2 DEF ToChange, Wanted, Action
<1>3. CASE ToRelease(r, sig)
  BY <1>3 DEF ToRelease, Mask
<1>4. CASE ToHold(r, sig)
  BY <1>4 DEF ToHold, Mask
<1>5. CASE ToQuery(r, sig)
  BY <1>5 DEF ToQuery, Action
<1>6. CASE ToReturn(r, sig)
  BY <1>6 DEF ToReturn, Return
<1>. QED  BY <1>1, <1>2, <1>3, <1>4, <1>5, <1>6 DEF InSigset

\* A process is a process whatever is done to it.
LEMMA FieldTypes ==
  ASSUME NEW r \in Process
  PROVE  /\ \A calls \in Seq(Calls) : [r EXCEPT !.calls = calls] \in Process
         /\ \A pending \in SUBSET Sigs : [r EXCEPT !.pending = pending] \in Process
BY DEF Process

\* Nothing that sigset is about is changed.
Alike(r, s) ==
  /\ s.calls = r.calls /\ s.act = r.act /\ s.asked = r.asked /\ s.mask = r.mask
  /\ s.before = r.before /\ s.oldset = r.oldset /\ s.oldsa = r.oldsa
  /\ s.wrongHandler = r.wrongHandler /\ s.wrongReturn = r.wrongReturn

LEMMA AlikeFine ==
  ASSUME NEW r, NEW s, Alike(r, s), Fine(r)
  PROVE  Fine(s)
<1>1. \A sig \in Sigs, h \in Wanted : InSigset(r, sig, h) => InSigset(s, sig, h)
  BY DEF Alike, InSigset, Settled, Was, ToChange, ToRelease, ToHold, ToQuery, ToReturn
<1>2. Outside(r) => Outside(s)
  BY DEF Alike, Outside, Settled
<1>. QED  BY <1>1, <1>2 DEF Fine, Alike

LEMMA SentFine ==
  ASSUME NEW r \in Process, NEW sig \in Sigs
  PROVE  /\ Sent(r, sig) \in Process /\ Sent(r, sig).calls = r.calls
         /\ Fine(r) => Fine(Sent(r, sig))
<1>1. Sent(r, sig) \in Process
  <2>1. r.pending \union {sig} \in SUBSET Sigs
    BY DEF Process
  <2>. QED  BY <2>1, FieldTypes DEF Sent
<1>2. Alike(r, Sent(r, sig))
  BY DEF Sent, Alike, Process
<1>. QED  BY <1>1, <1>2, AlikeFine DEF Alike
---------------------------------------------------------------------------
(* The steps of a process *)

Good(r) == r \in Process /\ Fine(r)
PInv    == procs \in Seq(Process) /\ procs # <<>> /\ VInv

AllGood(s) == s \in Seq(Process) /\ s # <<>> /\ \A p \in DOMAIN s : Fine(s[p])

LEMMA GoodProcess ==
  ASSUME PInv, NEW p \in Pids
  PROVE  Good(procs[p])
BY DEF PInv, VInv, Pids, Good

LEMMA GoodReplace ==
  ASSUME NEW s, AllGood(s), NEW p \in DOMAIN s, NEW r, Good(r)
  PROVE  AllGood([s EXCEPT ![p] = r])
<1>. DEFINE t == [s EXCEPT ![p] = r]
<1>1. t \in Seq(Process) /\ t # <<>> /\ DOMAIN t = DOMAIN s
  BY DEF AllGood, Good
<1>2. \A q \in DOMAIN s : t[q] = IF q = p THEN r ELSE s[q]
  OBVIOUS
<1>. QED  BY <1>1, <1>2 DEF AllGood, Good

LEMMA AllGoodNext == AllGood(procs') <=> PInv'
BY DEF AllGood, PInv, VInv, Pids

LEMMA AllGoodNow == AllGood(procs) <=> PInv
BY DEF AllGood, PInv, VInv, Pids

LEMMA GoodUpdate ==
  ASSUME PInv, NEW p \in Pids, NEW r, Good(r), procs' = [procs EXCEPT ![p] = r]
  PROVE  PInv'
BY GoodReplace, AllGoodNext, AllGoodNow DEF Pids

\* A process goes on to its next call, and nothing else changes.
Moved(r, s) ==
  /\ s.act = r.act /\ s.asked = r.asked /\ s.mask = r.mask
  /\ s.before = r.before /\ s.oldset = r.oldset /\ s.oldsa = r.oldsa
  /\ s.wrongHandler = r.wrongHandler /\ s.wrongReturn = r.wrongReturn
  /\ s.pending = r.pending

LEMMA NextCall ==
  ASSUME PInv, NEW p \in Pids, NEW name, At(p, name)
  PROVE  /\ Good(procs[p]) /\ procs[p].calls # <<>> /\ procs[p].calls[1].call = name
         /\ Tail(procs[p].calls) \in Seq(Calls)
         /\ On(p) \in Process /\ On(p).calls = Tail(procs[p].calls)
         /\ Moved(procs[p], On(p))
<1>1. Good(procs[p]) /\ procs[p].calls # <<>> /\ procs[p].calls[1].call = name
  BY GoodProcess DEF At
<1>2. Tail(procs[p].calls) \in Seq(Calls)
  BY <1>1, CallFacts DEF Good
<1>3. On(p) \in Process
  BY <1>1, <1>2, FieldTypes DEF On, Good
<1>4. On(p).calls = Tail(procs[p].calls) /\ Moved(procs[p], On(p))
  BY <1>1 DEF On, Good, Process, Moved
<1>. QED  BY <1>1, <1>2, <1>3, <1>4

\* A call that sigset does not make is made outside it.
LEMMA PlainCall ==
  ASSUME PInv, NEW p \in Pids, NEW name, At(p, name),
         name \notin {"enter", "action", "mask", "return"}
  PROVE  /\ Settled(procs[p]) /\ procs[p].calls \in Seq(Plain)
         /\ Arg(p) \in Plain /\ Arg(p).call = name
         /\ On(p).calls \in Seq(Plain)
<1>1. Good(procs[p]) /\ procs[p].calls # <<>> /\ procs[p].calls[1].call = name
      /\ On(p).calls = Tail(procs[p].calls)
  BY NextCall
<1>2. Outside(procs[p]) /\ procs[p] \in Process
  <2>1. ASSUME NEW sig \in Sigs, NEW h \in Wanted, InSigset(procs[p], sig, h)  PROVE FALSE
    BY <1>1, <2>1, SigsetFacts
  <2>. QED  BY <1>1, <2>1 DEF Good, Fine
<1>3. procs[p].calls[1] \in Plain /\ Tail(procs[p].calls) \in Seq(Plain)
  BY <1>1, <1>2, PlainFacts DEF Outside
<1>. QED  BY <1>1, <1>2, <1>3 DEF Outside, Arg

LEMMA BeginGood ==
  ASSUME PInv, NEW p \in Pids, Begin(p)
  PROVE  PInv'
<1>. DEFINE r == [procs[p] EXCEPT !.calls = Head(procs[p].todo), !.todo = Tail(procs[p].todo)]
<1>1. Good(procs[p]) /\ procs[p].calls = <<>> /\ procs[p].todo # <<>>
  BY GoodProcess DEF Begin
<1>2. /\ procs[p].todo \in Seq(Functions) /\ Head(procs[p].todo) \in Functions
      /\ Tail(procs[p].todo) \in Seq(Functions)
  BY <1>1 DEF Good, Process
<1>3. Head(procs[p].todo) \in Seq(Calls)
  BY <1>2, FunctionTypes
<1>4. r \in Process
  BY <1>1, <1>2, <1>3 DEF Good, Process
<1>5. Settled(procs[p])
  BY <1>1, SigsetFacts DEF Good, Fine, Outside
<1>6. Fine(r)
  <2>1. /\ r.calls = Head(procs[p].todo) /\ Settled(r)
        /\ ~r.wrongHandler /\ ~r.wrongReturn
    BY <1>1, <1>5 DEF Good, Process, Fine, Settled
  <2>. QED  BY <1>2, <2>1 DEF Functions, Fine, Outside, InSigset
<1>7. procs' = [procs EXCEPT ![p] = r]
  BY DEF Begin
<1>. QED  BY <1>4, <1>6, <1>7, GoodUpdate DEF Good

LEMMA ExitGood ==
  ASSUME PInv, NEW p \in Pids, DoExit(p)
  PROVE  PInv'
<1>. DEFINE r == [procs[p] EXCEPT !.ended = TRUE]
<1>1. Good(procs[p])
  BY GoodProcess
<1>2. r \in Process /\ Alike(procs[p], r)
  BY <1>1 DEF Good, Process, Alike
<1>3. procs' = [procs EXCEPT ![p] = r]
  BY DEF DoExit
<1>. QED  BY <1>1, <1>2, <1>3, AlikeFine, GoodUpdate DEF Good

\* A signal that is not held has the handler that was asked for.
LEMMA NotHeld ==
  ASSUME NEW r \in Process, Fine(r), NEW sig \in Sigs \ r.mask
  PROVE  r.act[sig] = r.asked[sig]
<1>1. CASE Settled(r)
  BY <1>1 DEF Settled
<1>2. ASSUME NEW s \in Sigs, NEW h \in Wanted, ToChange(r, s, h)
      PROVE  r.act[sig] = r.asked[sig]
  <2>1. CASE s = sig
    BY <1>2, <2>1 DEF ToChange
  <2>2. CASE s # sig
    BY <1>2, <2>2 DEF ToChange
  <2>. QED  BY <2>1, <2>2
<1>. QED  BY <1>1, <1>2 DEF Fine, Outside, InSigset, ToRelease, ToHold, ToQuery, ToReturn

LEMMA HandledGood ==
  ASSUME NEW r, Good(r), NEW sig \in Sigs \ r.mask, r.act[sig] \in Handlers
  PROVE  Good(Handled(r, sig))
<1>. DEFINE run == [r EXCEPT !.runs[r.act[sig]] = @ + 1,
                             !.wrongHandler = @ \/ r.act[sig] # r.asked[sig]]
            waits == r.calls # <<>> /\ r.calls[1].call = "suspended"
<1>1. r \in Process /\ Fine(r) /\ ~r.wrongHandler /\ r.act[sig] = r.asked[sig]
  BY NotHeld DEF Good, Fine
<1>2. run \in Process /\ Alike(r, run)
  <2>. DEFINE runs == [r.runs EXCEPT ![r.act[sig]] = @ + 1]
  <2>1. runs \in [Handlers -> Nat]
    BY <1>1 DEF Process
  <2>2. run = [r EXCEPT !.runs = runs]
    BY <1>1 DEF Process
  <2>. HIDE DEF runs, run
  <2>. QED  BY <1>1, <2>1, <2>2 DEF Process, Alike
<1>3. CASE ~waits
  BY <1>1, <1>2, <1>3, AlikeFine DEF Handled, Good
<1>4. CASE waits
  <2>1. r.calls \in Seq(Plain) /\ Settled(r)
    BY <1>1, <1>4, SigsetFacts DEF Fine, Outside
  <2>. DEFINE s == [run EXCEPT !.calls = Tail(@), !.mask = r.resume, !.errno = "EINTR"]
  <2>2. Tail(r.calls) \in Seq(Calls) /\ Tail(r.calls) \in Seq(Plain)
    BY <1>1, <1>4, <2>1, CallFacts, PlainFacts
  <2>. HIDE DEF run
  <2>3. s \in Process /\ s.calls = Tail(r.calls) /\ s.act = r.act /\ s.asked = r.asked
        /\ s.wrongHandler = r.wrongHandler /\ s.wrongReturn = r.wrongReturn
    BY <1>1, <1>2, <2>2 DEF Process, Alike
  <2>4. Fine(s)
    BY <1>1, <2>1, <2>2, <2>3 DEF Fine, Outside, Settled
  <2>. QED  BY <1>4, <2>3, <2>4 DEF Handled, Good, run
<1>. QED  BY <1>3, <1>4

LEMMA DeliverGood ==
  ASSUME PInv, NEW p \in Pids, Deliver(p)
  PROVE  PInv'
<1>1. Good(procs[p])
  BY GoodProcess
<1>. PICK sig \in procs[p].pending \ procs[p].mask :
       procs' = [procs EXCEPT ![p] = Delivered(Taken(procs[p], sig), sig)]
  BY DEF Deliver
<1>. DEFINE r == Taken(procs[p], sig)
            dead == [r EXCEPT !.ended = TRUE]
<1>2. sig \in Sigs \ r.mask /\ r.act[sig] \in Actions
  BY <1>1 DEF Good, Process, Taken
<1>3. r \in Process /\ Alike(procs[p], r)
  BY <1>1 DEF Good, Process, Alike, Taken
<1>4. Good(r)
  BY <1>1, <1>3, AlikeFine DEF Good
<1>5. dead \in Process /\ Alike(r, dead)
  BY <1>3 DEF Process, Alike
<1>6. Good(dead)
  BY <1>4, <1>5, AlikeFine DEF Good
<1>7. procs' = [procs EXCEPT ![p] = Delivered(r, sig)]
  OBVIOUS
<1>. HIDE DEF r
<1>8. CASE r.act[sig] \in Handlers
  <2>1. procs' = [procs EXCEPT ![p] = Handled(r, sig)]
    BY <1>7, <1>8 DEF Delivered, Handlers
  <2>2. Good(Handled(r, sig))
    BY <1>2, <1>4, <1>8, HandledGood
  <2>. QED  BY <2>1, <2>2, GoodUpdate
<1>9. CASE r.act[sig] = "IGN"
  <2>1. procs' = [procs EXCEPT ![p] = r]
    BY <1>7, <1>9 DEF Delivered, Handlers
  <2>. QED  BY <1>4, <2>1, GoodUpdate
<1>10. CASE r.act[sig] = "DFL"
  <2>1. procs' = [procs EXCEPT ![p] = dead]
    BY <1>7, <1>10 DEF Delivered, Handlers
  <2>. QED  BY <1>6, <2>1, GoodUpdate
<1>. QED  BY <1>2, <1>8, <1>9, <1>10 DEF Actions

\* A plain call that changes no disposition.
LEMMA PlainGood ==
  ASSUME PInv, NEW p \in Pids, NEW name, At(p, name),
         name \notin {"enter", "action", "mask", "return"},
         NEW r \in Process, r.calls \in {On(p).calls, [procs[p].calls EXCEPT ![1] = Suspended]},
         r.act = procs[p].act, r.asked = procs[p].asked,
         r.wrongHandler = procs[p].wrongHandler, r.wrongReturn = procs[p].wrongReturn
  PROVE  Good(r)
<1>1. r.calls \in Seq(Plain)
  <2>1. procs[p] \in Process /\ procs[p].calls # <<>>
    BY NextCall DEF Good
  <2>2. procs[p].calls \in Seq(Plain) /\ On(p).calls \in Seq(Plain)
    BY PlainCall
  <2>. QED  BY <2>1, <2>2, PlainFacts
<1>. QED  BY <1>1, PlainCall, NextCall DEF Good, Fine, Outside, Settled

LEMMA RaiseGood ==
  ASSUME PInv, NEW p \in Pids, DoRaise(p)
  PROVE  PInv'
<1>1. At(p, "raise") /\ Arg(p).sig \in Sigs
  BY PlainCall, PlainArguments DEF DoRaise
<1>2. On(p) \in Process /\ Moved(procs[p], On(p))
  BY <1>1, NextCall
<1>3. Good(On(p))
  BY <1>1, <1>2, PlainGood DEF Moved
<1>4. Good(Sent(On(p), Arg(p).sig))
  BY <1>1, <1>3, SentFine DEF Good
<1>5. procs' = [procs EXCEPT ![p] = Sent(On(p), Arg(p).sig)]
  BY DEF DoRaise
<1>. QED  BY <1>4, <1>5, GoodUpdate

LEMMA AlarmGood ==
  ASSUME PInv, NEW p \in Pids, DoAlarm(p)
  PROVE  PInv'
<1>1. At(p, "alarm") /\ On(p) \in Process /\ Moved(procs[p], On(p))
  BY NextCall DEF DoAlarm
<1>. DEFINE r == [On(p) EXCEPT !.alarm = TRUE]
<1>2. r \in Process /\ Alike(On(p), r)
  BY <1>1 DEF Process, Alike
<1>3. Good(On(p))
  BY <1>1, PlainGood DEF Moved
<1>4. procs' = [procs EXCEPT ![p] = r]
  BY DEF DoAlarm
<1>. QED  BY <1>2, <1>3, <1>4, AlikeFine, GoodUpdate DEF Good

LEMMA GoesOffGood ==
  ASSUME PInv, NEW p \in Pids, AlarmGoesOff(p)
  PROVE  PInv'
<1>. DEFINE r == [procs[p] EXCEPT !.alarm = FALSE]
<1>1. Good(procs[p])
  BY GoodProcess
<1>2. r \in Process /\ Alike(procs[p], r)
  BY <1>1 DEF Good, Process, Alike
<1>3. Good(r)
  BY <1>1, <1>2, AlikeFine DEF Good
<1>. HIDE DEF r
<1>4. Good(Sent(r, "ALRM"))
  BY <1>3, SentFine DEF Good, Sigs
<1>5. procs' = [procs EXCEPT ![p] = Sent(r, "ALRM")]
  BY DEF AlarmGoesOff, r
<1>. QED  BY <1>4, <1>5, GoodUpdate

LEMMA SuspendGood ==
  ASSUME PInv, NEW p \in Pids, DoSuspend(p)
  PROVE  PInv'
<1>. DEFINE mask == IF Arg(p).call = "suspend" THEN Arg(p).mask ELSE procs[p].mask \ {Arg(p).sig}
            calls == [procs[p].calls EXCEPT ![1] = Suspended]
            r == [procs[p] EXCEPT !.calls = calls, !.resume = procs[p].mask, !.mask = mask]
<1>. PICK name \in {"suspend", "suspendwithout"} : At(p, name)
  BY DEF DoSuspend
<1>1. Arg(p) \in Plain /\ Arg(p).call = name
  BY PlainCall
<1>2. Good(procs[p]) /\ procs[p].calls # <<>>
  BY NextCall
<1>3. mask \in SUBSET Sigs
  BY <1>1, <1>2, PlainArguments DEF Good, Process
<1>4. Suspended \in Calls
  BY DEF Calls, Plain, Simple
<1>5. calls \in Seq(Calls)
  BY <1>2, <1>4, CallFacts DEF Good
<1>. HIDE DEF mask, calls
<1>6. r \in Process /\ r.calls = calls /\ r.act = procs[p].act /\ r.asked = procs[p].asked
      /\ r.wrongHandler = procs[p].wrongHandler /\ r.wrongReturn = procs[p].wrongReturn
  BY <1>2, <1>3, <1>5 DEF Good, Process
<1>7. Good(r)
  BY <1>6, PlainGood DEF calls
<1>8. procs' = [procs EXCEPT ![p] = r]
  BY DEF DoSuspend, mask, calls, Suspended
<1>. QED  BY <1>7, <1>8, GoodUpdate

LEMMA WaitInfoGood ==
  ASSUME PInv, NEW p \in Pids, DoWaitInfo(p)
  PROVE  PInv'
<1>. DEFINE r == [On(p) EXCEPT !.pending = @ \ {Arg(p).sig}]
<1>1. At(p, "waitinfo") /\ On(p) \in Process /\ Moved(procs[p], On(p))
  BY NextCall DEF DoWaitInfo
<1>2. r \in Process /\ Alike(On(p), r)
  BY <1>1 DEF Process, Alike
<1>3. Good(On(p))
  BY <1>1, PlainGood DEF Moved
<1>4. procs' = [procs EXCEPT ![p] = r]
  BY DEF DoWaitInfo
<1>. QED  BY <1>2, <1>3, <1>4, AlikeFine, GoodUpdate DEF Good

LEMMA ExpectGood ==
  ASSUME PInv, NEW p \in Pids, DoExpect(p)
  PROVE  PInv'
<1>. DEFINE what == Arg(p).what
            r == [On(p) EXCEPT !.failed = @ \union {what}]
<1>1. At(p, "expect") /\ On(p) \in Process /\ Moved(procs[p], On(p))
  BY NextCall DEF DoExpect
<1>2. what \in Checks
  BY <1>1, PlainCall, PlainArguments
<1>. HIDE DEF what
<1>3. r \in Process /\ Alike(On(p), r)
  BY <1>1, <1>2 DEF Process, Alike
<1>4. Good(On(p))
  BY <1>1, PlainGood DEF Moved
<1>5. procs' = [procs EXCEPT ![p] = On(p)] \/ procs' = [procs EXCEPT ![p] = r]
  BY DEF DoExpect, what
<1>. QED  BY <1>3, <1>4, <1>5, AlikeFine, GoodUpdate DEF Good

LEMMA KillGood ==
  ASSUME PInv, NEW p \in Pids, DoKill(p)
  PROVE  PInv'
<1>. DEFINE q   == Arg(p).pid
            sig == Arg(p).sig
            k   == On(p).kills + 1
            r   == [On(p) EXCEPT !.kills = k]
            s   == [procs EXCEPT ![p] = r]
<1>1. At(p, "kill") /\ q \in Pids /\ On(p) \in Process /\ Moved(procs[p], On(p))
  BY NextCall DEF DoKill
<1>2. sig \in Sigs
  BY <1>1, PlainCall, PlainArguments
<1>3. r \in Process /\ Alike(On(p), r)
  <2>1. k \in Nat
    BY <1>1 DEF Process
  <2>. HIDE DEF k
  <2>. QED  BY <1>1, <2>1 DEF Process, Alike
<1>4. Good(On(p))
  BY <1>1, PlainGood DEF Moved
<1>5. procs' = [s EXCEPT ![q] = Sent(s[q], sig)]
  BY DEF DoKill
<1>. HIDE DEF r
<1>6. Good(r)
  BY <1>3, <1>4, AlikeFine DEF Good
<1>7. AllGood(s) /\ DOMAIN s = Pids
  BY <1>6, GoodReplace, AllGoodNow DEF Pids
<1>. HIDE DEF s, q, sig
<1>8. Good(s[q])
  BY <1>1, <1>7 DEF AllGood, Good
<1>9. Good(Sent(s[q], sig))
  BY <1>2, <1>8, SentFine DEF Good
<1>. QED  BY <1>1, <1>5, <1>7, <1>9, GoodReplace, AllGoodNext

LEMMA ForkGood ==
  ASSUME PInv, NEW p \in Pids, DoFork(p)
  PROVE  PInv'
<1>. DEFINE child == [procs[p] EXCEPT !.todo = Arg(p).todo, !.calls = <<>>, !.pending = {}]
            s     == [procs EXCEPT ![p] = On(p)]
<1>1. At(p, "fork") /\ On(p) \in Process /\ Moved(procs[p], On(p)) /\ Good(procs[p])
  BY NextCall DEF DoFork
<1>2. Good(On(p))
  BY <1>1, PlainGood DEF Moved
<1>3. AllGood(s)
  BY <1>2, GoodReplace, AllGoodNow DEF Pids
<1>4. Arg(p).todo \in Seq(Functions)
  <2>1. Arg(p).todo \in Seq(Seq(Simple))
    BY <1>1, PlainCall, PlainArguments
  <2>2. Seq(Simple) \subseteq Functions
    <3>1. Simple \subseteq Plain
      BY DEF Plain
    <3>. QED  BY <3>1 DEF Functions
  <2>. QED  BY <2>1, <2>2
<1>5. child \in Process /\ child.calls = <<>> /\ child.act = procs[p].act
      /\ child.asked = procs[p].asked /\ child.wrongHandler = procs[p].wrongHandler
      /\ child.wrongReturn = procs[p].wrongReturn
  <2>1. <<>> \in Seq(Calls) /\ {} \in SUBSET Sigs
    OBVIOUS
  <2>2. [procs[p] EXCEPT !.todo = Arg(p).todo, !.calls = <<>>] \in Process
    BY <1>1, <1>4, <2>1 DEF Good, Process
  <2>3. child \in Process
    BY <2>1, <2>2, FieldTypes
  <2>. QED  BY <1>1, <2>3 DEF Good, Process
<1>6. Good(child)
  BY <1>1, <1>5, PlainCall DEF Good, Fine, Outside, Settled
<1>7. procs' = Append(s, child)
  BY DEF DoFork
<1>. HIDE DEF s, child
<1>8. AllGood(Append(s, child))
  <2>1. Append(s, child) \in Seq(Process) /\ Append(s, child) # <<>>
    BY <1>3, <1>6 DEF AllGood, Good
  <2>2. ASSUME NEW q \in DOMAIN Append(s, child)  PROVE Fine(Append(s, child)[q])
    <3>1. q \in DOMAIN s \/ Append(s, child)[q] = child
      BY <1>3, <1>6 DEF AllGood, Good
    <3>2. q \in DOMAIN s => Append(s, child)[q] = s[q]
      BY <1>3, <1>6 DEF AllGood, Good
    <3>. QED  BY <1>3, <1>6, <3>1, <3>2 DEF AllGood, Good
  <2>. QED  BY <2>1, <2>2 DEF AllGood
<1>. QED  BY <1>7, <1>8, AllGoodNext

LEMMA MaskGood ==
  ASSUME PInv, NEW p \in Pids, DoMask(p)
  PROVE  PInv'
<1>. DEFINE old  == procs[p].mask
            mask == CASE Arg(p).how = "block"   -> old \union Arg(p).sigs
                      [] Arg(p).how = "unblock" -> old \ Arg(p).sigs
                      [] Arg(p).how = "set"     -> Arg(p).sigs
            r == [On(p) EXCEPT !.oldset = old, !.mask = mask]
<1>1. /\ At(p, "mask") /\ Good(procs[p]) /\ On(p) \in Process /\ Moved(procs[p], On(p))
      /\ procs[p].calls # <<>> /\ procs[p].calls[1] = Arg(p) /\ Arg(p).call = "mask"
      /\ On(p).calls = Tail(procs[p].calls)
  BY NextCall DEF DoMask, Arg
<1>2. ASSUME Outside(procs[p])
      PROVE  Arg(p) \in Plain /\ On(p).calls \in Seq(Plain)
  BY <1>1, <1>2, PlainFacts DEF Good, Outside
<1>3. ASSUME NEW sig \in Sigs, NEW h \in Wanted, InSigset(procs[p], sig, h)
      PROVE  \/ ToRelease(procs[p], sig) /\ Arg(p) = Mask("unblock", {sig})
             \/ ToHold(procs[p], sig) /\ Arg(p) = Mask("block", {sig})
  BY <1>1, <1>3, SigsetFacts
<1>4. Arg(p).how \in {"block", "unblock", "set"} /\ Arg(p).sigs \in SUBSET Sigs
  BY <1>1, <1>2, <1>3, PlainArguments DEF Mask, Good, Fine
<1>5. mask \in SUBSET Sigs
  BY <1>1, <1>4 DEF Good, Process
<1>6. procs' = [procs EXCEPT ![p] = r]
  BY <1>1 DEF DoMask, On, Good, Process
<1>. HIDE DEF mask
<1>7. /\ r \in Process /\ r.calls = Tail(procs[p].calls) /\ r.act = procs[p].act
      /\ r.asked = procs[p].asked /\ r.before = procs[p].before /\ r.oldsa = procs[p].oldsa
      /\ r.wrongHandler = procs[p].wrongHandler /\ r.wrongReturn = procs[p].wrongReturn
      /\ r.oldset = old
  BY <1>1, <1>5 DEF Good, Process, Moved
<1>. HIDE DEF r
<1>8. ASSUME Outside(procs[p])  PROVE Fine(r)
  <2>1. Outside(r)
    BY <1>1, <1>2, <1>7, <1>8 DEF Outside, Settled
  <2>. QED  BY <1>1, <1>7, <2>1 DEF Fine, Good
<1>9. ASSUME NEW sig \in Sigs, NEW h \in Wanted, InSigset(procs[p], sig, h)
      PROVE  Fine(r)
  <2>1. CASE ToRelease(procs[p], sig)
    <3>1. ToReturn(r, sig)
      BY <1>7, <2>1, Tails DEF ToRelease, ToReturn, Was, Settled
    <3>. QED  BY <1>1, <1>7, <1>9, <3>1 DEF Fine, InSigset, Good
  <2>2. CASE ToHold(procs[p], sig)
    <3>1. ToQuery(r, sig)
      BY <1>7, <2>2, Tails DEF ToHold, ToQuery, Was, Settled
    <3>. QED  BY <1>1, <1>7, <1>9, <3>1 DEF Fine, InSigset, Good
  <2>. QED  BY <1>3, <1>9, <2>1, <2>2
<1>10. Good(r)
  BY <1>1, <1>7, <1>8, <1>9 DEF Good, Fine
<1>. QED  BY <1>6, <1>10, GoodUpdate

LEMMA ActionGood ==
  ASSUME PInv, NEW p \in Pids, DoAction(p)
  PROVE  PInv'
<1>. DEFINE sig   == Arg(p).sig
            act   == Arg(p).act
            acts  == [procs[p].act EXCEPT ![sig] = act]
            asked == [procs[p].asked EXCEPT ![sig] = act]
            left  == IF act = "IGN" THEN procs[p].pending \ {sig} ELSE procs[p].pending
            q     == [On(p) EXCEPT !.oldsa = procs[p].act[sig]]
            r     == [q EXCEPT !.act = acts, !.asked = asked, !.pending = left]
<1>1. /\ At(p, "action") /\ Good(procs[p]) /\ On(p) \in Process /\ Moved(procs[p], On(p))
      /\ procs[p].calls # <<>> /\ procs[p].calls[1] = Arg(p) /\ Arg(p).call = "action"
      /\ On(p).calls = Tail(procs[p].calls)
  BY NextCall DEF DoAction, Arg
<1>2. ASSUME Outside(procs[p])
      PROVE  Arg(p) \in Plain /\ On(p).calls \in Seq(Plain)
  BY <1>1, <1>2, PlainFacts DEF Good, Outside
<1>3. ASSUME NEW s \in Sigs, NEW h \in Wanted, InSigset(procs[p], s, h)
      PROVE  \/ h \in Actions /\ ToChange(procs[p], s, h) /\ Arg(p) = Action(s, h)
             \/ ToQuery(procs[p], s) /\ Arg(p) = Action(s, "query")
  BY <1>1, <1>3, SigsetFacts
<1>4. sig \in Sigs
  BY <1>1, <1>2, <1>3, PlainArguments DEF Action, Good, Fine
<1>5. procs[p].act[sig] \in Actions /\ left \in SUBSET Sigs
  BY <1>1, <1>4 DEF Good, Process
<1>6. /\ q \in Process /\ q.calls = Tail(procs[p].calls) /\ q.oldsa = procs[p].act[sig]
      /\ q.act = procs[p].act /\ q.asked = procs[p].asked /\ q.before = procs[p].before
      /\ q.mask = procs[p].mask /\ q.oldset = procs[p].oldset /\ q.pending = procs[p].pending
      /\ q.wrongHandler = procs[p].wrongHandler /\ q.wrongReturn = procs[p].wrongReturn
  BY <1>1, <1>5 DEF Process, Moved
<1>7. procs' = [procs EXCEPT ![p] = IF act = "query" THEN q ELSE r]
  BY <1>6 DEF DoAction, Process
<1>. HIDE DEF q, left
<1>8. ASSUME act \in Actions
      PROVE  /\ r \in Process /\ r.act = acts /\ r.asked = asked
             /\ r.calls = q.calls /\ r.oldsa = q.oldsa /\ r.before = q.before
             /\ r.mask = q.mask /\ r.oldset = q.oldset
             /\ r.wrongHandler = q.wrongHandler /\ r.wrongReturn = q.wrongReturn
  <2>1. acts \in [Sigs -> Actions] /\ asked \in [Sigs -> Actions]
    BY <1>1, <1>8 DEF Good, Process
  <2>. HIDE DEF acts, asked
  <2>. QED  BY <1>5, <1>6, <2>1 DEF Process
<1>. HIDE DEF r
<1>9. ASSUME Outside(procs[p])  PROVE Good(r) /\ act # "query"
  <2>1. act \in Actions
    BY <1>1, <1>2, <1>9, PlainArguments
  <2>2. acts = asked
    BY <1>9 DEF Outside, Settled
  <2>3. Outside(r)
    BY <1>1, <1>2, <1>6, <1>8, <1>9, <2>1, <2>2 DEF Outside, Settled
  <2>. QED  BY <1>1, <1>6, <1>8, <2>1, <2>3 DEF Fine, Good, Actions, Handlers
<1>10. ASSUME NEW s \in Sigs, NEW h \in Wanted, InSigset(procs[p], s, h),
              h \in Actions, ToChange(procs[p], s, h), Arg(p) = Action(s, h)
       PROVE  Good(r) /\ act # "query"
  <2>1. act \in Actions /\ act # "query" /\ act = h /\ sig = s
    BY <1>10 DEF Action, Actions, Handlers
  <2>2. acts = asked
    <3>1. \A t \in Sigs : acts[t] = asked[t]
      BY <1>1, <1>10, <2>1 DEF ToChange, Good, Process
    <3>. QED  BY <1>1, <3>1 DEF Good, Process
  <2>3. ToRelease(r, s)
    <3>1. r.calls = <<Mask("unblock", {s}), Return(s)>>
      BY <1>6, <1>8, <1>10, <2>1, Tails DEF ToChange
    <3>2. Was(r, s, r.mask, r.oldsa)
      BY <1>6, <1>8, <1>10, <2>1 DEF ToChange, Was
    <3>. QED  BY <1>8, <2>1, <2>2, <3>1, <3>2 DEF ToRelease, Settled
  <2>4. Fine(r)
    BY <1>1, <1>6, <1>8, <2>1, <2>3 DEF Fine, InSigset, Good
  <2>. QED  BY <1>8, <2>1, <2>4 DEF Good
<1>11. ASSUME NEW s \in Sigs, NEW h \in Wanted, InSigset(procs[p], s, h),
              ToQuery(procs[p], s), Arg(p) = Action(s, "query")
       PROVE  Good(q) /\ act = "query"
  <2>1. act = "query" /\ sig = s
    BY <1>11 DEF Action
  <2>2. ToReturn(q, s)
    BY <1>6, <1>11, <2>1, Tails DEF ToQuery, ToReturn, Was, Settled
  <2>3. Fine(q)
    BY <1>1, <1>6, <1>11, <2>2 DEF Fine, InSigset, Good
  <2>. QED  BY <1>6, <2>1, <2>3 DEF Good
<1>12. \/ Good(r) /\ act # "query"
       \/ Good(q) /\ act = "query"
  BY <1>1, <1>3, <1>9, <1>10, <1>11 DEF Good, Fine
<1>13. Good(IF act = "query" THEN q ELSE r)
  BY <1>12
<1>. QED  BY <1>7, <1>13, GoodUpdate

LEMMA EnterGood ==
  ASSUME PInv, NEW p \in Pids, DoEnter(p)
  PROVE  PInv'
<1>. DEFINE sig    == Arg(p).sig
            act    == Arg(p).act
            held   == sig \in procs[p].mask
            before == IF held THEN "HOLD" ELSE procs[p].act[sig]
            wish   == IF held /\ act # "HOLD" THEN act ELSE procs[p].asked[sig]
            asked  == [procs[p].asked EXCEPT ![sig] = wish]
            r      == [On(p) EXCEPT !.before = before, !.asked = asked]
<1>1. /\ At(p, "enter") /\ Good(procs[p]) /\ On(p) \in Process /\ Moved(procs[p], On(p))
      /\ procs[p].calls # <<>> /\ procs[p].calls[1] = Arg(p) /\ Arg(p).call = "enter"
      /\ On(p).calls = Tail(procs[p].calls)
  BY NextCall DEF DoEnter, Arg
<1>2. ~Outside(procs[p])
  BY <1>1, PlainFacts, PlainArguments DEF Good, Outside
<1>3. PICK s \in Sigs, h \in Wanted : InSigset(procs[p], s, h)
  BY <1>1, <1>2 DEF Good, Fine
<1>4. procs[p].calls = sigset(s, h) /\ Settled(procs[p]) /\ Arg(p) = Enter(s, h)
  BY <1>1, <1>3, SigsetFacts
<1>5. sig = s /\ act = h
  BY <1>4 DEF Enter
<1>6. before \in Wanted /\ asked \in [Sigs -> Actions]
  <2>1. procs[p].act[sig] \in Actions /\ procs[p].asked \in [Sigs -> Actions]
    BY <1>1, <1>5 DEF Good, Process
  <2>2. wish \in Actions
    BY <1>5, <2>1 DEF Wanted
  <2>. HIDE DEF wish
  <2>. QED  BY <2>1, <2>2 DEF Wanted
<1>7. procs' = [procs EXCEPT ![p] = r]
  BY <1>1 DEF DoEnter, Moved
<1>8. \A t \in Sigs : asked[t] = IF t = s THEN wish ELSE procs[p].act[t]
  BY <1>1, <1>4, <1>5 DEF Good, Process, Settled
<1>9. h = "HOLD" \/ s \notin procs[p].mask => asked = procs[p].act
  BY <1>1, <1>4, <1>5 DEF Good, Process, Settled
<1>. HIDE DEF before, asked, wish
<1>10. /\ r \in Process /\ r.before = before /\ r.asked = asked
       /\ r.calls = Tail(procs[p].calls) /\ r.act = procs[p].act /\ r.mask = procs[p].mask
       /\ r.wrongHandler = procs[p].wrongHandler /\ r.wrongReturn = procs[p].wrongReturn
  BY <1>1, <1>6 DEF Process, Moved
<1>. HIDE DEF r
<1>11. Was(r, s, r.mask, r.act[s])
  BY <1>5, <1>10 DEF Was, before
<1>12. CASE h = "HOLD"
  <2>1. ToHold(r, s)
    BY <1>4, <1>9, <1>10, <1>11, <1>12, Tails DEF sigset, ToHold, Settled
  <2>. QED  BY <1>1, <1>7, <1>10, <2>1, GoodUpdate DEF Good, Fine, InSigset
<1>13. CASE h # "HOLD"
  <2>1. /\ \A t \in Sigs : t # s => r.act[t] = r.asked[t]
        /\ s \in r.mask \/ r.act[s] = r.asked[s]
    BY <1>8, <1>9, <1>10
  <2>2. r.calls = <<Action(s, h), Mask("unblock", {s}), Return(s)>>
    BY <1>4, <1>10, <1>13, Tails DEF sigset
  <2>3. ToChange(r, s, h)
    BY <1>11, <2>1, <2>2 DEF ToChange
  <2>. QED  BY <1>1, <1>7, <1>10, <1>13, <2>3, GoodUpdate DEF Good, Fine, InSigset
<1>. QED  BY <1>12, <1>13

LEMMA ReturnGood ==
  ASSUME PInv, NEW p \in Pids, DoReturn(p)
  PROVE  PInv'
<1>. DEFINE ret   == IF Arg(p).sig \in procs[p].oldset THEN "HOLD" ELSE procs[p].oldsa
            wrong == On(p).wrongReturn \/ ret # procs[p].before
            r     == [On(p) EXCEPT !.ret = ret, !.wrongReturn = wrong]
<1>1. /\ At(p, "return") /\ Good(procs[p]) /\ On(p) \in Process /\ Moved(procs[p], On(p))
      /\ procs[p].calls # <<>> /\ procs[p].calls[1] = Arg(p) /\ Arg(p).call = "return"
      /\ On(p).calls = Tail(procs[p].calls)
  BY NextCall DEF DoReturn, Arg
<1>2. ~Outside(procs[p])
  BY <1>1, PlainFacts, PlainArguments DEF Good, Outside
<1>3. PICK s \in Sigs, h \in Wanted : InSigset(procs[p], s, h)
  BY <1>1, <1>2 DEF Good, Fine
<1>4. ToReturn(procs[p], s) /\ Arg(p) = Return(s)
  BY <1>1, <1>3, SigsetFacts
<1>5. ret = procs[p].before
  BY <1>4 DEF ToReturn, Was, Return
<1>6. wrong = FALSE /\ ret \in Wanted
  BY <1>1, <1>5 DEF Good, Fine, Moved, Process
<1>7. procs' = [procs EXCEPT ![p] = r]
  BY DEF DoReturn
<1>. HIDE DEF ret, wrong
<1>8. /\ r \in Process /\ r.calls = Tail(procs[p].calls) /\ r.act = procs[p].act
      /\ r.asked = procs[p].asked /\ r.wrongHandler = procs[p].wrongHandler
      /\ r.wrongReturn = FALSE
  BY <1>1, <1>6 DEF Process, Moved
<1>. HIDE DEF r
<1>9. Outside(r)
  <2>1. <<>> \in Seq(Plain) /\ r.calls = <<>>
    BY <1>4, <1>8, Tails DEF ToReturn
  <2>. QED  BY <1>4, <1>8, <2>1 DEF Outside, ToReturn, Settled
<1>. QED  BY <1>1, <1>7, <1>8, <1>9, GoodUpdate DEF Good, Fine

LEMMA NextGood == PInv /\ [Next]_vars => PInv'
<1>. SUFFICES ASSUME PInv, [Next]_vars  PROVE PInv'
  OBVIOUS
<1>1. CASE UNCHANGED vars
  BY <1>1 DEF PInv, VInv, Pids, vars
<1>2. CASE Others
  <2>1. 1 \in Pids /\ Good(procs[1])
    BY <1>2, GoodProcess DEF Others, PInv, Pids
  <2>2. Good(Sent(procs[1], "USR1"))
    BY <2>1, SentFine DEF Good, Sigs
  <2>3. procs' = [procs EXCEPT ![1] = Sent(procs[1], "USR1")]
    BY <1>2 DEF Others
  <2>. QED  BY <2>1, <2>2, <2>3, GoodUpdate
<1>3. ASSUME NEW p \in Pids, Step(p)  PROVE PInv'
  BY <1>3, BeginGood, DeliverGood, GoesOffGood, MaskGood, ActionGood, KillGood, RaiseGood,
     AlarmGood, SuspendGood, WaitInfoGood, ForkGood, EnterGood, ReturnGood, ExpectGood, ExitGood
     DEF Step
<1>. QED  BY <1>1, <1>2, <1>3 DEF Next
---------------------------------------------------------------------------
(* The programs *)

LEMMA NewGood ==
  ASSUME NEW todo \in Seq(Functions)
  PROVE  Good(NewProcess(todo))
<1>. DEFINE r == NewProcess(todo)
<1>1. <<>> \in Seq(Calls) /\ <<>> \in Seq(Plain)
  OBVIOUS
<1>2. r \in Process
  BY <1>1 DEF NewProcess, Process, Sigs, Actions, Wanted
<1>3. Outside(r) /\ ~r.wrongHandler /\ ~r.wrongReturn
  BY <1>1 DEF NewProcess, Outside, Settled
<1>. QED  BY <1>2, <1>3 DEF Good, Fine

\* The calls and functions that the programs are made of.
LEMMA PlainCalls ==
  /\ \A how \in {"block", "unblock", "set"}, sigs \in SUBSET Sigs : Mask(how, sigs) \in Simple
  /\ \A sig \in Sigs, act \in Actions : Action(sig, act) \in Simple
  /\ \A pid \in {Parent, Child}, sig \in Sigs : Kill(pid, sig) \in Simple
  /\ \A sig \in Sigs : /\ Raise(sig) \in Simple /\ SuspendWithout(sig) \in Simple
                       /\ WaitInfo(sig) \in Simple
  /\ \A mask \in SUBSET Sigs : Suspend(mask) \in Simple
  /\ Alarm \in Simple
  /\ \A what \in Checks, values \in {{1}, {2}, {TRUE}, {"h1"}, {"HOLD"}, {"EINTR"}} :
       Expect(what, values) \in Simple
<1>1. \A what \in Checks, values \in {{1}, {2}, {TRUE}, {"h1"}, {"HOLD"}, {"EINTR"}} :
        Expect(what, values) \in Expects
  BY DEF Expects, Expect
<1>2. Expects \subseteq Simple
  BY DEF Simple
<1>. QED  BY <1>1, <1>2 DEF Simple, Mask, Action, Kill, Raise, SuspendWithout, WaitInfo, Suspend, Alarm

LEMMA LibraryCalls ==
  ASSUME NEW sig \in Sigs
  PROVE  /\ \A h \in Wanted : sigset(sig, h) \in Functions
         /\ sighold(sig) \in Functions /\ sigrelse(sig) \in Functions
         /\ sigignore(sig) \in Functions /\ sigpause(sig) \in Functions
<1>1. /\ Mask("block", {sig}) \in Plain /\ Mask("unblock", {sig}) \in Plain
      /\ Action(sig, "IGN") \in Plain /\ SuspendWithout(sig) \in Plain
  BY PlainCalls DEF Plain, Actions
<1>2. /\ sighold(sig) \in Seq(Plain) /\ sigrelse(sig) \in Seq(Plain)
      /\ sigignore(sig) \in Seq(Plain) /\ sigpause(sig) \in Seq(Plain)
  BY <1>1 DEF sighold, sigrelse, sigignore, sigpause
<1>. QED  BY <1>2 DEF Functions

LEMMA TestFunctions == Test \in Seq(Functions)
<1>1. "USR1" \in Sigs /\ "ALRM" \in Sigs
  BY DEF Sigs
<1>2. {"DFL", "h1", "h2", "HOLD"} \subseteq Wanted
  BY DEF Wanted, Actions, Handlers
<1>3. /\ Raise("USR1") \in Plain /\ Alarm \in Plain
      /\ Expect("usr1_count", {1}) \in Plain /\ Expect("usr1_count", {2}) \in Plain
      /\ Expect("USR1_pending", {TRUE}) \in Plain /\ Expect("alrm_count", {1}) \in Plain
      /\ Expect("errno", {"EINTR"}) \in Plain
      /\ Expect("prev", {"h1"}) \in Plain /\ Expect("prev", {"HOLD"}) \in Plain
  BY <1>1, PlainCalls DEF Plain, Checks
<1>4. /\ <<Raise("USR1"), Expect("usr1_count", {1})>> \in Functions
      /\ <<Raise("USR1"), Expect("usr1_count", {2})>> \in Functions
      /\ <<Raise("USR1"), Expect("usr1_count", {1}), Expect("USR1_pending", {TRUE})>> \in Functions
      /\ <<Expect("usr1_count", {2})>> \in Functions /\ <<Expect("errno", {"EINTR"}), Expect("alrm_count", {1})>> \in Functions
      /\ <<Expect("prev", {"h1"})>> \in Functions /\ <<Expect("prev", {"HOLD"})>> \in Functions
      /\ <<Alarm>> \in Functions
  BY <1>3 DEF Functions
<1>5. /\ TestSigset \in Seq(Functions) /\ TestSighold \in Seq(Functions)
      /\ TestSigrelse \in Seq(Functions) /\ TestSigignore \in Seq(Functions)
      /\ TestSighold2 \in Seq(Functions) /\ TestSigpause \in Seq(Functions)
  BY <1>1, <1>2, <1>4, LibraryCalls
     DEF TestSigset, TestSighold, TestSigrelse, TestSigignore, TestSighold2, TestSigpause
<1>. QED  BY <1>5 DEF Test

LEMMA PingPongFunctions == Sigsuspend \in Seq(Functions) /\ Sigwaitinfo \in Seq(Functions)
<1>1. /\ Kill(Parent, "USR1") \in Simple /\ Kill(Child, "USR1") \in Simple
      /\ Suspend({}) \in Simple /\ WaitInfo("USR1") \in Simple
      /\ Action("USR1", "h1") \in Plain /\ Mask("set", {"USR1"}) \in Plain
  BY PlainCalls DEF Plain, Sigs, Actions, Handlers
<1>2. \A calls \in Seq(Simple) : Times(NumSigs, calls) \in Seq(Seq(Simple))
  BY SignalAssumption DEF Times
<1>3. Seq(Simple) \subseteq Functions
  <2>1. Simple \subseteq Plain
    BY DEF Plain
  <2>. QED  BY <2>1 DEF Functions
<1>4. /\ <<Kill(Parent, "USR1"), Suspend({})>> \in Seq(Simple)
      /\ <<Suspend({}), Kill(Child, "USR1")>> \in Seq(Simple)
      /\ <<Kill(Parent, "USR1"), WaitInfo("USR1")>> \in Seq(Simple)
      /\ <<WaitInfo("USR1"), Kill(Child, "USR1")>> \in Seq(Simple)
  BY <1>1
<1>5. \A todo \in Seq(Seq(Simple)) : Fork(todo) \in Plain
  BY DEF Plain, Fork
<1>6. \A todo \in Seq(Seq(Simple)) :
        /\ <<Action("USR1", "h1"), Mask("set", {"USR1"}), Fork(todo)>> \in Functions
        /\ <<Mask("set", {"USR1"}), Fork(todo)>> \in Functions
  BY <1>1, <1>5 DEF Functions
<1>7. \A calls \in Seq(Simple) : Times(NumSigs, calls) \in Seq(Functions)
  BY <1>2, <1>3
<1>8. \A f \in Functions : <<f>> \in Seq(Functions)
  OBVIOUS
<1>9. \A s, t \in Seq(Functions) : s \o t \in Seq(Functions)
  OBVIOUS
<1>10. Sigsuspend \in Seq(Functions)
  BY <1>2, <1>4, <1>6, <1>7, <1>8, <1>9 DEF Sigsuspend
<1>11. Sigwaitinfo \in Seq(Functions)
  BY <1>2, <1>4, <1>6, <1>7, <1>8, <1>9 DEF Sigwaitinfo
<1>. QED  BY <1>10, <1>11

LEMMA UserFunctions == \A todo \in UserPrograms : todo \in Seq(Functions)
<1>1. "USR1" \in Sigs /\ {"h1", "h2", "IGN", "HOLD"} \subseteq Wanted
  BY DEF Sigs, Wanted, Actions, Handlers
<1>2. UserCalls \subseteq Functions /\ sigset("USR1", "h1") \in Functions
  BY <1>1, LibraryCalls DEF UserCalls
<1>3. \A calls \in [1 .. MaxCalls -> UserCalls] : calls \in Seq(Functions)
  BY <1>2, SignalAssumption
<1>4. <<sigset("USR1", "h1")>> \in Seq(Functions)
  BY <1>2
<1>5. \A s, t \in Seq(Functions) : s \o t \in Seq(Functions)
  OBVIOUS
<1>6. \A calls \in [1 .. MaxCalls -> UserCalls] :
        <<sigset("USR1", "h1")>> \o calls \in Seq(Functions)
  BY <1>3, <1>4, <1>5
<1>. QED  BY <1>6 DEF UserPrograms

LEMMA InitGood == Init => PInv
<1>1. \A r : Good(r) => AllGood(<<r>>)
  BY DEF AllGood, Good
<1>2. Init => \E todo \in Seq(Functions) : procs = <<NewProcess(todo)>>
  BY TestFunctions, PingPongFunctions, UserFunctions DEF Init
<1>. QED  BY <1>1, <1>2, NewGood, AllGoodNow

THEOREM ProcessesGood == Spec => []PInv
BY InitGood, NextGood, PTL DEF Spec

\* sigset returns the right value, and the right handler runs, whatever the calls
\* of the program are and whenever the signals come.
THEOREM SigsetIsRight == Spec => []SigsetRight
<1>1. PInv => SigsetRight
  BY DEF PInv, VInv, Fine, SigsetRight
<1>. QED  BY <1>1, ProcessesGood, PTL
---------------------------------------------------------------------------
(* The ping-pongs: who is to send the signal, or whose signal is on its    *)
(* way.  g is the program.                                                 *)

PingPongs == {"sigsuspend", "sigwaitinfo"}

Wait(g)   == IF g = "sigsuspend" THEN Suspend({}) ELSE WaitInfo("USR1")
Chosen(g) == IF g = "sigsuspend" THEN "h1" ELSE "DFL"   \* what is done about the signal

Other(p)     == IF p = Parent THEN Child ELSE Parent
KillOther(p) == Kill(Other(p), "USR1")

\* A round: the parent waits first, and the child kills first.
Round(g, p)     == IF p = Parent THEN <<Wait(g), KillOther(p)>> ELSE <<KillOther(p), Wait(g)>>
AfterWait(p)    == IF p = Parent THEN <<KillOther(p)>> ELSE <<>>
AfterKill(g, p) == IF p = Parent THEN <<>> ELSE <<Wait(g)>>

At1(r, call, rest) == r.calls # <<>> /\ r.calls[1] = call /\ Tail(r.calls) = rest

Player(g, r, p) == /\ r.todo \in Seq({Round(g, p)}) /\ ~r.alarm /\ r.act["USR1"] = Chosen(g)
                   /\ r.ended => r.calls = <<>> /\ r.todo = <<>>

\* Each round has a kill, and those that are over have had it.
Left(r, n) == Len(r.todo) + r.kills + n = NumSigs

Rests(r)       == r.calls = <<>> /\ r.mask = {"USR1"} /\ Left(r, 0)
Kills(g, r, p) == At1(r, KillOther(p), AfterKill(g, p)) /\ r.mask = {"USR1"} /\ Left(r, 1)
Waits(g, r, p) == /\ At1(r, Wait(g), AfterWait(p)) /\ r.mask = {"USR1"}
                  /\ Left(r, IF p = Parent THEN 1 ELSE 0)
Sleeps(g, r, p) == /\ g = "sigsuspend" /\ At1(r, Suspended, AfterWait(p))
                   /\ r.mask = {} /\ r.resume = {"USR1"}
                   /\ Left(r, IF p = Parent THEN 1 ELSE 0)

\* It can do nothing but wait for the signal; it is to send it.
Idle(g, r, p) ==
  Player(g, r, p) /\ (Waits(g, r, p) \/ Sleeps(g, r, p) \/ (p = Parent /\ Rests(r)))
ToKill(g, r, p) == Player(g, r, p) /\ (Kills(g, r, p) \/ (p = Child /\ Rests(r)))

\* It is the turn of p, or the signal is on its way to p; r is the other one.
Turn(g, s, r, p)     == ToKill(g, s, p) /\ Idle(g, r, Other(p)) /\ s.pending = {} /\ r.pending = {}
OnItsWay(g, s, r, p) == /\ Idle(g, s, p) /\ Idle(g, r, Other(p))
                        /\ s.pending = {"USR1"} /\ r.pending = {}

\* When it is the turn of the parent, the child has sent one signal more.
Lead(s, r, p) == r.kills = s.kills + IF p = Parent THEN 1 ELSE 0

Between(g, s, r, p) == (Turn(g, s, r, p) \/ OnItsWay(g, s, r, p)) /\ Lead(s, r, p)
Running(g, ps) == /\ Len(ps) = 2
                  /\ \E p \in {Parent, Child} : Between(g, ps[p], ps[Other(p)], p)

\* Before the fork.
ForkChild(g) == Fork(Times(NumSigs, Round(g, Child)))
Blocking(g)  == <<Mask("set", {"USR1"}), ForkChild(g)>>
Setup(g)     == IF g = "sigsuspend" THEN <<Action("USR1", "h1"), Mask("set", {"USR1"}), ForkChild(g)>>
                                    ELSE Blocking(g)

Rounds(g, r) == r.todo \in Seq({Round(g, Parent)}) /\ Len(r.todo) = NumSigs
Prepares(g, r) ==
  /\ ~r.ended /\ ~r.alarm /\ r.pending = {} /\ r.kills = 0
  /\ \/ /\ r.calls = <<>> /\ r.todo # <<>> /\ Head(r.todo) = Setup(g) /\ r.act["USR1"] = "DFL"
        /\ Tail(r.todo) \in Seq({Round(g, Parent)}) /\ Len(r.todo) = NumSigs + 1
     \/ g = "sigsuspend" /\ r.calls = Setup(g) /\ Rounds(g, r)
     \/ r.calls = Blocking(g) /\ Rounds(g, r) /\ r.act["USR1"] = Chosen(g)
     \/ r.calls = <<ForkChild(g)>> /\ Rounds(g, r) /\ r.act["USR1"] = Chosen(g) /\ r.mask = {"USR1"}

InTurn(g, ps) == (Len(ps) = 1 /\ Prepares(g, ps[1])) \/ Running(g, ps)
TurnInv == program \in PingPongs => InTurn(program, procs)

LEMMA TwoProcesses ==
  /\ Pids = DOMAIN procs
  /\ \A p \in {Parent, Child} : Other(p) \in {Parent, Child} /\ Other(p) # p /\ Other(Other(p)) = p
  /\ Child # Parent
BY DEF Other, Parent, Child, Pids

LEMMA At1Facts ==
  ASSUME NEW r, NEW c
  PROVE  /\ \A d : r.calls = <<c, d>> => At1(r, c, <<d>>)
         /\ r.calls = <<c>> => At1(r, c, <<>>)
<1>1. ASSUME NEW d, r.calls = <<c, d>>  PROVE At1(r, c, <<d>>)
  BY <1>1 DEF At1
<1>2. ASSUME r.calls = <<c>>  PROVE At1(r, c, <<>>)
  BY <1>2 DEF At1
<1>. QED  BY <1>1, <1>2

\* What a process that takes its turn can be at, and with what call.
LEMMA PlayerCalls ==
  ASSUME NEW g \in PingPongs, NEW p \in {Parent, Child}, NEW r, r.calls # <<>>,
         Idle(g, r, p) \/ ToKill(g, r, p)
  PROVE  /\ r.calls[1].call \in {"suspend", "waitinfo", "suspended", "kill"}
         /\ r.calls[1].call = "suspend" => g = "sigsuspend" /\ Waits(g, r, p) /\ Idle(g, r, p)
         /\ r.calls[1].call = "waitinfo" => Waits(g, r, p) /\ Idle(g, r, p)
         /\ r.calls[1].call = "suspended" => Sleeps(g, r, p) /\ Idle(g, r, p)
         /\ r.calls[1].call = "kill" => Kills(g, r, p) /\ ToKill(g, r, p)
<1>1. Player(g, r, p)
  BY DEF Idle, ToKill
<1>2. CASE Waits(g, r, p)
  BY <1>1, <1>2 DEF Idle, Waits, At1, Wait, Suspend, WaitInfo, PingPongs
<1>3. CASE Sleeps(g, r, p)
  BY <1>1, <1>3 DEF Idle, Sleeps, At1, Suspended
<1>4. CASE Kills(g, r, p)
  BY <1>1, <1>4 DEF ToKill, Kills, At1, KillOther, Kill
<1>. QED  BY <1>2, <1>3, <1>4 DEF Idle, ToKill, Rests

LEMMA NotBoth ==
  ASSUME NEW g, NEW p, NEW r, Kills(g, r, p)
  PROVE  ~Idle(g, r, p)
BY DEF Idle, Kills, Waits, Sleeps, Rests, At1, KillOther, Kill, Wait, Suspend, WaitInfo, Suspended

\* A step that leaves it to p, or to the other, to go on.
LEMMA QuietStep ==
  ASSUME NEW g, NEW ps \in Seq(Process), Running(g, ps), NEW p \in {Parent, Child}, NEW r,
         Idle(g, ps[p], p) => Idle(g, r, p), ToKill(g, ps[p], p) => ToKill(g, r, p),
         r.pending = ps[p].pending, r.kills = ps[p].kills
  PROVE  Running(g, [ps EXCEPT ![p] = r])
<1>. DEFINE new == [ps EXCEPT ![p] = r]
<1>1. Len(ps) = 2 /\ p \in DOMAIN ps /\ Other(p) \in DOMAIN ps
  BY TwoProcesses DEF Running, Parent, Child
<1>2. Len(new) = 2 /\ new[p] = r /\ new[Other(p)] = ps[Other(p)]
  BY <1>1, TwoProcesses
<1>3. PICK q \in {Parent, Child} : Between(g, ps[q], ps[Other(q)], q)
  BY DEF Running
<1>. HIDE DEF new
<1>4. CASE q = p
  BY <1>2, <1>3, <1>4 DEF Running, Between, Turn, OnItsWay, Lead, new
<1>5. CASE q # p
  <2>1. q = Other(p) /\ Other(q) = p
    BY <1>5, TwoProcesses DEF Other
  <2>. QED  BY <1>2, <1>3, <2>1 DEF Running, Between, Turn, OnItsWay, Lead, new
<1>. QED  BY <1>4, <1>5

\* The signal has reached p.
LEMMA ReceiveStep ==
  ASSUME NEW g, NEW ps \in Seq(Process), Running(g, ps), NEW p \in {Parent, Child}, NEW r,
         ps[p].pending # {}, ToKill(g, r, p), r.pending = {}, r.kills = ps[p].kills
  PROVE  Running(g, [ps EXCEPT ![p] = r])
<1>. DEFINE new == [ps EXCEPT ![p] = r]
<1>1. Len(ps) = 2 /\ p \in DOMAIN ps /\ Other(p) \in DOMAIN ps
  BY TwoProcesses DEF Running, Parent, Child
<1>2. Len(new) = 2 /\ new[p] = r /\ new[Other(p)] = ps[Other(p)]
  BY <1>1, TwoProcesses
<1>3. PICK q \in {Parent, Child} : Between(g, ps[q], ps[Other(q)], q)
  BY DEF Running
<1>4. q = p
  BY <1>3, TwoProcesses DEF Between, Turn, OnItsWay, Other
<1>. HIDE DEF new
<1>5. Between(g, new[p], new[Other(p)], p)
  BY <1>2, <1>3, <1>4 DEF Between, Turn, OnItsWay, Lead
<1>. QED  BY <1>2, <1>5 DEF Running, new

\* p has sent the signal.
LEMMA KillStep ==
  ASSUME NEW g, NEW ps \in Seq(Process), Running(g, ps), NEW p \in {Parent, Child}, NEW r, NEW t,
         Kills(g, ps[p], p), Idle(g, r, p), r.pending = ps[p].pending, r.kills = ps[p].kills + 1,
         Idle(g, ps[Other(p)], Other(p)) => Idle(g, t, Other(p)),
         t.pending = ps[Other(p)].pending \union {"USR1"}, t.kills = ps[Other(p)].kills
  PROVE  Running(g, [[ps EXCEPT ![p] = r] EXCEPT ![Other(p)] = t])
<1>. DEFINE new == [[ps EXCEPT ![p] = r] EXCEPT ![Other(p)] = t]
<1>1. Len(ps) = 2 /\ p \in DOMAIN ps /\ Other(p) \in DOMAIN ps
  BY TwoProcesses DEF Running, Parent, Child
<1>2. Len(new) = 2 /\ new[p] = r /\ new[Other(p)] = t
  BY <1>1, TwoProcesses
<1>3. PICK q \in {Parent, Child} : Between(g, ps[q], ps[Other(q)], q)
  BY DEF Running
<1>4. q = p /\ Turn(g, ps[p], ps[Other(p)], p)
  <2>1. ~Idle(g, ps[p], p)
    BY NotBoth
  <2>. QED  BY <1>3, <2>1, TwoProcesses DEF Between, Turn, OnItsWay, Other
<1>5. ps[p].kills \in Nat /\ ps[Other(p)].kills \in Nat
  <2>1. \A i \in DOMAIN ps : ps[i] \in Process
    OBVIOUS
  <2>2. ps[p] \in Process /\ ps[Other(p)] \in Process
    BY <1>1, <2>1
  <2>. QED  BY <2>2 DEF Process
<1>. HIDE DEF new
<1>6. /\ new[Other(p)].pending = {"USR1"} /\ new[p].pending = {}
      /\ Idle(g, new[p], p) /\ Idle(g, new[Other(p)], Other(p))
  BY <1>2, <1>4 DEF Turn
<1>7. Lead(new[Other(p)], new[p], Other(p))
  BY <1>2, <1>3, <1>4, <1>5, TwoProcesses DEF Between, Lead, Other
<1>8. Between(g, new[Other(p)], new[Other(Other(p))], Other(p))
  BY <1>6, <1>7, TwoProcesses DEF Between, OnItsWay
<1>. QED  BY <1>2, <1>8, TwoProcesses DEF Running, new

Begun(s)  == [s EXCEPT !.calls = Head(s.todo), !.todo = Tail(s.todo)]
Asleep(s) == [s EXCEPT !.calls = [s.calls EXCEPT ![1] = Suspended], !.resume = s.mask,
                       !.mask = s.calls[1].mask]
Signalled(s) == [[s EXCEPT !.calls = Tail(s.calls)] EXCEPT !.kills = s.kills + 1]

\* The signal has ended a wait: the process is to send one, or to go round.
LEMMA Answers ==
  ASSUME NEW g \in PingPongs, NEW p \in {Parent, Child}, NEW s, NEW r,
         Player(g, s, p), Waits(g, s, p) \/ Sleeps(g, s, p),
         r.calls = Tail(s.calls), r.mask = {"USR1"}, r.todo = s.todo, r.kills = s.kills,
         r.alarm = s.alarm, r.act = s.act, r.ended = s.ended
  PROVE  ToKill(g, r, p)
<1>1. /\ s.calls # <<>> /\ r.calls = AfterWait(p) /\ ~r.ended
      /\ Left(r, IF p = Parent THEN 1 ELSE 0)
  BY DEF Waits, Sleeps, At1, Left, Player
<1>2. Player(g, r, p)
  BY <1>1 DEF Player
<1>3. CASE p = Parent
  <2>1. r.calls = <<KillOther(p)>> /\ Left(r, 1)
    BY <1>1, <1>3 DEF AfterWait
  <2>2. At1(r, KillOther(p), AfterKill(g, p))
    BY <1>3, <2>1, At1Facts DEF AfterKill
  <2>. QED  BY <1>2, <2>1, <2>2 DEF ToKill, Kills
<1>4. CASE p = Child
  BY <1>1, <1>2, <1>4, TwoProcesses DEF ToKill, Rests, AfterWait
<1>. QED  BY <1>3, <1>4

LEMMA BeginTurn ==
  ASSUME NEW g \in PingPongs, NEW p \in {Parent, Child}, NEW s \in Process,
         s.calls = <<>>, s.todo # <<>>, ~s.ended
  PROVE  /\ Idle(g, s, p) => Idle(g, Begun(s), p)
         /\ ToKill(g, s, p) => ToKill(g, Begun(s), p)
         /\ Begun(s).pending = s.pending /\ Begun(s).kills = s.kills
<1>. DEFINE r == Begun(s)
<1>1. /\ r.calls = Head(s.todo) /\ r.todo = Tail(s.todo) /\ r.pending = s.pending
      /\ r.kills = s.kills /\ r.mask = s.mask /\ r.alarm = s.alarm /\ r.act = s.act
      /\ r.ended = s.ended
  BY DEF Begun, Process
<1>. HIDE DEF r
<1>2. ASSUME Player(g, s, p), Rests(s)
      PROVE  /\ Player(g, r, p) /\ r.calls = Round(g, p) /\ Left(r, 1) /\ r.mask = {"USR1"}
  <2>1. s.todo \in Seq({Round(g, p)})
    BY <1>2 DEF Player
  <2>2. /\ Head(s.todo) = Round(g, p) /\ Tail(s.todo) \in Seq({Round(g, p)})
        /\ Len(Tail(s.todo)) = Len(s.todo) - 1
    BY <2>1
  <2>3. s.kills \in Nat /\ Len(s.todo) \in Nat
    BY <2>1 DEF Process
  <2>4. Left(r, 1)
    BY <1>1, <1>2, <2>2, <2>3, SignalAssumption DEF Rests, Left
  <2>. QED  BY <1>1, <1>2, <2>2, <2>4 DEF Player, Rests
<1>3. CASE p = Parent
  <2>1. ~ToKill(g, s, p)
    BY <1>3, TwoProcesses DEF ToKill, Kills, At1
  <2>2. ASSUME Idle(g, s, p) PROVE Idle(g, r, p)
    <3>1. Player(g, s, p) /\ Rests(s)
      BY <2>2 DEF Idle, Waits, Sleeps, At1
    <3>2. r.calls = <<Wait(g), KillOther(p)>>
      BY <1>2, <1>3, <3>1 DEF Round
    <3>3. At1(r, Wait(g), AfterWait(p))
      BY <1>3, <3>2, At1Facts DEF AfterWait
    <3>. QED  BY <1>2, <1>3, <3>1, <3>3 DEF Idle, Waits
  <2>. QED  BY <1>1, <2>1, <2>2 DEF r
<1>4. CASE p = Child
  <2>1. ~Idle(g, s, p)
    BY <1>4, TwoProcesses DEF Idle, Waits, Sleeps, At1
  <2>2. ASSUME ToKill(g, s, p) PROVE ToKill(g, r, p)
    <3>1. Player(g, s, p) /\ Rests(s)
      BY <2>2 DEF ToKill, Kills, At1
    <3>2. r.calls = <<KillOther(p), Wait(g)>>
      BY <1>2, <1>4, <3>1, TwoProcesses DEF Round
    <3>3. At1(r, KillOther(p), AfterKill(g, p))
      BY <1>4, <3>2, TwoProcesses, At1Facts DEF AfterKill
    <3>. QED  BY <1>2, <3>1, <3>3 DEF ToKill, Kills
  <2>. QED  BY <1>1, <2>1, <2>2 DEF r
<1>. QED  BY <1>3, <1>4

\* Where sigsuspend begins to wait.
LEMMA SuspendTurn ==
  ASSUME NEW g \in PingPongs, NEW p \in {Parent, Child}, NEW s \in Process,
         Idle(g, s, p), s.calls # <<>>, s.calls[1].call = "suspend"
  PROVE  /\ Idle(g, Asleep(s), p) /\ ~ToKill(g, s, p)
         /\ Asleep(s).pending = s.pending /\ Asleep(s).kills = s.kills
<1>. DEFINE r == Asleep(s)
<1>1. g = "sigsuspend" /\ Waits(g, s, p) /\ Player(g, s, p)
  BY PlayerCalls DEF Idle
<1>2. s.calls[1].mask = {}
  BY <1>1 DEF Waits, At1, Wait, Suspend
<1>3. /\ r.calls = [s.calls EXCEPT ![1] = Suspended] /\ r.resume = s.mask /\ r.mask = {}
      /\ r.pending = s.pending /\ r.kills = s.kills /\ r.todo = s.todo
      /\ r.alarm = s.alarm /\ r.act = s.act /\ r.ended = s.ended
  BY <1>2 DEF Asleep, Process
<1>. HIDE DEF r
<1>4. r.calls # <<>> /\ r.calls[1] = Suspended /\ Tail(r.calls) = Tail(s.calls)
  <2>1. s.calls \in Seq(Calls)
    BY DEF Process
  <2>. QED  BY <1>3, <2>1
<1>5. Sleeps(g, r, p)
  BY <1>1, <1>3, <1>4 DEF Waits, Sleeps, At1, Left
<1>6. Player(g, r, p)
  BY <1>1, <1>3 DEF Player
<1>7. ~ToKill(g, s, p)
  BY PlayerCalls, NotBoth DEF ToKill, Rests
<1>. QED  BY <1>3, <1>5, <1>6, <1>7 DEF Idle, r

\* Where p has sent the signal, it waits; and where the other one is sent it, that
\* does not change what the other one is at.
LEMMA KillTurn ==
  ASSUME NEW g \in PingPongs, NEW p \in {Parent, Child}, NEW s \in Process,
         ToKill(g, s, p), Kills(g, s, p)
  PROVE  /\ Idle(g, Signalled(s), p)
         /\ Signalled(s).pending = s.pending /\ Signalled(s).kills = s.kills + 1
<1>. DEFINE r == Signalled(s)
<1>1. /\ r.calls = Tail(s.calls) /\ r.kills = s.kills + 1 /\ r.pending = s.pending
      /\ r.mask = s.mask /\ r.todo = s.todo /\ r.alarm = s.alarm /\ r.act = s.act
      /\ r.ended = s.ended
  BY DEF Signalled, Process
<1>. HIDE DEF r
<1>2. Player(g, r, p) /\ r.calls = AfterKill(g, p) /\ r.mask = {"USR1"}
  BY <1>1 DEF ToKill, Player, Kills, At1
<1>3. Left(r, 0)
  <2>1. s.kills \in Nat /\ Len(s.todo) \in Nat
    BY DEF Process
  <2>. QED  BY <1>1, <2>1 DEF Kills, Left
<1>4. ASSUME p = Parent  PROVE Idle(g, r, p)
  BY <1>2, <1>3, <1>4 DEF Idle, Rests, AfterKill
<1>5. ASSUME p = Child  PROVE Idle(g, r, p)
  <2>1. r.calls = <<Wait(g)>>
    BY <1>2, <1>5, TwoProcesses DEF AfterKill
  <2>2. At1(r, Wait(g), AfterWait(p))
    BY <1>5, <2>1, TwoProcesses, At1Facts DEF AfterWait
  <2>3. Left(r, IF p = Parent THEN 1 ELSE 0)
    BY <1>3, <1>5, TwoProcesses
  <2>. QED  BY <1>2, <2>2, <2>3 DEF Idle, Waits
<1>. QED  BY <1>1, <1>4, <1>5 DEF r

LEMMA SentTurn ==
  ASSUME NEW g \in PingPongs, NEW p \in {Parent, Child}, NEW s \in Process, Idle(g, s, p)
  PROVE  /\ Idle(g, Sent(s, "USR1"), p)
         /\ Sent(s, "USR1").pending = s.pending \union {"USR1"}
         /\ Sent(s, "USR1").kills = s.kills
<1>. DEFINE r == Sent(s, "USR1")
<1>1. r = [s EXCEPT !.pending = @ \union {"USR1"}]
  BY DEF Sent, Idle, Player, Chosen
<1>2. /\ r.calls = s.calls /\ r.mask = s.mask /\ r.todo = s.todo /\ r.kills = s.kills
      /\ r.alarm = s.alarm /\ r.act = s.act /\ r.ended = s.ended /\ r.resume = s.resume
      /\ r.pending = s.pending \union {"USR1"}
  BY <1>1 DEF Process
<1>. HIDE DEF r
<1>. QED  BY <1>2 DEF Idle, Player, Waits, Sleeps, Rests, At1, Left, r

\* The only calls that a process makes while the two take turns.
LEMMA TurnCalls ==
  ASSUME NEW g \in PingPongs, Running(g, procs), PInv, NEW p \in Pids
  PROVE  /\ p \in {Parent, Child} /\ procs[p] \in Process /\ ~procs[p].alarm
         /\ Idle(g, procs[p], p) \/ ToKill(g, procs[p], p)
         /\ procs[p].pending # {} => Idle(g, procs[p], p) /\ procs[p].pending = {"USR1"}
         /\ Kills(g, procs[p], p) => Idle(g, procs[Other(p)], Other(p))
         /\ \A name : At(p, name) => name \in {"suspend", "waitinfo", "suspended", "kill"}
<1>1. p \in {Parent, Child}
  BY DEF Running, Pids, PInv, Parent, Child
<1>2. PICK q \in {Parent, Child} : Between(g, procs[q], procs[Other(q)], q)
  BY DEF Running
<1>3. q = p \/ (q = Other(p) /\ Other(q) = p)
  BY <1>1, TwoProcesses DEF Other
<1>4. /\ Idle(g, procs[p], p) \/ ToKill(g, procs[p], p)
      /\ procs[p].pending # {} => Idle(g, procs[p], p) /\ procs[p].pending = {"USR1"}
  BY <1>2, <1>3 DEF Between, Turn, OnItsWay
<1>5. Kills(g, procs[p], p) => Idle(g, procs[Other(p)], Other(p))
  BY <1>2, <1>3, NotBoth DEF Between, Turn, OnItsWay
<1>6. procs[p] \in Process /\ ~procs[p].alarm
  BY <1>4, GoodProcess DEF Good, Idle, ToKill, Player
<1>7. \A name : At(p, name) => name \in {"suspend", "waitinfo", "suspended", "kill"}
  BY <1>1, <1>4, PlayerCalls DEF At
<1>. QED  BY <1>1, <1>4, <1>5, <1>6, <1>7

LEMMA RunningStep ==
  ASSUME NEW g \in PingPongs, Running(g, procs), PInv, NEW p \in Pids, Step(p)
  PROVE  Running(g, procs')
<1>1. /\ p \in {Parent, Child} /\ procs[p] \in Process /\ ~procs[p].alarm
      /\ Idle(g, procs[p], p) \/ ToKill(g, procs[p], p)
      /\ procs[p].pending # {} => Idle(g, procs[p], p) /\ procs[p].pending = {"USR1"}
      /\ procs \in Seq(Process)
  BY TurnCalls DEF PInv
<1>2. CASE Begin(p)
  <2>1. procs[p].calls = <<>> /\ procs[p].todo # <<>> /\ ~procs[p].ended
    BY <1>2 DEF Begin, Alive
  <2>2. procs' = [procs EXCEPT ![p] = Begun(procs[p])]
    BY <1>2 DEF Begin, Begun
  <2>3. /\ Idle(g, procs[p], p) => Idle(g, Begun(procs[p]), p)
        /\ ToKill(g, procs[p], p) => ToKill(g, Begun(procs[p]), p)
        /\ Begun(procs[p]).pending = procs[p].pending
        /\ Begun(procs[p]).kills = procs[p].kills
    BY <1>1, <2>1, BeginTurn
  <2>. QED  BY <1>1, <2>2, <2>3, QuietStep
<1>3. CASE DoExit(p)
  <2>. DEFINE r == [procs[p] EXCEPT !.ended = TRUE]
  <2>1. procs[p].calls = <<>> /\ procs[p].todo = <<>>
    BY <1>3 DEF DoExit
  <2>2. procs' = [procs EXCEPT ![p] = r]
    BY <1>3 DEF DoExit
  <2>3. /\ r.calls = procs[p].calls /\ r.mask = procs[p].mask /\ r.todo = procs[p].todo
        /\ r.kills = procs[p].kills /\ r.alarm = procs[p].alarm /\ r.act = procs[p].act
        /\ r.resume = procs[p].resume /\ r.pending = procs[p].pending
    BY <1>1 DEF Process
  <2>. HIDE DEF r
  <2>4. /\ Idle(g, procs[p], p) => Idle(g, r, p)
        /\ ToKill(g, procs[p], p) => ToKill(g, r, p)
    BY <2>1, <2>3 DEF Idle, ToKill, Player, Waits, Sleeps, Rests, Kills, At1, Left
  <2>. QED  BY <1>1, <2>2, <2>3, <2>4, QuietStep
<1>4. CASE Deliver(p)
  <2>1. PICK sig \in procs[p].pending \ procs[p].mask :
          procs' = [procs EXCEPT ![p] = Delivered(Taken(procs[p], sig), sig)]
    BY <1>4 DEF Deliver
  <2>2. /\ sig = "USR1" /\ procs[p].pending = {"USR1"} /\ procs[p].mask # {"USR1"}
        /\ Idle(g, procs[p], p)
    BY <1>1, <2>1
  <2>3. Sleeps(g, procs[p], p) /\ Player(g, procs[p], p)
    BY <2>2 DEF Idle, Waits, Rests
  <2>4. /\ procs[p].act["USR1"] = "h1" /\ procs[p].calls # <<>>
        /\ procs[p].calls[1].call = "suspended" /\ procs[p].resume = {"USR1"}
    BY <2>3 DEF Sleeps, Player, Chosen, At1, Suspended
  <2>. DEFINE s == Taken(procs[p], "USR1")
  <2>5. /\ s \in Process /\ s.act = procs[p].act /\ s.calls = procs[p].calls
        /\ s.resume = procs[p].resume /\ s.todo = procs[p].todo /\ s.kills = procs[p].kills
        /\ s.alarm = procs[p].alarm /\ s.ended = procs[p].ended /\ s.pending = {}
    BY <1>1, <2>2 DEF Taken, Process
  <2>6. procs' = [procs EXCEPT ![p] = Delivered(s, "USR1")]
    BY <2>1, <2>2
  <2>. HIDE DEF s
  <2>7. Delivered(s, "USR1") = Handled(s, "USR1")
    BY <2>4, <2>5 DEF Delivered, Handlers
  <2>. DEFINE run == [s EXCEPT !.runs[s.act["USR1"]] = @ + 1,
                               !.wrongHandler = @ \/ s.act["USR1"] # s.asked["USR1"]]
  <2>8. Handled(s, "USR1") = [run EXCEPT !.calls = Tail(@), !.mask = s.resume, !.errno = "EINTR"]
    BY <2>4, <2>5 DEF Handled
  <2>9. /\ DOMAIN run = DOMAIN s /\ run.act = s.act /\ run.calls = s.calls
        /\ run.todo = s.todo /\ run.kills = s.kills
        /\ run.alarm = s.alarm /\ run.ended = s.ended /\ run.pending = {}
    BY <2>5 DEF Process
  <2>. HIDE DEF run
  <2>. DEFINE t == [run EXCEPT !.calls = Tail(@), !.mask = s.resume, !.errno = "EINTR"]
  <2>10. /\ t.calls = Tail(procs[p].calls) /\ t.mask = {"USR1"} /\ t.act = procs[p].act
         /\ t.todo = procs[p].todo /\ t.kills = procs[p].kills
         /\ t.alarm = procs[p].alarm /\ t.ended = procs[p].ended /\ t.pending = {}
    BY <2>4, <2>5, <2>9 DEF Process
  <2>11. procs' = [procs EXCEPT ![p] = t]
    BY <2>6, <2>7, <2>8
  <2>. HIDE DEF t
  <2>12. ToKill(g, t, p)
    BY <1>1, <2>3, <2>10, Answers
  <2>. QED  BY <1>1, <2>2, <2>10, <2>11, <2>12, ReceiveStep
<1>5. CASE DoSuspend(p)
  <2>1. /\ procs[p].calls # <<>> /\ procs[p].calls[1].call = "suspend"
        /\ Idle(g, procs[p], p)
    BY <1>1, <1>5, TurnCalls, PlayerCalls DEF DoSuspend, At
  <2>2. procs' = [procs EXCEPT ![p] = Asleep(procs[p])]
    BY <1>5, <2>1 DEF DoSuspend, Arg, Asleep, Suspended
  <2>3. /\ Idle(g, Asleep(procs[p]), p) /\ ~ToKill(g, procs[p], p)
        /\ Asleep(procs[p]).pending = procs[p].pending
        /\ Asleep(procs[p]).kills = procs[p].kills
    BY <1>1, <2>1, SuspendTurn
  <2>. QED  BY <1>1, <2>2, <2>3, QuietStep
<1>6. CASE DoWaitInfo(p)
  <2>. DEFINE s == procs[p]
              r == [On(p) EXCEPT !.pending = @ \ {Arg(p).sig}]
  <2>1. s.calls # <<>> /\ s.calls[1].call = "waitinfo" /\ Arg(p).sig \in s.pending
    BY <1>6 DEF DoWaitInfo, At
  <2>2. Waits(g, s, p) /\ Player(g, s, p)
    BY <1>1, <2>1, PlayerCalls DEF Idle
  <2>3. Arg(p).sig = "USR1" /\ s.pending = {"USR1"}
    BY <1>1, <2>1
  <2>4. procs' = [procs EXCEPT ![p] = r]
    BY <1>6 DEF DoWaitInfo
  <2>5. /\ r.calls = Tail(s.calls) /\ r.mask = s.mask /\ r.act = s.act /\ r.pending = {}
        /\ r.todo = s.todo /\ r.kills = s.kills /\ r.alarm = s.alarm /\ r.ended = s.ended
    BY <1>1, <2>3 DEF On, Process
  <2>. HIDE DEF r
  <2>6. ToKill(g, r, p)
    BY <1>1, <2>2, <2>5, Answers DEF Waits
  <2>. QED  BY <1>1, <2>3, <2>4, <2>5, <2>6, ReceiveStep
<1>7. CASE DoKill(p)
  <2>. DEFINE r == Signalled(procs[p])
              q == Other(p)
              t == Sent(procs[q], "USR1")
  <2>1. procs[p].calls # <<>> /\ procs[p].calls[1].call = "kill" /\ Arg(p).pid \in Pids
    BY <1>7 DEF DoKill, At
  <2>2. Kills(g, procs[p], p) /\ ToKill(g, procs[p], p)
    BY <1>1, <2>1, PlayerCalls
  <2>3. Arg(p).pid = q /\ Arg(p).sig = "USR1"
    BY <2>2 DEF Kills, At1, Arg, KillOther, Kill
  <2>4. q \in Pids /\ q # p /\ q \in {Parent, Child} /\ Idle(g, procs[q], q)
    BY <1>1, <2>1, <2>2, <2>3, TurnCalls, TwoProcesses
  <2>5. /\ Idle(g, t, q) /\ t.pending = procs[q].pending \union {"USR1"}
        /\ t.kills = procs[q].kills
    BY <2>4, SentTurn, TurnCalls
  <2>6. Idle(g, r, p) /\ r.pending = procs[p].pending /\ r.kills = procs[p].kills + 1
    BY <1>1, <2>2, KillTurn
  <2>7. procs' = [[procs EXCEPT ![p] = r] EXCEPT ![q] = t]
    <3>1. r = [On(p) EXCEPT !.kills = @ + 1]
      BY <1>1 DEF On, Process, Signalled
    <3>. DEFINE counted == [procs EXCEPT ![p] = r]
    <3>2. procs' = [counted EXCEPT ![q] = Sent(counted[q], "USR1")]
      BY <1>7, <2>3, <3>1 DEF DoKill
    <3>3. counted[q] = procs[q]
      BY <2>4
    <3>. HIDE DEF counted, r
    <3>. QED  BY <3>2, <3>3 DEF counted
  <2>. HIDE DEF r, t
  <2>. QED  BY <1>1, <2>2, <2>5, <2>6, <2>7, KillStep
<1>8. CASE AlarmGoesOff(p)
  BY <1>1, <1>8 DEF AlarmGoesOff
<1>9. ~DoMask(p) /\ ~DoAction(p) /\ ~DoRaise(p) /\ ~DoAlarm(p)
  BY TurnCalls DEF DoMask, DoAction, DoRaise, DoAlarm
<1>10. ~DoFork(p) /\ ~DoEnter(p) /\ ~DoReturn(p) /\ ~DoExpect(p)
  BY TurnCalls DEF DoFork, DoEnter, DoReturn, DoExpect
<1>. QED  BY <1>2, <1>3, <1>4, <1>5, <1>6, <1>7, <1>8, <1>9, <1>10 DEF Step

LEMMA TimesFacts ==
  ASSUME NEW calls
  PROVE  Times(NumSigs, calls) \in Seq({calls}) /\ Len(Times(NumSigs, calls)) = NumSigs
BY SignalAssumption DEF Times

\* The parent up to its fork, and the fork.
LEMMA PrepareStep ==
  ASSUME NEW g \in PingPongs, PInv, Len(procs) = 1, Prepares(g, procs[1]),
         NEW p \in Pids, Step(p)
  PROVE  InTurn(g, procs')
<1>. DEFINE s == procs[p]
<1>1. /\ p = 1 /\ s \in Process /\ Prepares(g, s)
      /\ procs \in Seq(Process) /\ DOMAIN procs = 1 .. 1
  BY DEF PInv, Pids
<1>2. ~s.ended /\ ~s.alarm /\ s.pending = {} /\ s.kills = 0
  BY <1>1 DEF Prepares
<1>3. ASSUME NEW r, procs' = [procs EXCEPT ![p] = r], Prepares(g, r)
      PROVE  InTurn(g, procs')
  <2>1. Len(procs') = 1 /\ procs'[1] = r
    BY <1>1, <1>3
  <2>. QED  BY <1>3, <2>1 DEF InTurn
<1>4. CASE s.calls = <<>>
  <2>1. /\ s.todo # <<>> /\ Head(s.todo) = Setup(g) /\ s.act["USR1"] = "DFL"
        /\ Tail(s.todo) \in Seq({Round(g, Parent)}) /\ Len(s.todo) = NumSigs + 1
    BY <1>1, <1>4, Tails DEF Prepares, Setup, Blocking
  <2>2. Begin(p)
    BY <1>1, <1>2, <1>4, <2>1 DEF Step, Deliver, AlarmGoesOff, DoExit, DoMask, DoAction, DoKill, DoRaise,
       DoAlarm, DoSuspend, DoWaitInfo, DoFork, DoEnter, DoReturn, DoExpect, At
  <2>. DEFINE r == [s EXCEPT !.calls = Head(s.todo), !.todo = Tail(s.todo)]
  <2>3. procs' = [procs EXCEPT ![p] = r]
    BY <1>1, <2>2 DEF Begin
  <2>4. /\ r.calls = Setup(g) /\ r.todo = Tail(s.todo) /\ r.act["USR1"] = "DFL"
        /\ ~r.ended /\ ~r.alarm /\ r.pending = {} /\ r.kills = 0
    BY <1>1, <1>2, <2>1 DEF Process
  <2>. HIDE DEF r
  <2>5. Rounds(g, r)
    <3>1. s.todo \in Seq(Functions)
      BY <1>1 DEF Process
    <3>2. Len(Tail(s.todo)) = Len(s.todo) - 1
      BY <2>1, <3>1
    <3>. QED  BY <2>1, <2>4, <3>2, SignalAssumption DEF Rounds
  <2>6. Prepares(g, r)
    BY <2>4, <2>5 DEF Prepares, Setup, Chosen
  <2>. QED  BY <1>3, <2>3, <2>6
<1>5. CASE g = "sigsuspend" /\ s.calls = Setup(g) /\ Rounds(g, s)
  <2>1. /\ s.calls # <<>> /\ s.calls[1] = Action("USR1", "h1") /\ Tail(s.calls) = Blocking(g)
    BY <1>5, Tails DEF Setup, Blocking
  <2>2. DoAction(p)
    BY <1>1, <1>2, <2>1 DEF Step, Begin, Deliver, AlarmGoesOff, DoExit, DoMask, DoKill, DoRaise,
       DoAlarm, DoSuspend, DoWaitInfo, DoFork, DoEnter, DoReturn, DoExpect, At, Action
  <2>. DEFINE q == [On(p) EXCEPT !.oldsa = s.act["USR1"]]
              acts  == [s.act EXCEPT !["USR1"] = "h1"]
              asked == [s.asked EXCEPT !["USR1"] = "h1"]
              r == [q EXCEPT !.act = acts, !.asked = asked, !.pending = s.pending]
  <2>3. Arg(p).sig = "USR1" /\ Arg(p).act = "h1"
    BY <2>1 DEF Arg, Action
  <2>4. /\ q.act = s.act /\ q.asked = s.asked /\ q.pending = s.pending /\ q.calls = Tail(s.calls)
        /\ q.todo = s.todo /\ q.ended = s.ended /\ q.alarm = s.alarm /\ q.kills = s.kills
        /\ DOMAIN q = DOMAIN s
    BY <1>1 DEF On, Process
  <2>5. q = [On(p) EXCEPT !.oldsa = procs[p].act[Arg(p).sig]]
    BY <2>3
  <2>. HIDE DEF q
  <2>6. procs' = [procs EXCEPT ![p] = r]
    BY <2>2, <2>3, <2>4, <2>5 DEF DoAction
  <2>7. acts["USR1"] = Chosen(g)
    BY <1>1, <1>5 DEF Process, Chosen, Sigs
  <2>. HIDE DEF acts, asked
  <2>8. /\ r.calls = Blocking(g) /\ r.todo = s.todo /\ r.act["USR1"] = Chosen(g)
        /\ ~r.ended /\ ~r.alarm /\ r.pending = {} /\ r.kills = 0
    BY <1>1, <1>2, <2>1, <2>4, <2>7 DEF Process
  <2>. HIDE DEF r
  <2>. QED  BY <1>3, <1>5, <2>6, <2>8 DEF Prepares, Rounds
<1>6. CASE s.calls = Blocking(g) /\ Rounds(g, s) /\ s.act["USR1"] = Chosen(g)
  <2>1. /\ s.calls # <<>> /\ s.calls[1] = Mask("set", {"USR1"}) /\ Tail(s.calls) = <<ForkChild(g)>>
    BY <1>6, Tails DEF Blocking
  <2>2. DoMask(p)
    BY <1>1, <1>2, <2>1 DEF Step, Begin, Deliver, AlarmGoesOff, DoExit, DoAction, DoKill, DoRaise,
       DoAlarm, DoSuspend, DoWaitInfo, DoFork, DoEnter, DoReturn, DoExpect, At, Mask
  <2>. DEFINE r == [On(p) EXCEPT !.oldset = s.mask, !.mask = {"USR1"}]
  <2>3. procs' = [procs EXCEPT ![p] = r]
    <3>1. Arg(p).how = "set" /\ Arg(p).sigs = {"USR1"}
      BY <2>1 DEF Arg, Mask
    <3>. QED  BY <2>2, <3>1 DEF DoMask
  <2>4. /\ r.calls = <<ForkChild(g)>> /\ r.todo = s.todo /\ r.act["USR1"] = Chosen(g)
        /\ r.mask = {"USR1"} /\ ~r.ended /\ ~r.alarm /\ r.pending = {} /\ r.kills = 0
    BY <1>1, <1>2, <1>6, <2>1 DEF On, Process
  <2>. HIDE DEF r
  <2>. QED  BY <1>3, <1>6, <2>3, <2>4 DEF Prepares, Rounds
<1>7. CASE /\ s.calls = <<ForkChild(g)>> /\ Rounds(g, s) /\ s.act["USR1"] = Chosen(g)
           /\ s.mask = {"USR1"}
  <2>1. /\ s.calls # <<>> /\ s.calls[1] = ForkChild(g) /\ Tail(s.calls) = <<>>
    BY <1>7, Tails
  <2>2. DoFork(p)
    BY <1>1, <1>2, <2>1 DEF Step, Begin, Deliver, AlarmGoesOff, DoExit, DoAction, DoKill, DoRaise,
       DoAlarm, DoSuspend, DoWaitInfo, DoMask, DoEnter, DoReturn, DoExpect, At, ForkChild, Fork
  <2>. DEFINE todo  == Times(NumSigs, Round(g, Child))
              par   == On(p)
              child == [s EXCEPT !.todo = todo, !.calls = <<>>, !.pending = {}]
  <2>3. procs' = Append([procs EXCEPT ![p] = par], child)
    <3>1. Arg(p).todo = todo
      BY <2>1 DEF Arg, ForkChild, Fork
    <3>. HIDE DEF todo
    <3>. QED  BY <2>2, <3>1 DEF DoFork
  <2>4. /\ par.calls = <<>> /\ par.todo = s.todo /\ par.act = s.act /\ par.mask = {"USR1"}
        /\ ~par.ended /\ ~par.alarm /\ par.pending = {} /\ par.kills = 0
    BY <1>1, <1>2, <1>7, <2>1 DEF On, Process
  <2>5. /\ child.calls = <<>> /\ child.todo = todo /\ child.act = s.act /\ child.mask = {"USR1"}
        /\ ~child.ended /\ ~child.alarm /\ child.pending = {} /\ child.kills = 0
    BY <1>1, <1>2, <1>7 DEF Process
  <2>6. todo \in Seq({Round(g, Child)}) /\ Len(todo) = NumSigs
    BY TimesFacts
  <2>. HIDE DEF par, child, todo
  <2>7. Len(procs') = 2 /\ procs'[1] = par /\ procs'[2] = child
    <3>. DEFINE ps == [procs EXCEPT ![p] = par]
    <3>1. ps = <<par>>
      BY <1>1
    <3>. HIDE DEF ps
    <3>2. procs' = Append(<<par>>, child)
      BY <2>3, <3>1 DEF ps
    <3>. QED  BY <3>2
  <2>8. Idle(g, par, Parent)
    BY <1>7, <2>4, SignalAssumption DEF Idle, Player, Rests, Left, Rounds
  <2>9. ToKill(g, child, Child)
    BY <1>7, <2>5, <2>6, SignalAssumption DEF ToKill, Player, Rests, Left
  <2>10. Between(g, child, par, Child)
    BY <2>4, <2>5, <2>8, <2>9, TwoProcesses DEF Between, Turn, Lead, Other
  <2>. QED  BY <2>7, <2>10, TwoProcesses DEF InTurn, Running, Other, Parent, Child
<1>. QED  BY <1>1, <1>4, <1>5, <1>6, <1>7 DEF Prepares

LEMMA TurnNext == PInv /\ TurnInv /\ [Next]_vars => TurnInv'
<1>. SUFFICES ASSUME PInv, TurnInv, [Next]_vars, program' \in PingPongs  PROVE InTurn(program', procs')
  BY DEF TurnInv
<1>1. program' = program /\ program \in PingPongs /\ InTurn(program, procs)
  BY DEF Next, vars, TurnInv
<1>2. CASE UNCHANGED procs
  BY <1>1, <1>2
<1>3. ~Others
  BY <1>1 DEF Others, PingPongs
<1>4. ASSUME NEW p \in Pids, Step(p)  PROVE InTurn(program, procs')
  <2>1. CASE Running(program, procs)
    BY <1>1, <1>4, <2>1, RunningStep DEF InTurn
  <2>2. CASE Len(procs) = 1 /\ Prepares(program, procs[1])
    BY <1>1, <1>4, <2>2, PrepareStep
  <2>. QED  BY <1>1, <2>1, <2>2 DEF InTurn
<1>. QED  BY <1>1, <1>2, <1>3, <1>4 DEF Next, vars

LEMMA TurnInit == Init => TurnInv
<1>. SUFFICES ASSUME Init, program \in PingPongs  PROVE InTurn(program, procs)
  BY DEF TurnInv
<1>1. ASSUME NEW todo, procs = <<NewProcess(todo)>>, todo # <<>>, Head(todo) = Setup(program),
             Tail(todo) \in Seq({Round(program, Parent)}), Len(todo) = NumSigs + 1
      PROVE  InTurn(program, procs)
  BY <1>1 DEF InTurn, Prepares, NewProcess, Sigs
<1>2. CASE program = "sigsuspend" /\ procs = <<NewProcess(Sigsuspend)>>
  <2>. DEFINE round == <<Suspend({}), Kill(Child, "USR1")>>
  <2>1. /\ Sigsuspend = <<Setup(program)>> \o Times(NumSigs, round)
        /\ round = Round(program, Parent)
    BY <1>2, TwoProcesses DEF Sigsuspend, Setup, ForkChild, Round, Wait, KillOther, Other
  <2>. HIDE DEF round
  <2>2. Times(NumSigs, round) \in Seq({round}) /\ Len(Times(NumSigs, round)) = NumSigs
    BY TimesFacts
  <2>3. \A f, t : t \in Seq({round}) => 
          /\ <<f>> \o t # <<>> /\ Head(<<f>> \o t) = f /\ Tail(<<f>> \o t) = t
          /\ Len(<<f>> \o t) = Len(t) + 1
    OBVIOUS
  <2>. QED  BY <1>1, <1>2, <2>1, <2>2, <2>3
<1>3. CASE program = "sigwaitinfo" /\ procs = <<NewProcess(Sigwaitinfo)>>
  <2>. DEFINE round == <<WaitInfo("USR1"), Kill(Child, "USR1")>>
  <2>1. /\ Sigwaitinfo = <<Setup(program)>> \o Times(NumSigs, round)
        /\ round = Round(program, Parent)
    BY <1>3, TwoProcesses DEF Sigwaitinfo, Setup, Blocking, ForkChild, Round, Wait, KillOther, Other
  <2>. HIDE DEF round
  <2>2. Times(NumSigs, round) \in Seq({round}) /\ Len(Times(NumSigs, round)) = NumSigs
    BY TimesFacts
  <2>3. \A f, t : t \in Seq({round}) => 
          /\ <<f>> \o t # <<>> /\ Head(<<f>> \o t) = f /\ Tail(<<f>> \o t) = t
          /\ Len(<<f>> \o t) = Len(t) + 1
    OBVIOUS
  <2>. QED  BY <1>1, <1>3, <2>1, <2>2, <2>3
<1>. QED  BY <1>2, <1>3 DEF Init, PingPongs

LEMMA TurnsTaken == PInv /\ TurnInv => TakeTurns
<1>. SUFFICES ASSUME PInv, TurnInv, program \in PingPongs
     PROVE  /\ Len(procs) = 2 => procs[Child].kills - procs[Parent].kills \in {0, 1}
            /\ \A p \in Pids : procs[p].ended => procs[p].calls = <<>> /\ procs[p].todo = <<>>
  BY DEF TakeTurns, PingPongs
<1>1. CASE Len(procs) = 1 /\ Prepares(program, procs[1])
  BY <1>1 DEF Prepares, Pids, PInv
<1>2. CASE Running(program, procs)
  <2>1. PICK p \in {Parent, Child} : Between(program, procs[p], procs[Other(p)], p)
    BY <1>2 DEF Running
  <2>2. Len(procs) = 2 /\ Pids = {Parent, Child}
    BY <1>2 DEF Running, Pids, PInv, Parent, Child
  <2>3. Player(program, procs[p], p) /\ Player(program, procs[Other(p)], Other(p))
    BY <2>1 DEF Between, Turn, OnItsWay, Idle, ToKill
  <2>4. procs[Parent].kills \in Nat /\ procs[Child].kills \in Nat
    BY <2>2, GoodProcess DEF Good, Process
  <2>5. procs[Child].kills - procs[Parent].kills \in {0, 1}
    BY <2>1, <2>4, TwoProcesses DEF Between, Lead, Other
  <2>. QED  BY <2>2, <2>3, <2>5, TwoProcesses DEF Player, Other
<1>. QED  BY <1>1, <1>2 DEF TurnInv, InTurn

\* Whatever the number of rounds, the processes of sig_speed_... send by turns: the
\* child has sent as many signals as the parent, or one more; and neither process
\* ends, by a signal or otherwise, before its last call.
THEOREM TurnsAreTaken == Spec => []TakeTurns
<1>1. Spec => []TurnInv
  BY TurnInit, TurnNext, ProcessesGood, PTL DEF Spec
<1>. QED  BY <1>1, TurnsTaken, ProcessesGood, PTL
===========================================================================
