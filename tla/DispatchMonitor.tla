------------------------- MODULE DispatchMonitor -------------------------
(***************************************************************************)
(* The system of TaskDispatch with what the operator watches it through:   *)
(* at the top of its loop the broker (broker.c) publishes its four figures *)
(* when a second has passed since it did so last, and monitor.c, a program *)
(* that is started and stopped at will, prints what reaches it.            *)
(*                                                                         *)
(* The clock may say at any round that a second has passed.  A PUB socket  *)
(* never waits: it drops what a subscriber has no room for, and all that   *)
(* is published while nobody subscribes.                                   *)
(***************************************************************************)
EXTENDS TaskDispatch

CONSTANTS
  MonitorHwm,    \* bound: snapshots between broker and monitor (ZMQ's HWM)
  MaxSnapshots,  \* bound: snapshots the broker publishes
  MaxMonitors    \* bound: how many times a monitor is started

ASSUME MonitorAssumption ==
  MonitorHwm \in Nat /\ MaxSnapshots \in Nat /\ MaxMonitors \in Nat

VARIABLES
  tested,      \* broker: it has looked at the clock in this round of its loop
  monitorPc,   \* "down", "connecting" or "up" (the broker knows it)
  channel,     \* snapshots on their way to the monitor
  shown,       \* what the monitor that runs has printed
  monitors,    \* how many monitors there have been
  past         \* history: the state of the broker each time that it published it

monitorVars == <<monitorPc, channel, shown, monitors>>
watchVars   == <<tested, monitorVars, past>>

\* The state of the broker, as its lists and the tasks that have ended have it; the
\* four figures that it publishes it keeps beside them.
Figures == [room |-> QueueSize - Len(pending_task_queue), idle |-> Len(worker_queue),
            processed |-> Cardinality(completed), dropped |-> Cardinality(discarded)]

MInit == /\ Init
         /\ tested = FALSE
         /\ monitorPc = "down" /\ monitors = 0
         /\ channel = <<>> /\ shown = <<>> /\ past = <<>>
---------------------------------------------------------------------------
(* The broker *)

\* Mutant: the number of pending tasks is published for the room that is left.
SnapshotPending == [room |-> pending_task_count - QueueSize, idle |-> worker_count,
                    processed |-> processed_task_count,
                    dropped |-> dropped_task_count]

\* The figures of snprintf, which sscanf reads back as they are.
Snapshot == [room |-> QueueSize - pending_task_count, idle |-> worker_count,
             processed |-> processed_task_count,
             dropped |-> dropped_task_count]

Publish ==
  /\ Len(past) < MaxSnapshots
  /\ past' = Append(past, Figures)
  /\ channel' = IF monitorPc = "up" /\ Len(channel) < MonitorHwm
                THEN Append(channel, Snapshot) ELSE channel

\* The loop's test has passed; the clock is read before the broker waits.
Test ==
  /\ brokerPc = "poll" /\ ~tested
  /\ tested' = TRUE
  /\ Publish \/ UNCHANGED <<channel, past>>
  /\ UNCHANGED <<vars, monitorPc, shown, monitors>>

Wait == tested /\ Poll /\ UNCHANGED watchVars

\* Either branch ends the round.
Handle ==
  /\ RecvTask \/ \E w \in Workers : RecvWorker(w)
  /\ tested' = FALSE
  /\ UNCHANGED <<monitorVars, past>>
---------------------------------------------------------------------------
(* The monitor *)

StartMonitor ==
  /\ monitorPc = "down" /\ monitors < MaxMonitors
  /\ monitorPc' = "connecting"
  /\ monitors' = monitors + 1
  /\ UNCHANGED <<vars, tested, channel, shown, past>>

\* The subscription to everything has reached the broker.
Subscribe ==
  /\ monitorPc = "connecting"
  /\ monitorPc' = "up"
  /\ UNCHANGED <<vars, tested, channel, shown, monitors, past>>

Show ==
  /\ monitorPc = "up" /\ channel # <<>>
  /\ shown' = Append(shown, Head(channel))
  /\ channel' = Tail(channel)
  /\ UNCHANGED <<vars, tested, monitorPc, monitors, past>>

\* Its loop has no end: it is stopped, and what it has not read is gone, as is what
\* it has printed.
StopMonitor ==
  /\ monitorPc # "down"
  /\ monitorPc' = "down"
  /\ channel' = <<>> /\ shown' = <<>>
  /\ UNCHANGED <<vars, tested, monitors, past>>
---------------------------------------------------------------------------
MBroker == Test \/ Wait \/ Handle
Others  == /\ Producer \/ \E w \in Workers : Worker(w) \/ Crash(w)
           /\ UNCHANGED watchVars
MNext == MBroker \/ Others \/ StartMonitor \/ Subscribe \/ Show \/ StopMonitor

MSpec == MInit /\ [][MNext]_<<vars, watchVars>>

\* As in TaskDispatch; whether a monitor runs is up to the operator.
MFairSpec ==
  /\ MSpec
  /\ WF_<<vars, watchVars>>(Producer /\ UNCHANGED watchVars)
  /\ WF_<<vars, watchVars>>(MBroker)
  /\ \A w \in Workers : WF_<<vars, watchVars>>(Worker(w) /\ UNCHANGED watchVars)
---------------------------------------------------------------------------
(* Properties *)

Snapshots == [room : Int, idle : Nat, processed : Nat, dropped : Nat]

\* The type of every variable.
MonitorTypeOK ==
  /\ tested \in BOOLEAN
  /\ monitors \in 0 .. MaxMonitors
  /\ monitorPc \in {"down", "connecting", "up"}
  /\ channel \in Seq(Snapshots) /\ Len(channel) <= MonitorHwm
  /\ monitorPc # "up" => channel = <<>>
  /\ shown \in Seq(Snapshots)
  /\ past \in Seq(Snapshots) /\ Len(past) <= MaxSnapshots

\* What the monitor has printed, and what is on its way to it.
Feed == shown \o channel

\* The reports are some of the states, in the order of these and none of them twice.
SomeOf(reports, states) ==
  \E at \in [DOMAIN reports -> DOMAIN states] :
    /\ \A i \in DOMAIN reports : reports[i] = states[at[i]]
    /\ \A i, j \in DOMAIN reports : i < j => at[i] < at[j]

\* Each report that the monitor prints or is sent is one state that the broker has
\* been in, its four figures of one moment, in which tasks were still to come; and
\* the reports come in the order of those moments, however many have been dropped
\* on the way: none comes twice, and the totals on the screen never go back.
ReportsThePast ==
  /\ SomeOf(Feed, past)
  /\ \A i, j \in DOMAIN Feed :
       i <= j => /\ Feed[i].processed <= Feed[j].processed
                 /\ Feed[i].dropped <= Feed[j].dropped
  /\ \A i \in DOMAIN Feed :
       /\ Feed[i].processed <= Cardinality(completed)
       /\ Feed[i].dropped <= Cardinality(discarded)
       /\ Feed[i].processed + Feed[i].dropped < TaskCount
===========================================================================
