----------------------------- MODULE MsgSeqNum -----------------------------
(***************************************************************************)
(* hw10/ex46_2: the sequence-number server with System V message queues.   *)
(* A queue is there until it is removed, whoever lives.                    *)
(***************************************************************************)
EXTENDS SeqService

QStart ==
  /\ Down /\ run < MaxRuns
  /\ run' = run + 1
  /\ server' = [pc |-> "read", client |-> Nobody, seqNum |-> 0]
  /\ UNCHANGED <<pc, requests, replies, result>>

QRead == /\ server.pc = "read" /\ Take("answer")
         /\ UNCHANGED <<run, pc, replies, result>>

\* msgsnd: the queue of the client is there, even if the client is not.
QAnswer ==
  /\ server.pc = "answer"
  /\ replies' = [replies EXCEPT ![server.client] = <<Answer>>]
  /\ NextNumber
  /\ UNCHANGED <<run, pc, requests, result>>

QServer == QRead \/ QAnswer

\* The server is killed.
QCrash ==
  /\ ~Down
  /\ server' = [server EXCEPT !.pc = "down", !.client = Nobody]
  /\ UNCHANGED <<run, pc, requests, replies, result>>
---------------------------------------------------------------------------
\* msgget: fails if there never was a server.
QConnect(c) ==
  /\ pc[c] = "start"
  /\ Goes(c, IF run = 0 THEN "failed" ELSE "request")
  /\ UNCHANGED <<server, run, requests, replies, result>>

QSend(c) == /\ pc[c] = "request" /\ Goes(c, "read")
            /\ requests' = Append(requests, c)
            /\ UNCHANGED <<server, run, replies, result>>

\* msgrcv, and the removal of the client's queue.
QReceive(c) == /\ pc[c] = "read" /\ replies[c] # <<>>
               /\ Displays(c) /\ Goes(c, "done")
               /\ UNCHANGED <<server, run, requests>>

QClient(c) == QConnect(c) \/ QSend(c) \/ QReceive(c)

QKill(c) == /\ c \in Mortal /\ ~Gone(c) /\ Goes(c, "killed")
            /\ UNCHANGED <<server, run, requests, replies, result>>
===========================================================================
