----------------------------- MODULE FifoSeqNum -----------------------------
(***************************************************************************)
(* hw10/ex44_6: the sequence-number server with FIFOs.  A FIFO that nobody *)
(* has open is empty.  An open for reading waits for a writer, and counts  *)
(* as a reader while it waits; the other way round likewise.               *)
(***************************************************************************)
EXTENDS SeqService

\* Mutant: a client closes the server's FIFO once it has made its request.
ConnectedBriefly == {"request", "choose"}

\* Where a client has the server's FIFO open: it closes it only by ending.
Connected == {"request", "choose", "open", "nap", "read"}

\* What is left in the server's FIFO if the clients are at the places q, and the
\* server is up or not: nothing, if nobody has it open.
Kept(q, up) ==
  IF up \/ \E c \in Clients : q[c] \in Connected THEN requests ELSE <<>>

\* The client has its own FIFO open, or waits for the server to open it.
Reading(c) == pc[c] \in {"open", "read"}

\* The client's own FIFO has a name: from mkfifo to removeFifo.  A client that is
\* killed leaves it behind.
Named(c) == pc[c] \notin {"start", "done", "failed"}
---------------------------------------------------------------------------
(* The server *)

\* mkfifo, and the open that waits until some client has opened it too.
FStart ==
  /\ Down /\ run < MaxRuns
  /\ run' = run + 1
  /\ server' = [pc |-> IF \E c \in Clients : pc[c] \in Connected THEN "read" ELSE "opening",
                client |-> Nobody, seqNum |-> 0]
  /\ UNCHANGED <<pc, requests, replies, result>>

FRead == /\ server.pc = "read" /\ Take("open")
         /\ UNCHANGED <<run, pc, replies, result>>

\* The client's FIFO is opened at once, or not at all; if it is there and nobody
\* reads it, the server sleeps before it tries again.
FOpen ==
  /\ server.pc = "open"
  /\ \/ /\ Reading(server.client) /\ Serves("answer")
        /\ Goes(server.client, "read")
     \/ /\ ~Reading(server.client) /\ Named(server.client)
        /\ Serves("retry") /\ UNCHANGED pc
     \/ /\ ~Named(server.client)
        /\ Ready /\ UNCHANGED pc
  /\ UNCHANGED <<run, requests, replies, result>>

\* Mutant: what the second try has opened is not used.
FRetryNot ==
  /\ server.pc = "retry"
  /\ Ready
  /\ IF Reading(server.client) THEN Goes(server.client, "read") ELSE UNCHANGED pc
  /\ UNCHANGED <<run, requests, replies, result>>

\* The second try is the last.
FRetry ==
  /\ server.pc = "retry"
  /\ IF Reading(server.client)
     THEN Serves("answer") /\ Goes(server.client, "read")
     ELSE Ready /\ UNCHANGED pc
  /\ UNCHANGED <<run, requests, replies, result>>

\* write fails if the client has been killed since.
FAnswer ==
  /\ server.pc = "answer"
  /\ replies' = IF Reading(server.client)
                THEN [replies EXCEPT ![server.client] = <<Answer>>] ELSE replies
  /\ NextNumber
  /\ UNCHANGED <<run, pc, requests, result>>

FServer == FRead \/ FOpen \/ FRetry \/ FAnswer

\* The server is killed.
FCrash ==
  /\ ~Down
  /\ server' = [server EXCEPT !.pc = "down", !.client = Nobody]
  /\ requests' = Kept(pc, FALSE)
  /\ UNCHANGED <<run, pc, replies, result>>
---------------------------------------------------------------------------
(* A client *)

\* A client that ends gives up what it has open.
FEnd(c, place) == Goes(c, place) /\ requests' = Kept(pc', ~Down)

\* mkfifo, before anything is asked for.
FMake(c) == /\ pc[c] = "start" /\ Goes(c, "connect")
            /\ UNCHANGED <<server, run, requests, replies, result>>

\* open(SERVER_FIFO): waits for the server; fails if there never was one.
FConnect(c) ==
  /\ pc[c] = "connect"
  /\ \/ run = 0 /\ Goes(c, "failed") /\ UNCHANGED server
     \/ /\ ~Down /\ Goes(c, "request")
        /\ IF server.pc = "opening" THEN Serves("read") ELSE UNCHANGED server
  /\ UNCHANGED <<run, requests, replies, result>>

\* A write to a FIFO that has lost its reader kills the client.
FSend(c) ==
  /\ pc[c] = "request"
  /\ \/ ~Down /\ Goes(c, "choose") /\ requests' = Append(requests, c)
     \/ Down /\ FEnd(c, "killed")
  /\ UNCHANGED <<server, run, replies, result>>

\* At random, the client opens its FIFO or never does.
FChoose(c) ==
  /\ pc[c] = "choose"
  /\ Goes(c, "open") \/ Goes(c, "nap")
  /\ UNCHANGED <<server, run, requests, replies, result>>

FWakeUp(c) == /\ pc[c] = "nap" /\ FEnd(c, "done")
              /\ UNCHANGED <<server, run, replies, result>>

\* A client that reads the end of its FIFO fails.
FReceive(c) ==
  /\ pc[c] = "read"
  /\ \/ replies[c] # <<>> /\ FEnd(c, "done") /\ Displays(c)
     \/ /\ replies[c] = <<>> /\ ~(server.client = c /\ server.pc = "answer")
        /\ FEnd(c, "failed") /\ UNCHANGED <<replies, result>>
  /\ UNCHANGED <<server, run>>

FClient(c) == \/ FMake(c) \/ FConnect(c) \/ FSend(c) \/ FChoose(c)
              \/ FWakeUp(c) \/ FReceive(c)

FKill(c) == /\ c \in Mortal /\ ~Gone(c)
            /\ FEnd(c, "killed")
            /\ UNCHANGED <<server, run, replies, result>>

===========================================================================
