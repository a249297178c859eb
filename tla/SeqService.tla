----------------------------- MODULE SeqService -----------------------------
(***************************************************************************)
(* What the two sequence-number services of hw10 have in common: a server  *)
(* that handles one request at a time, and clients that each make one.     *)
(* Either side may be killed, and the server started again.                *)
(***************************************************************************)
EXTENDS Integers, Sequences, SequencesExt, FiniteSets

CONSTANTS Clients, SeqLen,
          Mortal,      \* the clients that may be killed
          MaxRuns,     \* how often the server may be started
          Nobody       \* not a client

ASSUME SeqServiceAssumption ==
  SeqLen \in [Clients -> Nat] /\ MaxRuns \in Nat /\ Nobody \notin Clients

VARIABLES
  service,    \* "fifo" or "queue"
  server,     \* what the server does, for which client, and its seqNum
  run,        \* how often the server has been started
  pc,         \* what each client does
  requests,   \* the requests in the server's FIFO, or queue
  replies,    \* what each client's own FIFO, or queue, holds
  result      \* history: the number that each client has displayed

vars == <<service, server, run, pc, requests, replies, result>>

NoResult == [run |-> 0, start |-> 0]

\* The server has been killed, or was never started.
Down == server.pc = "down"

Init ==
  /\ service \in {"fifo", "queue"}
  /\ server = [pc |-> "down", client |-> Nobody, seqNum |-> 0]
  /\ run = 0
  /\ pc = [c \in Clients |-> "start"]
  /\ requests = <<>>
  /\ replies = [c \in Clients |-> <<>>]
  /\ result = [c \in Clients |-> NoResult]

Goes(c, place) == pc' = [pc EXCEPT ![c] = place]
Serves(place)  == server' = [server EXCEPT !.pc = place]

Ready == server' = [server EXCEPT !.pc = "read", !.client = Nobody]

\* The server takes the oldest request.
Take(place) ==
  /\ requests # <<>>
  /\ server' = [server EXCEPT !.pc = place, !.client = Head(requests)]
  /\ requests' = Tail(requests)

Answer == [run |-> run, start |-> server.seqNum]

\* Mutant: a client that could not be answered costs no numbers, and neither
\* does any other.
NextNumberKept == server' = [server EXCEPT !.pc = "read", !.client = Nobody]

\* The end of the loop of the server: its numbers are used up, whether or not
\* the client has got them.
NextNumber ==
  server' = [server EXCEPT !.pc = "read", !.client = Nobody,
                           !.seqNum = @ + SeqLen[server.client]]

\* The reply that a client has read.
Displays(c) ==
  /\ result' = [result EXCEPT ![c] = Head(replies[c])]
  /\ replies' = [replies EXCEPT ![c] = <<>>]

\* The ends of a client: with or without a number, by an error, or killed.
Gone(c) == pc[c] \in {"done", "failed", "killed"}
===========================================================================
