----------------------------- MODULE SeqServers -----------------------------
(***************************************************************************)
(* The two sequence-number services of hw10, one or the other of them, and *)
(* what they promise.                                                      *)
(***************************************************************************)
EXTENDS FifoSeqNum, MsgSeqNum

Server == \/ service = "fifo" /\ FServer
          \/ service = "queue" /\ QServer

Client(c) == \/ service = "fifo" /\ FClient(c)
             \/ service = "queue" /\ QClient(c)

\* The user starts and kills servers, and kills clients.
User == \/ service = "fifo" /\ (FStart \/ FCrash \/ \E c \in Clients : FKill(c))
        \/ service = "queue" /\ (QStart \/ QCrash \/ \E c \in Clients : QKill(c))

Next == /\ Server \/ User \/ \E c \in Clients : Client(c)
        /\ UNCHANGED service

Spec == Init /\ [][Next]_vars

\* The programs run; nobody has to start a server, or to kill anything.
FairSpec ==
  /\ Spec
  /\ WF_vars(Server /\ UNCHANGED service)
  /\ \A c \in Clients : WF_vars(Client(c) /\ UNCHANGED service)
---------------------------------------------------------------------------
(* Properties *)

Pending(c) == c \in ToSet(requests) \/ server.client = c

\* The number that a client has, be it displayed or still in its FIFO or queue.
Numbers ==
  INSTANCE SeqNumbers
    WITH next  <- server.seqNum,
         given <- [c \in Clients |-> IF replies[c] # <<>> THEN Head(replies[c]) ELSE result[c]]

\* The services allocate unique sequential numbers, however clients and server
\* are killed and the server is started again.
ImplementsNumbers == Numbers!Spec

\* The request of a client that lives is not lost before the server reads it,
\* though the server be killed and started again.
RequestsKept ==
  [][\A c \in ToSet(requests) :
       c \in ToSet(requests') \/ server'.client = c \/ Gone(c)']_vars

\* A client that waits for its reply when the server has not yet given it up is
\* answered, unless one of the two is killed.
Served ==
  \A c \in Clients :
    pc[c] \in {"open", "read"} /\ Pending(c) ~> pc[c] \in {"done", "killed"} \/ Down
===========================================================================
