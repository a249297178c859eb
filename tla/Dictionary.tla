----------------------------- MODULE Dictionary -----------------------------
(***************************************************************************)
(* The dictionary service: clients that ask for one word after the other,  *)
(* and what answers them.  In the variant                                  *)
(*   "file"    the client searches the file itself (hw6/part3);            *)
(*   "direct"  one server does, over ipc or tcp (hw11/part1, part2);       *)
(*   "proxy"   a broker passes the requests to workers (hw11/part3).       *)
(* The sockets are those of ZeroMQ: a client (REQ) sends a request and     *)
(* then waits for its reply; a server (REP) answers the request that it    *)
(* has received; the broker's DEALER deals the requests out to the workers  *)
(* that are connected.  What a dead server had received is lost.           *)
(*                                                                         *)
(* The client of hw6 searches the file that convert has written; a server  *)
(* of hw11 searches the file that its command line names.                  *)
(***************************************************************************)
EXTENDS DictRecords

CONSTANTS Clients, Servers, Nobody,
          Questions,   \* the words that each client asks for
          Lines,       \* the text from which the file of hw6 has been converted
  Fixrec,      \* the file of the servers: its records, and what fills up their fields
          Missing,     \* the clients and servers that name a file that is not there
          MaxDeaths    \* how many servers may be killed

ASSUME DictionaryAssumption ==
  /\ Servers # {} /\ IsFiniteSet(Servers) /\ Nobody \notin Clients \union Servers
  /\ Questions \in [Clients -> Seq(Int)]
  /\ Missing \subseteq Clients \union Servers /\ MaxDeaths \in Nat

\* An empty file cannot be mapped.
ASSUME FixrecAssumption ==
  Fixrec.pad \in {Blanks, Nulls} /\ Fixrec.records \in Seq([word : Nat, text : Seq(Nat)]) \ {<<>>}

VARIABLES
  variant,
  pc,        \* each client: "ask", "wait", "done" or "crashed"
  shown,     \* each client: the answers that it has shown
  null,      \* the clients whose fopen has failed
  outbox,    \* the clients whose request has not left them
  front,     \* the clients whose request the broker has
  queue,     \* each server: the clients whose request has reached it
  busy,      \* each server: the client whose request it handles, or Nobody
  up,        \* the servers that run
  inbox,     \* each client: the replies that have reached it
  lost,      \* history: the clients whose request a server has died with
  deaths     \* the servers that have been killed so far

net  == <<outbox, front, queue, busy, up, inbox, lost, deaths>>
vars == <<variant, pc, shown, null, net>>

\* The file of the clients that search for themselves.
Table == Convert(Lines).records

\* What a server finds of a word in its own.
Found(word) == Binary(Fixrec.records, Fixrec.pad, word)

\* The only server of the direct variant.
Server1 == CHOOSE s \in Servers : TRUE

\* The word that a client asks for next.
Word(c) == Questions[c][Len(shown[c]) + 1]
More(c) == Len(shown[c]) < Len(Questions[c])

Init ==
  /\ variant \in {"file", "direct", "proxy"}
  /\ pc = [c \in Clients |-> "ask"] /\ shown = [c \in Clients |-> <<>>]
  /\ null = {} /\ outbox = {} /\ front = {} /\ lost = {} /\ deaths = 0
  /\ queue = [s \in Servers |-> {}] /\ busy = [s \in Servers |-> Nobody]
  /\ up \in SUBSET (IF variant = "direct" THEN {Server1} ELSE Servers)
  /\ inbox = [c \in Clients |-> <<>>]
---------------------------------------------------------------------------
(* A client: main.c with lookup1.c, or lookup7.c to lookup9.c *)

\* Mutant: the client takes the text "XXXX" for the definition.
AnswerAsItComes(reply) == reply

\* FOUND or NOTFOUND: the text "XXXX" stands for the latter.
Answer(reply) == IF reply = <<Mark>> THEN NotFound ELSE reply

Shows(c, answer) == shown' = [shown EXCEPT ![c] = Append(@, answer)]

\* lookup1 in the process of the client.  strncpy leaves the copy without its
\* end, so that whatever the record held before may follow.
LookUp(c) ==
  /\ variant = "file" /\ pc[c] = "ask" /\ More(c) /\ c \notin Missing
  /\ LET text == Linear(Table, Word(c))
     IN CASE text = Crash    -> pc' = [pc EXCEPT ![c] = "crashed"] /\ UNCHANGED shown
          [] text = NotFound -> Shows(c, NotFound) /\ UNCHANGED pc
          [] OTHER -> (\E junk \in {<<>>, <<Junk>>} : Shows(c, text \o junk)) /\ UNCHANGED pc
  /\ UNCHANGED <<variant, null, net>>

\* The first time that the file cannot be opened counts as a word not found; the
\* second time the null pointer is rewound.
LookUpMissing(c) ==
  /\ variant = "file" /\ pc[c] = "ask" /\ More(c) /\ c \in Missing
  /\ IF c \in null
     THEN pc' = [pc EXCEPT ![c] = "crashed"] /\ UNCHANGED <<shown, null>>
     ELSE Shows(c, NotFound) /\ null' = null \union {c} /\ UNCHANGED pc
  /\ UNCHANGED <<variant, net>>

\* zmq_send, which does not wait for anybody to be there.
Ask(c) ==
  /\ variant # "file" /\ pc[c] = "ask" /\ More(c)
  /\ pc' = [pc EXCEPT ![c] = "wait"] /\ outbox' = outbox \union {c}
  /\ UNCHANGED <<variant, shown, null, front, queue, busy, up, inbox, lost, deaths>>

\* zmq_recv, and the answer that main prints.
Receive(c) ==
  /\ pc[c] = "wait" /\ inbox[c] # <<>>
  /\ Shows(c, Answer(inbox[c][1])) /\ pc' = [pc EXCEPT ![c] = "ask"]
  /\ inbox' = [inbox EXCEPT ![c] = <<>>]
  /\ UNCHANGED <<variant, null, outbox, front, queue, busy, up, lost, deaths>>

\* The input of a client of hw11 ends, and so does the client.
Leave(c) ==
  /\ variant # "file" /\ pc[c] = "ask" /\ ~More(c)
  /\ pc' = [pc EXCEPT ![c] = "done"]
  /\ UNCHANGED <<variant, shown, null, net>>

Client(c) == LookUp(c) \/ LookUpMissing(c) \/ Ask(c) \/ Receive(c) \/ Leave(c)
---------------------------------------------------------------------------
(* The network and the broker *)

\* The request reaches the server, once there is one; or the broker.
Deliver(c) ==
  /\ c \in outbox /\ outbox' = outbox \ {c}
  /\ \/ /\ variant = "direct" /\ Server1 \in up
        /\ queue' = [queue EXCEPT ![Server1] = @ \union {c}] /\ UNCHANGED front
     \/ /\ variant = "proxy"
        /\ front' = front \union {c} /\ UNCHANGED queue
  /\ UNCHANGED <<variant, pc, shown, null, busy, up, inbox, lost, deaths>>

\* zmq_proxy: a request goes to a worker, busy or not.
Forward(c, s) ==
  /\ variant = "proxy" /\ c \in front /\ s \in up
  /\ front' = front \ {c} /\ queue' = [queue EXCEPT ![s] = @ \union {c}]
  /\ UNCHANGED <<variant, pc, shown, null, outbox, busy, up, inbox, lost, deaths>>
---------------------------------------------------------------------------
(* A server, or worker *)

\* zmq_recv
Accept(s, c) ==
  /\ s \in up /\ busy[s] = Nobody /\ c \in queue[s]
  /\ busy' = [busy EXCEPT ![s] = c] /\ queue' = [queue EXCEPT ![s] = @ \ {c}]
  /\ UNCHANGED <<variant, pc, shown, null, outbox, front, up, inbox, lost, deaths>>

\* The server ends, with the requests that have reached it.
Ends(s) ==
  /\ up' = up \ {s}
  /\ lost' = lost \union queue[s] \union ({busy[s]} \ {Nobody})
  /\ queue' = [queue EXCEPT ![s] = {}] /\ busy' = [busy EXCEPT ![s] = Nobody]

\* Mutant: no reply is sent for a word that is not found.
ReplyFoundOnly(s) ==
  /\ s \in up /\ busy[s] # Nobody /\ s \notin Missing
  /\ LET text == Found(Word(busy[s]))
     IN inbox' = IF text = NotFound THEN inbox ELSE [inbox EXCEPT ![busy[s]] = <<text>>]
  /\ busy' = [busy EXCEPT ![s] = Nobody]
  /\ UNCHANGED <<variant, pc, shown, null, outbox, front, queue, up, lost, deaths>>

\* lookup and zmq_send: the reply goes to the client whose request it was.
Reply(s) ==
  /\ s \in up /\ busy[s] # Nobody /\ s \notin Missing
  /\ LET text == Found(Word(busy[s]))
     IN inbox' = [inbox EXCEPT ![busy[s]] = <<IF text = NotFound THEN <<Mark>> ELSE text>>]
  /\ busy' = [busy EXCEPT ![s] = Nobody]
  /\ UNCHANGED <<variant, pc, shown, null, outbox, front, queue, up, lost, deaths>>

\* The file is opened at the first lookup, so that a server without one ends with
\* its first request.
ExitMissing(s) ==
  /\ s \in up /\ busy[s] # Nobody /\ s \in Missing
  /\ Ends(s)
  /\ UNCHANGED <<variant, pc, shown, null, outbox, front, inbox, deaths>>

Serve(s) == Reply(s) \/ ExitMissing(s) \/ \E c \in Clients : Accept(s, c)

Kill(s) ==
  /\ s \in up /\ deaths < MaxDeaths /\ deaths' = deaths + 1
  /\ Ends(s)
  /\ UNCHANGED <<variant, pc, shown, null, outbox, front, inbox>>

Start(s) ==
  /\ variant # "file" /\ s \notin up
  /\ variant = "direct" => s = Server1
  /\ up' = up \union {s}
  /\ UNCHANGED <<variant, pc, shown, null, outbox, front, queue, busy, inbox, lost, deaths>>
---------------------------------------------------------------------------
Network(c) == Deliver(c) \/ \E s \in Servers : Forward(c, s)

Next == \/ \E c \in Clients : Client(c) \/ Network(c)
        \/ \E s \in Servers : Serve(s) \/ Kill(s) \/ Start(s)

Spec == Init /\ [][Next]_vars

\* The programs and the network run; nobody has to start or to kill a server.
FairSpec ==
  /\ Spec
  /\ \A c \in Clients : WF_vars(Client(c)) /\ WF_vars(Network(c))
  /\ \A s \in Servers : WF_vars(Serve(s))
---------------------------------------------------------------------------
(* Properties *)

\* The definition of a word in the text: the lines between it and the next blank
\* line, as many as there is room for.
IsHead(i)     == Lines[i] # Blank /\ (i = 1 \/ Lines[i - 1] = Blank)
Definition(i) ==
  LET end == Min({j \in i .. Len(Lines) : Lines[j] = Blank} \union {Len(Lines) + 1})
  IN SubSeq(Lines, i + 1, Min({end - 1, i + TextMax}))
Meaning(word) ==
  LET heads == {i \in DOMAIN Lines : IsHead(i) /\ Lines[i] = word}
  IN IF heads = {} THEN NotFound ELSE Definition(Min(heads))

\* A text as the exercise has it: a blank line ends each definition, and the words
\* are in dictionary order.
TextOK ==
  /\ Lines \in Seq(Nat)
  /\ \A i \in DOMAIN Lines : Lines[i] = Blank => i # 1 /\ Lines[i - 1] # Blank
  /\ \A i, j \in DOMAIN Lines : IsHead(i) /\ IsHead(j) /\ i < j => Lines[i] < Lines[j]

\* A file as lookup5.c supposes it, fields that end with a null included: the words
\* are in dictionary order.
FixrecOK ==
  /\ Fixrec.pad = Nulls
  /\ \A i, j \in DOMAIN Fixrec.records :
       i < j => Fixrec.records[i].word < Fixrec.records[j].word
  /\ \A i \in DOMAIN Fixrec.records : Len(Fixrec.records[i].text) <= TextMax

\* The linear search of convert's file finds what the text says of each word that is
\* asked for (a word without a definition ends lookup1), and the binary search of
\* fixrec what that file says of it.
SearchesFind ==
  \A c \in Clients : \A i \in DOMAIN Questions[c] :
    LET word == Questions[c][i]
    IN /\ Meaning(word) \in Seq(Int) /\ Entry(Fixrec.records, word) \in Seq(Int) \ {<<Mark>>}
       /\ Found(word) = Entry(Fixrec.records, word)
       /\ Linear(Table, word) \in {Meaning(word), Crash}

\* What a client shows that searches for itself is what the text from which its file
\* has been converted says of the word.
FileAnswers ==
  variant = "file" =>
    \A c \in Clients \ Missing : \A i \in DOMAIN shown[c] :
      IsPrefix(Meaning(Questions[c][i]), shown[c][i])

\* What a client shows that asks a server is what the server's file says of the word.
ServedAnswers ==
  variant # "file" =>
    \A c \in Clients : \A i \in DOMAIN shown[c] :
      shown[c][i] = Entry(Fixrec.records, Questions[c][i])

\* What a client shows for a word is what the dictionary says of it, whoever looks it
\* up, whatever other clients ask at the same time and whoever is killed.
RightAnswers == FileAnswers /\ ServedAnswers

\* A request on its way, or its reply, is in one place; a client waits for
\* nothing that is not on its way, unless a server has died with it.
OnePlace ==
  \A c \in Clients :
    LET places  == <<outbox, front, {d \in Clients : inbox[d] # <<>>}, lost>>
        found   == {i \in DOMAIN places : c \in places[i]}
        servers == {s \in Servers : c \in queue[s] \union {busy[s]}}
    IN Cardinality(found) + Cardinality(servers) = IF pc[c] = "wait" THEN 1 ELSE 0

\* A client that waits is answered, unless a server dies with its request or no
\* server is there at all.
Answered == \A c \in Clients : pc[c] = "wait" ~> pc[c] # "wait" \/ c \in lost \/ up = {}
===========================================================================
