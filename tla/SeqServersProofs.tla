-------------------------- MODULE SeqServersProofs --------------------------
(***************************************************************************)
(* That the two sequence-number services of hw10 implement SeqNumbers and  *)
(* lose no request, for any clients, lengths of their sequences and kills. *)
(***************************************************************************)
EXTENDS SeqServers, TLAPS

ServerPlaces == {"down", "opening", "read", "open", "retry", "answer"}
ClientPlaces == {"start", "connect", "request", "choose", "open", "nap", "read",
                 "done", "failed", "killed"}

\* A number of some run, not NoResult.
Given == [run : Nat \ {0}, start : Nat]

QTypes ==
  /\ service \in {"fifo", "queue"}
  /\ server \in [pc : ServerPlaces, client : Clients \union {Nobody}, seqNum : Nat]
  /\ run \in Nat
  /\ pc \in [Clients -> ClientPlaces]
  /\ requests \in Seq(Clients)
  /\ replies \in [Clients -> Seq(Given)]
  /\ result \in [Clients -> Given \union {NoResult}]

\* The client has no number.
Fresh(c) == replies[c] = <<>> /\ result[c] = NoResult

\* The client has not asked yet.
Early(c) == pc[c] \in {"start", "connect", "request"}

\* The server handles a request.
Serving == server.pc \in {"open", "retry", "answer"}

\* A client that has not asked has no number and no request.  Each asks once: its
\* request is in the queue once, or with the server, and then it has no number.
Once ==
  /\ \A c \in Clients : Early(c) => Fresh(c)
  /\ \A i \in 1 .. Len(requests) : ~Early(requests[i]) /\ Fresh(requests[i])
  /\ \A i, j \in 1 .. Len(requests) : requests[i] = requests[j] => i = j
  /\ Serving =>
       /\ server.client \in Clients
       /\ ~Early(server.client) /\ Fresh(server.client)
       /\ \A i \in 1 .. Len(requests) : requests[i] # server.client

\* A client has displayed its number only when its queue is empty.
OneNumber == \A c \in Clients : replies[c] # <<>> => Len(replies[c]) = 1 /\ result[c] = NoResult

Started == ~Down => run > 0

QInv == QTypes /\ Once /\ OneNumber /\ Started

LEMMA InitQInv == Init => QInv
BY SeqServiceAssumption DEF Init, QInv, QTypes, Once, OneNumber, Started, Fresh, Early,
   Serving, NoResult, Given, Down, ServerPlaces, ClientPlaces
---------------------------------------------------------------------------
(* The steps of both services *)

\* At most one client moves, and none becomes early.
OneMoves ==
  pc' = pc \/ \E c \in Clients, place \in ClientPlaces :
                 /\ pc' = [pc EXCEPT ![c] = place]
                 /\ place \in {"start", "connect", "request"} => Early(c)

\* A step in which nobody asks, takes a request or gets a number: a client may move
\* on, the server may give up or begin a run, and requests may vanish.
Quiet ==
  /\ UNCHANGED <<service, replies, result>>
  /\ requests' \in {requests, <<>>}
  /\ OneMoves
  /\ server' \in [pc : ServerPlaces, client : Clients \union {Nobody}, seqNum : Nat]
  /\ Serving' => Serving /\ server'.client = server.client
  /\ run' \in Nat /\ run <= run'
  /\ server'.pc = "down" \/ ~Down \/ run' > 0

LEMMA EmptyRequests == <<>> \in Seq(Clients)
OBVIOUS

LEMMA QuietQInv == QInv /\ Quiet => QInv'
<1>. SUFFICES ASSUME QInv, Quiet  PROVE QInv'
  OBVIOUS
<1>1. QTypes'
  <2>1. requests' \in Seq(Clients)
    BY EmptyRequests DEF QInv, Quiet, QTypes
  <2>2. pc' \in [Clients -> ClientPlaces]
    BY DEF QInv, Quiet, QTypes, OneMoves
  <2>. QED  BY <2>1, <2>2 DEF QInv, Quiet, QTypes
<1>2. \A c \in Clients : Early(c)' => Early(c)
  BY DEF QInv, Quiet, QTypes, OneMoves, Early
<1>3. Once'
  <2>1. /\ \A i \in 1 .. Len(requests) : requests[i] \in Clients
        /\ requests' = requests \/ Len(requests') = 0
    BY DEF QInv, QTypes, Quiet
  <2>2. \A c \in Clients : (Early(c) => Fresh(c))'
    BY <1>2 DEF QInv, Quiet, Once, Fresh
  <2>3. \A i \in 1 .. Len(requests') : (~Early(requests[i]) /\ Fresh(requests[i]))'
    BY <1>2, <2>1 DEF QInv, Quiet, Once, Fresh, Early
  <2>4. \A i, j \in 1 .. Len(requests') : requests'[i] = requests'[j] => i = j
    BY <2>1 DEF QInv, Once
  <2>5. ASSUME Serving'
        PROVE  /\ server'.client \in Clients
               /\ (~Early(server.client) /\ Fresh(server.client))'
               /\ \A i \in 1 .. Len(requests') : requests'[i] # server'.client
    <3>1. Serving /\ server'.client = server.client
      BY <2>5 DEF Quiet
    <3>2. server.client \in Clients /\ ~Early(server.client) /\ Fresh(server.client)
          /\ \A i \in 1 .. Len(requests) : requests[i] # server.client
      BY <3>1 DEF QInv, Once
    <3>. QED  BY <1>2, <2>1, <3>1, <3>2 DEF Early, Fresh, Quiet
  <2>. QED  BY <2>2, <2>3, <2>4, <2>5 DEF Once
<1>4. OneNumber' /\ Started'
  BY DEF QInv, Quiet, QTypes, OneNumber, Started, Down
<1>. QED  BY <1>1, <1>3, <1>4 DEF QInv

\* The server takes a request.
LEMMA TakeQInv ==
  ASSUME QInv, server.pc = "read", NEW place \in {"open", "answer"}, Take(place),
         UNCHANGED <<service, run, pc, replies, result>>
  PROVE  QInv'
<1>. USE DEF Take
<1>1. /\ Head(requests) = requests[1] /\ requests[1] \in Clients /\ 1 \in 1 .. Len(requests)
      /\ Len(requests') = Len(requests) - 1 /\ requests' \in Seq(Clients)
      /\ \A i \in 1 .. Len(requests') : requests'[i] = requests[i + 1] /\ i + 1 \in 1 .. Len(requests)
  BY DEF QInv, QTypes
<1>2. QTypes'
  BY <1>1 DEF QInv, QTypes, ServerPlaces
<1>3. Once'
  <2>1. /\ \A i \in 1 .. Len(requests) : ~Early(requests[i]) /\ Fresh(requests[i])
        /\ \A i, j \in 1 .. Len(requests) : requests[i] = requests[j] => i = j
        /\ \A c \in Clients : Early(c) => Fresh(c)
    BY DEF QInv, Once
  <2>2. \A i \in 1 .. Len(requests') : (~Early(requests[i]) /\ Fresh(requests[i]))'
    BY <1>1, <2>1 DEF Early, Fresh
  <2>3. \A i, j \in 1 .. Len(requests') : requests'[i] = requests'[j] => i = j
    <3>. TAKE i, j \in 1 .. Len(requests')
    <3>. HAVE requests'[i] = requests'[j]
    <3>1. i + 1 = j + 1
      BY <1>1, <2>1
    <3>. QED  BY <3>1
  <2>4. server'.client = requests[1]
    BY <1>1 DEF QInv, QTypes
  <2>5. \A i \in 1 .. Len(requests') : requests'[i] # requests[1]
    BY <1>1, <2>1
  <2>6. (~Early(server.client) /\ Fresh(server.client))'
    BY <1>1, <2>1, <2>4 DEF Early, Fresh
  <2>. QED  BY <1>1, <2>1, <2>2, <2>3, <2>4, <2>5, <2>6 DEF Once, Early, Fresh
<1>4. OneNumber' /\ Started'
  BY DEF QInv, QTypes, OneNumber, Started, Down
<1>. QED  BY <1>2, <1>3, <1>4 DEF QInv

\* A client asks.
LEMMA SendQInv ==
  ASSUME QInv, NEW c \in Clients, pc[c] = "request", NEW place \in {"choose", "read"},
         Goes(c, place), requests' = Append(requests, c),
         UNCHANGED <<service, server, run, replies, result>>
  PROVE  QInv'
<1>. USE DEF Goes
<1>1. /\ Len(requests') = Len(requests) + 1 /\ requests' \in Seq(Clients)
      /\ \A i \in 1 .. Len(requests) : requests'[i] = requests[i] /\ requests[i] # c
      /\ requests'[Len(requests) + 1] = c
  BY DEF QInv, QTypes, Once, Early
<1>2. QTypes'
  BY <1>1 DEF QInv, QTypes, ClientPlaces
<1>3. \A d \in Clients : Early(d)' <=> Early(d) /\ d # c
  BY DEF QInv, QTypes, Early
<1>4. Fresh(c) /\ Early(c)
  BY DEF QInv, Once, Early
<1>5. Once'
  <2>1. /\ \A i \in 1 .. Len(requests) : ~Early(requests[i]) /\ Fresh(requests[i]) /\ requests[i] \in Clients
        /\ \A i, j \in 1 .. Len(requests) : requests[i] = requests[j] => i = j
        /\ \A d \in Clients : Early(d) => Fresh(d)
        /\ Len(requests) \in Nat
    BY DEF QInv, QTypes, Once
  <2>3. \A i \in 1 .. Len(requests') : i \in 1 .. Len(requests) \/ i = Len(requests) + 1
    BY <1>1, <2>1
  <2>4. \A i \in 1 .. Len(requests') : (~Early(requests[i]) /\ Fresh(requests[i]))'
    <3>. TAKE i \in 1 .. Len(requests')
    <3>1. CASE i \in 1 .. Len(requests)
      BY <1>1, <1>3, <2>1, <3>1 DEF Fresh, Early
    <3>2. CASE i = Len(requests) + 1
      BY <1>1, <1>3, <1>4, <3>2 DEF Fresh, Early
    <3>. QED  BY <2>3, <3>1, <3>2
  <2>5. \A i, j \in 1 .. Len(requests') : requests'[i] = requests'[j] => i = j
    BY <1>1, <2>1, <2>3
  <2>6. ASSUME Serving'
        PROVE  /\ server'.client \in Clients
               /\ (~Early(server.client) /\ Fresh(server.client))'
               /\ \A i \in 1 .. Len(requests') : requests'[i] # server'.client
    <3>1. /\ server.client \in Clients /\ ~Early(server.client) /\ Fresh(server.client)
          /\ \A i \in 1 .. Len(requests) : requests[i] # server.client
      BY <2>6 DEF QInv, Once, Serving
    <3>2. server.client # c
      BY <1>4, <3>1
    <3>. QED  BY <1>1, <1>3, <2>3, <3>1, <3>2 DEF Early, Fresh
  <2>7. \A d \in Clients : (Early(d) => Fresh(d))'
    BY <1>3, <2>1 DEF Fresh
  <2>. QED  BY <2>4, <2>5, <2>6, <2>7 DEF Once
<1>6. OneNumber' /\ Started'
  BY DEF QInv, QTypes, OneNumber, Started, Down
<1>. QED  BY <1>2, <1>5, <1>6 DEF QInv

\* The server has handled a request: its client has the answer, or nothing.
LEMMA AnswerQInv ==
  ASSUME QInv, server.pc = "answer", NextNumber,
         replies' \in {replies, [replies EXCEPT ![server.client] = <<Answer>>]},
         UNCHANGED <<service, run, pc, requests, result>>
  PROVE  QInv'
<1>1. server.client \in Clients /\ Fresh(server.client) /\ ~Early(server.client)
  BY DEF QInv, Once, Serving
<1>2. Answer \in Given
  BY DEF QInv, QTypes, Started, Down, Answer, Given
<1>3. SeqLen[server.client] \in Nat
  BY <1>1, SeqServiceAssumption
<1>4. QTypes'
  <2>1. <<Answer>> \in Seq(Given)
    BY <1>2
  <2>2. replies' \in [Clients -> Seq(Given)]
    BY <1>1, <2>1 DEF QInv, QTypes
  <2>3. server' \in [pc : ServerPlaces, client : Clients \union {Nobody}, seqNum : Nat]
    <3>1. server' = [pc |-> "read", client |-> Nobody, seqNum |-> server.seqNum + SeqLen[server.client]]
      BY DEF QInv, QTypes, NextNumber
    <3>2. server.seqNum + SeqLen[server.client] \in Nat
      BY <1>3 DEF QInv, QTypes
    <3>. QED  BY <3>1, <3>2 DEF ServerPlaces
  <2>. QED  BY <2>2, <2>3 DEF QInv, QTypes
<1>5. \A d \in Clients : d # server.client => replies'[d] = replies[d]
  BY <1>1 DEF QInv, QTypes
<1>6. Once'
  BY <1>1, <1>5 DEF QInv, QTypes, Once, Fresh, Early, Serving, NextNumber
<1>7. OneNumber' /\ Started'
  <2>1. \A d \in Clients : \/ replies'[d] = replies[d]
                          \/ (replies'[d] = <<Answer>> /\ d = server.client)
    BY <1>1 DEF QInv, QTypes
  <2>2. OneNumber'
    <3>. SUFFICES ASSUME NEW d \in Clients, replies'[d] # <<>>
                  PROVE  Len(replies'[d]) = 1 /\ result'[d] = NoResult
      BY DEF OneNumber
    <3>1. CASE replies'[d] = replies[d]
      BY <3>1 DEF QInv, OneNumber
    <3>2. CASE replies'[d] = <<Answer>> /\ d = server.client
      BY <1>1, <3>2 DEF Fresh
    <3>. QED  BY <2>1, <3>1, <3>2
  <2>. QED  BY <2>2 DEF QInv, Started, Down, NextNumber
<1>. QED  BY <1>4, <1>6, <1>7 DEF QInv

\* A client displays its number, and ends.
LEMMA DisplayQInv ==
  ASSUME QInv, NEW c \in Clients, pc[c] = "read", replies[c] # <<>>, Displays(c),
         Goes(c, "done"), requests' \in {requests, <<>>},
         UNCHANGED <<service, server, run>>
  PROVE  QInv'
<1>. USE DEF Goes, Displays
<1>1. Head(replies[c]) \in Given /\ ~Fresh(c)
  BY DEF QInv, QTypes, Fresh
<1>2. QTypes'
  <2>1. pc' \in [Clients -> ClientPlaces]
    BY DEF QInv, QTypes, ClientPlaces
  <2>3. requests' \in Seq(Clients)
    BY EmptyRequests DEF QInv, QTypes
  <2>2. replies' \in [Clients -> Seq(Given)] /\ result' \in [Clients -> Given \union {NoResult}]
    BY <1>1 DEF QInv, QTypes
  <2>. QED  BY <2>1, <2>2, <2>3 DEF QInv, QTypes
<1>3. \A d \in Clients : /\ Early(d)' => Early(d) /\ d # c
                         /\ d # c => (Fresh(d)' <=> Fresh(d)) /\ (Early(d)' <=> Early(d))
  BY DEF QInv, QTypes, Early, Fresh
<1>4. Once'
  BY <1>1, <1>3 DEF QInv, QTypes, Once, Serving
<1>5. OneNumber' /\ Started'
  BY DEF QInv, QTypes, OneNumber, Started, Down
<1>. QED  BY <1>2, <1>4, <1>5 DEF QInv
---------------------------------------------------------------------------
(* Which steps are quiet *)

\* The run and its next number stay.
Steady == run' = run /\ server'.seqNum = server.seqNum

Record(place, client, n) == [pc |-> place, client |-> client, seqNum |-> n]

LEMMA ServerParts ==
  ASSUME QInv
  PROVE  /\ server = Record(server.pc, server.client, server.seqNum)
         /\ server.seqNum \in Nat /\ server.client \in Clients \union {Nobody}
         /\ \A place \in ServerPlaces : Serves(place) => server' = Record(place, server.client, server.seqNum)
         /\ Ready => server' = Record("read", Nobody, server.seqNum)
BY DEF QInv, QTypes, Record, Serves, Ready

LEMMA EndQuiet ==
  ASSUME QInv, NEW c \in Clients, NEW place \in {"done", "failed", "killed"}, FEnd(c, place),
         UNCHANGED <<service, server, run, replies, result>>
  PROVE  Quiet /\ Steady
<1>1. OneMoves
  BY DEF OneMoves, FEnd, Goes, ClientPlaces
<1>2. requests' \in {requests, <<>>}
  BY DEF FEnd, Kept
<1>. QED  BY <1>1, <1>2 DEF QInv, QTypes, Quiet, Steady, Started, Serving, Down

\* A client moves on without asking.
LEMMA MoveQuiet ==
  ASSUME QInv, NEW c \in Clients, NEW place \in ClientPlaces, Goes(c, place),
         place \in {"start", "connect", "request"} => Early(c),
         UNCHANGED <<service, run, requests, replies, result>>,
         UNCHANGED server \/ (server.pc = "opening" /\ Serves("read"))
  PROVE  Quiet /\ Steady
<1>1. server' \in [pc : ServerPlaces, client : Clients \union {Nobody}, seqNum : Nat]
      /\ (Serving' => UNCHANGED server) /\ server'.seqNum = server.seqNum
  BY ServerParts DEF QInv, QTypes, Record, ServerPlaces, Serving
<1>2. run' > 0 \/ server'.pc = "down"
  BY ServerParts DEF QInv, QTypes, Started, Down
<1>3. OneMoves
  BY DEF OneMoves, Goes
<1>. QED  BY <1>1, <1>2, <1>3 DEF QInv, QTypes, Quiet, Steady, Serving

LEMMA GiveUpQuiet ==
  ASSUME QInv, ~Down, UNCHANGED <<service, run, pc, requests, replies, result>>, Ready
  PROVE  Quiet /\ Steady
<1>1. server' = Record("read", Nobody, server.seqNum) /\ server.seqNum \in Nat
  BY ServerParts
<1>. QED  BY <1>1 DEF QInv, QTypes, Quiet, OneMoves, Steady, Record, ServerPlaces, Serving, Down

LEMMA ServeQuiet ==
  ASSUME QInv, Serving, NEW place \in {"retry", "answer"}, Serves(place),
         UNCHANGED pc \/ (Reading(server.client) /\ Goes(server.client, "read")),
         UNCHANGED <<service, run, requests, replies, result>>
  PROVE  Quiet /\ Steady
<1>1. server' = Record(place, server.client, server.seqNum) /\ server.seqNum \in Nat
      /\ server.client \in Clients
  BY ServerParts DEF ServerPlaces, QInv, Once
<1>2. OneMoves
  BY <1>1 DEF OneMoves, Goes, ClientPlaces
<1>. QED  BY <1>1, <1>2 DEF QInv, QTypes, Quiet, Steady, Record, ServerPlaces, Serving, Down

LEMMA CrashQuiet ==
  ASSUME QInv, server' = [server EXCEPT !.pc = "down", !.client = Nobody],
         requests' \in {requests, <<>>}, UNCHANGED <<service, run, pc, replies, result>>
  PROVE  Quiet /\ Steady
<1>1. server' = Record("down", Nobody, server.seqNum) /\ server.seqNum \in Nat
  BY DEF QInv, QTypes, Record
<1>. QED  BY <1>1 DEF QInv, QTypes, Quiet, OneMoves, Steady, Record, ServerPlaces, Serving

LEMMA StartQuiet ==
  ASSUME QInv, run' = run + 1, NEW place \in {"read", "opening"}, server' = Record(place, Nobody, 0),
         UNCHANGED <<service, pc, requests, replies, result>>
  PROVE  Quiet
BY DEF QInv, QTypes, Quiet, OneMoves, Record, ServerPlaces, Serving
---------------------------------------------------------------------------
(* The number that each client has, in the terms of SeqNumbers *)

Held == [c \in Clients |-> IF replies[c] # <<>> THEN Head(replies[c]) ELSE result[c]]

LEMMA QuietHeld == Quiet => Held' = Held
BY DEF Quiet, Held

LEMMA HeldMaps ==
  /\ (Numbers!Init <=> run = 0 /\ server.seqNum = 0 /\ Held = [c \in Clients |-> Numbers!Nothing])
  /\ (Numbers!Start <=> run' = run + 1 /\ server'.seqNum = 0 /\ Held' = Held)
  /\ \A c \in Clients :
       /\ Numbers!Give(c) <=> /\ run > 0 /\ Held[c] = Numbers!Nothing
                              /\ Held' = [Held EXCEPT ![c] = Answer]
                              /\ server'.seqNum = server.seqNum + SeqLen[c] /\ run' = run
       /\ Numbers!Waste(c) <=> /\ run > 0 /\ server'.seqNum = server.seqNum + SeqLen[c]
                               /\ run' = run /\ Held' = Held
BY DEF Held, Answer, Numbers!Init, Numbers!Start, Numbers!Give, Numbers!Waste

\* What a step does to the numbers.
NumberStep == [Numbers!Next]_Numbers!vars

LEMMA SteadyNumbers == Steady /\ Held' = Held => NumberStep
BY DEF Steady, NumberStep, Numbers!vars, Held
---------------------------------------------------------------------------
(* The steps with numbers *)

\* A client that can be answered is given the next number; one that cannot costs it.
LEMMA AnswerNumbers ==
  ASSUME QInv, server.pc = "answer", NextNumber,
         replies' \in {replies, [replies EXCEPT ![server.client] = <<Answer>>]},
         UNCHANGED <<service, run, pc, requests, result>>
  PROVE  NumberStep
<1>. PICK c \in Clients : c = server.client
  BY DEF QInv, Once, Serving
<1>1. c \in Clients /\ replies[c] = <<>> /\ result[c] = NoResult /\ run > 0
  BY DEF QInv, Once, Serving, Fresh, Started, Down
<1>2. server'.seqNum = server.seqNum + SeqLen[c]
  BY DEF QInv, QTypes, NextNumber
<1>3. CASE replies' = replies
  <2>1. Held' = Held
    BY <1>3 DEF Held
  <2>2. Numbers!Waste(c)
    BY <1>1, <1>2, <2>1, HeldMaps
  <2>. QED  BY <1>1, <2>2 DEF NumberStep, Numbers!Next
<1>4. CASE replies' = [replies EXCEPT ![c] = <<Answer>>]
  <2>1. /\ replies'[c] = <<Answer>> /\ Head(replies'[c]) = Answer /\ replies'[c] # <<>>
        /\ \A d \in Clients : d # c => replies'[d] = replies[d]
    BY <1>1, <1>4 DEF QInv, QTypes
  <2>2. Held' = [Held EXCEPT ![c] = Answer]
    BY <1>1, <2>1 DEF Held
  <2>3. Held[c] = Numbers!Nothing
    BY <1>1 DEF Held, NoResult, Numbers!Nothing
  <2>4. Numbers!Give(c)
    BY <1>1, <1>2, <2>2, <2>3, HeldMaps
  <2>. QED  BY <1>1, <2>4 DEF NumberStep, Numbers!Next
<1>. QED  BY <1>3, <1>4

\* What a client displays is what it has been given.
LEMMA DisplayHeld ==
  ASSUME QInv, NEW c \in Clients, replies[c] # <<>>, Displays(c)
  PROVE  Held' = Held
<1>1. /\ replies'[c] = <<>> /\ result'[c] = Head(replies[c])
      /\ \A d \in Clients : d # c => replies'[d] = replies[d] /\ result'[d] = result[d]
  BY DEF QInv, QTypes, Displays
<1>. QED  BY <1>1 DEF Held

LEMMA StartNumbers ==
  ASSUME QInv, Quiet, run' = run + 1, server'.seqNum = 0
  PROVE  NumberStep
BY HeldMaps, QuietHeld DEF NumberStep, Numbers!Next

LEMMA InitNumbers == Init => Numbers!Init
<1>. SUFFICES ASSUME Init  PROVE Numbers!Init
  OBVIOUS
<1>1. run = 0 /\ server.seqNum = 0
  BY DEF Init
<1>2. Held = [c \in Clients |-> Numbers!Nothing]
  BY DEF Init, Held, NoResult, Numbers!Nothing
<1>. QED  BY <1>1, <1>2, HeldMaps
---------------------------------------------------------------------------
(* Every step of the services *)

\* What is shown of each step.
Good == QInv' /\ NumberStep

LEMMA QuietGood == QInv /\ Quiet /\ Steady => Good
BY QuietQInv, QuietHeld, SteadyNumbers DEF Good

LEMMA StartGood ==
  ASSUME QInv, run' = run + 1, NEW place \in {"read", "opening"}, server' = Record(place, Nobody, 0),
         UNCHANGED <<service, pc, requests, replies, result>>
  PROVE  Good
<1>1. server'.seqNum = 0
  BY DEF Record
<1>. QED  BY <1>1, StartQuiet, QuietQInv, StartNumbers DEF Good

LEMMA TakeGood ==
  ASSUME QInv, server.pc = "read", NEW place \in {"open", "answer"}, Take(place),
         UNCHANGED <<service, run, pc, replies, result>>
  PROVE  Good
<1>1. server'.seqNum = server.seqNum
  BY DEF Take, QInv, QTypes
<1>2. Held' = Held
  BY DEF Held
<1>. QED  BY <1>1, <1>2, TakeQInv, SteadyNumbers DEF Good, Steady

LEMMA SendGood ==
  ASSUME QInv, NEW c \in Clients, pc[c] = "request", NEW place \in {"choose", "read"},
         Goes(c, place), requests' = Append(requests, c),
         UNCHANGED <<service, server, run, replies, result>>
  PROVE  Good
<1>1. Held' = Held /\ Steady
  BY DEF Held, Steady
<1>. QED  BY <1>1, SendQInv, SteadyNumbers DEF Good

LEMMA DisplayGood ==
  ASSUME QInv, NEW c \in Clients, pc[c] = "read", replies[c] # <<>>, Displays(c),
         Goes(c, "done"), requests' \in {requests, <<>>},
         UNCHANGED <<service, server, run>>
  PROVE  Good
<1>1. Held' = Held /\ Steady
  BY DisplayHeld DEF Steady
<1>. QED  BY <1>1, DisplayQInv, SteadyNumbers DEF Good

LEMMA FServerGood == QInv /\ UNCHANGED service /\ (FServer \/ FStart \/ FCrash) => Good
<1>. SUFFICES ASSUME QInv, UNCHANGED service, FServer \/ FStart \/ FCrash  PROVE Good
  OBVIOUS
<1>1. CASE FRead
  BY <1>1, TakeGood DEF FRead
<1>2. CASE FOpen
  BY <1>2, ServeQuiet, GiveUpQuiet, QuietGood DEF FOpen, Serving, Down
<1>3. CASE FRetry
  BY <1>3, ServeQuiet, GiveUpQuiet, QuietGood DEF FRetry, Serving, Down
<1>4. CASE FAnswer
  BY <1>4, AnswerQInv, AnswerNumbers DEF FAnswer, Good
<1>5. CASE FStart
  BY <1>5, StartGood DEF FStart, Record
<1>6. CASE FCrash
  BY <1>6, CrashQuiet, QuietGood DEF FCrash, Kept
<1>. QED  BY <1>1, <1>2, <1>3, <1>4, <1>5, <1>6 DEF FServer

LEMMA FClientGood ==
  ASSUME QInv, UNCHANGED service, NEW c \in Clients, FClient(c) \/ FKill(c)
  PROVE  Good
<1>1. CASE FMake(c)
  BY <1>1, MoveQuiet, QuietGood DEF FMake, Early, ClientPlaces
<1>2. CASE FConnect(c)
  BY <1>2, MoveQuiet, QuietGood DEF FConnect, Early, ClientPlaces
<1>3. CASE FSend(c)
  BY <1>3, SendGood, EndQuiet, QuietGood DEF FSend
<1>4. CASE FChoose(c)
  BY <1>4, MoveQuiet, QuietGood DEF FChoose, ClientPlaces
<1>5. CASE FWakeUp(c)
  BY <1>5, EndQuiet, QuietGood DEF FWakeUp
<1>6. CASE FReceive(c)
  <2>1. CASE replies[c] # <<>> /\ FEnd(c, "done") /\ Displays(c)
    BY <1>6, <2>1, DisplayGood DEF FReceive, FEnd, Kept
  <2>2. CASE FEnd(c, "failed") /\ UNCHANGED <<replies, result>>
    BY <1>6, <2>2, EndQuiet, QuietGood DEF FReceive
  <2>. QED  BY <1>6, <2>1, <2>2 DEF FReceive
<1>7. CASE FKill(c)
  BY <1>7, EndQuiet, QuietGood DEF FKill
<1>. QED  BY <1>1, <1>2, <1>3, <1>4, <1>5, <1>6, <1>7 DEF FClient

LEMMA QServerGood == QInv /\ UNCHANGED service /\ (QServer \/ QStart \/ QCrash) => Good
<1>. SUFFICES ASSUME QInv, UNCHANGED service, QServer \/ QStart \/ QCrash  PROVE Good
  OBVIOUS
<1>1. CASE QRead
  BY <1>1, TakeGood DEF QRead
<1>2. CASE QAnswer
  BY <1>2, AnswerQInv, AnswerNumbers DEF QAnswer, Good
<1>3. CASE QStart
  BY <1>3, StartGood DEF QStart, Record
<1>4. CASE QCrash
  BY <1>4, CrashQuiet, QuietGood DEF QCrash
<1>. QED  BY <1>1, <1>2, <1>3, <1>4 DEF QServer

LEMMA QClientGood ==
  ASSUME QInv, UNCHANGED service, NEW c \in Clients, QClient(c) \/ QKill(c)
  PROVE  Good
<1>1. CASE QConnect(c)
  BY <1>1, MoveQuiet, QuietGood DEF QConnect, Early, ClientPlaces
<1>2. CASE QSend(c)
  BY <1>2, SendGood DEF QSend
<1>3. CASE QReceive(c)
  BY <1>3, DisplayGood DEF QReceive
<1>4. CASE QKill(c)
  BY <1>4, MoveQuiet, QuietGood DEF QKill, ClientPlaces
<1>. QED  BY <1>1, <1>2, <1>3, <1>4 DEF QClient

LEMMA NextGood == QInv /\ [Next]_vars => Good
<1>1. QInv /\ UNCHANGED vars => Good
  <2>. SUFFICES ASSUME QInv, UNCHANGED vars  PROVE Good
    OBVIOUS
  <2>1. Quiet /\ Steady
    BY DEF QInv, QTypes, Started, Quiet, OneMoves, Steady, Serving, Down, vars
  <2>. QED  BY <2>1, QuietGood
<1>2. QInv /\ Next => Good
  BY FServerGood, FClientGood, QServerGood, QClientGood DEF Next, Server, Client, User
<1>. QED  BY <1>1, <1>2

\* The numbers of the services, with FIFOs or with message queues, are those of
\* SeqNumbers: whatever is killed or started again, a client that is answered gets
\* the next number of the run, once, and a client that has gone costs its numbers.
THEOREM NumbersImplemented == Spec => ImplementsNumbers
<1>1. Init => QInv /\ Numbers!Init
  BY InitQInv, InitNumbers
<1>2. QInv /\ [Next]_vars => QInv' /\ [Numbers!Next]_Numbers!vars
  BY NextGood DEF Good, NumberStep
<1>. QED  BY <1>1, <1>2, PTL DEF Spec, ImplementsNumbers, Numbers!Spec
---------------------------------------------------------------------------
(* No request is lost *)

LEMMA InToSet ==
  ASSUME NEW s \in Seq(Clients), NEW i \in 1 .. Len(s)
  PROVE  s[i] \in ToSet(s)
BY DEF ToSet

LEMMA RequestStep ==
  ASSUME QInv, [Next]_vars, NEW c \in ToSet(requests)
  PROVE  c \in ToSet(requests') \/ server'.client = c \/ Gone(c)'
<1>1. PICK i \in 1 .. Len(requests) : requests[i] = c
  BY DEF QInv, QTypes, ToSet
<1>2. c \in Clients /\ ~Early(c) /\ pc[c] \in ClientPlaces
  BY <1>1 DEF QInv, QTypes, Once
<1>3. pc[c] \in Connected \/ Gone(c)
  BY <1>2 DEF Early, ClientPlaces, Connected, Gone
<1>. requests \in Seq(Clients) /\ requests' \in Seq(Clients)
  BY NextGood DEF Good, QInv, QTypes
<1>4. ASSUME requests' = requests  PROVE c \in ToSet(requests')
  BY <1>4
<1>5. ASSUME requests' = Tail(requests), server'.client = Head(requests)
      PROVE  c \in ToSet(requests') \/ server'.client = c
  <2>1. CASE i = 1
    BY <1>1, <1>5, <2>1 DEF QInv, QTypes
  <2>2. CASE i # 1
    <3>1. i - 1 \in 1 .. Len(requests') /\ requests'[i - 1] = c
      BY <1>1, <1>5, <2>2
    <3>. QED  BY <3>1, InToSet
  <2>. QED  BY <2>1, <2>2
<1>6. ASSUME NEW d \in Clients, requests' = Append(requests, d)  PROVE c \in ToSet(requests')
  <2>1. requests'[i] = c /\ i \in 1 .. Len(requests')
    BY <1>1, <1>6
  <2>. QED  BY <2>1, InToSet
<1>7. ASSUME NEW d \in Clients, NEW place \in {"done", "failed", "killed"}, FEnd(d, place)
      PROVE  c \in ToSet(requests') \/ Gone(c)'
  <2>1. pc'[c] \in Connected \/ Gone(c)'
    BY <1>2, <1>3, <1>7 DEF FEnd, Goes, Gone, QInv, QTypes
  <2>. QED  BY <1>2, <1>4, <1>7, <2>1 DEF FEnd, Kept
<1>8. ASSUME FCrash  PROVE c \in ToSet(requests') \/ Gone(c)'
  BY <1>2, <1>3, <1>4, <1>8 DEF FCrash, Kept, Gone
<1>9. ASSUME NEW place, Take(place)  PROVE c \in ToSet(requests') \/ server'.client = c
  BY <1>5, <1>9 DEF Take, QInv, QTypes
<1>10. \/ requests' = requests \/ FCrash \/ (\E place : Take(place))
       \/ (\E d \in Clients : requests' = Append(requests, d))
       \/ (\E d \in Clients, place \in {"done", "failed", "killed"} : FEnd(d, place))
  BY DEF Next, vars, Server, Client, User, FServer, FRead, FOpen, FRetry, FAnswer, FClient, FMake,
     FConnect, FSend, FChoose, FWakeUp, FReceive, FKill, FStart, QServer, QRead, QAnswer, QStart,
     QCrash, QClient, QConnect, QSend, QReceive, QKill
<1>. QED  BY <1>4, <1>6, <1>7, <1>8, <1>9, <1>10

\* The FIFO of the server is emptied only when nobody has it open, and then every
\* client whose request was in it has ended; the message queue is never emptied.
THEOREM RequestsSafe == Spec => RequestsKept
<1>1. Init => QInv
  BY InitQInv
<1>2. QInv /\ [Next]_vars => QInv'
  BY NextGood DEF Good
<1>3. QInv /\ [Next]_vars =>
        [\A c \in ToSet(requests) :
           c \in ToSet(requests') \/ server'.client = c \/ Gone(c)']_vars
  BY RequestStep
<1>. QED  BY <1>1, <1>2, <1>3, PTL DEF Spec, RequestsKept
---------------------------------------------------------------------------
(* What it is worth to the clients *)

\* Everything that this run of the server has given lies below its next number.
Below ==
  /\ run \in Nat /\ server.seqNum \in Nat /\ Held \in [Clients -> Numbers!Sequence]
  /\ \A c \in Clients :
       /\ Held[c].run <= run
       /\ Held[c].run = run /\ Held[c] # Numbers!Nothing
            => Held[c].start + SeqLen[c] <= server.seqNum

\* Unique, in the terms of Held.
Apart ==
  \A c, d \in Clients :
    /\ c # d
    /\ Held[c] # Numbers!Nothing /\ Held[d] # Numbers!Nothing
    /\ Held[c].run = Held[d].run
    => (Held[c].start .. Held[c].start + SeqLen[c] - 1)
         \intersect (Held[d].start .. Held[d].start + SeqLen[d] - 1) = {}

SInv == Below /\ Apart

LEMMA ApartUnique == Apart => Numbers!Unique
BY DEF Apart, Held, Numbers!Unique, Numbers!Has, Numbers!Numbers

LEMMA InitSInv == Numbers!Init => SInv
BY HeldMaps DEF SInv, Apart, Below, Numbers!Nothing, Numbers!Sequence

LEMMA StartSInv == SInv /\ Numbers!Start => SInv'
<1>. SUFFICES ASSUME SInv, Numbers!Start  PROVE SInv'
  OBVIOUS
<1>1. run' = run + 1 /\ server'.seqNum = 0 /\ Held' = Held
  BY HeldMaps
<1>2. Below'
  BY <1>1 DEF SInv, Below, Numbers!Sequence, Numbers!Nothing
<1>3. Apart'
  BY <1>1 DEF SInv, Apart, Numbers!Nothing
<1>. QED  BY <1>2, <1>3 DEF SInv

LEMMA WasteSInv ==
  ASSUME SInv, NEW c \in Clients, Numbers!Waste(c)
  PROVE  SInv'
<1>1. run' = run /\ server'.seqNum = server.seqNum + SeqLen[c] /\ Held' = Held /\ SeqLen[c] \in Nat
  BY HeldMaps, SeqServiceAssumption
<1>2. Below'
  BY <1>1, SeqServiceAssumption DEF SInv, Below, Numbers!Sequence, Numbers!Nothing
<1>3. Apart'
  BY <1>1 DEF SInv, Apart, Numbers!Nothing
<1>. QED  BY <1>2, <1>3 DEF SInv

\* The new sequence begins where all others of this run have ended.
LEMMA GiveSInv ==
  ASSUME SInv, NEW c \in Clients, Numbers!Give(c)
  PROVE  SInv'
<1>1. /\ run' = run /\ run > 0 /\ server'.seqNum = server.seqNum + SeqLen[c] /\ SeqLen[c] \in Nat
      /\ Held' = [Held EXCEPT ![c] = Answer]
  BY HeldMaps, SeqServiceAssumption
<1>2. /\ Held'[c] = [run |-> run, start |-> server.seqNum]
      /\ \A d \in Clients \ {c} : Held'[d] = Held[d]
  BY <1>1 DEF SInv, Below, Answer
<1>3. Below'
  <2>1. /\ run \in Nat /\ server.seqNum \in Nat /\ server'.seqNum \in Nat
        /\ Held' \in [Clients -> Numbers!Sequence]
    BY <1>1, <1>2 DEF SInv, Below, Answer, Numbers!Sequence
  <2>2. ASSUME NEW d \in Clients
        PROVE  /\ Held'[d].run <= run'
               /\ Held'[d].run = run' /\ Held'[d] # Numbers!Nothing
                    => Held'[d].start + SeqLen[d] <= server'.seqNum
    <3>1. CASE d = c
      BY <1>1, <1>2, <2>1, <3>1
    <3>2. CASE d # c
      BY <1>1, <1>2, <2>1, <3>2, SeqServiceAssumption DEF SInv, Below, Numbers!Sequence
    <3>. QED  BY <3>1, <3>2
  <2>. QED  BY <1>1, <2>1, <2>2 DEF Below, Numbers!Nothing
<1>4. ASSUME NEW d \in Clients \ {c}, Held[d] # Numbers!Nothing, Held[d].run = run
      PROVE  (Held[d].start .. Held[d].start + SeqLen[d] - 1)
               \intersect (server.seqNum .. server.seqNum + SeqLen[c] - 1) = {}
  BY <1>4, SeqServiceAssumption DEF SInv, Below, Numbers!Sequence
<1>5. Apart'
  <2>. SUFFICES ASSUME NEW d \in Clients, NEW e \in Clients, d # e,
                       Held'[d] # Numbers!Nothing, Held'[e] # Numbers!Nothing, Held'[d].run = Held'[e].run
                PROVE  (Held'[d].start .. Held'[d].start + SeqLen[d] - 1)
                         \intersect (Held'[e].start .. Held'[e].start + SeqLen[e] - 1) = {}
    BY DEF Apart, Numbers!Nothing
  <2>1. CASE d = c
    BY <1>2, <1>4, <2>1
  <2>2. CASE e = c
    BY <1>2, <1>4, <2>2
  <2>3. CASE d # c /\ e # c
    BY <1>2, <2>3 DEF SInv, Apart
  <2>. QED  BY <2>1, <2>2, <2>3
<1>. QED  BY <1>3, <1>5 DEF SInv

LEMMA NumberStepSInv == SInv /\ NumberStep => SInv'
<1>1. SInv /\ Numbers!Next => SInv'
  BY StartSInv, WasteSInv, GiveSInv DEF Numbers!Next
<1>2. SInv /\ UNCHANGED Numbers!vars => SInv'
  <2>. SUFFICES ASSUME SInv, UNCHANGED Numbers!vars  PROVE SInv'
    OBVIOUS
  <2>1. run' = run /\ server'.seqNum = server.seqNum /\ Held' = Held
    BY DEF Numbers!vars, Held
  <2>. QED  BY <2>1 DEF SInv, Apart, Below, Numbers!Sequence, Numbers!Nothing
<1>. QED  BY <1>1, <1>2 DEF NumberStep

\* No two clients are given a number in common by one run of either server: not when
\* clients have gone and cost their numbers, and not when the server is started again
\* while the numbers of the run before are still about.
THEOREM NumbersAreUnique == Spec => []Numbers!Unique
<1>1. Init => QInv /\ SInv
  BY InitQInv, InitNumbers, InitSInv
<1>2. QInv /\ SInv /\ [Next]_vars => QInv' /\ SInv'
  BY NextGood, NumberStepSInv DEF Good
<1>3. SInv => Numbers!Unique
  BY ApartUnique DEF SInv
<1>. QED  BY <1>1, <1>2, <1>3, PTL DEF Spec
===========================================================================
