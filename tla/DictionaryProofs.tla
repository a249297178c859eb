-------------------------- MODULE DictionaryProofs --------------------------
(***************************************************************************)
(* Proofs about Dictionary, for any clients, servers, questions and text:  *)
(* where a request is, what each search finds in its file, and that the    *)
(* reply is that to the question asked.                                    *)
(***************************************************************************)
EXTENDS Dictionary, FiniteSetTheorems, SequenceTheorems, WellFoundedInduction, TLAPS

DTypes ==
  /\ variant \in {"file", "direct", "proxy"}
  /\ pc \in [Clients -> {"ask", "wait", "done", "crashed"}]
  /\ outbox \subseteq Clients /\ front \subseteq Clients /\ lost \subseteq Clients
  /\ queue \in [Servers -> SUBSET Clients]
  /\ busy \in [Servers -> Clients \union {Nobody}]
  /\ inbox = [c \in Clients |-> inbox[c]]

\* The places where a request, or its reply, can be: with a server, or with none.
Kinds == {"outbox", "front", "inbox", "lost", "queue", "busy"}
Spots == Servers \union {Nobody}

At(c, kind, s) ==
  \/ kind = "outbox" /\ s = Nobody /\ c \in outbox
  \/ kind = "front" /\ s = Nobody /\ c \in front
  \/ kind = "inbox" /\ s = Nobody /\ inbox[c] # <<>>
  \/ kind = "lost" /\ s = Nobody /\ c \in lost
  \/ kind = "queue" /\ s \in Servers /\ c \in queue[s]
  \/ kind = "busy" /\ s \in Servers /\ busy[s] = c

\* A client waits for what is somewhere, and it is nowhere else: a request that a
\* server handles is not also in its queue.
Somewhere(c) == pc[c] = "wait" <=> \E kind \in Kinds, s \in Spots : At(c, kind, s)
OnlyThere(c) ==
  \A kind, other \in Kinds : \A s, t \in Spots :
    At(c, kind, s) /\ At(c, other, t) => kind = other /\ s = t

DInv == DTypes /\ \A c \in Clients : Somewhere(c) /\ OnlyThere(c)

\* The reply that a client's question should get.
Says(word) == Entry(Fixrec.records, word)
Expected(c) == IF Says(Word(c)) = NotFound THEN <<Mark>> ELSE Says(Word(c))

\* A client that waits has a question left, and only clients with sockets wait.  The
\* reply that has reached a client answers the question it waits with.
Asks(c) ==
  /\ pc[c] = "wait" => More(c) /\ variant # "file"
  /\ inbox[c] # <<>> => inbox[c] = <<Expected(c)>>

\* Enough for RightAnswers.
Texts == Seq(Int)
AInv ==
  /\ shown \in [Clients -> Seq(Texts)]
  /\ \A c \in Clients : Len(shown[c]) <= Len(Questions[c]) /\ Asks(c)
  /\ RightAnswers
---------------------------------------------------------------------------
(* One request and its places *)

LEMMA ServersAreNotNobody == Nobody \notin Servers /\ Nobody \notin Clients
BY DictionaryAssumption

\* Nothing about this client changes.
Stays(c) ==
  /\ pc'[c] = "wait" <=> pc[c] = "wait"
  /\ \A kind \in Kinds, s \in Spots : At(c, kind, s)' <=> At(c, kind, s)

LEMMA StaysPlaced ==
  ASSUME NEW c, Stays(c), Somewhere(c), OnlyThere(c)
  PROVE  Somewhere(c)' /\ OnlyThere(c)'
BY DEF Stays, Somewhere, OnlyThere

\* What was in the one place is now in the other.
Goes(c, kind, s, other, t) ==
  /\ pc[c] = "wait" /\ pc'[c] = "wait"
  /\ At(c, kind, s) /\ At(c, other, t)'
  /\ \A k \in Kinds, u \in Spots :
       At(c, k, u)' => (k = other /\ u = t) \/ (At(c, k, u) /\ ~(k = kind /\ u = s))

LEMMA GoesPlaced ==
  ASSUME NEW c, NEW kind \in Kinds, NEW other \in Kinds, NEW s \in Spots, NEW t \in Spots,
         Goes(c, kind, s, other, t), Somewhere(c), OnlyThere(c)
  PROVE  Somewhere(c)' /\ OnlyThere(c)'
<1>1. \A k \in Kinds, u \in Spots : At(c, k, u)' => k = other /\ u = t
  BY DEF Goes, OnlyThere
<1>. QED  BY <1>1 DEF Goes, Somewhere, OnlyThere

Placed(c) == Somewhere(c) /\ OnlyThere(c)

LEMMA InitDInv == Init => DInv
<1>. SUFFICES ASSUME Init  PROVE DInv
  OBVIOUS
<1>1. DTypes
  BY DEF Init, DTypes
<1>2. \A c \in Clients, kind \in Kinds, s \in Spots : ~At(c, kind, s)
  BY ServersAreNotNobody DEF Init, At
<1>3. \A c \in Clients : pc[c] = "ask"
  BY DEF Init
<1>. QED  BY <1>1, <1>2, <1>3 DEF DInv, Somewhere, OnlyThere

\* The steps of a client that concern no request: searches in its own process, and
\* the end.
LEMMA AloneDInv ==
  ASSUME DInv, NEW c \in Clients, pc[c] = "ask", NEW place \in {"ask", "done", "crashed"},
         pc' = [pc EXCEPT ![c] = place], UNCHANGED <<variant, net>>
  PROVE  DInv'
<1>1. DTypes'
  BY DEF DInv, DTypes, net
<1>2. \A d \in Clients : Stays(d)
  BY DEF DInv, DTypes, Stays, At, net
<1>. QED  BY <1>1, <1>2, StaysPlaced DEF DInv

LEMMA AskDInv ==
  ASSUME DInv, NEW c \in Clients, Ask(c)
  PROVE  DInv'
<1>. USE DEF Ask
<1>1. DTypes'
  BY DEF DInv, DTypes
<1>2. \A d \in Clients : d # c => Stays(d)
  BY DEF DInv, DTypes, Stays, At
<1>3. Placed(c)'
  <2>1. \A kind \in Kinds, s \in Spots : ~At(c, kind, s)
    BY DEF DInv, Somewhere
  <2>2. \A kind \in Kinds, s \in Spots : At(c, kind, s)' <=> kind = "outbox" /\ s = Nobody
    BY <2>1 DEF At
  <2>3. pc'[c] = "wait" /\ "outbox" \in Kinds /\ Nobody \in Spots
    BY DEF DInv, DTypes, Kinds, Spots
  <2>. QED  BY <2>2, <2>3 DEF Placed, Somewhere, OnlyThere
<1>. QED  BY <1>1, <1>2, <1>3, StaysPlaced DEF DInv, Placed

LEMMA ReceiveDInv ==
  ASSUME DInv, NEW c \in Clients, Receive(c)
  PROVE  DInv'
<1>. USE DEF Receive
<1>1. DTypes'
  BY DEF DInv, DTypes
<1>2. \A d \in Clients : d # c => Stays(d)
  BY DEF DInv, DTypes, Stays, At
<1>3. Placed(c)'
  <2>1. \A kind \in Kinds, s \in Spots : At(c, kind, s) => kind = "inbox" /\ s = Nobody
    BY DEF DInv, OnlyThere, At, Kinds, Spots
  <2>2. inbox'[c] = <<>> /\ pc'[c] = "ask"
    BY DEF DInv, DTypes
  <2>3. \A kind \in Kinds, s \in Spots : ~At(c, kind, s)'
    BY <2>1, <2>2 DEF At
  <2>. QED  BY <2>2, <2>3 DEF Placed, Somewhere, OnlyThere
<1>. QED  BY <1>1, <1>2, <1>3, StaysPlaced DEF DInv, Placed

\* One request goes from one place to another.
LEMMA GoesDInv ==
  ASSUME DInv, DTypes', NEW c \in Clients, NEW kind \in Kinds, NEW other \in Kinds,
         NEW s \in Spots, NEW t \in Spots, Goes(c, kind, s, other, t),
         \A d \in Clients : d # c => Stays(d)
  PROVE  DInv'
BY GoesPlaced, StaysPlaced DEF DInv

\* Where there is a request, there is a client that waits.
LEMMA AtWaits ==
  ASSUME DInv, NEW c \in Clients, NEW kind \in Kinds, NEW s \in Spots, At(c, kind, s)
  PROVE  pc[c] = "wait"
BY DEF DInv, Somewhere

LEMMA SpotFacts == Kinds = {"outbox", "front", "inbox", "lost", "queue", "busy"}
                   /\ Nobody \in Spots /\ (\A s \in Servers : s \in Spots /\ s # Nobody)
                   /\ Server1 \in Servers
BY ServersAreNotNobody, DictionaryAssumption DEF Kinds, Spots, Server1

LEMMA DeliverDInv ==
  ASSUME DInv, NEW c \in Clients, Deliver(c)
  PROVE  DInv'
<1>. USE DEF Deliver
<1>1. DTypes'
  BY SpotFacts DEF DInv, DTypes
<1>2. \A d \in Clients : d # c => Stays(d)
  BY SpotFacts DEF DInv, DTypes, Stays, At
<1>3. pc[c] = "wait" /\ At(c, "outbox", Nobody)
  BY AtWaits, SpotFacts DEF At
<1>4. CASE c \in queue'[Server1] /\ front' = front
  <2>1. Goes(c, "outbox", Nobody, "queue", Server1)
    BY <1>3, <1>4, SpotFacts DEF DInv, DTypes, Goes, At
  <2>. QED  BY <1>1, <1>2, <2>1, GoesDInv, SpotFacts
<1>5. CASE variant = "proxy"
  <2>1. Goes(c, "outbox", Nobody, "front", Nobody)
    BY <1>3, <1>5, SpotFacts DEF DInv, DTypes, Goes, At
  <2>. QED  BY <1>1, <1>2, <2>1, GoesDInv, SpotFacts
<1>. QED  BY <1>4, <1>5, SpotFacts DEF DInv, DTypes

LEMMA ForwardDInv ==
  ASSUME DInv, NEW c \in Clients, NEW s \in Servers, Forward(c, s)
  PROVE  DInv'
<1>. USE DEF Forward
<1>1. DTypes'
  BY DEF DInv, DTypes
<1>2. \A d \in Clients : d # c => Stays(d)
  BY SpotFacts DEF DInv, DTypes, Stays, At
<1>3. pc[c] = "wait" /\ At(c, "front", Nobody)
  BY AtWaits, SpotFacts DEF At
<1>4. Goes(c, "front", Nobody, "queue", s)
  BY <1>3, SpotFacts DEF DInv, DTypes, Goes, At
<1>. QED  BY <1>1, <1>2, <1>4, GoesDInv, SpotFacts

LEMMA AcceptDInv ==
  ASSUME DInv, NEW c \in Clients, NEW s \in Servers, Accept(s, c)
  PROVE  DInv'
<1>. USE DEF Accept
<1>1. DTypes'
  BY DEF DInv, DTypes
<1>2. \A d \in Clients : d # c => Stays(d)
  BY SpotFacts, ServersAreNotNobody DEF DInv, DTypes, Stays, At
<1>3. pc[c] = "wait" /\ At(c, "queue", s)
  BY AtWaits, SpotFacts DEF At
<1>4. Goes(c, "queue", s, "busy", s)
  BY <1>3, SpotFacts DEF DInv, DTypes, Goes, At
<1>. QED  BY <1>1, <1>2, <1>4, GoesDInv, SpotFacts

\* A server has sent some reply.
LEMMA ReplyDInv ==
  ASSUME DInv, NEW c \in Clients, NEW s \in Servers, busy[s] = c, NEW text,
         inbox' = [inbox EXCEPT ![c] = <<text>>], busy' = [busy EXCEPT ![s] = Nobody],
         UNCHANGED <<variant, pc, outbox, front, queue, lost>>
  PROVE  DInv'
<1>1. DTypes'
  BY DEF DInv, DTypes
<1>2. \A d \in Clients : d # c => Stays(d)
  BY SpotFacts, ServersAreNotNobody DEF DInv, DTypes, Stays, At
<1>3. pc[c] = "wait" /\ At(c, "busy", s)
  BY AtWaits, SpotFacts DEF At
<1>4. Goes(c, "busy", s, "inbox", Nobody)
  BY <1>3, SpotFacts, ServersAreNotNobody DEF DInv, DTypes, Goes, At
<1>. QED  BY <1>1, <1>2, <1>4, GoesDInv, SpotFacts

\* A server takes with it all that has reached it.
LEMMA EndsDInv ==
  ASSUME DInv, NEW s \in Servers, Ends(s), UNCHANGED <<variant, pc, outbox, front, inbox>>
  PROVE  DInv'
<1>. USE DEF Ends
<1>1. DTypes'
  BY DEF DInv, DTypes
<1>2. ASSUME NEW c \in Clients, c \notin queue[s], busy[s] # c
      PROVE  Placed(c)'
  <2>1. Stays(c)
    BY <1>2, SpotFacts, ServersAreNotNobody DEF DInv, DTypes, Stays, At
  <2>. QED  BY <2>1, StaysPlaced DEF DInv, Placed
<1>3. ASSUME NEW c \in Clients, c \in queue[s]
      PROVE  Placed(c)'
  <2>1. At(c, "queue", s) /\ pc[c] = "wait"
    BY <1>3, AtWaits, SpotFacts DEF At
  <2>2. busy[s] # c
    BY <2>1, SpotFacts DEF DInv, OnlyThere, At
  <2>3. Goes(c, "queue", s, "lost", Nobody)
    BY <1>3, <2>1, <2>2, SpotFacts, ServersAreNotNobody DEF DInv, DTypes, Goes, At
  <2>. QED  BY <2>3, GoesPlaced, SpotFacts DEF DInv, Placed
<1>4. ASSUME NEW c \in Clients, busy[s] = c
      PROVE  Placed(c)'
  <2>1. At(c, "busy", s) /\ pc[c] = "wait"
    BY <1>4, AtWaits, SpotFacts DEF At
  <2>2. c \notin queue[s]
    BY <2>1, SpotFacts DEF DInv, OnlyThere, At
  <2>3. Goes(c, "busy", s, "lost", Nobody)
    BY <1>4, <2>1, <2>2, SpotFacts, ServersAreNotNobody DEF DInv, DTypes, Goes, At
  <2>. QED  BY <2>3, GoesPlaced, SpotFacts DEF DInv, Placed
<1>. QED  BY <1>1, <1>2, <1>3, <1>4 DEF DInv, Placed

LEMMA UnmovedDInv == DInv /\ UNCHANGED <<variant, pc, outbox, front, queue, busy, inbox, lost>> => DInv'
<1>. SUFFICES ASSUME DInv, UNCHANGED <<variant, pc, outbox, front, queue, busy, inbox, lost>>
              PROVE  DInv'
  OBVIOUS
<1>1. DTypes'
  BY DEF DInv, DTypes
<1>2. \A c \in Clients : Stays(c)
  BY DEF Stays, At
<1>. QED  BY <1>1, <1>2, StaysPlaced DEF DInv

LEMMA ClientDInv ==
  ASSUME DInv, NEW c \in Clients, Client(c)
  PROVE  DInv'
<1>1. CASE LookUp(c) \/ LookUpMissing(c)
  <2>1. pc' = pc \/ pc' = [pc EXCEPT ![c] = "crashed"]
    BY <1>1 DEF LookUp, LookUpMissing
  <2>2. UNCHANGED <<variant, net>> /\ pc[c] = "ask"
    BY <1>1 DEF LookUp, LookUpMissing
  <2>3. CASE pc' = pc
    BY <2>2, <2>3, UnmovedDInv DEF net
  <2>4. CASE pc' = [pc EXCEPT ![c] = "crashed"]
    BY <2>2, <2>4, AloneDInv
  <2>. QED  BY <2>1, <2>3, <2>4
<1>2. CASE Leave(c)
  BY <1>2, AloneDInv DEF Leave
<1>. QED  BY <1>1, <1>2, AskDInv, ReceiveDInv DEF Client

LEMMA ServerDInv ==
  ASSUME DInv, NEW s \in Servers, Serve(s) \/ Kill(s) \/ Start(s)
  PROVE  DInv'
<1>1. CASE Reply(s)
  <2>. PICK c \in Clients : busy[s] = c
    BY <1>1 DEF Reply, DInv, DTypes
  <2>. PICK text : inbox' = [inbox EXCEPT ![c] = <<text>>]
    BY <1>1 DEF Reply
  <2>. QED  BY <1>1, ReplyDInv DEF Reply
<1>2. CASE ExitMissing(s)
  BY <1>2, EndsDInv DEF ExitMissing
<1>3. CASE Kill(s)
  BY <1>3, EndsDInv DEF Kill
<1>4. CASE Start(s)
  BY <1>4, UnmovedDInv DEF Start
<1>. QED  BY <1>1, <1>2, <1>3, <1>4, AcceptDInv DEF Serve

LEMMA NextDInv == DInv /\ [Next]_vars => DInv'
BY ClientDInv, ServerDInv, DeliverDInv, ForwardDInv, UnmovedDInv DEF Next, Network, vars, net
---------------------------------------------------------------------------
(* OnePlace counts the places *)

LEMMA DInvOnePlace == DInv => OnePlace
<1>. SUFFICES ASSUME DInv, NEW c \in Clients
              PROVE  LET places  == <<outbox, front, {d \in Clients : inbox[d] # <<>>}, lost>>
                         found   == {i \in DOMAIN places : c \in places[i]}
                         servers == {s \in Servers : c \in queue[s] \union {busy[s]}}
                     IN Cardinality(found) + Cardinality(servers) = IF pc[c] = "wait" THEN 1 ELSE 0
  BY DEF OnePlace
<1>. DEFINE places  == <<outbox, front, {d \in Clients : inbox[d] # <<>>}, lost>>
            found   == {i \in DOMAIN places : c \in places[i]}
            servers == {s \in Servers : c \in queue[s] \union {busy[s]}}
            names   == <<"outbox", "front", "inbox", "lost">>
<1>1. /\ found \subseteq {1, 2, 3, 4}
      /\ \A i \in {1, 2, 3, 4} : i \in found <=> At(c, names[i], Nobody)
  BY ServersAreNotNobody DEF At
<1>2. \A s \in Servers : s \in servers <=> At(c, "queue", s) \/ At(c, "busy", s)
  BY ServersAreNotNobody DEF At
<1>3. ASSUME NEW kind \in Kinds, NEW s \in Spots, At(c, kind, s)
      PROVE  \/ s = Nobody /\ \E i \in {1, 2, 3, 4} : kind = names[i]
             \/ s \in Servers /\ kind \in {"queue", "busy"}
  BY <1>3 DEF At
<1>. HIDE DEF found, servers
<1>4. ASSUME pc[c] # "wait"
      PROVE  Cardinality(found) + Cardinality(servers) = 0
  <2>1. \A kind \in Kinds, s \in Spots : ~At(c, kind, s)
    BY <1>4 DEF DInv, Somewhere
  <2>2. found = {} /\ servers = {}
    BY <1>1, <1>2, <2>1, SpotFacts DEF servers
  <2>. QED  BY <2>2, FS_EmptySet
<1>5. ASSUME pc[c] = "wait"
      PROVE  Cardinality(found) + Cardinality(servers) = 1
  <2>1. PICK kind \in Kinds, s \in Spots : At(c, kind, s)
    BY <1>5 DEF DInv, Somewhere
  <2>2. \A other \in Kinds, t \in Spots : At(c, other, t) => other = kind /\ t = s
    BY <2>1 DEF DInv, OnlyThere
  <2>3. CASE s = Nobody
    <3>1. PICK i \in {1, 2, 3, 4} : kind = names[i]
      BY <1>3, <2>1, <2>3, ServersAreNotNobody
    <3>2. found = {i}
      BY <1>1, <2>1, <2>2, <2>3, <3>1, SpotFacts
    <3>3. servers = {}
      BY <1>2, <2>2, <2>3, SpotFacts DEF servers
    <3>4. Cardinality(found) = 1
      BY <3>2, FS_Singleton
    <3>. QED  BY <3>3, <3>4, FS_EmptySet
  <2>4. CASE s \in Servers
    <3>1. kind \in {"queue", "busy"}
      BY <1>3, <2>1, <2>4, ServersAreNotNobody
    <3>2. servers = {s}
      BY <1>2, <2>1, <2>2, <2>4, <3>1, SpotFacts DEF servers
    <3>3. found = {}
      BY <1>1, <2>2, <2>4, SpotFacts
    <3>4. Cardinality(servers) = 1
      BY <3>2, FS_Singleton
    <3>. QED  BY <3>3, <3>4, FS_EmptySet
  <2>. QED  BY <2>3, <2>4 DEF Spots
<1>. QED  BY <1>4, <1>5 DEF found, servers

\* For any clients, servers and deaths: a request or its reply is in one place, and a
\* client waits exactly when it is in one.
THEOREM RequestsInOnePlace == Spec => []OnePlace
<1>1. Init => DInv
  BY InitDInv
<1>2. DInv /\ [Next]_vars => DInv'
  BY NextDInv
<1>3. DInv => OnePlace
  BY DInvOnePlace
<1>. QED  BY <1>1, <1>2, <1>3, PTL DEF Spec
---------------------------------------------------------------------------
(* Induction over the numbers, from their well-foundedness *)

Smaller == OpToRel(<, Nat)

LEMMA SmallerPairs ==
  /\ IsWellFoundedOn(Smaller, Nat)
  /\ \A m, n \in Nat : <<m, n>> \in Smaller <=> m < n
<1>1. IsWellFoundedOn(Smaller, Nat)
  BY NatLessThanWellFounded, Zenon DEF Smaller
<1>2. \A m, n \in Nat : <<m, n>> \in Smaller <=> m < n
  BY DEF Smaller, OpToRel
<1>. QED  BY <1>1, <1>2

LEMMA LeastNumber ==
  ASSUME NEW T \in SUBSET Nat, T # {}
  PROVE  \E n \in T : \A m \in T : n <= m
<1>1. PICK n \in T : \A m \in T : ~(<<m, n>> \in Smaller)
  <2>1. IsWellFoundedOn(Smaller, Nat) /\ T \subseteq Nat
    BY SmallerPairs
  <2>. QED  BY <2>1, WFMin, Zenon
<1>2. \A m \in T : ~(m < n)
  BY <1>1, SmallerPairs
<1>. QED  BY <1>2

LEMMA Induction ==
  ASSUME NEW S, 0 \in S, \A n \in Nat : n \in S => n + 1 \in S
  PROVE  \A n \in Nat : n \in S
<1>. SUFFICES ASSUME NEW k \in Nat, k \notin S  PROVE FALSE
  OBVIOUS
<1>1. PICK n \in Nat \ S : \A m \in Nat \ S : n <= m
  <2>1. Nat \ S \in SUBSET Nat /\ Nat \ S # {}
    OBVIOUS
  <2>. QED  BY <2>1, LeastNumber
<1>2. n # 0 /\ n - 1 \in Nat /\ (n - 1) + 1 = n
  BY <1>1
<1>3. n - 1 \in S
  BY <1>1, <1>2
<1>. QED  BY <1>1, <1>2, <1>3

LEMMA MinProps ==
  ASSUME NEW T \in SUBSET Nat, T # {}
  PROVE  Min(T) \in T /\ \A m \in T : Min(T) <= m
BY LeastNumber DEF Min
---------------------------------------------------------------------------
(* The lines of a definition *)

End(i) == Min({j \in i .. Len(Lines) : Lines[j] = Blank} \union {Len(Lines) + 1})

\* The last line of the definition at i, as far as n lines tell and a record holds.
LastLine(i, n) == Min({End(i) - 1, i + TextMax, n})

IsText(text, i, n) ==
  /\ text \in Seq(Nat) /\ Len(text) = LastLine(i, n) - i
  /\ \A k \in DOMAIN text : text[k] = Lines[i + k]

LEMMA TextFacts ==
  ASSUME TextOK
  PROVE  /\ Lines \in Seq(Nat) /\ Len(Lines) \in Nat /\ DOMAIN Lines = 1 .. Len(Lines)
         /\ \A i \in DOMAIN Lines : Lines[i] \in Nat
         /\ TextMax \in Nat \ {0}
BY TextMaxAssumption DEF TextOK

LEMMA EndOfDefinition ==
  ASSUME TextOK, NEW i \in DOMAIN Lines, Lines[i] # Blank
  PROVE  /\ End(i) \in i + 1 .. Len(Lines) + 1 /\ End(i) \in Nat
         /\ \A j \in i .. End(i) - 1 : Lines[j] # Blank
         /\ End(i) = Len(Lines) + 1 \/ Lines[End(i)] = Blank
<1>. DEFINE ends == {j \in i .. Len(Lines) : Lines[j] = Blank} \union {Len(Lines) + 1}
<1>1. ends \in SUBSET Nat /\ ends # {}
  BY TextFacts
<1>2. End(i) \in ends /\ \A j \in ends : End(i) <= j
  BY <1>1, MinProps DEF End
<1>3. End(i) \in Nat
  BY <1>1, <1>2
<1>. QED  BY <1>2, <1>3, TextFacts

LEMMA LastLineIs ==
  ASSUME TextOK, NEW i \in DOMAIN Lines, Lines[i] # Blank, NEW n \in i .. Len(Lines)
  PROVE  /\ LastLine(i, n) \in {End(i) - 1, i + TextMax, n}
         /\ LastLine(i, n) <= End(i) - 1 /\ LastLine(i, n) <= i + TextMax /\ LastLine(i, n) <= n
         /\ LastLine(i, n) \in i .. n
<1>1. {End(i) - 1, i + TextMax, n} \in SUBSET Nat /\ i \in Nat
  BY EndOfDefinition, TextFacts
<1>2. /\ LastLine(i, n) \in {End(i) - 1, i + TextMax, n}
      /\ \A m \in {End(i) - 1, i + TextMax, n} : LastLine(i, n) <= m
  BY <1>1, MinProps DEF LastLine
<1>3. i \in Nat /\ n \in Nat /\ i <= n /\ n <= n /\ i <= i + TextMax /\ TextMax \in Nat
  BY TextFacts, TextMaxAssumption
<1>4. End(i) \in Nat /\ i <= End(i) - 1
  BY EndOfDefinition, <1>3
<1>5. LastLine(i, n) <= End(i) - 1 /\ LastLine(i, n) <= i + TextMax /\ LastLine(i, n) <= n
  BY <1>2
<1>6. LastLine(i, n) \in Nat /\ i <= LastLine(i, n)
  BY <1>2, <1>3, <1>4
<1>. QED  BY <1>2, <1>3, <1>5, <1>6

\* The next line changes nothing of a definition that has ended, or that fills its
\* record; otherwise it is added to it.
LEMMA TextGrows ==
  ASSUME TextOK, NEW i \in DOMAIN Lines, Lines[i] # Blank, NEW n \in i .. Len(Lines) - 1,
         NEW text, IsText(text, i, n)
  PROVE  /\ End(i) <= n + 1 \/ Len(text) = TextMax => IsText(text, i, n + 1)
         /\ ~(End(i) <= n + 1 \/ Len(text) = TextMax) => IsText(Append(text, Lines[n + 1]), i, n + 1)
<1>1. n \in i .. Len(Lines) /\ n + 1 \in i .. Len(Lines) /\ i \in Nat /\ n \in Nat
  BY TextFacts
<1>2. /\ LastLine(i, n) \in {End(i) - 1, i + TextMax, n}
      /\ LastLine(i, n) <= End(i) - 1 /\ LastLine(i, n) <= i + TextMax /\ LastLine(i, n) <= n
  BY <1>1, LastLineIs
<1>3. /\ LastLine(i, n + 1) \in {End(i) - 1, i + TextMax, n + 1}
      /\ LastLine(i, n + 1) <= End(i) - 1 /\ LastLine(i, n + 1) <= i + TextMax
      /\ LastLine(i, n + 1) <= n + 1
  BY <1>1, LastLineIs
<1>4. End(i) \in Nat /\ TextMax \in Nat \ {0} /\ Lines[n + 1] \in Nat
  BY <1>1, EndOfDefinition, TextFacts
<1>5. text \in Seq(Nat) /\ Len(text) = LastLine(i, n) - i /\ Len(text) \in Nat
  BY DEF IsText
<1>6. CASE End(i) <= n + 1 \/ Len(text) = TextMax
  <2>1. LastLine(i, n + 1) = LastLine(i, n)
    <3>. DEFINE e == End(i)
                t == i + TextMax
                a == LastLine(i, n)
                b == LastLine(i, n + 1)
    <3>1. e \in Nat /\ t \in Nat /\ a \in {e - 1, t, n} /\ a <= t /\ a <= n /\ a <= e - 1
      BY <1>1, <1>2, <1>4
    <3>2. b \in {e - 1, t, n + 1} /\ b <= n + 1 /\ b <= t /\ b <= e - 1
      BY <1>3
    <3>3. e <= n + 1 \/ a = t
      <4>1. CASE Len(text) = TextMax
        <5>1. LastLine(i, n) - i = TextMax /\ LastLine(i, n) \in Nat
          BY <1>5, <3>1, <4>1
        <5>. QED  BY <1>1, <1>4, <5>1
      <4>. QED  BY <1>6, <4>1
    <3>. HIDE DEF e, t, a, b
    <3>4. a = b
      BY <1>1, <3>1, <3>2, <3>3
    <3>. QED  BY <3>4 DEF a, b
  <2>. QED  BY <1>6, <2>1 DEF IsText
<1>7. CASE ~(End(i) <= n + 1 \/ Len(text) = TextMax)
  <2>0. LastLine(i, n) # i + TextMax /\ End(i) - 1 > n
    BY <1>1, <1>4, <1>5, <1>7
  <2>1. LastLine(i, n) = n /\ LastLine(i, n + 1) = n + 1 /\ Len(text) = n - i
    <3>. DEFINE e == End(i)
                t == i + TextMax
                a == LastLine(i, n)
                b == LastLine(i, n + 1)
    <3>1. e \in Nat /\ t \in Nat /\ a \in {e - 1, t, n} /\ a <= t /\ a # t /\ a <= n /\ e - 1 > n
      BY <1>1, <1>2, <1>4, <2>0
    <3>2. b \in {e - 1, t, n + 1} /\ b <= n + 1
      BY <1>3
    <3>. HIDE DEF e, t, a, b
    <3>3. a = n /\ b = n + 1
      BY <1>1, <3>1, <3>2
    <3>. QED  BY <1>5, <3>3 DEF a, b
  <2>2. /\ Append(text, Lines[n + 1]) \in Seq(Nat)
        /\ Len(Append(text, Lines[n + 1])) = Len(text) + 1
        /\ \A k \in DOMAIN text : Append(text, Lines[n + 1])[k] = text[k]
        /\ Append(text, Lines[n + 1])[Len(text) + 1] = Lines[n + 1]
    BY <1>4, <1>5
  <2>5. i + (Len(text) + 1) = n + 1
    BY <1>1, <1>5, <2>1
  <2>3. ASSUME NEW k \in DOMAIN Append(text, Lines[n + 1])
        PROVE  Append(text, Lines[n + 1])[k] = Lines[i + k]
    <3>1. k \in DOMAIN text \/ k = Len(text) + 1
      BY <1>5, <2>2
    <3>. QED  BY <2>2, <2>5, <3>1 DEF IsText
  <2>4. Len(Append(text, Lines[n + 1])) = LastLine(i, n + 1) - i
    BY <1>1, <1>5, <2>1, <2>2
  <2>. QED  BY <1>7, <2>2, <2>3, <2>4 DEF IsText
<1>. QED  BY <1>6, <1>7
---------------------------------------------------------------------------
(* The file that convert writes *)

Record == [word : Nat, text : Seq(Nat)]

\* The records that the first n lines give: one for each definition that begins in
\* them, in their order.
Records(records, n) ==
  /\ records \in Seq(Record)
  /\ \A i \in 1 .. n : IsHead(i) => \E r \in DOMAIN records : records[r].word = Lines[i]
  /\ \A r \in DOMAIN records : \E i \in 1 .. n :
       IsHead(i) /\ records[r].word = Lines[i] /\ IsText(records[r].text, i, n)
  /\ \A r, q \in DOMAIN records : r < q => records[r].word < records[q].word

\* The text that is being read is that of the last record.
InText(records, n) ==
  \E h \in 1 .. n : /\ IsHead(h) /\ \A j \in h .. n : Lines[j] # Blank
                    /\ Len(records) # 0 /\ records[Len(records)].word = Lines[h]
ReadsText(n) == n # 0 /\ Lines[n] # Blank

TextFile(records) == [records |-> records, inText |-> TRUE, crashed |-> FALSE]
WordFile(records) == [records |-> records, inText |-> FALSE, crashed |-> FALSE]

Read(file, n) ==
  \E records : /\ Records(records, n)
               /\ \/ ReadsText(n) /\ InText(records, n) /\ file = TextFile(records)
                  \/ ~ReadsText(n) /\ file = WordFile(records)

\* Two heads with the same word are one.
LEMMA OneHead ==
  ASSUME TextOK, NEW i \in DOMAIN Lines, NEW j \in DOMAIN Lines, IsHead(i), IsHead(j),
         Lines[i] = Lines[j]
  PROVE  i = j
<1>1. i \in Nat /\ j \in Nat /\ Lines[i] \in Nat
  BY TextFacts
<1>2. ~(i < j) /\ ~(j < i)
  BY <1>1 DEF TextOK
<1>. QED  BY <1>1, <1>2

LEMMA RecordFacts ==
  ASSUME TextOK, NEW n \in 0 .. Len(Lines), NEW records, Records(records, n)
  PROVE  /\ Len(records) \in Nat /\ DOMAIN records = 1 .. Len(records)
         /\ \A r \in DOMAIN records : /\ records[r] \in Record /\ records[r].word \in Nat
                                      /\ records[r] = [word |-> records[r].word, text |-> records[r].text]
         /\ 1 .. n \subseteq DOMAIN Lines /\ n \in Nat
<1>1. records \in Seq(Record)
  BY DEF Records
<1>2. Len(records) \in Nat /\ DOMAIN records = 1 .. Len(records) /\ \A r \in DOMAIN records : records[r] \in Record
  BY <1>1
<1>3. \A record \in Record : /\ record.word \in Nat
                              /\ record = [word |-> record.word, text |-> record.text]
  BY DEF Record
<1>. QED  BY <1>2, <1>3, TextFacts

\* A blank line ends a definition.
LEMMA BlankRecords ==
  ASSUME TextOK, NEW n \in 0 .. Len(Lines) - 1, NEW records, Records(records, n),
         Lines[n + 1] = Blank
  PROVE  Records(records, n + 1)
<1>0. n \in 0 .. Len(Lines) /\ n + 1 \in DOMAIN Lines /\ n \in Nat
  BY TextFacts
<1>1. \A i \in 1 .. n + 1 : IsHead(i) => i \in 1 .. n
  BY <1>0 DEF IsHead
<1>2. ASSUME NEW r \in DOMAIN records
      PROVE  \E i \in 1 .. n + 1 : IsHead(i) /\ records[r].word = Lines[i] /\ IsText(records[r].text, i, n + 1)
  <2>1. PICK i \in 1 .. n : IsHead(i) /\ records[r].word = Lines[i] /\ IsText(records[r].text, i, n)
    BY DEF Records
  <2>2. i \in DOMAIN Lines /\ Lines[i] # Blank /\ n \in i .. Len(Lines) - 1 /\ i \in 1 .. n + 1 /\ i \in Nat
    BY <1>0, <2>1, TextFacts DEF IsHead
  <2>3. End(i) <= n + 1
    <3>1. End(i) \in Nat /\ \A j \in i .. End(i) - 1 : Lines[j] # Blank
      BY <2>2, EndOfDefinition
    <3>. QED  BY <1>0, <2>2, <3>1
  <2>. QED  BY <2>1, <2>2, <2>3, TextGrows
<1>. QED  BY <1>0, <1>1, <1>2, TextFacts DEF Records

\* A line that is not blank after another one is not a word: it belongs to the last
\* record, if there is room.
Longer(records, line) ==
  LET n == Len(records)
  IN IF Len(records[n].text) = TextMax THEN records
     ELSE [records EXCEPT ![n].text = Append(@, line)]

LEMMA TextRecords ==
  ASSUME TextOK, NEW n \in 0 .. Len(Lines) - 1, NEW records, Records(records, n),
         ReadsText(n), InText(records, n), Lines[n + 1] # Blank
  PROVE  Records(Longer(records, Lines[n + 1]), n + 1) /\ InText(Longer(records, Lines[n + 1]), n + 1)
<1>. DEFINE new  == Longer(records, Lines[n + 1])
            last == Len(records)
            full == Len(records[last].text) = TextMax
<1>0. /\ n \in 0 .. Len(Lines) /\ n + 1 \in DOMAIN Lines /\ n \in Nat /\ n # 0
      /\ Lines[n] # Blank /\ Len(Lines) \in Nat /\ n + 1 <= Len(Lines)
  BY TextFacts DEF ReadsText
<1>a. records \in Seq(Record)
  BY DEF Records
<1>1. /\ Len(records) \in Nat /\ DOMAIN records = 1 .. Len(records)
      /\ \A r \in DOMAIN records : /\ records[r] \in Record /\ records[r].word \in Nat
                                   /\ records[r] = [word |-> records[r].word, text |-> records[r].text]
      /\ records \in Seq(Record)
  BY <1>0, <1>a, RecordFacts
<1>2. PICK h \in 1 .. n : /\ IsHead(h) /\ \A j \in h .. n : Lines[j] # Blank
                          /\ last # 0 /\ records[last].word = Lines[h]
  BY DEF InText
<1>3. h \in DOMAIN Lines /\ h \in Nat /\ last \in DOMAIN records /\ Lines[n + 1] \in Nat
  BY <1>0, <1>1, <1>2, TextFacts
<1>4. \A i \in 1 .. n + 1 : IsHead(i) => i \in 1 .. n
  BY <1>0 DEF IsHead
<1>5. IsText(records[last].text, h, n)
  <2>1. PICK i \in 1 .. n : IsHead(i) /\ records[last].word = Lines[i] /\ IsText(records[last].text, i, n)
    BY <1>3 DEF Records
  <2>2. i = h
    <3>1. i \in DOMAIN Lines /\ IsHead(i) /\ IsHead(h) /\ Lines[i] = Lines[h]
      BY <1>0, <1>2, <2>1, TextFacts
    <3>. QED  BY <1>3, <3>1, OneHead
  <2>. QED  BY <2>1, <2>2
<1>6. End(h) > n + 1
  <2>1. Lines[h] # Blank /\ \A j \in h .. n + 1 : Lines[j] # Blank
    BY <1>0, <1>2, <1>3 DEF IsHead
  <2>2. End(h) \in h + 1 .. Len(Lines) + 1 /\ (End(h) = Len(Lines) + 1 \/ Lines[End(h)] = Blank)
    BY <1>3, <2>1, EndOfDefinition
  <2>3. End(h) \in Nat /\ End(h) > h
    BY <1>3, <2>2
  <2>4. CASE End(h) = Len(Lines) + 1
    BY <1>0, <2>4
  <2>5. CASE Lines[End(h)] = Blank
    <3>1. ~(End(h) \in h .. n + 1)
      BY <2>1, <2>5
    <3>2. h \in Nat /\ n + 1 \in Nat
      BY <1>0, <1>3
    <3>. QED  BY <2>3, <3>1, <3>2
  <2>. QED  BY <2>2, <2>4, <2>5
<1>7. ASSUME NEW r \in DOMAIN records, r # last
      PROVE  \E i \in 1 .. n + 1 : IsHead(i) /\ records[r].word = Lines[i] /\ IsText(records[r].text, i, n + 1)
  <2>1. PICK i \in 1 .. n : IsHead(i) /\ records[r].word = Lines[i] /\ IsText(records[r].text, i, n)
    BY DEF Records
  <2>2. i \in DOMAIN Lines /\ Lines[i] # Blank /\ n \in i .. Len(Lines) - 1 /\ i \in 1 .. n + 1 /\ i \in Nat
    BY <1>0, <2>1, TextFacts DEF IsHead
  <2>3. i < h
    <3>a. r < last
      BY <1>1, <1>7
    <3>b. \A k, q \in DOMAIN records : k < q => records[k].word < records[q].word
      BY DEF Records
    <3>1. records[r].word < records[last].word
      BY <1>3, <3>a, <3>b
    <3>2. Lines[i] < Lines[h] /\ Lines[h] \in Nat /\ Lines[i] \in Nat
      BY <1>2, <1>3, <2>1, <2>2, <3>1, TextFacts
    <3>3. i # h /\ ~(h < i)
      <4>1. h < i => Lines[h] < Lines[i]
        BY <1>2, <1>3, <2>1, <2>2 DEF TextOK
      <4>. QED  BY <3>2, <4>1
    <3>. QED  BY <1>3, <2>2, <3>3
  <2>4. End(i) <= n + 1
    <3>1. Lines[h - 1] = Blank /\ h - 1 \in i .. n /\ h - 1 \in Nat
      BY <1>2, <1>3, <2>2, <2>3 DEF IsHead
    <3>2. End(i) \in Nat /\ \A j \in i .. End(i) - 1 : Lines[j] # Blank
      BY <2>2, EndOfDefinition
    <3>. QED  BY <1>0, <2>2, <3>1, <3>2
  <2>. QED  BY <2>1, <2>2, <2>4, TextGrows
<1>8. Lines[h] # Blank /\ n \in h .. Len(Lines) - 1 /\ h \in 1 .. n + 1 /\ n + 1 \in Nat
  BY <1>0, <1>2, <1>3, TextFacts DEF IsHead
<1>9. CASE full
  <2>1. new = records
    BY <1>9 DEF Longer
  <2>2. IsText(records[last].text, h, n + 1)
    BY <1>3, <1>5, <1>8, <1>9, TextGrows
  <2>3. \A r \in DOMAIN records : \E i \in 1 .. n + 1 :
          IsHead(i) /\ records[r].word = Lines[i] /\ IsText(records[r].text, i, n + 1)
    BY <1>2, <1>7, <1>8, <2>2
  <2>4. Records(records, n + 1)
    BY <1>4, <2>3 DEF Records
  <2>5. InText(records, n + 1)
    BY <1>0, <1>2, <1>8 DEF InText
  <2>. QED  BY <2>1, <2>4, <2>5
<1>10. CASE ~full
  <2>. DEFINE text == Append(records[last].text, Lines[n + 1])
  <2>1. /\ new = [records EXCEPT ![last].text = text]
    BY <1>10 DEF Longer
  <2>2. IsText(text, h, n + 1)
    <3>1. ~(End(h) <= n + 1 \/ Len(records[last].text) = TextMax)
      BY <1>3, <1>6, <1>8, <1>10, EndOfDefinition
    <3>. QED  BY <1>3, <1>5, <1>8, <3>1, TextGrows
  <2>3. text \in Seq(Nat)
    BY <2>2 DEF IsText
  <2>. HIDE DEF text, new
  <2>4. /\ new \in Seq(Record) /\ DOMAIN new = DOMAIN records /\ Len(new) = last
        /\ \A r \in DOMAIN records : r # last => new[r] = records[r]
        /\ new[last].word = records[last].word /\ new[last].text = text
    <3>. DEFINE record == [records[last] EXCEPT !.text = text]
    <3>1. record = [word |-> records[last].word, text |-> text] /\ records[last].word \in Nat
      BY <1>1, <1>3
    <3>2. record \in Record /\ record.word = records[last].word /\ record.text = text
      BY <2>3, <3>1 DEF Record
    <3>3. new = [records EXCEPT ![last] = record]
      BY <2>1
    <3>. HIDE DEF record
    <3>. QED  BY <1>1, <1>3, <3>2, <3>3
  <2>5. \A r \in DOMAIN new : new[r].word = records[r].word
    BY <2>4
  <2>6. \A r \in DOMAIN new : \E i \in 1 .. n + 1 :
          IsHead(i) /\ new[r].word = Lines[i] /\ IsText(new[r].text, i, n + 1)
    BY <1>2, <1>7, <1>8, <2>2, <2>4
  <2>7. Records(new, n + 1)
    <3>1. \A i \in 1 .. n + 1 : IsHead(i) => \E r \in DOMAIN new : new[r].word = Lines[i]
      <4>1. \A i \in 1 .. n : IsHead(i) => \E r \in DOMAIN records : records[r].word = Lines[i]
        BY DEF Records
      <4>. QED  BY <1>4, <2>4, <2>5, <4>1
    <3>2. \A r, q \in DOMAIN new : r < q => new[r].word < new[q].word
      <4>1. \A r, q \in DOMAIN records : r < q => records[r].word < records[q].word
        BY DEF Records
      <4>. QED  BY <2>4, <2>5, <4>1
    <3>. QED  BY <2>4, <2>6, <3>1, <3>2 DEF Records
  <2>8. InText(new, n + 1)
    <3>1. \A j \in h .. n + 1 : Lines[j] # Blank
      BY <1>0, <1>2, <1>3
    <3>2. Len(new) # 0 /\ new[Len(new)].word = Lines[h]
      BY <1>2, <2>4
    <3>. QED  BY <1>2, <1>8, <3>1, <3>2 DEF InText
  <2>. QED  BY <2>7, <2>8 DEF new
<1>. QED  BY <1>9, <1>10

\* A word begins a record of its own.
LEMMA HeadRecords ==
  ASSUME TextOK, NEW n \in 0 .. Len(Lines) - 1, NEW records, Records(records, n),
         ~ReadsText(n), Lines[n + 1] # Blank
  PROVE  LET new == Append(records, [word |-> Lines[n + 1], text |-> <<>>])
         IN Records(new, n + 1) /\ InText(new, n + 1)
<1>. DEFINE record == [word |-> Lines[n + 1], text |-> <<>>]
            new    == Append(records, record)
<1>0. /\ n \in 0 .. Len(Lines) /\ n + 1 \in DOMAIN Lines /\ n \in Nat /\ (n = 0 \/ Lines[n] = Blank)
      /\ Lines[n + 1] \in Nat /\ n + 1 \in 1 .. n + 1
  BY TextFacts DEF ReadsText
<1>1. /\ Len(records) \in Nat /\ DOMAIN records = 1 .. Len(records)
      /\ \A r \in DOMAIN records : records[r] \in Record
      /\ records \in Seq(Record)
  BY <1>0, RecordFacts DEF Records
<1>2. <<>> \in Seq(Nat) /\ Len(<<>>) = 0 /\ DOMAIN <<>> = {}
  OBVIOUS
<1>3. record \in Record /\ record.word = Lines[n + 1] /\ record.text = <<>>
  BY <1>0, <1>2 DEF Record
<1>. HIDE DEF record
<1>4. /\ new \in Seq(Record) /\ Len(new) = Len(records) + 1 /\ DOMAIN new = 1 .. Len(records) + 1
      /\ \A r \in DOMAIN records : new[r] = records[r]
      /\ new[Len(records) + 1] = record
  BY <1>1, <1>3
<1>5. IsHead(n + 1)
  BY <1>0 DEF IsHead
<1>6. IsText(<<>>, n + 1, n + 1)
  <2>1. LastLine(n + 1, n + 1) = n + 1
    <3>1. LastLine(n + 1, n + 1) \in n + 1 .. n + 1
      BY <1>0, LastLineIs, TextFacts
    <3>. QED  BY <1>0, <3>1
  <2>. QED  BY <1>0, <1>2, <2>1 DEF IsText
<1>. HIDE DEF new
<1>7. ASSUME NEW r \in DOMAIN records
      PROVE  \E i \in 1 .. n + 1 : /\ IsHead(i) /\ new[r].word = Lines[i] /\ IsText(new[r].text, i, n + 1)
                                   /\ i \in 1 .. n
  <2>1. PICK i \in 1 .. n : IsHead(i) /\ records[r].word = Lines[i] /\ IsText(records[r].text, i, n)
    BY DEF Records
  <2>2. i \in DOMAIN Lines /\ Lines[i] # Blank /\ n \in i .. Len(Lines) - 1 /\ i \in 1 .. n + 1 /\ i \in Nat
    BY <1>0, <2>1, TextFacts DEF IsHead
  <2>3. End(i) <= n + 1
    <3>1. End(i) \in Nat /\ \A j \in i .. End(i) - 1 : Lines[j] # Blank
      BY <2>2, EndOfDefinition
    <3>2. Lines[n] = Blank
      BY <1>0, <2>2
    <3>. QED  BY <1>0, <2>2, <3>1, <3>2
  <2>. QED  BY <1>4, <2>1, <2>2, <2>3, TextGrows
<1>8. \A r \in DOMAIN records : new[r].word < Lines[n + 1]
  <2>. TAKE r \in DOMAIN records
  <2>1. PICK i \in 1 .. n : IsHead(i) /\ new[r].word = Lines[i]
    BY <1>7
  <2>2. i \in DOMAIN Lines /\ i < n + 1
    BY <1>0, TextFacts
  <2>. QED  BY <1>0, <1>5, <2>1, <2>2 DEF TextOK
<1>9. \A r \in DOMAIN new : r \in DOMAIN records \/ r = Len(records) + 1
  BY <1>1, <1>4
<1>10. Records(new, n + 1)
  <2>1. ASSUME NEW i \in 1 .. n + 1, IsHead(i)
        PROVE  \E r \in DOMAIN new : new[r].word = Lines[i]
    <3>1. CASE i = n + 1
      BY <1>1, <1>3, <1>4, <3>1
    <3>2. CASE i # n + 1
      <4>1. i \in 1 .. n
        BY <1>0, <3>2
      <4>2. PICK r \in DOMAIN records : records[r].word = Lines[i]
        BY <2>1, <4>1 DEF Records
      <4>. QED  BY <1>1, <1>4, <4>2
    <3>. QED  BY <3>1, <3>2
  <2>2. ASSUME NEW r \in DOMAIN new
        PROVE  \E i \in 1 .. n + 1 : IsHead(i) /\ new[r].word = Lines[i] /\ IsText(new[r].text, i, n + 1)
    BY <1>0, <1>3, <1>4, <1>5, <1>6, <1>7, <1>9
  <2>3. ASSUME NEW r \in DOMAIN new, NEW q \in DOMAIN new, r < q
        PROVE  new[r].word < new[q].word
    <3>1. r \in DOMAIN records
      BY <1>1, <1>4, <1>9, <2>3
    <3>2. CASE q \in DOMAIN records
      BY <1>4, <2>3, <3>1, <3>2 DEF Records
    <3>3. CASE q = Len(records) + 1
      BY <1>3, <1>4, <1>8, <3>1, <3>3
    <3>. QED  BY <1>9, <3>2, <3>3
  <2>. QED  BY <1>4, <2>1, <2>2, <2>3 DEF Records
<1>11. InText(new, n + 1)
  <2>1. \A j \in n + 1 .. n + 1 : Lines[j] # Blank
    BY <1>0
  <2>2. Len(new) # 0 /\ new[Len(new)].word = Lines[n + 1]
    BY <1>1, <1>3, <1>4
  <2>. QED  BY <1>0, <1>5, <2>1, <2>2 DEF InText
<1>. QED  BY <1>10, <1>11 DEF new, record
LEMMA ReadLineIs ==
  ASSUME NEW records, NEW line
  PROVE  /\ line = Blank => ReadLine(TextFile(records), line) = WordFile(records)
         /\ line # Blank => ReadLine(TextFile(records), line) = TextFile(Longer(records, line))
         /\ line # Blank => ReadLine(WordFile(records), line)
                              = TextFile(Append(records, [word |-> line, text |-> <<>>]))
<1>. DEFINE file  == TextFile(records)
            words == WordFile(records)
<1>1. /\ file.inText = TRUE /\ file.crashed = FALSE /\ file.records = records
      /\ words.inText = FALSE /\ words.crashed = FALSE /\ words.records = records
  BY DEF TextFile, WordFile
<1>2. ASSUME line = Blank
      PROVE  ReadLine(file, line) = WordFile(records)
  <2>1. ReadLine(file, line) = [file EXCEPT !.inText = FALSE]
    BY <1>1, <1>2 DEF ReadLine
  <2>. QED  BY <2>1 DEF TextFile, WordFile
<1>3. ASSUME line # Blank
      PROVE  ReadLine(file, line) = TextFile(Longer(records, line))
  <2>. DEFINE n == Len(records)
  <2>1. ReadLine(file, line) = IF Len(records[n].text) = TextMax THEN file
                               ELSE [file EXCEPT !.records[n].text = Append(file.records[n].text, line)]
    BY <1>1, <1>3 DEF ReadLine
  <2>2. [file EXCEPT !.records[n].text = Append(file.records[n].text, line)]
          = TextFile([records EXCEPT ![n].text = Append(records[n].text, line)])
    <3>1. [file EXCEPT !.records[n].text = Append(file.records[n].text, line)]
            = [file EXCEPT !.records = [records EXCEPT ![n].text = Append(records[n].text, line)]]
      BY <1>1
    <3>2. ASSUME NEW other  PROVE [file EXCEPT !.records = other] = TextFile(other)
      <4>. DEFINE new == [file EXCEPT !.records = other]
      <4>1. DOMAIN new = {"records", "inText", "crashed"}
        BY DEF TextFile
      <4>2. new["records"] = other /\ new["inText"] = TRUE /\ new["crashed"] = FALSE
        BY DEF TextFile
      <4>3. new = [f \in {"records", "inText", "crashed"} |-> new[f]]
        BY <4>1
      <4>. HIDE DEF new
      <4>4. new = [f \in {"records", "inText", "crashed"} |-> TextFile(other)[f]]
        BY <4>2, <4>3 DEF TextFile
      <4>5. new = TextFile(other)
        BY <4>4 DEF TextFile
      <4>. QED  BY <4>5 DEF new
    <3>. QED  BY <3>1, <3>2
  <2>. QED  BY <2>1, <2>2 DEF Longer
<1>4. ASSUME line # Blank
      PROVE  ReadLine(words, line) = TextFile(Append(records, [word |-> line, text |-> <<>>]))
  <2>1. ReadLine(words, line)
          = [words EXCEPT !.inText = TRUE,
                          !.records = Append(words.records, [word |-> line, text |-> <<>>])]
    BY <1>1, <1>4 DEF ReadLine
  <2>. QED  BY <1>1, <2>1 DEF TextFile, WordFile
<1>. QED  BY <1>2, <1>3, <1>4

LEMMA ReadStep ==
  ASSUME TextOK, NEW n \in 0 .. Len(Lines) - 1, NEW file, Read(file, n)
  PROVE  Read(ReadLine(file, Lines[n + 1]), n + 1)
<1>. DEFINE line == Lines[n + 1]
<1>0. n \in Nat /\ n + 1 # 0 /\ n + 1 \in DOMAIN Lines /\ (n + 1) - 1 = n
  BY TextFacts
<1>1. ReadsText(n + 1) <=> line # Blank
  BY <1>0 DEF ReadsText
<1>. PICK records : /\ Records(records, n)
                    /\ \/ ReadsText(n) /\ InText(records, n) /\ file = TextFile(records)
                       \/ ~ReadsText(n) /\ file = WordFile(records)
  BY DEF Read
<1>2. CASE line = Blank
  <2>1. n + 1 # 1 /\ Lines[n] # Blank
    BY <1>0, <1>2 DEF TextOK
  <2>2. ReadsText(n)
    BY <2>1 DEF ReadsText
  <2>3. ReadLine(file, line) = WordFile(records)
    BY <1>2, <2>2, ReadLineIs
  <2>4. Records(records, n + 1)
    BY <1>2, BlankRecords
  <2>. QED  BY <1>1, <1>2, <2>3, <2>4 DEF Read
<1>3. CASE line # Blank /\ ReadsText(n)
  <2>1. ReadLine(file, line) = TextFile(Longer(records, line))
    BY <1>3, ReadLineIs
  <2>2. Records(Longer(records, line), n + 1) /\ InText(Longer(records, line), n + 1)
    BY <1>3, TextRecords
  <2>. QED  BY <1>1, <1>3, <2>1, <2>2 DEF Read
<1>4. CASE line # Blank /\ ~ReadsText(n)
  <2>. DEFINE new == Append(records, [word |-> line, text |-> <<>>])
  <2>1. ReadLine(file, line) = TextFile(new)
    BY <1>4, ReadLineIs
  <2>2. Records(new, n + 1) /\ InText(new, n + 1)
    BY <1>4, HeadRecords
  <2>. HIDE DEF new
  <2>. QED  BY <1>1, <1>4, <2>1, <2>2 DEF Read
<1>. QED  BY <1>2, <1>3, <1>4

\* What the local definition of Convert says of the file after each line.
NoLines == WordFile(<<>>)
Files(file, last) ==
  file = [n \in 0 .. last |-> IF n = 0 THEN NoLines ELSE ReadLine(file[n - 1], Lines[n])]

LEMMA FilesExist ==
  ASSUME TextOK
  PROVE  \E file : Files(file, Len(Lines))
<1>. DEFINE Lasts == {n \in Nat : \E file : Files(file, n)}
<1>1. 0 \in Lasts
  <2>1. Files([n \in 0 .. 0 |-> NoLines], 0)
    BY DEF Files
  <2>. QED  BY <2>1
<1>2. ASSUME NEW n \in Nat, n \in Lasts  PROVE n + 1 \in Lasts
  <2>1. PICK file : Files(file, n)
    BY <1>2
  <2>. DEFINE more == [k \in 0 .. n + 1 |-> IF k <= n THEN file[k] ELSE ReadLine(file[n], Lines[n + 1])]
  <2>2. \A k \in 0 .. n : file[k] = IF k = 0 THEN NoLines ELSE ReadLine(file[k - 1], Lines[k])
    BY <2>1 DEF Files
  <2>3. \A k \in 0 .. n + 1 : more[k] = IF k = 0 THEN NoLines ELSE ReadLine(more[k - 1], Lines[k])
    <3>. TAKE k \in 0 .. n + 1
    <3>1. CASE k <= n
      <4>1. k \in 0 .. n /\ (k # 0 => k - 1 \in 0 .. n + 1 /\ k - 1 <= n)
        BY <3>1
      <4>2. more[k] = file[k] /\ (k # 0 => more[k - 1] = file[k - 1])
        BY <3>1, <4>1
      <4>. QED  BY <2>2, <4>1, <4>2
    <3>2. CASE k = n + 1
      <4>1. more[k] = ReadLine(file[n], Lines[n + 1]) /\ more[n] = file[n] /\ k - 1 = n /\ k # 0
        BY <3>2
      <4>. QED  BY <3>2, <4>1
    <3>. QED  BY <3>1, <3>2
  <2>4. Files(more, n + 1)
    BY <2>3 DEF Files
  <2>. HIDE DEF more
  <2>5. \E f : Files(f, n + 1)
    BY <2>4
  <2>. QED  BY <2>5
<1>. HIDE DEF Lasts
<1>3. \A n \in Nat : n \in Lasts
  BY <1>1, <1>2, Induction
<1>. QED  BY <1>3, TextFacts DEF Lasts

\* The file has a record for each definition, in their order.
LEMMA ConvertRead ==
  ASSUME TextOK
  PROVE  Read(Convert(Lines), Len(Lines))
<1>. DEFINE file == CHOOSE f : Files(f, Len(Lines))
<1>1. Files(file, Len(Lines))
  BY FilesExist
<1>2. Convert(Lines) = file[Len(Lines)]
  BY DEF Convert, Files, NoLines, WordFile
<1>. HIDE DEF file
<1>3. \A n \in 0 .. Len(Lines) : file[n] = IF n = 0 THEN NoLines ELSE ReadLine(file[n - 1], Lines[n])
  BY <1>1 DEF Files
<1>. DEFINE Good == {n \in Nat : n <= Len(Lines) => Read(file[n], n)}
<1>4. 0 \in Good
  <2>1. file[0] = WordFile(<<>>) /\ ~ReadsText(0)
    BY <1>3, TextFacts DEF ReadsText, NoLines
  <2>2. <<>> \in Seq(Record) /\ DOMAIN <<>> = {} /\ 1 .. 0 = {}
    OBVIOUS
  <2>3. Records(<<>>, 0)
    BY <2>2 DEF Records
  <2>4. Read(file[0], 0)
    BY <2>1, <2>3 DEF Read
  <2>. QED  BY <2>4
<1>5. ASSUME NEW n \in Nat, n \in Good  PROVE n + 1 \in Good
  <2>. SUFFICES ASSUME n + 1 <= Len(Lines)  PROVE Read(file[n + 1], n + 1)
    OBVIOUS
  <2>1. n \in 0 .. Len(Lines) - 1 /\ n + 1 \in 0 .. Len(Lines) /\ n + 1 # 0 /\ (n + 1) - 1 = n
    BY TextFacts
  <2>2. Read(file[n], n) /\ file[n + 1] = ReadLine(file[n], Lines[n + 1])
    BY <1>3, <1>5, <2>1
  <2>. QED  BY <2>1, <2>2, ReadStep
<1>. HIDE DEF Good
<1>6. \A n \in Nat : n \in Good
  BY <1>4, <1>5, Induction
<1>. QED  BY <1>2, <1>6, TextFacts DEF Good
---------------------------------------------------------------------------
(* What the searches find in it *)

LEMMA SubSeqIs ==
  ASSUME NEW i \in Nat, NEW last \in Nat, i <= last, NEW s, \A k \in i + 1 .. last : s[k] \in Nat
  PROVE  SubSeq(s, i + 1, last) = [k \in 1 .. last - i |-> s[i + k]]
<1>. DEFINE sub == SubSeq(s, i + 1, last)
<1>1. /\ sub \in Seq(Nat) /\ Len(sub) = IF i + 1 <= last THEN last - (i + 1) + 1 ELSE 0
      /\ \A k \in 1 .. last - (i + 1) + 1 : sub[k] = s[(i + 1) + k - 1]
  BY SubSeqProperties
<1>. HIDE DEF sub
<1>2. last - (i + 1) + 1 = last - i /\ \A k \in 1 .. last - i : (i + 1) + k - 1 = i + k
  OBVIOUS
<1>3. Len(sub) = last - i /\ \A k \in 1 .. last - i : sub[k] = s[i + k]
  BY <1>1, <1>2
<1>4. sub = [k \in 1 .. Len(sub) |-> sub[k]]
  BY <1>1
<1>5. sub = [k \in 1 .. last - i |-> s[i + k]]
  BY <1>3, <1>4
<1>. QED  BY <1>5 DEF sub

\* The lines of a definition, as the text has it.
LEMMA TextIsDefinition ==
  ASSUME TextOK, NEW i \in DOMAIN Lines, IsHead(i), NEW text, IsText(text, i, Len(Lines))
  PROVE  text = Definition(i) /\ text \in Seq(Nat)
<1>. DEFINE last == LastLine(i, Len(Lines))
            cut  == Min({End(i) - 1, i + TextMax})
<1>1. /\ i \in Nat /\ Lines[i] # Blank /\ Len(Lines) \in i .. Len(Lines) /\ Len(Lines) \in Nat
      /\ TextMax \in Nat
  BY TextFacts DEF IsHead
<1>2. last \in {End(i) - 1, i + TextMax, Len(Lines)} /\ last <= End(i) - 1 /\ last <= i + TextMax
      /\ last \in i .. Len(Lines)
  BY <1>1, LastLineIs
<1>3. End(i) \in i + 1 .. Len(Lines) + 1
  BY <1>1, EndOfDefinition
<1>4. cut \in {End(i) - 1, i + TextMax} /\ cut <= End(i) - 1 /\ cut <= i + TextMax
  <2>1. {End(i) - 1, i + TextMax} \in SUBSET Nat
    BY <1>1, <1>3
  <2>. QED  BY <2>1, MinProps
<1>. HIDE DEF last, cut
<1>5. cut = last
  <2>. DEFINE e == End(i)
              t == i + TextMax
  <2>1. e \in Nat /\ e <= Len(Lines) + 1 /\ t \in Nat /\ last \in Nat /\ last <= Len(Lines)
    <3>1. e \in Nat /\ e <= Len(Lines) + 1
      BY <1>1, <1>3
    <3>2. last \in Nat /\ last <= Len(Lines)
      BY <1>1, <1>2
    <3>. QED  BY <1>1, <3>1, <3>2
  <2>2. last \in {e - 1, t, Len(Lines)} /\ last <= e - 1 /\ last <= t
    BY <1>2
  <2>3. cut \in {e - 1, t} /\ cut <= e - 1 /\ cut <= t
    BY <1>4
  <2>. HIDE DEF e, t
  <2>. QED  BY <1>1, <2>1, <2>2, <2>3
<1>6. Definition(i) = SubSeq(Lines, i + 1, last)
  BY <1>5 DEF Definition, End, cut
<1>7. text \in Seq(Nat) /\ Len(text) = last - i /\ \A k \in DOMAIN text : text[k] = Lines[i + k]
  BY DEF IsText, last
<1>8. SubSeq(Lines, i + 1, last) = [k \in 1 .. last - i |-> Lines[i + k]]
  <2>1. last \in Nat /\ i <= last /\ last <= Len(Lines)
    BY <1>1, <1>2
  <2>2. \A k \in i + 1 .. last : k \in 1 .. Len(Lines)
    BY <1>1, <2>1
  <2>3. \A k \in i + 1 .. last : Lines[k] \in Nat
    BY <2>2, TextFacts
  <2>. QED  BY <1>1, <2>1, <2>3, SubSeqIs
<1>9. text = [k \in 1 .. last - i |-> Lines[i + k]]
  <2>1. text = [k \in 1 .. Len(text) |-> text[k]] /\ DOMAIN text = 1 .. Len(text)
    BY <1>7
  <2>. HIDE DEF last
  <2>. QED  BY <1>7, <2>1
<1>. QED  BY <1>6, <1>7, <1>8, <1>9

\* Which record of the table a word has.
LEMMA TableFacts ==
  ASSUME TextOK
  PROVE  /\ Table \in Seq(Record) /\ Len(Table) \in Nat /\ DOMAIN Table = 1 .. Len(Table)
         /\ \A r \in DOMAIN Table : Table[r].word \in Nat /\ Table[r].text \in Seq(Nat)
         /\ \A r, q \in DOMAIN Table : r < q => Table[r].word < Table[q].word
         /\ \A r \in DOMAIN Table : Meaning(Table[r].word) = Table[r].text
         /\ \A word : (\A r \in DOMAIN Table : Table[r].word # word) => Meaning(word) = NotFound
<1>0. Records(Table, Len(Lines))
  BY ConvertRead DEF Read, Table, TextFile, WordFile
<1>1. Table \in Seq(Record) /\ Len(Table) \in Nat /\ DOMAIN Table = 1 .. Len(Table)
      /\ \A r \in DOMAIN Table : Table[r] \in Record
  BY <1>0 DEF Records
<1>2. \A r \in DOMAIN Table : Table[r].word \in Nat /\ Table[r].text \in Seq(Nat)
  BY <1>1 DEF Record
<1>3. \A r, q \in DOMAIN Table : r < q => Table[r].word < Table[q].word
  BY <1>0 DEF Records
<1>4. ASSUME NEW r \in DOMAIN Table
      PROVE  Meaning(Table[r].word) = Table[r].text
  <2>. DEFINE heads == {i \in DOMAIN Lines : IsHead(i) /\ Lines[i] = Table[r].word}
  <2>1. PICK i \in 1 .. Len(Lines) : IsHead(i) /\ Table[r].word = Lines[i] /\ IsText(Table[r].text, i, Len(Lines))
    BY <1>0 DEF Records
  <2>2. i \in DOMAIN Lines /\ i \in Nat
    BY TextFacts
  <2>3. heads = {i}
    BY <2>1, <2>2, OneHead
  <2>4. Min(heads) = i
    BY <2>2, <2>3, MinProps
  <2>5. Meaning(Table[r].word) = Definition(i)
    BY <2>3, <2>4 DEF Meaning
  <2>. QED  BY <2>1, <2>2, <2>5, TextIsDefinition
<1>5. ASSUME NEW word, \A r \in DOMAIN Table : Table[r].word # word
      PROVE  Meaning(word) = NotFound
  <2>1. \A i \in DOMAIN Lines : IsHead(i) => Lines[i] # word
    BY <1>0, <1>5, TextFacts DEF Records
  <2>. QED  BY <2>1 DEF Meaning
<1>. QED  BY <1>1, <1>2, <1>3, <1>4, <1>5

LEMMA LinearFinds ==
  ASSUME TextOK, NEW word
  PROVE  Linear(Table, word) \in {Meaning(word), Crash}
<1>. DEFINE hits == {r \in DOMAIN Table : Table[r].word = word}
<1>1. CASE hits = {}
  BY <1>1, TableFacts DEF Linear
<1>2. CASE hits # {}
  <2>1. hits \in SUBSET Nat
    BY TableFacts
  <2>2. Min(hits) \in hits
    BY <1>2, <2>1, MinProps
  <2>3. Meaning(word) = Table[Min(hits)].text
    BY <2>2, TableFacts
  <2>4. Linear(Table, word) = IF Table[Min(hits)].text = <<>> THEN Crash ELSE Table[Min(hits)].text
    BY <1>2 DEF Linear
  <2>. QED  BY <2>3, <2>4
<1>. QED  BY <1>1, <1>2

\* The n records from lo on, and what a search among them should find.
Ranges(table) == {r \in (1 .. Len(table) + 1) \X (0 .. Len(table)) : r[1] + r[2] <= Len(table) + 1}
Among(table, word, r) == {q \in DOMAIN table : r[1] <= q /\ q < r[1] + r[2] /\ table[q].word = word}
Finds(table, word, r) == IF Among(table, word, r) = {} THEN NotFound ELSE Entry(table, word)

\* One round of the search, where what the next one finds is known.
Round(table, pad, word, r, search) ==
  LET half == r[2] \div 2
      mid  == r[1] + half
  IN IF r[2] = 0 THEN NotFound
     ELSE IF Before(word, table[mid].word, pad) THEN search[<<r[1], half>>]
     ELSE IF word > table[mid].word THEN search[<<mid + 1, r[2] - half - 1>>]
     ELSE table[mid].text

Searches(table, pad, search, word) == search = [r \in Ranges(table) |-> Round(table, pad, word, r, search)]

\* A table in the order of its words.
Words(table)  == /\ table \in Seq(Record) /\ Len(table) \in Nat /\ DOMAIN table = 1 .. Len(table)
                 /\ \A r \in DOMAIN table : table[r].word \in Nat /\ table[r].text \in Seq(Nat)
Sorted(table) == Words(table) /\ \A r, q \in DOMAIN table : r < q => table[r].word < table[q].word

LEMMA SortedEntry ==
  ASSUME NEW table, Sorted(table)
  PROVE  /\ \A r \in DOMAIN table : Entry(table, table[r].word) = table[r].text
         /\ \A word : (\A r \in DOMAIN table : table[r].word # word) => Entry(table, word) = NotFound
<1>1. ASSUME NEW r \in DOMAIN table  PROVE Entry(table, table[r].word) = table[r].text
  <2>. DEFINE hits == {i \in DOMAIN table : table[i].word = table[r].word}
  <2>1. \A q \in DOMAIN table : q \in Nat /\ table[q].word \in Nat
    BY DEF Sorted, Words
  <2>2. \A q \in DOMAIN table : q < r \/ r < q => table[q].word # table[r].word
    BY <2>1 DEF Sorted
  <2>3. hits = {r}
    BY <2>1, <2>2
  <2>4. Min(hits) = r
    BY <2>1, <2>3, MinProps
  <2>. QED  BY <2>3, <2>4 DEF Entry
<1>2. ASSUME NEW word, \A r \in DOMAIN table : table[r].word # word  PROVE Entry(table, word) = NotFound
  BY <1>2 DEF Entry
<1>. QED  BY <1>1, <1>2

LEMMA RangeFacts ==
  ASSUME NEW table
  PROVE  \A r \in Ranges(table) : /\ r[1] \in 1 .. Len(table) + 1 /\ r[2] \in 0 .. Len(table)
                                   /\ r[1] + r[2] <= Len(table) + 1 /\ r = <<r[1], r[2]>>
BY DEF Ranges

\* What the order of the words says of the records on either side of one of them.
LEMMA SortedSides ==
  ASSUME NEW table, Sorted(table), NEW m \in DOMAIN table, NEW word \in Int
  PROVE  /\ word < table[m].word =>
              \A q \in DOMAIN table : q >= m => table[q].word # word
         /\ word > table[m].word =>
              \A q \in DOMAIN table : q <= m => table[q].word # word
<1>1. \A q \in DOMAIN table : q \in Nat
  BY DEF Sorted, Words
<1>2. \A q \in DOMAIN table : table[q].word \in Nat
  BY DEF Sorted, Words
<1>3. \A q, r \in DOMAIN table : q < r => table[q].word < table[r].word
  BY DEF Sorted
<1>4. \A a, b \in Nat : a < b => a # b
  OBVIOUS
<1>5. ASSUME word < table[m].word, NEW q \in DOMAIN table, q >= m
      PROVE  table[q].word # word
  <2>1. q = m \/ m < q
    BY <1>1, <1>5
  <2>2. table[q].word >= table[m].word
    BY <1>2, <1>3, <2>1
  <2>. QED  BY <1>2, <1>5, <2>2
<1>6. ASSUME word > table[m].word, NEW q \in DOMAIN table, q <= m
      PROVE  table[q].word # word
  <2>1. q = m \/ q < m
    BY <1>1, <1>6
  <2>2. table[q].word <= table[m].word
    BY <1>2, <1>3, <2>1
  <2>. QED  BY <1>2, <1>6, <2>2
<1>. QED  BY <1>5, <1>6

\* The records on either side of the middle one.
LEMMA Halves ==
  ASSUME NEW table, Words(table), NEW lo \in 1 .. Len(table) + 1, NEW n \in 0 .. Len(table),
         lo + n <= Len(table) + 1, n > 0, NEW half, half = n \div 2
  PROVE  /\ half \in Nat /\ half < n
         /\ lo + half \in DOMAIN table /\ lo + half \in Nat /\ table[lo + half].word \in Nat
         /\ <<lo, half>> \in Ranges(table)
         /\ <<lo + half + 1, n - half - 1>> \in Ranges(table) /\ n - half - 1 < n /\ n - half - 1 \in Nat
<1>0. Len(table) \in Nat /\ lo \in Nat /\ n \in Nat /\ DOMAIN table = 1 .. Len(table)
  BY DEF Words
<1>1. half \in Nat /\ half < n
  BY <1>0
<1>2. lo + half \in DOMAIN table /\ lo + half \in Nat
  BY <1>0, <1>1
<1>3. table[lo + half].word \in Nat
  BY <1>2 DEF Words
<1>4. <<lo, half>> \in Ranges(table) /\ <<lo + half + 1, n - half - 1>> \in Ranges(table)
  BY <1>0, <1>1 DEF Ranges
<1>. QED  BY <1>0, <1>1, <1>2, <1>3, <1>4

\* In a table whose fields end with a null.
LEMMA RoundFinds ==
  ASSUME NEW table, Sorted(table), NEW word \in Int, NEW lo \in 1 .. Len(table) + 1, NEW n \in 0 .. Len(table),
         lo + n <= Len(table) + 1, NEW search,
         \A r \in Ranges(table) : r[2] < n => search[r] = Finds(table, word, r)
  PROVE  Round(table, Nulls, word, <<lo, n>>, search) = Finds(table, word, <<lo, n>>)
<1>. DEFINE half == n \div 2
            mid  == lo + half
<1>0. Len(table) \in Nat /\ lo \in Nat /\ n \in Nat /\ DOMAIN table = 1 .. Len(table) /\ Words(table)
  BY DEF Sorted, Words
<1>1. CASE n = 0
  <2>1. Among(table, word, <<lo, n>>) = {}
    BY <1>0, <1>1 DEF Among
  <2>. QED  BY <1>1, <2>1 DEF Round, Finds
<1>2. CASE n > 0
  <2>1. half \in Nat /\ half < n
    BY <1>0, <1>2
  <2>2. /\ mid \in DOMAIN table /\ mid \in Nat /\ table[mid].word \in Nat
        /\ <<lo, half>> \in Ranges(table)
        /\ <<mid + 1, n - half - 1>> \in Ranges(table) /\ n - half - 1 < n
    BY <1>0, <1>2, Halves
  <2>0. \A field : Before(word, field, Nulls) <=> word < field
    BY DEF Before, Nulls, Blanks
  <2>. HIDE DEF half
  <2>3. CASE word < table[mid].word
    <3>2. Round(table, Nulls, word, <<lo, n>>, search) = search[<<lo, half>>]
      BY <1>2, <2>0, <2>3 DEF Round, half
    <3>3. Among(table, word, <<lo, n>>) = Among(table, word, <<lo, half>>)
      <4>1. \A q \in DOMAIN table : q >= mid => table[q].word # word
        BY <2>2, <2>3, SortedSides
      <4>. QED  BY <1>0, <2>1, <4>1 DEF Among
    <3>. QED  BY <2>1, <2>2, <3>2, <3>3 DEF Finds
  <2>4. CASE word > table[mid].word
    <3>2. Round(table, Nulls, word, <<lo, n>>, search) = search[<<mid + 1, n - half - 1>>]
      <4>1. ~(word < table[mid].word) /\ n # 0
        BY <1>2, <2>2, <2>4
      <4>. QED  BY <2>0, <2>4, <4>1 DEF Round, half
    <3>3. Among(table, word, <<lo, n>>) = Among(table, word, <<mid + 1, n - half - 1>>)
      <4>1. \A q \in DOMAIN table : q <= mid => table[q].word # word
        BY <2>2, <2>4, SortedSides
      <4>. QED  BY <1>0, <2>1, <4>1 DEF Among
    <3>. QED  BY <2>2, <3>2, <3>3 DEF Finds
  <2>5. CASE word = table[mid].word
    <3>1. Round(table, Nulls, word, <<lo, n>>, search) = table[mid].text
      BY <1>2, <2>0, <2>2, <2>5 DEF Round, half
    <3>2. mid \in Among(table, word, <<lo, n>>)
      BY <1>0, <2>1, <2>2, <2>5 DEF Among
    <3>. QED  BY <2>2, <2>5, <3>1, <3>2, SortedEntry DEF Finds
  <2>. QED  BY <2>2, <2>3, <2>4, <2>5
<1>. QED  BY <1>0, <1>1, <1>2

\* There is one search that its rounds define, and it finds the word.
LEMMA SearchExists ==
  ASSUME NEW table, Sorted(table), NEW word \in Int
  PROVE  \E search : Searches(table, Nulls, search, word)
<1>. DEFINE search == [r \in Ranges(table) |-> Finds(table, word, r)]
<1>1. ASSUME NEW r \in Ranges(table)  PROVE Finds(table, word, r) = Round(table, Nulls, word, r, search)
  <2>1. \A q \in Ranges(table) : search[q] = Finds(table, word, q)
    OBVIOUS
  <2>. HIDE DEF search
  <2>. QED  BY <2>1, RangeFacts, RoundFinds
<1>2. Searches(table, Nulls, search, word)
  BY <1>1 DEF Searches
<1>. HIDE DEF search
<1>. QED  BY <1>2

LEMMA BinaryFinds ==
  ASSUME NEW table, Sorted(table), NEW word \in Int
  PROVE  Binary(table, Nulls, word) = Entry(table, word)
<1>. DEFINE search == CHOOSE s : Searches(table, Nulls, s, word)
<1>0. Len(table) \in Nat /\ DOMAIN table = 1 .. Len(table)
  BY DEF Sorted, Words
<1>1. Searches(table, Nulls, search, word)
  BY SearchExists
<1>2. Binary(table, Nulls, word) = search[<<1, Len(table)>>]
  BY DEF Binary, Searches, Round, Ranges
<1>. HIDE DEF search
<1>3. \A r \in Ranges(table) : search[r] = Round(table, Nulls, word, r, search)
  BY <1>1 DEF Searches
<1>. DEFINE Good == {n \in Nat : \A r \in Ranges(table) : r[2] < n => search[r] = Finds(table, word, r)}
<1>4. 0 \in Good
  BY <1>0, RangeFacts
<1>5. ASSUME NEW n \in Nat, n \in Good  PROVE n + 1 \in Good
  <2>. SUFFICES ASSUME NEW r \in Ranges(table), r[2] < n + 1  PROVE search[r] = Finds(table, word, r)
    OBVIOUS
  <2>0. /\ r[1] \in 1 .. Len(table) + 1 /\ r[2] \in 0 .. Len(table) /\ r[2] \in Nat
        /\ r[1] + r[2] <= Len(table) + 1 /\ r = <<r[1], r[2]>> /\ r[2] <= n
    BY <1>0, RangeFacts
  <2>1. \A q \in Ranges(table) : q[2] < r[2] => search[q] = Finds(table, word, q)
    BY <1>0, <1>5, <2>0, RangeFacts
  <2>2. Round(table, Nulls, word, <<r[1], r[2]>>, search) = Finds(table, word, <<r[1], r[2]>>)
    BY <2>0, <2>1, RoundFinds
  <2>. QED  BY <1>3, <2>0, <2>2
<1>. HIDE DEF Good
<1>6. \A n \in Nat : n \in Good
  BY <1>4, <1>5, Induction
<1>7. <<1, Len(table)>> \in Ranges(table) /\ Len(table) + 1 \in Nat
  BY <1>0 DEF Ranges
<1>8. search[<<1, Len(table)>>] = Finds(table, word, <<1, Len(table)>>)
  BY <1>0, <1>6, <1>7 DEF Good
<1>9. Among(table, word, <<1, Len(table)>>) = {r \in DOMAIN table : table[r].word = word}
  BY <1>0 DEF Among
<1>10. Among(table, word, <<1, Len(table)>>) = {} => Entry(table, word) = NotFound
  BY <1>9, SortedEntry
<1>. QED  BY <1>2, <1>8, <1>10 DEF Finds

\* In a table whose fields are filled up with blanks no round ends with a text.
LEMMA RoundMisses ==
  ASSUME NEW table, Words(table), NEW word \in Int, NEW lo \in 1 .. Len(table) + 1, NEW n \in 0 .. Len(table),
         lo + n <= Len(table) + 1, NEW search,
         \A r \in Ranges(table) : r[2] < n => search[r] = NotFound
  PROVE  Round(table, Blanks, word, <<lo, n>>, search) = NotFound
<1>. DEFINE half == n \div 2
            mid  == lo + half
<1>1. CASE n = 0
  BY <1>1 DEF Round
<1>2. CASE n > 0
  <2>1. /\ half < n /\ <<lo, half>> \in Ranges(table) /\ table[mid].word \in Nat
        /\ <<mid + 1, n - half - 1>> \in Ranges(table) /\ n - half - 1 < n /\ n # 0
    <3>1. n # 0
      BY <1>2
    <3>. QED  BY <1>2, <3>1, Halves
  <2>. HIDE DEF half
  <2>2. CASE Before(word, table[mid].word, Blanks)
    <3>1. Round(table, Blanks, word, <<lo, n>>, search) = search[<<lo, half>>]
      BY <2>1, <2>2 DEF Round, half
    <3>. QED  BY <2>1, <3>1
  <2>3. CASE ~Before(word, table[mid].word, Blanks)
    <3>1. word > table[mid].word
      <4>1. \A a \in Int, b \in Nat : ~Before(a, b, Blanks) => a > b
        BY DEF Before
      <4>. QED  BY <2>1, <2>3, <4>1
    <3>2. Round(table, Blanks, word, <<lo, n>>, search) = search[<<mid + 1, n - half - 1>>]
      BY <2>1, <2>3, <3>1 DEF Round, half
    <3>. QED  BY <2>1, <3>2
  <2>. QED  BY <2>2, <2>3
<1>3. n \in Nat
  BY DEF Words
<1>. QED  BY <1>1, <1>2, <1>3

LEMMA BlankSearchExists ==
  ASSUME NEW table, Words(table), NEW word \in Int
  PROVE  \E search : Searches(table, Blanks, search, word)
<1>. DEFINE search == [r \in Ranges(table) |-> NotFound]
<1>1. ASSUME NEW r \in Ranges(table)  PROVE NotFound = Round(table, Blanks, word, r, search)
  <2>1. \A q \in Ranges(table) : search[q] = NotFound
    OBVIOUS
  <2>. HIDE DEF search
  <2>. QED  BY <2>1, RangeFacts, RoundMisses
<1>2. Searches(table, Blanks, search, word)
  BY <1>1 DEF Searches
<1>. HIDE DEF search
<1>. QED  BY <1>2

LEMMA BinaryMisses ==
  ASSUME NEW table, Words(table), NEW word \in Int
  PROVE  Binary(table, Blanks, word) = NotFound
<1>. DEFINE search == CHOOSE s : Searches(table, Blanks, s, word)
<1>0. Len(table) \in Nat /\ DOMAIN table = 1 .. Len(table)
  BY DEF Words
<1>1. Searches(table, Blanks, search, word)
  BY BlankSearchExists
<1>2. Binary(table, Blanks, word) = search[<<1, Len(table)>>]
  BY DEF Binary, Searches, Round, Ranges
<1>. HIDE DEF search
<1>3. \A r \in Ranges(table) : search[r] = Round(table, Blanks, word, r, search)
  BY <1>1 DEF Searches
<1>. DEFINE Good == {n \in Nat : \A r \in Ranges(table) : r[2] < n => search[r] = NotFound}
<1>4. 0 \in Good
  BY <1>0, RangeFacts
<1>5. ASSUME NEW n \in Nat, n \in Good  PROVE n + 1 \in Good
  <2>. SUFFICES ASSUME NEW r \in Ranges(table), r[2] < n + 1  PROVE search[r] = NotFound
    OBVIOUS
  <2>0. /\ r[1] \in 1 .. Len(table) + 1 /\ r[2] \in 0 .. Len(table) /\ r[2] \in Nat
        /\ r[1] + r[2] <= Len(table) + 1 /\ r = <<r[1], r[2]>> /\ r[2] <= n
    BY <1>0, RangeFacts
  <2>1. \A q \in Ranges(table) : q[2] < r[2] => search[q] = NotFound
    BY <1>0, <1>5, <2>0, RangeFacts
  <2>2. Round(table, Blanks, word, <<r[1], r[2]>>, search) = NotFound
    BY <2>0, <2>1, RoundMisses
  <2>. QED  BY <1>3, <2>0, <2>2
<1>. HIDE DEF Good
<1>6. \A n \in Nat : n \in Good
  BY <1>4, <1>5, Induction
<1>7. <<1, Len(table)>> \in Ranges(table) /\ Len(table) + 1 \in Nat
  BY <1>0 DEF Ranges
<1>8. search[<<1, Len(table)>>] = NotFound
  BY <1>0, <1>6, <1>7 DEF Good
<1>. QED  BY <1>2, <1>8

\* Whatever text convert has read, the binary search by strcmp finds none of the words
\* in the file that it writes: their fields do not end where the words do.
THEOREM ConvertedNotFound ==
  ASSUME TextOK, NEW word \in Int
  PROVE  Binary(Table, Blanks, word) = NotFound
<1>1. Words(Table)
  BY TableFacts DEF Words
<1>. QED  BY <1>1, BinaryMisses

LEMMA FixrecFacts ==
  ASSUME FixrecOK
  PROVE  Sorted(Fixrec.records) /\ Fixrec.pad = Nulls
<1>. DEFINE table == Fixrec.records
<1>1. table \in Seq([word : Nat, text : Seq(Nat)])
  BY FixrecAssumption
<1>2. table \in Seq(Record)
  BY <1>1 DEF Record
<1>3. Len(table) \in Nat /\ DOMAIN table = 1 .. Len(table) /\ \A r \in DOMAIN table : table[r] \in Record
  BY <1>2
<1>4. \A record \in Record : record.word \in Nat /\ record.text \in Seq(Nat)
  BY DEF Record
<1>. QED  BY <1>2, <1>3, <1>4 DEF FixrecOK, Sorted, Words

\* What a file says of a word is a text, or that it is not there; and never "XXXX".
LEMMA TextsAreNot ==
  ASSUME NEW text, text = NotFound \/ text \in Seq(Nat)
  PROVE  text \in Seq(Int) \ {<<Mark>>}
<1>1. NotFound \in Seq(Int) /\ NotFound # <<Mark>>
  BY DEF NotFound, Mark
<1>2. <<Mark>> \notin Seq(Nat)
  BY DEF Mark
<1>3. Seq(Nat) \subseteq Seq(Int)
  OBVIOUS
<1>. QED  BY <1>1, <1>2, <1>3

\* For every text and every file fixrec that is in order: the linear search of the file
\* that convert makes of the text finds what the text says of each word (the first
\* record, the last, one in the middle, or none), and so does the binary search of
\* fixrec with what that file says.
THEOREM SearchesRight ==
  ASSUME TextOK, FixrecOK
  PROVE  SearchesFind
<1>. SUFFICES ASSUME NEW c \in Clients, NEW i \in DOMAIN Questions[c]
              PROVE  LET word == Questions[c][i]
                     IN /\ Meaning(word) \in Seq(Int)
                        /\ Entry(Fixrec.records, word) \in Seq(Int) \ {<<Mark>>}
                        /\ Found(word) = Entry(Fixrec.records, word)
                        /\ Linear(Table, word) \in {Meaning(word), Crash}
  BY DEF SearchesFind
<1>. DEFINE word == Questions[c][i]
<1>1. word \in Int
  <2>1. Questions[c] \in Seq(Int)
    BY DictionaryAssumption
  <2>. QED  BY <2>1
<1>2. Meaning(word) = NotFound \/ Meaning(word) \in Seq(Nat)
  BY TableFacts
<1>3. Sorted(Fixrec.records) /\ Fixrec.pad = Nulls
  BY FixrecFacts
<1>4. Entry(Fixrec.records, word) = NotFound \/ Entry(Fixrec.records, word) \in Seq(Nat)
  BY <1>3, SortedEntry DEF Sorted, Words
<1>5. Meaning(word) \in Seq(Int) /\ Entry(Fixrec.records, word) \in Seq(Int) \ {<<Mark>>}
  BY <1>2, <1>4, TextsAreNot
<1>6. Found(word) = Entry(Fixrec.records, word)
  BY <1>1, <1>3, BinaryFinds DEF Found
<1>. QED  BY <1>5, <1>6, LinearFinds
---------------------------------------------------------------------------
(* The right answer to each question *)

LEMMA InitAInv == Init => AInv
<1>. SUFFICES ASSUME Init  PROVE AInv
  OBVIOUS
<1>1. <<>> \in Seq(Texts) /\ \A c \in Clients : shown[c] = <<>> /\ Len(shown[c]) = 0 /\ DOMAIN shown[c] = {}
  BY DEF Init
<1>2. shown \in [Clients -> Seq(Texts)]
  BY <1>1 DEF Init
<1>3. \A c \in Clients : Len(Questions[c]) \in Nat
  BY DictionaryAssumption
<1>4. \A c \in Clients : pc[c] = "ask" /\ inbox[c] = <<>>
  BY DEF Init
<1>5. RightAnswers
  BY <1>1 DEF RightAnswers, FileAnswers, ServedAnswers
<1>. QED  BY <1>1, <1>2, <1>3, <1>4, <1>5 DEF AInv, Asks

\* A step that shows nothing, and brings no reply.
LEMMA SilentAInv ==
  ASSUME AInv, UNCHANGED <<variant, shown>>,
         \A c \in Clients : /\ inbox'[c] = inbox[c] \/ inbox'[c] = <<>>
                            /\ pc'[c] = "wait" => pc[c] = "wait" \/ (More(c) /\ variant # "file")
  PROVE  AInv'
<1>1. \A c \in Clients : More(c)' = More(c) /\ Word(c)' = Word(c)
  BY DEF More, Word
<1>2. \A c \in Clients : Asks(c)'
  BY <1>1 DEF AInv, Asks, Expected
<1>. QED  BY <1>2 DEF AInv, RightAnswers, FileAnswers, ServedAnswers

\* A client shows one more answer, to the question that it has asked.
LEMMA ShowsAInv ==
  ASSUME AInv, NEW c \in Clients, More(c), NEW answer \in Texts, Shows(c, answer),
         UNCHANGED variant,
         variant = "file" /\ c \notin Missing => IsPrefix(Meaning(Word(c)), answer),
         variant # "file" => answer = Says(Word(c)),
         inbox'[c] = <<>>, pc'[c] # "wait",
         \A d \in Clients : d # c => pc'[d] = pc[d] /\ inbox'[d] = inbox[d]
  PROVE  AInv'
<1>1. /\ shown \in [Clients -> Seq(Texts)] /\ shown[c] \in Seq(Texts) /\ Len(shown[c]) \in Nat
      /\ Len(Questions[c]) \in Nat
  BY DictionaryAssumption DEF AInv
<1>2. /\ shown'[c] = Append(shown[c], answer) /\ shown' \in [Clients -> Seq(Texts)]
      /\ \A d \in Clients : d # c => shown'[d] = shown[d]
  BY <1>1 DEF Shows
<1>3. /\ Len(shown'[c]) = Len(shown[c]) + 1
      /\ DOMAIN shown'[c] = 1 .. Len(shown[c]) + 1
      /\ \A i \in 1 .. Len(shown[c]) : shown'[c][i] = shown[c][i]
      /\ shown'[c][Len(shown[c]) + 1] = answer
  BY <1>1, <1>2
<1>4. \A d \in Clients : Len(shown'[d]) <= Len(Questions[d])
  BY <1>1, <1>2, <1>3 DEF AInv, More
<1>5. \A d \in Clients : Asks(d)'
  BY <1>2 DEF AInv, Asks, Expected, More, Word
<1>6. RightAnswers'
  <2>. SUFFICES ASSUME NEW d \in Clients, NEW i \in DOMAIN shown'[d]
                PROVE  /\ variant = "file" /\ d \notin Missing
                            => IsPrefix(Meaning(Questions[d][i]), shown'[d][i])
                       /\ variant # "file" => shown'[d][i] = Says(Questions[d][i])
    BY DEF RightAnswers, FileAnswers, ServedAnswers, Says
  <2>1. CASE d # c
    BY <1>2, <2>1 DEF AInv, RightAnswers, FileAnswers, ServedAnswers, Says
  <2>2. CASE d = c /\ i = Len(shown[c]) + 1
    BY <1>3, <2>2 DEF Word
  <2>3. CASE d = c /\ i # Len(shown[c]) + 1
    <3>1. i \in 1 .. Len(shown[c]) /\ i \in DOMAIN shown[c]
      BY <1>1, <1>3, <2>3
    <3>. QED  BY <1>3, <2>3, <3>1 DEF AInv, RightAnswers, FileAnswers, ServedAnswers, Says
  <2>. QED  BY <2>1, <2>2, <2>3
<1>. QED  BY <1>2, <1>4, <1>5, <1>6 DEF AInv

\* What is assumed of the searches holds of the word that a client asks for.
LEMMA WordFound ==
  ASSUME SearchesFind, NEW c \in Clients, AInv, More(c)
  PROVE  /\ Meaning(Word(c)) \in Texts
         /\ Says(Word(c)) \in Texts /\ Says(Word(c)) # <<Mark>>
         /\ Found(Word(c)) = Says(Word(c))
         /\ Linear(Table, Word(c)) \in {Meaning(Word(c)), Crash}
<1>1. Questions[c] \in Seq(Int) /\ Len(shown[c]) \in Nat
  BY DictionaryAssumption DEF AInv
<1>2. Len(shown[c]) + 1 \in DOMAIN Questions[c]
  BY <1>1 DEF More
<1>. QED  BY <1>2 DEF SearchesFind, Word, Texts, Says

LEMMA PrefixOfMore ==
  ASSUME NEW s \in Seq(Int), NEW t \in Seq(Int)
  PROVE  IsPrefix(s, s \o t) /\ s \o t \in Seq(Int) /\ IsPrefix(s, s)
BY DEF IsPrefix

LEMMA CrashIsNotNotFound == Crash # NotFound
BY DEF Crash, NotFound

LEMMA LookUpAInv ==
  ASSUME SearchesFind, DInv, AInv, NEW c \in Clients, LookUp(c)
  PROVE  AInv'
<1>. DEFINE text == Linear(Table, Word(c))
<1>1. /\ More(c) /\ pc[c] = "ask" /\ variant = "file" /\ UNCHANGED <<variant, inbox>>
  BY DEF LookUp, net
<1>2. inbox[c] = <<>>
  <2>1. ~At(c, "inbox", Nobody)
    BY <1>1, AtWaits, SpotFacts
  <2>. QED  BY <2>1 DEF At
<1>3. text \in {Meaning(Word(c)), Crash} /\ Meaning(Word(c)) \in Texts
  BY <1>1, WordFound
<1>. HIDE DEF text
<1>4. CASE text = Crash
  <2>1. UNCHANGED shown /\ pc' = [pc EXCEPT ![c] = "crashed"]
    BY <1>4, CrashIsNotNotFound DEF LookUp, text
  <2>. QED  BY <1>1, <2>1, SilentAInv DEF DInv, DTypes
<1>5. CASE text # Crash
  <2>1. text = Meaning(Word(c))
    BY <1>3, <1>5
  <2>2. UNCHANGED pc
    BY <1>5 DEF LookUp, text
  <2>3. \/ text = NotFound /\ Shows(c, text)
        \/ Shows(c, text \o <<>>) \/ Shows(c, text \o <<Junk>>)
    BY <1>5 DEF LookUp, text
  <2>4. <<>> \in Seq(Int) /\ <<Junk>> \in Seq(Int) /\ text \in Seq(Int)
    BY <1>3, <2>1 DEF Junk, Texts
  <2>5. PICK answer \in Texts : Shows(c, answer) /\ IsPrefix(text, answer)
    BY <2>3, <2>4, PrefixOfMore DEF Texts
  <2>. QED  BY <1>1, <1>2, <2>1, <2>2, <2>5, ShowsAInv
<1>. QED  BY <1>4, <1>5

LEMMA LookUpMissingAInv ==
  ASSUME DInv, AInv, NEW c \in Clients, LookUpMissing(c)
  PROVE  AInv'
<1>1. /\ More(c) /\ pc[c] = "ask" /\ variant = "file" /\ c \in Missing /\ UNCHANGED <<variant, inbox>>
  BY DEF LookUpMissing, net
<1>2. inbox[c] = <<>>
  <2>1. ~At(c, "inbox", Nobody)
    BY <1>1, AtWaits, SpotFacts
  <2>. QED  BY <2>1 DEF At
<1>3. CASE c \in null
  <2>1. UNCHANGED shown /\ pc' = [pc EXCEPT ![c] = "crashed"]
    BY <1>3 DEF LookUpMissing
  <2>. QED  BY <1>1, <2>1, SilentAInv DEF DInv, DTypes
<1>4. CASE c \notin null
  <2>1. Shows(c, NotFound) /\ UNCHANGED pc /\ NotFound \in Texts
    BY <1>4 DEF LookUpMissing, NotFound, Texts
  <2>. QED  BY <1>1, <1>2, <2>1, ShowsAInv
<1>. QED  BY <1>3, <1>4

LEMMA ReceiveAInv ==
  ASSUME SearchesFind, DInv, AInv, NEW c \in Clients, Receive(c)
  PROVE  AInv'
<1>1. More(c) /\ variant # "file" /\ inbox[c] = <<Expected(c)>>
  BY DEF Receive, AInv, Asks
<1>2. Says(Word(c)) \in Texts /\ Says(Word(c)) # <<Mark>>
  BY <1>1, WordFound
<1>3. Answer(inbox[c][1]) = Says(Word(c))
  BY <1>1, <1>2 DEF Answer, Expected
<1>4. Shows(c, Says(Word(c))) /\ UNCHANGED variant
  BY <1>3 DEF Receive
<1>5. /\ pc'[c] = "ask" /\ inbox'[c] = <<>>
      /\ \A d \in Clients : d # c => pc'[d] = pc[d] /\ inbox'[d] = inbox[d]
  BY DEF Receive, DInv, DTypes
<1>. QED  BY <1>1, <1>2, <1>4, <1>5, ShowsAInv

\* The server looks up the word that its client waits for.
LEMMA ReplyAInv ==
  ASSUME SearchesFind, DInv, AInv, NEW s \in Servers, Reply(s)
  PROVE  AInv'
<1>. PICK c \in Clients : busy[s] = c
  BY DEF Reply, DInv, DTypes
<1>1. pc[c] = "wait" /\ More(c)
  <2>1. At(c, "busy", s)
    BY DEF At
  <2>. QED  BY <2>1, AtWaits, SpotFacts DEF AInv, Asks
<1>2. Found(Word(c)) = Says(Word(c))
  BY <1>1, WordFound
<1>3. inbox' = [inbox EXCEPT ![c] = <<Expected(c)>>]
  BY <1>2 DEF Reply, Expected
<1>4. UNCHANGED <<variant, pc, shown>>
  BY DEF Reply
<1>5. \A d \in Clients : Asks(d)'
  <2>. TAKE d \in Clients
  <2>1. inbox'[d] = inbox[d] \/ (d = c /\ inbox'[d] = <<Expected(c)>>)
    BY <1>3 DEF DInv, DTypes
  <2>. QED  BY <1>4, <2>1 DEF AInv, Asks, Expected, More, Word
<1>. QED  BY <1>4, <1>5 DEF AInv, RightAnswers, FileAnswers, ServedAnswers

LEMMA NextAInv == SearchesFind /\ DInv /\ AInv /\ [Next]_vars => AInv'
<1>. SUFFICES ASSUME SearchesFind, DInv, AInv, [Next]_vars  PROVE AInv'
  OBVIOUS
<1>1. CASE UNCHANGED <<variant, pc, shown, inbox>>
  BY <1>1, SilentAInv
<1>2. ASSUME NEW c \in Clients, Ask(c)  PROVE AInv'
  BY <1>2, SilentAInv DEF Ask, DInv, DTypes
<1>3. ASSUME NEW c \in Clients, Leave(c)  PROVE AInv'
  BY <1>3, SilentAInv DEF Leave, DInv, DTypes, net
<1>4. \/ UNCHANGED <<variant, pc, shown, inbox>>
      \/ \E c \in Clients : Ask(c) \/ Leave(c) \/ LookUp(c) \/ LookUpMissing(c) \/ Receive(c)
      \/ \E s \in Servers : Reply(s)
  BY DEF Next, vars, net, Client, Network, Serve, Deliver, Forward, Accept, ExitMissing, Kill, Start
<1>. QED  BY <1>1, <1>2, <1>3, <1>4, LookUpAInv, LookUpMissingAInv, ReceiveAInv, ReplyAInv

\* Whatever the text and the servers' file, as long as they are in order: each client
\* is shown what its dictionary says of the words it has asked for, one after the
\* other, whatever clients and workers there are and whoever is killed.
THEOREM AnswersRight ==
  ASSUME TextOK, FixrecOK
  PROVE  Spec => []RightAnswers
<1>1. Init => DInv /\ AInv
  BY InitDInv, InitAInv
<1>2. DInv /\ AInv /\ [Next]_vars => DInv' /\ AInv'
  BY SearchesRight, NextDInv, NextAInv
<1>3. AInv => RightAnswers
  BY DEF AInv
<1>. QED  BY <1>1, <1>2, <1>3, PTL DEF Spec
===========================================================================
