----------------------------- MODULE UnixProofs -----------------------------
(***************************************************************************)
(* Proofs about the shells of Shell, for any session: whatever lines they  *)
(* read, and however their children, and the children of those, run.       *)
(***************************************************************************)
EXTENDS UnixPrograms, SequenceTheorems, FiniteSetTheorems, WellFoundedInduction, TLAPS

(* Induction over the numbers, from their well-foundedness *)

Smaller == OpToRel(<, Nat)

LEMMA SmallerPairs ==
  /\ IsWellFoundedOn(Smaller, Nat)
  /\ \A m, n \in Nat : <<m, n>> \in Smaller <=> m < n
<1>1. IsWellFoundedOn(Smaller, Nat)
  BY NatLessThanWellFounded, Zenon DEF Smaller
<1>2. \A m, n \in Nat : <<m, n>> \in Smaller <=> m < n
  BY DEF Smaller, OpToRel
<1>. QED  BY <1>1, <1>2

LEMMA LeastNumber ==
  ASSUME NEW T \in SUBSET Nat, T # {}
  PROVE  \E n \in T : \A m \in T : n <= m
<1>1. PICK n \in T : \A m \in T : ~(<<m, n>> \in Smaller)
  <2>1. IsWellFoundedOn(Smaller, Nat) /\ T \subseteq Nat
    BY SmallerPairs
  <2>. QED  BY <2>1, WFMin, Zenon
<1>2. \A m \in T : ~(m < n)
  BY <1>1, SmallerPairs
<1>. QED  BY <1>2

LEMMA Induction ==
  ASSUME NEW S, 0 \in S, \A n \in Nat : n \in S => n + 1 \in S
  PROVE  \A n \in Nat : n \in S
<1>. SUFFICES ASSUME NEW k \in Nat, k \notin S  PROVE FALSE
  OBVIOUS
<1>1. PICK n \in Nat \ S : \A m \in Nat \ S : n <= m
  <2>1. Nat \ S \in SUBSET Nat /\ Nat \ S # {}
    OBVIOUS
  <2>. QED  BY <2>1, LeastNumber
<1>2. n # 0 /\ n - 1 \in Nat /\ (n - 1) + 1 = n
  BY <1>1
<1>3. n - 1 \in S
  BY <1>1, <1>2
<1>. QED  BY <1>1, <1>2, <1>3

LEMMA MinProps ==
  ASSUME NEW T \in SUBSET Nat, T # {}
  PROVE  Min(T) \in T /\ \A m \in T : Min(T) <= m
BY LeastNumber DEF Min
---------------------------------------------------------------------------
(* Sequences of whatever *)

IsList(s) == \E X : s \in Seq(X)

LEMMA SeqFacts ==
  ASSUME NEW s, IsList(s)
  PROVE  /\ Len(s) \in Nat /\ DOMAIN s = 1 .. Len(s)
         /\ s # <<>> => /\ IsList(Tail(s)) /\ Len(Tail(s)) = Len(s) - 1 /\ Len(s) # 0
                        /\ DOMAIN Tail(s) = 1 .. Len(s) - 1 /\ 1 \in DOMAIN s
                        /\ \A i \in DOMAIN Tail(s) : i + 1 \in DOMAIN s /\ Tail(s)[i] = s[i + 1]
<1>. PICK X : s \in Seq(X)
  BY DEF IsList
<1>1. Len(s) \in Nat /\ DOMAIN s = 1 .. Len(s)
  OBVIOUS
<1>2. ASSUME s # <<>>
      PROVE  /\ Tail(s) \in Seq(X) /\ Len(Tail(s)) = Len(s) - 1 /\ Len(s) # 0
             /\ \A i \in 1 .. Len(s) - 1 : Tail(s)[i] = s[i + 1]
  BY <1>2
<1>3. Tail(s) \in Seq(X) => IsList(Tail(s)) /\ DOMAIN Tail(s) = 1 .. Len(Tail(s))
  BY DEF IsList
<1>. QED  BY <1>1, <1>2, <1>3

LEMMA ConcatFacts ==
  ASSUME NEW s, NEW t, IsList(s), IsList(t)
  PROVE  /\ IsList(s \o t) /\ Len(s \o t) = Len(s) + Len(t)
         /\ DOMAIN (s \o t) = 1 .. Len(s) + Len(t)
         /\ \A i \in 1 .. Len(s) : (s \o t)[i] = s[i]
         /\ \A i \in 1 .. Len(t) : (s \o t)[Len(s) + i] = t[i]
         /\ \A i \in DOMAIN (s \o t) : \/ i \in DOMAIN s /\ (s \o t)[i] = s[i]
                                       \/ i - Len(s) \in DOMAIN t /\ (s \o t)[i] = t[i - Len(s)]
<1>. PICK X : s \in Seq(X)
  BY DEF IsList
<1>. PICK Y : t \in Seq(Y)
  BY DEF IsList
<1>1. s \in Seq(X \union Y) /\ t \in Seq(X \union Y)
  OBVIOUS
<1>2. /\ s \o t \in Seq(X \union Y) /\ Len(s \o t) = Len(s) + Len(t)
      /\ \A i \in 1 .. Len(s) + Len(t) : (s \o t)[i] = IF i <= Len(s) THEN s[i] ELSE t[i - Len(s)]
  BY <1>1
<1>. HIDE DEF IsList
<1>3. Len(s) \in Nat /\ DOMAIN s = 1 .. Len(s) /\ Len(t) \in Nat /\ DOMAIN t = 1 .. Len(t)
  BY SeqFacts
<1>4. IsList(s \o t) /\ DOMAIN (s \o t) = 1 .. Len(s) + Len(t)
  BY <1>2 DEF IsList
<1>5. \A i \in 1 .. Len(t) : Len(s) + i \in 1 .. Len(s) + Len(t) /\ ~(Len(s) + i <= Len(s)) /\ (Len(s) + i) - Len(s) = i
  BY <1>3
<1>6. \A i \in 1 .. Len(s) + Len(t) : i <= Len(s) \/ i - Len(s) \in 1 .. Len(t)
  BY <1>3
<1>7. \A i \in 1 .. Len(t) : (s \o t)[Len(s) + i] = t[i]
  BY <1>2, <1>5
<1>8. \A i \in 1 .. Len(s) : i \in 1 .. Len(s) + Len(t) /\ i <= Len(s)
  BY <1>3
<1>. QED  BY <1>2, <1>3, <1>4, <1>6, <1>7, <1>8

LEMMA AppendFacts ==
  ASSUME NEW s, NEW x, IsList(s)
  PROVE  /\ IsList(Append(s, x)) /\ Len(Append(s, x)) = Len(s) + 1
         /\ DOMAIN Append(s, x) = 1 .. Len(s) + 1
         /\ \A i \in 1 .. Len(s) : Append(s, x)[i] = s[i]
         /\ Append(s, x)[Len(s) + 1] = x
<1>. PICK X : s \in Seq(X)
  BY DEF IsList
<1>1. s \in Seq(X \union {x})
  OBVIOUS
<1>2. Append(s, x) \in Seq(X \union {x})
  BY <1>1
<1>3. /\ Len(Append(s, x)) = Len(s) + 1
      /\ \A i \in 1 .. Len(s) : Append(s, x)[i] = s[i]
      /\ Append(s, x)[Len(s) + 1] = x
  BY <1>1
<1>. QED  BY <1>2, <1>3 DEF IsList

\* A function on 1 .. n is a sequence.
LEMMA FunctionIsSeq ==
  ASSUME NEW f, NEW n \in Nat, f = [i \in 1 .. n |-> f[i]]
  PROVE  IsList(f) /\ Len(f) = n /\ DOMAIN f = 1 .. n
<1>. DEFINE X == {f[i] : i \in 1 .. n}
<1>1. f \in Seq(X) /\ Len(f) = n
  OBVIOUS
<1>2. DOMAIN f = 1 .. n
  OBVIOUS
<1>. HIDE DEF X
<1>3. IsList(f)
  BY <1>1 DEF IsList
<1>. QED  BY <1>1, <1>2, <1>3

LEMMA ExceptIsSeq ==
  ASSUME NEW s, IsList(s), NEW i, NEW x
  PROVE  /\ IsList([s EXCEPT ![i] = x]) /\ Len([s EXCEPT ![i] = x]) = Len(s)
         /\ DOMAIN [s EXCEPT ![i] = x] = DOMAIN s
<1>. DEFINE f == [s EXCEPT ![i] = x]
<1>1. Len(s) \in Nat /\ DOMAIN s = 1 .. Len(s)
  BY SeqFacts
<1>2. f = [j \in 1 .. Len(s) |-> f[j]]
  BY <1>1
<1>. HIDE DEF f
<1>3. IsList(f) /\ Len(f) = Len(s) /\ DOMAIN f = 1 .. Len(s)
  BY <1>1, <1>2, FunctionIsSeq
<1>. QED  BY <1>1, <1>3 DEF f
---------------------------------------------------------------------------
(* The calls of the children: whatever they do, they only fork the right   *)
(* sides of pipes, which do likewise, and wait for nobody.                 *)

PlainNames == {"exec", "exit", "write", "copy", "copyall", "open", "close", "dup2", "pipe",
               "undefined", "sleep"}
Plain(c) == c.call \in PlainNames
AllPlain(s) == IsList(s) /\ \A i \in DOMAIN s : Plain(s[i])

Right(c, T) == c.call = "fork" /\ c.var = "right" /\ c.calls \in T
Closed(T) == \A s \in T : IsList(s) /\ \A i \in DOMAIN s : Plain(s[i]) \/ Right(s[i], T)

HasRight(s) == \E T : Closed(T) /\ s \in T

LEMMA PlainHasRight ==
  ASSUME NEW s, AllPlain(s)
  PROVE  HasRight(s)
<1>1. Closed({s})
  BY DEF AllPlain, Closed
<1>. QED  BY <1>1 DEF HasRight

LEMMA RightNested ==
  ASSUME NEW s, HasRight(s), NEW i \in DOMAIN s
  PROVE  /\ IsList(s)
         /\ Plain(s[i]) \/ (s[i].call = "fork" /\ s[i].var = "right" /\ HasRight(s[i].calls))
<1>. PICK T : Closed(T) /\ s \in T
  BY DEF HasRight
<1>1. IsList(s) /\ (Plain(s[i]) \/ Right(s[i], T))
  BY DEF Closed
<1>2. ASSUME Right(s[i], T)
      PROVE  s[i].call = "fork" /\ s[i].var = "right" /\ HasRight(s[i].calls)
  BY <1>2 DEF Right, HasRight
<1>. QED  BY <1>1, <1>2

LEMMA RightIsSeq ==
  ASSUME NEW s, HasRight(s)
  PROVE  IsList(s)
BY DEF HasRight, Closed

\* With what a set closed already holds, another sequence of calls.
LEMMA ClosedAdd ==
  ASSUME NEW T, Closed(T), NEW U, Closed(U), NEW s, IsList(s),
         \A i \in DOMAIN s : Plain(s[i]) \/ Right(s[i], T) \/ Right(s[i], U)
  PROVE  HasRight(s)
<1>. DEFINE V == T \union U \union {s}
<1>1. Closed(V)
  <2>. SUFFICES ASSUME NEW t \in V
                PROVE  IsList(t) /\ \A i \in DOMAIN t : Plain(t[i]) \/ Right(t[i], V)
    BY DEF Closed
  <2>1. IsList(t) /\ \A i \in DOMAIN t : Plain(t[i]) \/ Right(t[i], T) \/ Right(t[i], U)
    BY DEF Closed
  <2>. QED  BY <2>1 DEF Right
<1>. HIDE DEF V
<1>2. s \in V
  BY DEF V
<1>. QED  BY <1>1, <1>2 DEF HasRight

LEMMA RightTail ==
  ASSUME NEW s, HasRight(s), s # <<>>
  PROVE  HasRight(Tail(s))
<1>. PICK T : Closed(T) /\ s \in T
  BY DEF HasRight
<1>1. IsList(s) /\ \A i \in DOMAIN s : Plain(s[i]) \/ Right(s[i], T)
  BY DEF Closed
<1>2. IsList(Tail(s)) /\ \A i \in DOMAIN Tail(s) : i + 1 \in DOMAIN s /\ Tail(s)[i] = s[i + 1]
  BY <1>1, SeqFacts
<1>3. \A i \in DOMAIN Tail(s) : Plain(Tail(s)[i]) \/ Right(Tail(s)[i], T)
  BY <1>1, <1>2
<1>. QED  BY <1>2, <1>3, ClosedAdd

LEMMA RightConcat ==
  ASSUME NEW s, HasRight(s), NEW t, HasRight(t)
  PROVE  HasRight(s \o t)
<1>. PICK T : Closed(T) /\ s \in T
  BY DEF HasRight
<1>. PICK U : Closed(U) /\ t \in U
  BY DEF HasRight
<1>1. /\ IsList(s) /\ \A i \in DOMAIN s : Plain(s[i]) \/ Right(s[i], T)
      /\ IsList(t) /\ \A i \in DOMAIN t : Plain(t[i]) \/ Right(t[i], U)
  BY DEF Closed
<1>2. /\ IsList(s \o t)
      /\ \A i \in DOMAIN (s \o t) : \/ i \in DOMAIN s /\ (s \o t)[i] = s[i]
                                    \/ i - Len(s) \in DOMAIN t /\ (s \o t)[i] = t[i - Len(s)]
  BY <1>1, ConcatFacts
<1>3. \A i \in DOMAIN (s \o t) : \/ Plain((s \o t)[i]) \/ Right((s \o t)[i], T)
                                 \/ Right((s \o t)[i], U)
  BY <1>1, <1>2
<1>. QED  BY <1>2, <1>3, ClosedAdd

LEMMA PlainSeq ==
  ASSUME NEW X, \A c \in X : Plain(c), NEW s \in Seq(X)
  PROVE  AllPlain(s)
<1>1. IsList(s)
  BY DEF IsList
<1>2. \A i \in DOMAIN s : s[i] \in X
  OBVIOUS
<1>. QED  BY <1>1, <1>2 DEF AllPlain

LEMMA PlainTuples ==
  /\ AllPlain(<<>>)
  /\ \A a : Plain(a) => AllPlain(<<a>>)
  /\ \A a, b : Plain(a) /\ Plain(b) => AllPlain(<<a, b>>)
  /\ \A a, b, c : Plain(a) /\ Plain(b) /\ Plain(c) => AllPlain(<<a, b, c>>)
  /\ \A a, b, c, d : Plain(a) /\ Plain(b) /\ Plain(c) /\ Plain(d) => AllPlain(<<a, b, c, d>>)
<1>1. AllPlain(<<>>)
  <2>1. <<>> \in Seq({})
    OBVIOUS
  <2>. QED  BY <2>1, PlainSeq
<1>2. ASSUME NEW a, Plain(a)  PROVE AllPlain(<<a>>)
  <2>1. <<a>> \in Seq({a}) /\ \A x \in {a} : Plain(x)
    BY <1>2
  <2>. QED  BY <2>1, PlainSeq
<1>3. ASSUME NEW a, NEW b, Plain(a), Plain(b)  PROVE AllPlain(<<a, b>>)
  <2>1. <<a, b>> \in Seq({a, b}) /\ \A x \in {a, b} : Plain(x)
    BY <1>3
  <2>. QED  BY <2>1, PlainSeq
<1>4. ASSUME NEW a, NEW b, NEW c, Plain(a), Plain(b), Plain(c)  PROVE AllPlain(<<a, b, c>>)
  <2>1. <<a, b, c>> \in Seq({a, b, c}) /\ \A x \in {a, b, c} : Plain(x)
    BY <1>4
  <2>. QED  BY <2>1, PlainSeq
<1>5. ASSUME NEW a, NEW b, NEW c, NEW d, Plain(a), Plain(b), Plain(c), Plain(d)
      PROVE  AllPlain(<<a, b, c, d>>)
  <2>1. <<a, b, c, d>> \in Seq({a, b, c, d}) /\ \A x \in {a, b, c, d} : Plain(x)
    BY <1>5
  <2>. QED  BY <2>1, PlainSeq
<1>. QED  BY <1>1, <1>2, <1>3, <1>4, <1>5

LEMMA PlainCalls ==
  /\ \A c : Plain(Exec(c)) /\ Plain(Exit(c)) /\ Plain(Sleep(c)) /\ Plain(Close(c))
  /\ \A v, w : Plain(Write(v, w)) /\ Plain(Copy(v, w)) /\ Plain(CopyAll(v, w))
               /\ Plain(Dup2(v, w)) /\ Plain(Pipe(v, w))
  /\ \A v, f, m : Plain(Open(v, f, m))
  /\ \A ends : Plain(Undefined(ends))
BY DEF Plain, PlainNames, Exec, Exit, Sleep, Close, Write, Copy, CopyAll, Dup2, Pipe, Open,
       Undefined

LEMMA RightCommand ==
  ASSUME NEW cmd
  PROVE  HasRight(Command(cmd))
<1>1. AllPlain(Command(cmd))
  <2>. DEFINE one == <<Write("stdout", <<cmd, 1>>), Exit(0)>>
              three == <<Write("stdout", <<cmd, 1>>), Write("stdout", <<cmd, 2>>),
                         Write("stdout", <<cmd, 3>>), Exit(0)>>
  <2>1. /\ AllPlain(<<Write("stdout", <<"ls", 1>>), Write("stdout", <<"ls", 2>>), Exit(0)>>)
        /\ AllPlain(<<CopyAll("stdin", "stdout"), Exit(0)>>)
        /\ AllPlain(<<Copy("stdin", "stdout"), Exit(0)>>)
        /\ AllPlain(<<Exit(0)>>) /\ AllPlain(<<Exit(1)>>)
        /\ AllPlain(<<Sleep(2), Write("stdout", <<cmd, 1>>), Exit(0)>>)
        /\ AllPlain(<<Sleep(4), Write("stdout", <<cmd, 1>>), Exit(0)>>)
        /\ AllPlain(one) /\ AllPlain(three)
    BY PlainTuples, PlainCalls
  <2>. HIDE DEF one, three
  <2>2. \/ Command(cmd) = <<Write("stdout", <<"ls", 1>>), Write("stdout", <<"ls", 2>>), Exit(0)>>
        \/ Command(cmd) = <<CopyAll("stdin", "stdout"), Exit(0)>>
        \/ Command(cmd) = <<Copy("stdin", "stdout"), Exit(0)>>
        \/ Command(cmd) = <<Exit(0)>> \/ Command(cmd) = <<Exit(1)>>
        \/ Command(cmd) = <<Sleep(2), Write("stdout", <<cmd, 1>>), Exit(0)>>
        \/ Command(cmd) = <<Sleep(4), Write("stdout", <<cmd, 1>>), Exit(0)>>
        \/ Command(cmd) = one \/ Command(cmd) = three
    BY DEF Command, one, three
  <2>. QED  BY <2>1, <2>2
<1>. QED  BY <1>1, PlainHasRight
---------------------------------------------------------------------------
(* The descriptors of the children: what is open besides the standard      *)
(* input and output, and under which name, at each point of the calls.     *)

Shapes == {"std", "file", "pipe", "in", "out"}

\* No call but these touches a descriptor.
Touching == {"open", "dup2", "close", "pipe", "fork"}

\* The call c is made with the descriptors k, and leaves t.
Leads(c, k, t) ==
  \/ c.call \in PlainNames \ Touching /\ c.call # "exec" /\ k = t
  \/ c.call = "exec" /\ k = "std" /\ t = "std"
  \/ c.call = "fork" /\ c.var = "right" /\ k = t
  \/ c = Open("fd", InFile, "r") /\ k = "std" /\ t = "file"
  \/ c = Open("fd", OutFile, "w") /\ k = "std" /\ t = "file"
  \/ c = Dup2("fd", "stdin") /\ k = "file" /\ t = "file"
  \/ c = Dup2("fd", "stdout") /\ k = "file" /\ t = "file"
  \/ c = Close("fd") /\ k = "file" /\ t = "std"
  \/ c = Pipe("pipefds[0]", "pipefds[1]") /\ k = "std" /\ t = "pipe"
  \/ c = Close("pipefds[1]") /\ k = "pipe" /\ t = "in"
  \/ c = Dup2("pipefds[0]", "stdin") /\ k = "in" /\ t = "in"
  \/ c = Close("pipefds[0]") /\ k = "in" /\ t = "std"
  \/ c = Close("pipefds[0]") /\ k = "pipe" /\ t = "out"
  \/ c = Dup2("pipefds[1]", "stdout") /\ k = "out" /\ t = "out"
  \/ c = Close("pipefds[1]") /\ k = "out" /\ t = "std"

\* T: calls, each with the descriptors that they start from; they end with the
\* standard ones, and so do the calls of whoever they fork.
Led(s, k, T) ==
  /\ IsList(s) /\ k \in Shapes
  /\ s = <<>> => k = "std"
  /\ s # <<>> => /\ \E t : Leads(s[1], k, t) /\ <<Tail(s), t>> \in T
                 /\ s[1].call = "fork" => <<s[1].calls, k>> \in T
Leading(T) ==
  /\ \A x \in T : x = <<x[1], x[2]>>
  /\ \A s, k : <<s, k>> \in T => Led(s, k, T)

Keeps(s, k) == \E T : Leading(T) /\ <<s, k>> \in T

LEMMA LedBy ==
  ASSUME NEW s, NEW k, NEW T, Led(s, k, T), NEW V, T \subseteq V
  PROVE  Led(s, k, V)
<1>. HIDE DEF Leads
<1>. QED  BY DEF Led

LEMMA KeepsFacts ==
  ASSUME NEW s, NEW k, Keeps(s, k)
  PROVE  /\ IsList(s) /\ k \in Shapes
         /\ s = <<>> => k = "std"
         /\ s # <<>> => /\ \E t : Leads(s[1], k, t) /\ Keeps(Tail(s), t)
                        /\ s[1].call = "fork" => Keeps(s[1].calls, k)
<1>. PICK T : Leading(T) /\ <<s, k>> \in T
  BY DEF Keeps
<1>1. /\ IsList(s) /\ k \in Shapes
      /\ s = <<>> => k = "std"
      /\ s # <<>> => /\ \E t : Leads(s[1], k, t) /\ <<Tail(s), t>> \in T
                     /\ s[1].call = "fork" => <<s[1].calls, k>> \in T
  BY DEF Leading, Led
<1>2. \A u, t : <<u, t>> \in T => Keeps(u, t)
  BY DEF Keeps
<1>. HIDE DEF Keeps, Leading, Leads
<1>. QED  BY <1>1, <1>2

LEMMA KeepsNothing == Keeps(<<>>, "std")
<1>. DEFINE T == {<<<<>>, "std">>}
<1>1. IsList(<<>>)
  <2>1. <<>> \in Seq({})
    OBVIOUS
  <2>. QED  BY <2>1 DEF IsList
<1>2. Leading(T)
  BY <1>1 DEF Leading, Led, Shapes
<1>. QED  BY <1>2 DEF Keeps

LEMMA KeepsCons ==
  ASSUME NEW c, NEW k \in Shapes, NEW t, Leads(c, k, t), NEW s, Keeps(s, t),
         c.call = "fork" => Keeps(c.calls, k)
  PROVE  Keeps(<<c>> \o s, k)
<1>. PICK T : Leading(T) /\ <<s, t>> \in T
  BY DEF Keeps
<1>1. PICK U : Leading(U) /\ (c.call = "fork" => <<c.calls, k>> \in U)
  <2>1. Leading({})
    BY DEF Leading
  <2>. QED  BY <2>1 DEF Keeps
<1>. DEFINE u == <<c>> \o s
            V == T \union U \union {<<u, k>>}
<1>2. IsList(s)
  BY DEF Leading, Led
<1>3. IsList(u) /\ u # <<>> /\ u[1] = c /\ Tail(u) = s
  <2>1. PICK X : s \in Seq(X)
    BY <1>2 DEF IsList
  <2>2. <<c>> \in Seq(X \union {c}) /\ s \in Seq(X \union {c})
    BY <2>1
  <2>. QED  BY <2>2 DEF IsList
<1>. HIDE DEF u
<1>4. Leading(V)
  <2>0. \A x \in V : x = <<x[1], x[2]>>
    BY <1>1 DEF Leading
  <2>. SUFFICES ASSUME NEW r, NEW l, <<r, l>> \in V
                PROVE  Led(r, l, V)
    BY <2>0 DEF Leading
  <2>. T \subseteq V /\ U \subseteq V
    OBVIOUS
  <2>. HIDE DEF Leads, Led, V
  <2>1. CASE <<r, l>> \in T
    BY <2>1, LedBy DEF Leading
  <2>2. CASE <<r, l>> \in U
    BY <1>1, <2>2, LedBy DEF Leading
  <2>3. CASE r = u /\ l = k
    <3>1. <<s, t>> \in V /\ (c.call = "fork" => <<c.calls, k>> \in V)
      BY <1>1
    <3>. QED  BY <1>3, <2>3, <3>1 DEF Led
  <2>. QED  BY <2>1, <2>2, <2>3 DEF V
<1>. HIDE DEF V
<1>5. <<u, k>> \in V
  BY DEF V
<1>. QED  BY <1>4, <1>5 DEF Keeps, u

LEMMA KeepsConcat ==
  ASSUME NEW s, NEW k, Keeps(s, k), NEW u, Keeps(u, "std")
  PROVE  Keeps(s \o u, k)
<1>. PICK T : Leading(T) /\ <<s, k>> \in T
  BY DEF Keeps
<1>. PICK U : Leading(U) /\ <<u, "std">> \in U
  BY DEF Keeps
<1>. DEFINE V == T \union U \union {<<x[1] \o u, x[2]>> : x \in T}
<1>1. IsList(u)
  BY DEF Leading, Led
<1>2. ASSUME NEW r, IsList(r)
      PROVE  /\ IsList(r \o u)
             /\ r = <<>> => r \o u = u
             /\ r # <<>> => r \o u # <<>> /\ (r \o u)[1] = r[1] /\ Tail(r \o u) = Tail(r) \o u
  <2>1. PICK X : r \in Seq(X)
    BY <1>2 DEF IsList
  <2>2. PICK Y : u \in Seq(Y)
    BY <1>1 DEF IsList
  <2>3. r \in Seq(X \union Y) /\ u \in Seq(X \union Y)
    BY <2>1, <2>2
  <2>4. r \o u \in Seq(X \union Y)
    BY <2>3
  <2>. QED  BY <2>3, <2>4 DEF IsList
<1>3. \A r, l : <<r, l>> \in T => <<r \o u, l>> \in V
  <2>. SUFFICES ASSUME NEW r, NEW l, <<r, l>> \in T  PROVE <<r \o u, l>> \in V
    OBVIOUS
  <2>1. <<r \o u, l>> = <<<<r, l>>[1] \o u, <<r, l>>[2]>>
    OBVIOUS
  <2>. QED  BY <2>1
<1>4. Leading(V)
  <2>0. \A x \in V : x = <<x[1], x[2]>>
    BY <1>1 DEF Leading
  <2>. SUFFICES ASSUME NEW r, NEW l, <<r, l>> \in V
                PROVE  Led(r, l, V)
    BY <2>0 DEF Leading
  <2>. T \subseteq V /\ U \subseteq V
    OBVIOUS
  <2>. HIDE DEF Leads, Led, V
  <2>1. CASE <<r, l>> \in T
    BY <2>1, LedBy DEF Leading
  <2>2. CASE <<r, l>> \in U
    BY <2>2, LedBy DEF Leading
  <2>3. CASE <<r, l>> \notin T \union U
    <3>. HIDE DEF Leading
    <3>1. PICK x \in T : <<r, l>> = <<x[1] \o u, x[2]>>
      BY <2>3 DEF V
    <3>2. PICK q : <<q, l>> \in T /\ r = q \o u
      <4>1. x = <<x[1], x[2]>> /\ x[2] = l /\ r = x[1] \o u
        BY <3>1 DEF Leading
      <4>. QED  BY <4>1
    <3>3. /\ IsList(q) /\ l \in Shapes
          /\ q = <<>> => l = "std"
          /\ q # <<>> => /\ \E m : Leads(q[1], l, m) /\ <<Tail(q), m>> \in T
                         /\ q[1].call = "fork" => <<q[1].calls, l>> \in T
      BY <3>2 DEF Leading, Led
    <3>4. CASE q = <<>>
      <4>1. <<r, l>> \in U
        BY <1>2, <3>2, <3>3, <3>4
      <4>. QED  BY <2>3, <4>1
    <3>5. CASE q # <<>>
      <4>1. IsList(r) /\ r # <<>> /\ r[1] = q[1] /\ Tail(r) = Tail(q) \o u
        BY <1>2, <3>2, <3>3, <3>5
      <4>2. PICK m : Leads(q[1], l, m) /\ <<Tail(q), m>> \in T
        BY <3>3, <3>5
      <4>3. <<Tail(r), m>> \in V
        BY <1>3, <4>1, <4>2
      <4>4. r[1].call = "fork" => <<r[1].calls, l>> \in V
        BY <3>3, <3>5, <4>1
      <4>. QED  BY <3>3, <4>1, <4>2, <4>3, <4>4 DEF Led
    <3>. QED  BY <3>4, <3>5
  <2>. QED  BY <2>1, <2>2, <2>3
<1>. HIDE DEF V
<1>. QED  BY <1>3, <1>4 DEF Keeps

\* The calls of a child as it is forked: it forks only the right sides of pipes,
\* waits for nobody, and leaves no descriptor open.
Orderly(s) == HasRight(s) /\ Keeps(s, "std")

LEMMA OrderlyConcat ==
  ASSUME NEW s, Orderly(s), NEW t, Orderly(t)
  PROVE  Orderly(s \o t)
BY RightConcat, KeepsConcat DEF Orderly

LEMMA Pairs ==
  ASSUME NEW a, NEW b, NEW c
  PROVE  <<a>> \o <<>> = <<a>> /\ <<a>> \o <<b>> = <<a, b>> /\ <<a>> \o <<b, c>> = <<a, b, c>>
<1>. DEFINE X == {a, b, c}
            x == <<a>> \o <<b>>
            y == <<a>> \o <<b, c>>
<1>1. <<>> \in Seq(X) /\ <<a>> \in Seq(X) /\ <<b>> \in Seq(X) /\ <<b, c>> \in Seq(X)
      /\ <<a, b>> \in Seq(X) /\ <<a, b, c>> \in Seq(X)
  OBVIOUS
<1>2. x \in Seq(X) /\ Len(x) = 2 /\ x[1] = a /\ x[2] = b
  BY <1>1
<1>3. y \in Seq(X) /\ Len(y) = 3 /\ y[1] = a /\ y[2] = b /\ y[3] = c
  BY <1>1
<1>. HIDE DEF X, x, y
<1>4. x = <<a, b>>
  BY <1>1, <1>2
<1>5. y = <<a, b, c>>
  BY <1>1, <1>3
<1>6. <<a>> \o <<>> = <<a>>
  BY <1>1
<1>. QED  BY <1>4, <1>5, <1>6 DEF x, y

LEMMA FourInFront ==
  ASSUME NEW a, NEW b, NEW c, NEW d
  PROVE  <<a>> \o <<b, c, d>> = <<a, b, c, d>>
<1>. DEFINE X == {a, b, c, d}
            x == <<a>> \o <<b, c, d>>
<1>1. <<a>> \in Seq(X) /\ <<b, c, d>> \in Seq(X) /\ <<a, b, c, d>> \in Seq(X)
  OBVIOUS
<1>2. x \in Seq(X) /\ Len(x) = 4 /\ x[1] = a /\ x[2] = b /\ x[3] = c /\ x[4] = d
  BY <1>1
<1>. HIDE DEF X, x
<1>3. x = <<a, b, c, d>>
  BY <1>1, <1>2
<1>. QED  BY <1>3 DEF x

InFront(a, b, c, d, e, f) == <<a>> \o (<<b>> \o <<c, d, e, f>>) = <<a, b, c, d, e, f>>

LEMMA SixInFront ==
  ASSUME NEW a, NEW b, NEW c, NEW d, NEW e, NEW f
  PROVE  InFront(a, b, c, d, e, f)
<1>. DEFINE X == {a, b, c, d, e, f}
            y == <<b>> \o <<c, d, e, f>>
            z == <<a>> \o y
<1>1. <<a>> \in Seq(X) /\ <<b>> \in Seq(X) /\ <<c, d, e, f>> \in Seq(X)
      /\ <<a, b, c, d, e, f>> \in Seq(X)
  OBVIOUS
<1>3. y \in Seq(X) /\ Len(y) = 5 /\ y[1] = b /\ y[2] = c /\ y[3] = d /\ y[4] = e /\ y[5] = f
  BY <1>1
<1>. HIDE DEF X, y
<1>4. z \in Seq(X) /\ Len(z) = 6 /\ z[1] = a /\ z[2] = b /\ z[3] = c /\ z[4] = d
      /\ z[5] = e /\ z[6] = f
  <2>. DEFINE q == <<a>>
  <2>1. q \in Seq(X) /\ Len(q) = 1 /\ q[1] = a
    BY <1>1
  <2>. HIDE DEF q
  <2>2. IsList(q) /\ IsList(y)
    BY <1>3, <2>1 DEF IsList
  <2>3. /\ Len(q \o y) = Len(q) + Len(y)
        /\ \A i \in 1 .. Len(q) : (q \o y)[i] = q[i]
        /\ \A i \in 1 .. Len(y) : (q \o y)[Len(q) + i] = y[i]
    BY <2>2, ConcatFacts
  <2>4. q \o y \in Seq(X)
    BY <1>3, <2>1
  <2>. HIDE DEF IsList
  <2>5. /\ Len(q \o y) = 6 /\ (q \o y)[1] = q[1] /\ (q \o y)[2] = y[1] /\ (q \o y)[3] = y[2]
        /\ (q \o y)[4] = y[3] /\ (q \o y)[5] = y[4] /\ (q \o y)[6] = y[5]
    <3>1. 1 \in 1 .. Len(q) /\ \A i \in {1, 2, 3, 4, 5} : i \in 1 .. Len(y)
      BY <1>3, <2>1
    <3>2. Len(q) + 1 = 2 /\ Len(q) + 2 = 3 /\ Len(q) + 3 = 4 /\ Len(q) + 4 = 5 /\ Len(q) + 5 = 6
      BY <2>1
    <3>3. \A i \in {1, 2, 3, 4, 5} : (q \o y)[Len(q) + i] = y[i]
      BY <2>3, <3>1
    <3>. QED  BY <1>3, <2>1, <2>3, <3>1, <3>2, <3>3
  <2>. QED  BY <1>3, <2>1, <2>4, <2>5 DEF q
<1>. HIDE DEF z
<1>6. z = <<a, b, c, d, e, f>>
  BY <1>1, <1>4
<1>. QED  BY <1>6 DEF y, z, InFront

\* A call in front of others.
LEMMA KeepsTuples ==
  \A k \in Shapes :
    /\ \A a : Leads(a, k, "std") /\ a.call # "fork" => Keeps(<<a>>, k)
    /\ \A a, b : \A t \in Shapes :
         Leads(a, k, t) /\ a.call # "fork" /\ Keeps(<<b>>, t) => Keeps(<<a, b>>, k)
    /\ \A a, b, c : \A t \in Shapes :
         Leads(a, k, t) /\ a.call # "fork" /\ Keeps(<<b, c>>, t) => Keeps(<<a, b, c>>, k)
<1>. TAKE k \in Shapes
<1>. HIDE DEF Leads
<1>1. ASSUME NEW a, Leads(a, k, "std"), a.call # "fork"  PROVE Keeps(<<a>>, k)
  <2>1. Keeps(<<a>> \o <<>>, k)
    BY <1>1, KeepsNothing, KeepsCons
  <2>. QED  BY <2>1, Pairs
<1>2. ASSUME NEW a, NEW b, NEW t \in Shapes, Leads(a, k, t), a.call # "fork", Keeps(<<b>>, t)
      PROVE  Keeps(<<a, b>>, k)
  <2>1. Keeps(<<a>> \o <<b>>, k)
    BY <1>2, KeepsCons
  <2>. QED  BY <2>1, Pairs
<1>3. ASSUME NEW a, NEW b, NEW c, NEW t \in Shapes, Leads(a, k, t), a.call # "fork",
             Keeps(<<b, c>>, t)
      PROVE  Keeps(<<a, b, c>>, k)
  <2>1. Keeps(<<a>> \o <<b, c>>, k)
    BY <1>3, KeepsCons
  <2>. QED  BY <2>1, Pairs
<1>. QED  BY <1>1, <1>2, <1>3

\* The calls that touch no descriptor.
Idle(c) == c.call \in PlainNames \ Touching /\ c.call # "exec"

LEMMA IdleCalls ==
  /\ \A c : Idle(c) => c.call # "fork" /\ \A k : Leads(c, k, k)
  /\ \A x : Idle(Exit(x)) /\ Idle(Sleep(x))
  /\ \A v, w : Idle(Write(v, w)) /\ Idle(Copy(v, w)) /\ Idle(CopyAll(v, w))
  /\ \A ends : Idle(Undefined(ends))
BY DEF Idle, Leads, PlainNames, Touching, Exit, Sleep, Write, Copy, CopyAll, Undefined

LEMMA IdleTuples ==
  /\ \A a : Idle(a) => Keeps(<<a>>, "std")
  /\ \A a, b : Idle(a) /\ Idle(b) => Keeps(<<a, b>>, "std")
  /\ \A a, b, c : Idle(a) /\ Idle(b) /\ Idle(c) => Keeps(<<a, b, c>>, "std")
  /\ \A a, b, c, d : Idle(a) /\ Idle(b) /\ Idle(c) /\ Idle(d) => Keeps(<<a, b, c, d>>, "std")
<1>. "std" \in Shapes
  BY DEF Shapes
<1>1. \A c : Idle(c) => c.call # "fork" /\ Leads(c, "std", "std")
  BY IdleCalls
<1>. HIDE DEF Idle, Leads
<1>2. ASSUME NEW a, Idle(a)  PROVE Keeps(<<a>>, "std")
  <2>1. Leads(a, "std", "std") /\ a.call # "fork"
    BY <1>1, <1>2
  <2>. QED  BY <2>1, KeepsTuples
<1>3. \A a, b : Idle(a) /\ Idle(b) => Keeps(<<a, b>>, "std")
  BY <1>1, <1>2, KeepsTuples
<1>4. \A a, b, c : Idle(a) /\ Idle(b) /\ Idle(c) => Keeps(<<a, b, c>>, "std")
  BY <1>1, <1>3, KeepsTuples
<1>5. ASSUME NEW a, NEW b, NEW c, NEW d, Idle(a), Idle(b), Idle(c), Idle(d)
      PROVE  Keeps(<<a, b, c, d>>, "std")
  <2>1. Leads(a, "std", "std") /\ a.call # "fork" /\ Keeps(<<b, c, d>>, "std")
    BY <1>1, <1>4, <1>5
  <2>2. Keeps(<<a>> \o <<b, c, d>>, "std")
    BY <2>1, KeepsCons
  <2>3. <<a>> \o <<b, c, d>> = <<a, b, c, d>>
    BY FourInFront, Zenon
  <2>. QED  BY <2>2, <2>3
<1>. QED  BY <1>2, <1>3, <1>4, <1>5

LEMMA OrderlyTuples ==
  /\ \A x : Orderly(<<Exit(x)>>) /\ Orderly(<<Exec(x)>>)
  /\ \A x : Orderly(<<Exec(x), Exit(1)>>)
  /\ \A v, w : Orderly(<<Write(v, w)>>)
  /\ \A ends : Orderly(<<Undefined(ends)>>)
<1>1. /\ \A x : HasRight(<<Exit(x)>>) /\ HasRight(<<Exec(x)>>)
      /\ \A x : HasRight(<<Exec(x), Exit(1)>>)
      /\ \A v, w : HasRight(<<Write(v, w)>>)
      /\ \A ends : HasRight(<<Undefined(ends)>>)
  BY PlainTuples, PlainCalls, PlainHasRight
<1>2. /\ \A x : Keeps(<<Exit(x)>>, "std") /\ \A v, w : Keeps(<<Write(v, w)>>, "std")
      /\ \A ends : Keeps(<<Undefined(ends)>>, "std")
  BY IdleTuples, IdleCalls
<1>3. /\ "std" \in Shapes
      /\ \A x : Leads(Exec(x), "std", "std") /\ Exec(x).call # "fork"
  BY DEF Leads, Exec, Shapes
<1>4. ASSUME NEW x  PROVE Keeps(<<Exec(x)>>, "std") /\ Keeps(<<Exec(x), Exit(1)>>, "std")
  <2>. DEFINE e == Exec(x)
  <2>1. Leads(e, "std", "std") /\ e.call # "fork" /\ Keeps(<<Exit(1)>>, "std")
    BY <1>2, <1>3
  <2>. HIDE DEF Leads, e
  <2>2. Keeps(<<e>>, "std") /\ Keeps(<<e, Exit(1)>>, "std")
    BY <1>3, <2>1, KeepsTuples
  <2>. QED  BY <2>2 DEF e
<1>. QED  BY <1>1, <1>2, <1>4 DEF Orderly

LEMMA OrderlyCommand ==
  ASSUME NEW cmd
  PROVE  Orderly(Command(cmd))
<1>1. Keeps(Command(cmd), "std")
  <2>. DEFINE one == <<Write("stdout", <<cmd, 1>>), Exit(0)>>
              three == <<Write("stdout", <<cmd, 1>>), Write("stdout", <<cmd, 2>>),
                         Write("stdout", <<cmd, 3>>), Exit(0)>>
  <2>1. /\ Keeps(<<Write("stdout", <<"ls", 1>>), Write("stdout", <<"ls", 2>>), Exit(0)>>, "std")
        /\ Keeps(<<CopyAll("stdin", "stdout"), Exit(0)>>, "std")
        /\ Keeps(<<Copy("stdin", "stdout"), Exit(0)>>, "std")
        /\ Keeps(<<Exit(0)>>, "std") /\ Keeps(<<Exit(1)>>, "std")
        /\ Keeps(<<Sleep(2), Write("stdout", <<cmd, 1>>), Exit(0)>>, "std")
        /\ Keeps(<<Sleep(4), Write("stdout", <<cmd, 1>>), Exit(0)>>, "std")
        /\ Keeps(one, "std") /\ Keeps(three, "std")
    BY IdleTuples, IdleCalls
  <2>. HIDE DEF one, three
  <2>2. \/ Command(cmd) = <<Write("stdout", <<"ls", 1>>), Write("stdout", <<"ls", 2>>), Exit(0)>>
        \/ Command(cmd) = <<CopyAll("stdin", "stdout"), Exit(0)>>
        \/ Command(cmd) = <<Copy("stdin", "stdout"), Exit(0)>>
        \/ Command(cmd) = <<Exit(0)>> \/ Command(cmd) = <<Exit(1)>>
        \/ Command(cmd) = <<Sleep(2), Write("stdout", <<cmd, 1>>), Exit(0)>>
        \/ Command(cmd) = <<Sleep(4), Write("stdout", <<cmd, 1>>), Exit(0)>>
        \/ Command(cmd) = one \/ Command(cmd) = three
    BY DEF Command, one, three
  <2>. QED  BY <2>1, <2>2
<1>. QED  BY <1>1, RightCommand DEF Orderly

LEMMA OrderlyOpens ==
  ASSUME NEW sign, NEW name
  PROVE  Keeps(Opens(sign, name), "std")
<1>. {"std", "file"} \subseteq Shapes
  BY DEF Shapes
<1>1. /\ Leads(Open("fd", InFile, "r"), "std", "file")
      /\ Leads(Open("fd", OutFile, "w"), "std", "file")
      /\ Leads(Dup2("fd", "stdin"), "file", "file") /\ Leads(Dup2("fd", "stdout"), "file", "file")
      /\ Leads(Close("fd"), "file", "std")
  BY DEF Leads
<1>2. /\ Open("fd", InFile, "r").call # "fork" /\ Open("fd", OutFile, "w").call # "fork"
      /\ \A v : Close(v).call # "fork" /\ \A w : Dup2(v, w).call # "fork"
  BY DEF Open, Dup2, Close
<1>. HIDE DEF Leads
<1>3. Keeps(<<Close("fd")>>, "file")
  BY <1>1, <1>2, KeepsTuples
<1>4. Keeps(<<Dup2("fd", "stdin"), Close("fd")>>, "file")
      /\ Keeps(<<Dup2("fd", "stdout"), Close("fd")>>, "file")
  BY <1>1, <1>2, <1>3, KeepsTuples
<1>5. Keeps(<<Open("fd", InFile, "r"), Dup2("fd", "stdin"), Close("fd")>>, "std")
      /\ Keeps(<<Open("fd", OutFile, "w"), Dup2("fd", "stdout"), Close("fd")>>, "std")
  BY <1>1, <1>2, <1>4, KeepsTuples
<1>6. Keeps(<<Exit(1)>>, "std")
  BY OrderlyTuples DEF Orderly
<1>. QED  BY <1>5, <1>6 DEF Opens
---------------------------------------------------------------------------
(* Recursive functions *)

\* G leads from values in S to values in S; f is defined by it.
StepsIn(G, S, N) == \A x \in S : \A n \in 1 .. N : G[<<x, n>>] \in S
Follows(f, b, G, N) == f[0] = b /\ \A n \in 1 .. N : f[n] = G[<<f[n - 1], n>>]

\* A function by recursion over 0 .. N with values in S.
LEMMA RecursionExists ==
  ASSUME NEW S, NEW b \in S, NEW N \in Nat, NEW G, StepsIn(G, S, N)
  PROVE  \E f \in [0 .. N -> S] : Follows(f, b, G, N)
<1>. DEFINE Good(f, k) == f[0] = b /\ \A n \in 1 .. k : f[n] = G[<<f[n - 1], n>>]
            Found == {k \in Nat : k <= N => \E f \in [0 .. N -> S] : Good(f, k)}
<1>1. 0 \in Found
  <2>1. [n \in 0 .. N |-> b] \in [0 .. N -> S] /\ Good([n \in 0 .. N |-> b], 0)
    OBVIOUS
  <2>. HIDE DEF Good
  <2>. QED  BY <2>1
<1>2. ASSUME NEW k \in Nat, k \in Found  PROVE k + 1 \in Found
  <2>. SUFFICES ASSUME k + 1 <= N  PROVE \E f \in [0 .. N -> S] : Good(f, k + 1)
    OBVIOUS
  <2>1. PICK f \in [0 .. N -> S] : Good(f, k)
    BY <1>2
  <2>2. f[k] \in S /\ k + 1 \in 1 .. N
    OBVIOUS
  <2>3. G[<<f[k], k + 1>>] \in S
    BY <2>2 DEF StepsIn
  <2>. DEFINE g == [f EXCEPT ![k + 1] = G[<<f[k], k + 1>>]]
  <2>4. g \in [0 .. N -> S] /\ g[k + 1] = G[<<f[k], k + 1>>]
        /\ \A n \in 0 .. k : g[n] = f[n]
    BY <2>2, <2>3
  <2>. HIDE DEF g
  <2>5. g[0] = b
    BY <2>1, <2>4
  <2>6. ASSUME NEW n \in 1 .. k + 1  PROVE g[n] = G[<<g[n - 1], n>>]
    <3>1. CASE n = k + 1
      <4>1. n - 1 = k /\ g[k] = f[k]
        BY <3>1, <2>4
      <4>. QED  BY <2>4, <3>1, <4>1
    <3>2. CASE n # k + 1
      <4>1. n \in 1 .. k /\ n \in 0 .. k /\ n - 1 \in 0 .. k
        BY <3>2
      <4>2. g[n] = f[n] /\ g[n - 1] = f[n - 1] /\ f[n] = G[<<f[n - 1], n>>]
        BY <2>1, <2>4, <4>1
      <4>. QED  BY <4>2
    <3>. QED  BY <3>1, <3>2
  <2>7. Good(g, k + 1)
    BY <2>5, <2>6
  <2>. HIDE DEF Good
  <2>. QED  BY <2>4, <2>7
<1>. HIDE DEF Found, Good
<1>3. \A k \in Nat : k \in Found
  BY <1>1, <1>2, Induction
<1>4. \E f \in [0 .. N -> S] : Good(f, N)
  BY <1>3 DEF Found
<1>. QED  BY <1>4 DEF Good, Follows

\* What holds of its first value, and of each value after the one before.
LEMMA RecursionIn ==
  ASSUME NEW S, NEW N \in Nat, NEW f, f[0] \in S,
         \A n \in 1 .. N : f[n - 1] \in S => f[n] \in S
  PROVE  \A n \in 0 .. N : f[n] \in S
<1>. DEFINE Good == {n \in Nat : n <= N => f[n] \in S}
<1>1. 0 \in Good
  OBVIOUS
<1>2. ASSUME NEW n \in Nat, n \in Good  PROVE n + 1 \in Good
  <2>. SUFFICES ASSUME n + 1 <= N  PROVE f[n + 1] \in S
    OBVIOUS
  <2>1. n + 1 \in 1 .. N /\ (n + 1) - 1 = n /\ n <= N
    OBVIOUS
  <2>. QED  BY <1>2, <2>1
<1>. HIDE DEF Good
<1>3. \A n \in Nat : n \in Good
  BY <1>1, <1>2, Induction
<1>. QED  BY <1>3 DEF Good
---------------------------------------------------------------------------
(* The words of a line *)

LEMMA ParseIsSeq ==
  ASSUME NEW line, IsList(line)
  PROVE  IsList(Parse(line))
<1>. DEFINE N == Len(line)
            S == Seq({line[i] : i \in DOMAIN line})
            Eq(f) == f = [n \in 0 .. N |-> IF n = 0 THEN <<>>
                            ELSE IF line[n] = White THEN f[n - 1] ELSE Append(f[n - 1], line[n])]
            G == [t \in S \X (1 .. N) |->
                    IF line[t[2]] = White THEN t[1] ELSE Append(t[1], line[t[2]])]
            words == CHOOSE f : Eq(f)
<1>1. N \in Nat /\ DOMAIN line = 1 .. N
  BY SeqFacts
<1>2. <<>> \in S /\ \A x \in S : \A n \in 1 .. N : Append(x, line[n]) \in S
  BY <1>1
<1>3. \A x \in S : \A n \in 1 .. N :
        G[<<x, n>>] = IF line[n] = White THEN x ELSE Append(x, line[n])
  OBVIOUS
<1>4. Parse(line) = words[N]
  BY DEF Parse
<1>. HIDE DEF N, S, G
<1>5. \E f : Eq(f)
  <2>1. StepsIn(G, S, N)
    <3>. SUFFICES ASSUME NEW x \in S, NEW n \in 1 .. N  PROVE G[<<x, n>>] \in S
      BY Zenon DEF StepsIn
    <3>1. G[<<x, n>>] = x \/ G[<<x, n>>] = Append(x, line[n])
      BY <1>3
    <3>. QED  BY <1>2, <3>1
  <2>. HIDE DEF Eq, words
  <2>2. PICK f \in [0 .. N -> S] : Follows(f, <<>>, G, N)
    BY <1>1, <1>2, <2>1, RecursionExists
  <2>3. ASSUME NEW n \in 0 .. N
        PROVE  f[n] = IF n = 0 THEN <<>>
                      ELSE IF line[n] = White THEN f[n - 1] ELSE Append(f[n - 1], line[n])
    <3>1. CASE n = 0
      BY <2>2, <3>1 DEF Follows
    <3>2. CASE n # 0
      <4>1. n \in 1 .. N /\ n - 1 \in 0 .. N
        BY <1>1, <3>2
      <4>2. f[n - 1] \in S /\ f[n] = G[<<f[n - 1], n>>]
        BY <2>2, <4>1 DEF Follows
      <4>. QED  BY <1>3, <3>2, <4>1, <4>2
    <3>. QED  BY <3>1, <3>2
  <2>4. Eq(f)
    BY <2>3 DEF Eq
  <2>. QED  BY <2>4
<1>. HIDE DEF Eq
<1>6. Eq(words)
  BY <1>5
<1>. HIDE DEF words
<1>. USE DEF Eq
<1>7. words[0] = <<>>
  BY <1>1, <1>6
<1>8. ASSUME NEW n \in 1 .. N, words[n - 1] \in S  PROVE words[n] \in S
  <2>1. n \in 0 .. N /\ n # 0
    BY <1>1
  <2>2. words[n] = IF line[n] = White THEN words[n - 1] ELSE Append(words[n - 1], line[n])
    BY <1>6, <2>1
  <2>. QED  BY <1>2, <1>8, <2>2
<1>. HIDE DEF Eq
<1>9. \A n \in 0 .. N : words[n] \in S
  BY <1>1, <1>2, <1>7, <1>8, RecursionIn
<1>10. Parse(line) \in S
  BY <1>1, <1>4, <1>9
<1>. QED  BY <1>10 DEF S, IsList
---------------------------------------------------------------------------
(* Redirections *)

OpenCalls == {Open("fd", InFile, "r"), Open("fd", OutFile, "w"), Dup2("fd", "stdin"),
              Dup2("fd", "stdout"), Close("fd"), Exit(1), Undefined({Stray})}
OpenLists == {s \in Seq(OpenCalls) : Keeps(s, "std")}
Scans(X) == [calls : OpenLists, argv : Seq(X), next : {"look", "file", "skip"}]

LEMMA OpensIn ==
  ASSUME NEW sign, NEW name
  PROVE  /\ Opens(sign, name) \in OpenLists
         /\ \A s \in OpenLists : s \o Opens(sign, name) \in OpenLists /\ s \o Dangling \in OpenLists
<1>1. /\ <<Exit(1)>> \in Seq(OpenCalls)
      /\ <<Open("fd", InFile, "r"), Dup2("fd", "stdin"), Close("fd")>> \in Seq(OpenCalls)
      /\ <<Open("fd", OutFile, "w"), Dup2("fd", "stdout"), Close("fd")>> \in Seq(OpenCalls)
  BY DEF OpenCalls
<1>2. Opens(sign, name) \in Seq(OpenCalls)
  BY <1>1 DEF Opens
<1>3. Dangling \in Seq(OpenCalls)
  BY DEF OpenCalls, Dangling
<1>4. Keeps(Dangling, "std")
  BY OrderlyTuples DEF Orderly, Dangling
<1>. HIDE DEF OpenCalls
<1>. QED  BY <1>2, <1>3, <1>4, OrderlyOpens, KeepsConcat DEF OpenLists

LEMMA ScanIn ==
  ASSUME NEW X, NEW s \in Scans(X), NEW word \in X, NEW sign
  PROVE  Scan(s, word, sign) \in Scans(X)
<1>1. s.calls \o Opens(sign, word) \in OpenLists /\ Append(s.argv, word) \in Seq(X)
  BY OpensIn DEF Scans
<1>. HIDE DEF OpenLists
<1>2. CASE s.next = "file"
  BY <1>1, <1>2 DEF Scan, Scans
<1>3. CASE s.next # "file" /\ s.next = "look" /\ word = sign
  BY <1>1, <1>3 DEF Scan, Scans
<1>4. CASE s.next # "file" /\ ~(s.next = "look" /\ word = sign)
  BY <1>1, <1>4 DEF Scan, Scans
<1>. QED  BY <1>2, <1>3, <1>4

LEMMA RedirectFacts ==
  ASSUME NEW argv, IsList(argv), NEW sign
  PROVE  IsList(Redirect(argv, sign).argv) /\ Orderly(Redirect(argv, sign).calls)
<1>. DEFINE N == Len(argv)
            X == {argv[i] : i \in DOMAIN argv}
            S == Scans(X)
            b == [calls |-> <<>>, argv |-> <<>>, next |-> "look"]
            Eq(f) == f = [n \in 0 .. N |-> IF n = 0
                            THEN [calls |-> <<>>, argv |-> <<>>, next |-> "look"]
                            ELSE Scan(f[n - 1], argv[n], sign)]
            G == [t \in S \X (1 .. N) |-> Scan(t[1], argv[t[2]], sign)]
            scan == CHOOSE f : Eq(f)
            end == scan[N]
<1>1. N \in Nat /\ DOMAIN argv = 1 .. N
  BY SeqFacts
<1>2. b \in S
  <2>1. <<>> \in OpenLists /\ <<>> \in Seq(X)
    BY KeepsNothing DEF OpenLists
  <2>. HIDE DEF X
  <2>. QED  BY <2>1 DEF Scans
<1>3. \A n \in 1 .. N : argv[n] \in X
  BY <1>1
<1>4. \A x \in S : \A n \in 1 .. N : G[<<x, n>>] = Scan(x, argv[n], sign)
  OBVIOUS
<1>. HIDE DEF X
<1>5. \A x \in S : \A n \in 1 .. N : Scan(x, argv[n], sign) \in S
  BY <1>3, ScanIn
<1>6. Redirect(argv, sign)
      = IF end.next = "look" THEN end
        ELSE [end EXCEPT !.calls = end.calls \o (IF end.next = "file" THEN Opens(sign, NoWord)
                                                  ELSE Dangling)]
  BY DEF Redirect
<1>. HIDE DEF N, S, G, scan
<1>7. \E f : Eq(f)
  <2>1. StepsIn(G, S, N)
    BY <1>4, <1>5, Zenon DEF StepsIn
  <2>2. PICK f \in [0 .. N -> S] : Follows(f, b, G, N)
    <3>. HIDE DEF b
    <3>. QED  BY <1>1, <1>2, <2>1, RecursionExists
  <2>3. ASSUME NEW n \in 0 .. N
        PROVE  f[n] = IF n = 0 THEN b ELSE Scan(f[n - 1], argv[n], sign)
    <3>. HIDE DEF b
    <3>1. CASE n = 0
      BY <2>2, <3>1 DEF Follows
    <3>2. CASE n # 0
      <4>1. n \in 1 .. N /\ n - 1 \in 0 .. N
        BY <1>1, <3>2
      <4>2. f[n - 1] \in S /\ f[n] = G[<<f[n - 1], n>>]
        BY <2>2, <4>1 DEF Follows
      <4>. QED  BY <1>4, <3>2, <4>1, <4>2
    <3>. QED  BY <3>1, <3>2
  <2>4. Eq(f)
    BY <2>3
  <2>. HIDE DEF Eq
  <2>. QED  BY <2>4
<1>. HIDE DEF Eq
<1>8. Eq(scan)
  BY <1>7 DEF scan
<1>. USE DEF Eq
<1>9. scan[0] = b
  BY <1>1, <1>8
<1>10. ASSUME NEW n \in 1 .. N, scan[n - 1] \in S  PROVE scan[n] \in S
  <2>1. n \in 0 .. N /\ n # 0
    BY <1>1
  <2>2. scan[n] = Scan(scan[n - 1], argv[n], sign)
    BY <1>8, <2>1
  <2>. QED  BY <1>5, <1>10, <2>2
<1>. HIDE DEF Eq, b
<1>11. \A n \in 0 .. N : scan[n] \in S
  BY <1>1, <1>2, <1>9, <1>10, RecursionIn
<1>12. end \in S
  BY <1>1, <1>11
<1>13. Redirect(argv, sign).argv \in Seq(X) /\ Redirect(argv, sign).calls \in OpenLists
  <2>. HIDE DEF end
  <2>1. end.calls \in OpenLists /\ end.argv \in Seq(X) /\ DOMAIN end = {"calls", "argv", "next"}
    BY <1>12 DEF S, Scans
  <2>2. end.calls \o Opens(sign, NoWord) \in OpenLists /\ end.calls \o Dangling \in OpenLists
    BY <2>1, OpensIn
  <2>. QED  BY <1>6, <2>1, <2>2
<1>14. \A c \in OpenCalls : Plain(c)
  BY PlainCalls DEF OpenCalls
<1>15. Orderly(Redirect(argv, sign).calls)
  <2>1. Redirect(argv, sign).calls \in Seq(OpenCalls) /\ Keeps(Redirect(argv, sign).calls, "std")
    BY <1>13 DEF OpenLists
  <2>. QED  BY <1>14, <2>1, PlainSeq, PlainHasRight DEF Orderly
<1>. QED  BY <1>13, <1>15 DEF IsList
---------------------------------------------------------------------------
(* Pipelines *)

LEMMA FindIn ==
  ASSUME NEW argv, IsList(argv), NEW word
  PROVE  Find(argv, word) \in 1 .. Len(argv) + 1
<1>. DEFINE T == {i \in DOMAIN argv : argv[i] = word} \union {Len(argv) + 1}
<1>1. T \in SUBSET Nat /\ T # {} /\ T \subseteq 1 .. Len(argv) + 1
  BY SeqFacts
<1>. HIDE DEF T
<1>2. Min(T) \in T
  BY <1>1, MinProps
<1>3. Find(argv, word) = Min(T)
  BY DEF Find, T
<1>. QED  BY <1>1, <1>2, <1>3

LEMMA WordsFacts ==
  ASSUME NEW argv, IsList(argv), NEW a \in Nat \ {0}, NEW b \in Int, b <= Len(argv)
  PROVE  /\ IsList(Words(argv, a, b))
         /\ a - 1 <= b => Len(Words(argv, a, b)) = b - a + 1
<1>. PICK X : argv \in Seq(X)
  BY DEF IsList
<1>1. Len(argv) \in Nat /\ \A i \in 1 .. Len(argv) : argv[i] \in X
  OBVIOUS
<1>2. a \in Int /\ \A i \in a .. b : argv[i] \in X
  BY <1>1
<1>3. SubSeq(argv, a, b) \in Seq(X) /\ Len(SubSeq(argv, a, b)) = IF a <= b THEN b - a + 1 ELSE 0
  BY <1>2, SubSeqProperties
<1>4. a - 1 <= b => Len(SubSeq(argv, a, b)) = b - a + 1
  BY <1>3
<1>. QED  BY <1>3, <1>4 DEF Words, IsList

LEMMA NoAmpersandIsSeq ==
  ASSUME NEW argv, IsList(argv)
  PROVE  IsList(NoAmpersand(argv))
<1>. DEFINE i == Find(argv, "&")
<1>1. Len(argv) \in Nat /\ i \in 1 .. Len(argv) + 1
  BY SeqFacts, FindIn
<1>2. NoAmpersand(argv) = Words(argv, 1, i - 1) \o Words(argv, i + 1, Len(argv))
  BY DEF NoAmpersand
<1>. HIDE DEF i
<1>3. 1 \in Nat \ {0} /\ i - 1 \in Int /\ i - 1 <= Len(argv)
      /\ i + 1 \in Nat \ {0} /\ Len(argv) \in Int /\ Len(argv) <= Len(argv)
  BY <1>1
<1>4. IsList(Words(argv, 1, i - 1)) /\ IsList(Words(argv, i + 1, Len(argv)))
  BY <1>3, WordsFacts
<1>. QED  BY <1>2, <1>4, ConcatFacts

LEMMA PipePresentIn ==
  ASSUME NEW side, IsList(side)
  PROVE  \/ PipePresent(side) \in {-1, 0}
         \/ PipePresent(side) \in 2 .. Len(side) - 1
<1>1. Find(side, "|") \in 1 .. Len(side) + 1 /\ Len(side) \in Nat
  BY FindIn, SeqFacts
<1>. QED  BY <1>1 DEF PipePresent

LEMMA PipeSidesRight ==
  ASSUME NEW left, NEW right, HasRight(right)
  PROVE  HasRight(PipeSides(left, right))
<1>. DEFINE closes == <<Close("pipefds[1]"), Dup2("pipefds[0]", "stdin"), Close("pipefds[0]")>>
            child == closes \o Terminator \o right
            p1 == Pipe("pipefds[0]", "pipefds[1]")
            p2 == Fork("right", child)
            p3 == Close("pipefds[0]")
            p4 == Dup2("pipefds[1]", "stdout")
            p5 == Close("pipefds[1]")
            p6 == Exec(First(left))
<1>1. HasRight(closes) /\ HasRight(Terminator) /\ HasRight(Overrun)
  <2>1. AllPlain(closes) /\ AllPlain(Terminator) /\ AllPlain(Overrun)
    BY PlainTuples, PlainCalls DEF Terminator, Overrun
  <2>. QED  BY <2>1, PlainHasRight
<1>2. PipeSides(left, right) = Overrun \o <<p1, p2, p3, p4, p5, p6>>
  BY DEF PipeSides
<1>3. p2.call = "fork" /\ p2.var = "right" /\ p2.calls = child
  BY DEF Fork
<1>4. Plain(p1) /\ Plain(p3) /\ Plain(p4) /\ Plain(p5) /\ Plain(p6)
  BY PlainCalls
<1>. HIDE DEF closes
<1>5. HasRight(child)
  BY <1>1, RightConcat
<1>. HIDE DEF child, p1, p2, p3, p4, p5, p6
<1>6. PICK T : Closed(T) /\ child \in T
  BY <1>5 DEF HasRight
<1>7. Right(p2, T)
  BY <1>3, <1>6 DEF Right
<1>. DEFINE s == <<p1, p2, p3, p4, p5, p6>>
<1>8. s \in Seq({p1, p2, p3, p4, p5, p6}) /\ \A i \in DOMAIN s : s[i] \in {p1, p2, p3, p4, p5, p6}
  OBVIOUS
<1>9. \A i \in DOMAIN s : Plain(s[i]) \/ Right(s[i], T)
  BY <1>4, <1>7, <1>8
<1>. HIDE DEF s
<1>10. IsList(s)
  BY <1>8 DEF IsList
<1>11. HasRight(s)
  BY <1>6, <1>9, <1>10, ClosedAdd
<1>12. HasRight(Overrun \o s)
  BY <1>1, <1>11, RightConcat
<1>. QED  BY <1>2, <1>12 DEF s

\* The right side reads from the pipe, the left side writes to it, and each has
\* closed both ends before its command.
LEMMA PipeSidesOrderly ==
  ASSUME NEW left, NEW right, Orderly(right)
  PROVE  Orderly(PipeSides(left, right))
<1>. DEFINE closes == <<Close("pipefds[1]"), Dup2("pipefds[0]", "stdin"), Close("pipefds[0]")>>
            child == closes \o Terminator \o right
            p1 == Pipe("pipefds[0]", "pipefds[1]")
            p2 == Fork("right", child)
            p3 == Close("pipefds[0]")
            p4 == Dup2("pipefds[1]", "stdout")
            p5 == Close("pipefds[1]")
            p6 == Exec(First(left))
<1>. Shapes = {"std", "file", "pipe", "in", "out"}
  BY DEF Shapes
<1>1. /\ Leads(Close("pipefds[1]"), "pipe", "in") /\ Close("pipefds[1]").call # "fork"
      /\ Leads(Dup2("pipefds[0]", "stdin"), "in", "in") /\ Dup2("pipefds[0]", "stdin").call # "fork"
      /\ Leads(p3, "in", "std") /\ p3.call # "fork"
      /\ Leads(p1, "std", "pipe") /\ p1.call # "fork"
      /\ Leads(p3, "pipe", "out") /\ Leads(p4, "out", "out") /\ p4.call # "fork"
      /\ Leads(p5, "out", "std") /\ p5.call # "fork"
  BY DEF Leads, Close, Dup2, Pipe
<1>2. Leads(p2, "pipe", "pipe") /\ p2.call = "fork" /\ p2.calls = child
  BY DEF Leads, Fork
<1>3. PipeSides(left, right) = Overrun \o <<p1, p2, p3, p4, p5, p6>>
  BY DEF PipeSides
<1>4. Keeps(closes, "pipe")
  <2>. HIDE DEF Leads
  <2>1. Keeps(<<Close("pipefds[0]")>>, "in")
    BY <1>1, KeepsTuples
  <2>2. Keeps(<<Dup2("pipefds[0]", "stdin"), Close("pipefds[0]")>>, "in")
    BY <1>1, <2>1, KeepsTuples
  <2>. QED  BY <1>1, <2>2, KeepsTuples
<1>5. Keeps(<<p6>>, "std") /\ Orderly(Terminator) /\ Orderly(Overrun)
  BY OrderlyTuples DEF Orderly, Terminator, Overrun
<1>. HIDE DEF closes, p1, p2, p3, p4, p5, p6, Leads
<1>6. Keeps(child, "pipe")
  <2>1. Keeps(closes \o Terminator, "pipe")
    BY <1>4, <1>5, KeepsConcat DEF Orderly
  <2>. QED  BY <2>1, KeepsConcat DEF Orderly
<1>. HIDE DEF child
<1>7. Keeps(<<p3, p4, p5, p6>>, "pipe")
  <2>1. Keeps(<<p5, p6>>, "out")
    BY <1>1, <1>5, KeepsTuples
  <2>2. Keeps(<<p4, p5, p6>>, "out")
    BY <1>1, <2>1, KeepsTuples
  <2>3. Keeps(<<p3>> \o <<p4, p5, p6>>, "pipe")
    BY <1>1, <2>2, KeepsCons
  <2>4. <<p3>> \o <<p4, p5, p6>> = <<p3, p4, p5, p6>>
    BY FourInFront, Zenon
  <2>. QED  BY <2>3, <2>4
<1>8. Keeps(<<p1>> \o (<<p2>> \o <<p3, p4, p5, p6>>), "std")
  <2>1. Keeps(<<p2>> \o <<p3, p4, p5, p6>>, "pipe")
    BY <1>2, <1>6, <1>7, KeepsCons
  <2>. QED  BY <1>1, <2>1, KeepsCons
<1>9. <<p1>> \o (<<p2>> \o <<p3, p4, p5, p6>>) = <<p1, p2, p3, p4, p5, p6>>
  <2>1. InFront(p1, p2, p3, p4, p5, p6)
    BY SixInFront
  <2>. QED  BY <2>1, Zenon DEF InFront
<1>10. Keeps(PipeSides(left, right), "std")
  BY <1>3, <1>5, <1>8, <1>9, KeepsConcat DEF Orderly
<1>. QED  BY <1>10, PipeSidesRight DEF Orderly

\* The words of a pipeline from a place on, and what is done with them.
Side(argv, from) == Words(argv, from, Len(argv))
Stage(argv, from, f) ==
  LET side == Side(argv, from)
      i    == PipePresent(side)
  IN IF i = -1 THEN <<Exit(1)>>
     ELSE IF i = 0 THEN <<Exec(First(side))>>
     ELSE PipeSides(Words(side, 1, i - 1), f[from + i])

LEMMA StageLater ==
  ASSUME NEW argv, IsList(argv), NEW from \in 1 .. Len(argv) + 1
  PROVE  LET i == PipePresent(Side(argv, from))
         IN i = -1 \/ i = 0 \/ from + i \in from + 1 .. Len(argv) + 1
<1>1. Len(argv) \in Nat
  BY SeqFacts
<1>2. from \in Nat \ {0} /\ Len(argv) \in Int /\ Len(argv) <= Len(argv) /\ from - 1 <= Len(argv)
  BY <1>1
<1>3. IsList(Side(argv, from)) /\ Len(Side(argv, from)) = Len(argv) - from + 1
  BY <1>2, WordsFacts DEF Side
<1>4. \/ PipePresent(Side(argv, from)) \in {-1, 0}
      \/ PipePresent(Side(argv, from)) \in 2 .. Len(Side(argv, from)) - 1
  BY <1>3, PipePresentIn
<1>. QED  BY <1>1, <1>3, <1>4

LEMMA PipelineExists ==
  ASSUME NEW argv, IsList(argv)
  PROVE  \E f : f = [from \in 1 .. Len(argv) + 1 |-> Stage(argv, from, f)]
<1>. DEFINE N == Len(argv) + 1
            Good(f, k) == /\ f = [from \in 1 .. N |-> f[from]]
                          /\ \A from \in 1 .. N : from > N - k => f[from] = Stage(argv, from, f)
            Found == {k \in Nat : k <= N => \E f : Good(f, k)}
<1>0. N \in Nat \ {0}
  BY SeqFacts
<1>. HIDE DEF N
<1>1. 0 \in Found
  <2>1. Good([from \in 1 .. N |-> <<>>], 0)
    BY <1>0
  <2>. HIDE DEF Good
  <2>. QED  BY <2>1
<1>2. ASSUME NEW k \in Nat, k \in Found  PROVE k + 1 \in Found
  <2>. SUFFICES ASSUME k + 1 <= N  PROVE \E f : Good(f, k + 1)
    OBVIOUS
  <2>1. PICK f : Good(f, k)
    BY <1>0, <1>2
  <2>. DEFINE n == N - k
              g == [f EXCEPT ![n] = Stage(argv, n, f)]
  <2>2. n \in 1 .. N
    BY <1>0
  <2>3. g = [from \in 1 .. N |-> g[from]] /\ g[n] = Stage(argv, n, f)
        /\ \A from \in 1 .. N : from # n => g[from] = f[from]
    BY <2>1, <2>2
  <2>. HIDE DEF g
  <2>4. ASSUME NEW from \in 1 .. N, from >= n  PROVE Stage(argv, from, g) = Stage(argv, from, f)
    <3>. DEFINE i == PipePresent(Side(argv, from))
    <3>1. i = -1 \/ i = 0 \/ from + i \in from + 1 .. N
      BY StageLater DEF N
    <3>. HIDE DEF i
    <3>2. i = -1 \/ i = 0 \/ (from + i \in 1 .. N /\ from + i # n)
      BY <3>1, <2>4, <1>0
    <3>3. i = -1 \/ i = 0 \/ g[from + i] = f[from + i]
      BY <3>2, <2>3
    <3>. QED  BY <3>3 DEF Stage, i
  <2>. HIDE DEF n
  <2>5. ASSUME NEW from \in 1 .. N, from > N - (k + 1)  PROVE g[from] = Stage(argv, from, g)
    <3>1. from >= n /\ (from # n => from > N - k)
      BY <2>5, <1>0 DEF n
    <3>2. Stage(argv, from, g) = Stage(argv, from, f)
      BY <2>4, <3>1
    <3>3. CASE from = n
      BY <2>3, <3>2, <3>3
    <3>4. CASE from # n
      BY <2>1, <2>3, <3>1, <3>2, <3>4
    <3>. QED  BY <3>3, <3>4
  <2>6. Good(g, k + 1)
    BY <2>3, <2>5
  <2>. HIDE DEF Good
  <2>. QED  BY <2>6
<1>. HIDE DEF Found, Good
<1>3. \A k \in Nat : k \in Found
  BY <1>1, <1>2, Induction
<1>4. PICK f : Good(f, N)
  BY <1>0, <1>3 DEF Found
<1>5. \A from \in 1 .. N : from > N - N
  BY <1>0
<1>6. f = [from \in 1 .. N |-> Stage(argv, from, f)]
  BY <1>4, <1>5 DEF Good
<1>. QED  BY <1>6 DEF N

LEMMA PipeAndExecOrderly ==
  ASSUME NEW argv, IsList(argv)
  PROVE  Orderly(PipeAndExec(argv))
<1>. DEFINE N == Len(argv) + 1
            Eq(f) == f = [from \in 1 .. Len(argv) + 1 |-> Stage(argv, from, f)]
            pipeline == CHOOSE f : Eq(f)
<1>0. N \in Nat \ {0}
  BY SeqFacts
<1>1. PipeAndExec(argv) = pipeline[1]
  BY DEF PipeAndExec, Stage, Side
<1>2. \E f : Eq(f)
  BY PipelineExists
<1>. HIDE DEF Eq
<1>3. Eq(pipeline)
  BY <1>2
<1>. HIDE DEF pipeline
<1>4. \A from \in 1 .. N : pipeline[from] = Stage(argv, from, pipeline)
  BY <1>3 DEF Eq
<1>5. ASSUME NEW from \in 1 .. N, \A later \in from + 1 .. N : Orderly(pipeline[later])
      PROVE  Orderly(pipeline[from])
  <2>. DEFINE side == Side(argv, from)
              i == PipePresent(side)
  <2>1. i = -1 \/ i = 0 \/ from + i \in from + 1 .. N
    BY StageLater
  <2>3. Orderly(<<Exit(1)>>) /\ Orderly(<<Exec(First(side))>>)
    BY OrderlyTuples
  <2>4. \A left : Orderly(pipeline[from + i]) => Orderly(PipeSides(left, pipeline[from + i]))
    BY PipeSidesOrderly
  <2>5. pipeline[from] = IF i = -1 THEN <<Exit(1)>>
                         ELSE IF i = 0 THEN <<Exec(First(side))>>
                         ELSE PipeSides(Words(side, 1, i - 1), pipeline[from + i])
    BY <1>4 DEF Stage
  <2>. HIDE DEF side, i
  <2>. QED  BY <1>5, <2>1, <2>3, <2>4, <2>5
<1>. DEFINE Good == {k \in Nat : \A from \in 1 .. N : from > N - k => Orderly(pipeline[from])}
<1>. HIDE DEF N
<1>6. 0 \in Good
  BY <1>0
<1>7. ASSUME NEW k \in Nat, k \in Good  PROVE k + 1 \in Good
  <2>1. \A from \in 1 .. N : from > N - k => Orderly(pipeline[from])
    BY <1>7
  <2>2. ASSUME NEW from \in 1 .. N, from > N - (k + 1)  PROVE Orderly(pipeline[from])
    <3>1. \A later \in from + 1 .. N : later \in 1 .. N /\ later > N - k
      BY <1>0, <2>2
    <3>. QED  BY <1>5, <2>1, <3>1
  <2>. QED  BY <2>2
<1>. HIDE DEF Good
<1>8. \A k \in Nat : k \in Good
  BY <1>6, <1>7, Induction
<1>9. 1 \in 1 .. N /\ 1 > N - N
  BY <1>0
<1>10. Orderly(pipeline[1])
  BY <1>0, <1>8, <1>9 DEF Good
<1>. QED  BY <1>1, <1>10

LEMMA RunChildOrderly ==
  ASSUME NEW argv, IsList(argv)
  PROVE  Orderly(RunChild(argv))
<1>. DEFINE in == Redirect(argv, "<")
            out == Redirect(in.argv, ">")
<1>1. IsList(in.argv) /\ Orderly(in.calls)
  BY RedirectFacts
<1>. HIDE DEF in
<1>2. IsList(out.argv) /\ Orderly(out.calls)
  BY <1>1, RedirectFacts
<1>. HIDE DEF out
<1>3. Orderly(PipeAndExec(out.argv))
  BY <1>2, PipeAndExecOrderly
<1>4. Orderly(<<Exit(1)>>)
  BY OrderlyTuples
<1>5. RunChild(argv) = in.calls \o out.calls \o PipeAndExec(out.argv) \o <<Exit(1)>>
  BY DEF RunChild, in, out
<1>6. Orderly(in.calls \o out.calls)
  BY <1>1, <1>2, OrderlyConcat
<1>7. Orderly(in.calls \o out.calls \o PipeAndExec(out.argv))
  BY <1>3, <1>6, OrderlyConcat
<1>. QED  BY <1>4, <1>5, <1>7, OrderlyConcat
---------------------------------------------------------------------------
(* The calls of the shell itself: built-in commands, and for each command  *)
(* a fork that is followed by the wait for that child, or is for a job in  *)
(* the background.                                                         *)

MainCall(c) ==
  \/ c.call \in {"prompt", "pwd", "exit", "chdir"}
  \/ c.call = "write" /\ c.var = "stdout"
  \/ c = Wait("pid", "pid")
  \/ c.call = "fork" /\ c.var \in {"pid", "background"} /\ Orderly(c.calls)

InForeground(c) == c.call = "fork" /\ c.var = "pid"

Lines(s) ==
  /\ IsList(s)
  /\ \A i \in DOMAIN s : MainCall(s[i])
  /\ \A i \in DOMAIN s : InForeground(s[i]) => i + 1 \in DOMAIN s /\ s[i + 1].call = "wait"
  /\ \A i \in DOMAIN s : s[i].call = "wait" => i - 1 \in DOMAIN s /\ InForeground(s[i - 1])

\* The shell waits for a command in the foreground.
Waiting(s) == IsList(s) /\ s # <<>> /\ s[1] = Wait("pid", "pid") /\ Lines(Tail(s))

LEMMA LinesConcat ==
  ASSUME NEW s, Lines(s), NEW t, Lines(t)
  PROVE  Lines(s \o t)
<1>. DEFINE u == s \o t
            m == Len(s)
            n == Len(t)
<1>1. /\ IsList(s) /\ IsList(t) /\ m \in Nat /\ n \in Nat /\ DOMAIN s = 1 .. m /\ DOMAIN t = 1 .. n
  BY SeqFacts DEF Lines
<1>2. /\ IsList(u) /\ DOMAIN u = 1 .. m + n
      /\ \A i \in 1 .. m : u[i] = s[i]
      /\ \A i \in 1 .. n : u[m + i] = t[i]
  BY <1>1, ConcatFacts
<1>. HIDE DEF u, m, n
<1>3. ASSUME NEW i \in 1 .. m + n, i > m
      PROVE  i - m \in 1 .. n /\ u[i] = t[i - m]
  <2>1. i - m \in 1 .. n /\ m + (i - m) = i
    BY <1>1, <1>3
  <2>. QED  BY <1>2, <2>1
<1>4. ASSUME NEW i \in DOMAIN u  PROVE MainCall(u[i])
  <2>1. CASE i <= m
    <3>1. i \in 1 .. m
      BY <1>1, <1>2, <2>1
    <3>. QED  BY <1>1, <1>2, <3>1 DEF Lines
  <2>2. CASE i > m
    BY <1>1, <1>2, <1>3, <2>2 DEF Lines
  <2>. QED  BY <1>1, <1>2, <2>1, <2>2
<1>5. ASSUME NEW i \in DOMAIN u, InForeground(u[i])
      PROVE  i + 1 \in DOMAIN u /\ u[i + 1].call = "wait"
  <2>1. CASE i <= m
    <3>1. i \in 1 .. m /\ u[i] = s[i]
      BY <1>1, <1>2, <2>1
    <3>2. i + 1 \in 1 .. m /\ s[i + 1].call = "wait"
      BY <1>1, <1>5, <3>1 DEF Lines
    <3>3. u[i + 1] = s[i + 1] /\ i + 1 \in 1 .. m + n
      BY <1>1, <1>2, <3>2
    <3>. QED  BY <1>2, <3>2, <3>3
  <2>2. CASE i > m
    <3>1. i - m \in 1 .. n /\ u[i] = t[i - m]
      BY <1>2, <1>3, <2>2
    <3>2. (i - m) + 1 \in 1 .. n /\ t[(i - m) + 1].call = "wait"
      BY <1>1, <1>5, <3>1 DEF Lines
    <3>3. m + ((i - m) + 1) = i + 1 /\ i + 1 \in 1 .. m + n
      BY <1>1, <1>2, <3>2
    <3>4. u[i + 1] = t[(i - m) + 1]
      BY <1>2, <3>2, <3>3
    <3>. QED  BY <1>2, <3>2, <3>3, <3>4
  <2>. QED  BY <1>1, <1>2, <2>1, <2>2
<1>6. ASSUME NEW i \in DOMAIN u, u[i].call = "wait"
      PROVE  i - 1 \in DOMAIN u /\ InForeground(u[i - 1])
  <2>1. CASE i <= m
    <3>1. i \in 1 .. m /\ u[i] = s[i]
      BY <1>1, <1>2, <2>1
    <3>2. i - 1 \in 1 .. m /\ InForeground(s[i - 1])
      BY <1>1, <1>6, <3>1 DEF Lines
    <3>3. u[i - 1] = s[i - 1] /\ i - 1 \in 1 .. m + n
      BY <1>1, <1>2, <3>2
    <3>. QED  BY <1>2, <3>2, <3>3
  <2>2. CASE i > m
    <3>1. i - m \in 1 .. n /\ u[i] = t[i - m]
      BY <1>2, <1>3, <2>2
    <3>2. (i - m) - 1 \in 1 .. n /\ InForeground(t[(i - m) - 1])
      BY <1>1, <1>6, <3>1 DEF Lines
    <3>0. i \in Int /\ m \in Nat /\ n \in Nat /\ i - m >= 2 /\ i - m <= n + 1
      <4>1. (i - m) - 1 \in 1 .. n
        BY <3>2
      <4>. QED  BY <1>1, <1>2, <4>1
    <3>3. m + ((i - m) - 1) = i - 1 /\ i - 1 \in 1 .. m + n
      BY <3>0
    <3>4. u[i - 1] = t[(i - m) - 1]
      BY <1>2, <3>2, <3>3
    <3>. QED  BY <1>2, <3>2, <3>3, <3>4
  <2>. QED  BY <1>1, <1>2, <2>1, <2>2
<1>7. Lines(u)
  BY <1>2, <1>4, <1>5, <1>6 DEF Lines
<1>. QED  BY <1>7 DEF u

LEMMA LinesTail ==
  ASSUME NEW s, Lines(s), s # <<>>
  PROVE  /\ MainCall(s[1]) /\ s[1].call # "wait"
         /\ ~InForeground(s[1]) => Lines(Tail(s))
         /\ InForeground(s[1]) => Waiting(Tail(s))
<1>. DEFINE t == Tail(s)
            n == Len(s)
<1>1. /\ IsList(s) /\ n \in Nat \ {0} /\ DOMAIN s = 1 .. n
      /\ IsList(t) /\ Len(t) = n - 1 /\ DOMAIN t = 1 .. n - 1
      /\ \A i \in 1 .. n - 1 : t[i] = s[i + 1]
  BY SeqFacts DEF Lines
<1>2. \A i \in 1 .. n : MainCall(s[i])
  BY <1>1 DEF Lines
<1>3. \A i \in 1 .. n : InForeground(s[i]) => i + 1 \in 1 .. n /\ s[i + 1].call = "wait"
  BY <1>1 DEF Lines
<1>4. \A i \in 1 .. n : s[i].call = "wait" => i - 1 \in 1 .. n /\ InForeground(s[i - 1])
  BY <1>1 DEF Lines
<1>. HIDE DEF t, n
<1>5. 1 \in 1 .. n /\ ~(1 - 1 \in 1 .. n)
  BY <1>1
<1>6. MainCall(s[1]) /\ s[1].call # "wait"
  BY <1>2, <1>4, <1>5
<1>7. ASSUME NEW i \in 1 .. n - 1
      PROVE  /\ MainCall(t[i])
             /\ InForeground(t[i]) => i + 1 \in 1 .. n - 1 /\ t[i + 1].call = "wait"
             /\ t[i].call = "wait" =>
                  \/ i = 1 /\ InForeground(s[1])
                  \/ i - 1 \in 1 .. n - 1 /\ InForeground(t[i - 1])
  <2>1. i + 1 \in 1 .. n /\ t[i] = s[i + 1]
    BY <1>1
  <2>2. ASSUME InForeground(t[i])  PROVE i + 1 \in 1 .. n - 1 /\ t[i + 1].call = "wait"
    <3>1. (i + 1) + 1 \in 1 .. n /\ s[(i + 1) + 1].call = "wait"
      BY <1>3, <2>1, <2>2
    <3>2. i + 1 \in 1 .. n - 1
      BY <1>1, <3>1
    <3>. QED  BY <1>1, <3>1, <3>2
  <2>3. ASSUME t[i].call = "wait", i # 1  PROVE i - 1 \in 1 .. n - 1 /\ InForeground(t[i - 1])
    <3>1. InForeground(s[(i + 1) - 1]) /\ (i + 1) - 1 = i
      BY <1>1, <1>4, <2>1, <2>3
    <3>2. i - 1 \in 1 .. n - 1 /\ (i - 1) + 1 = i
      BY <1>1, <2>3
    <3>. QED  BY <1>1, <3>1, <3>2
  <2>4. ASSUME t[i].call = "wait", i = 1  PROVE InForeground(s[1])
    <3>1. InForeground(s[(i + 1) - 1]) /\ (i + 1) - 1 = 1
      BY <1>1, <1>4, <2>1, <2>4
    <3>. QED  BY <3>1
  <2>. QED  BY <1>2, <2>1, <2>2, <2>3, <2>4
<1>8. ASSUME ~InForeground(s[1])  PROVE Lines(t)
  BY <1>1, <1>7, <1>8 DEF Lines
<1>9. ASSUME InForeground(s[1])  PROVE Waiting(t)
  <2>1. 1 + 1 \in 1 .. n /\ s[1 + 1].call = "wait"
    BY <1>3, <1>5, <1>9
  <2>2. 1 \in 1 .. n - 1 /\ t[1] = s[1 + 1] /\ t # <<>>
    BY <1>1, <2>1
  <2>3. MainCall(t[1]) /\ t[1].call = "wait"
    BY <1>7, <2>1, <2>2
  <2>4. t[1] = Wait("pid", "pid")
    BY <2>3 DEF MainCall
  <2>. DEFINE u == Tail(t)
  <2>5. /\ IsList(u) /\ DOMAIN u = 1 .. n - 2
        /\ \A i \in 1 .. n - 2 : u[i] = t[i + 1]
    <3>1. (n - 1) - 1 = n - 2
      BY <1>1
    <3>. QED  BY <1>1, <2>2, <3>1, SeqFacts
  <2>. HIDE DEF u
  <2>6. ASSUME NEW i \in 1 .. n - 2
        PROVE  /\ MainCall(u[i])
               /\ InForeground(u[i]) => i + 1 \in 1 .. n - 2 /\ u[i + 1].call = "wait"
               /\ u[i].call = "wait" => i - 1 \in 1 .. n - 2 /\ InForeground(u[i - 1])
    <3>1. i + 1 \in 1 .. n - 1 /\ i + 1 # 1 /\ u[i] = t[i + 1] /\ (i + 1) - 1 = i
      BY <1>1, <2>5
    <3>2. /\ MainCall(t[i + 1])
          /\ InForeground(t[i + 1]) => (i + 1) + 1 \in 1 .. n - 1 /\ t[(i + 1) + 1].call = "wait"
          /\ t[i + 1].call = "wait" => i \in 1 .. n - 1 /\ InForeground(t[i])
      BY <1>7, <3>1
    <3>3. ASSUME InForeground(u[i])  PROVE i + 1 \in 1 .. n - 2 /\ u[i + 1].call = "wait"
      <4>1. i + 1 \in 1 .. n - 2
        BY <1>1, <3>1, <3>2, <3>3
      <4>. QED  BY <2>5, <3>1, <3>2, <3>3, <4>1
    <3>4. ASSUME u[i].call = "wait"  PROVE i - 1 \in 1 .. n - 2 /\ InForeground(u[i - 1])
      <4>1. InForeground(t[i])
        BY <3>1, <3>2, <3>4
      <4>2. i # 1
        BY <2>3, <4>1 DEF InForeground
      <4>3. i - 1 \in 1 .. n - 2 /\ (i - 1) + 1 = i
        BY <1>1, <4>2
      <4>. QED  BY <2>5, <4>1, <4>3
    <3>. QED  BY <3>1, <3>2, <3>3, <3>4
  <2>7. Lines(u)
    BY <2>5, <2>6 DEF Lines
  <2>. QED  BY <1>1, <2>2, <2>4, <2>7 DEF Waiting, u
<1>. QED  BY <1>6, <1>8, <1>9 DEF t

\* Calls among which there is neither a fork nor a wait.
Simple(s) == IsList(s) /\ \A i \in DOMAIN s : /\ MainCall(s[i])
                                              /\ s[i].call \notin {"fork", "wait"}

LEMMA SimpleLines ==
  ASSUME NEW s, Simple(s)
  PROVE  Lines(s)
BY DEF Simple, Lines, InForeground

LEMMA SimpleTuples ==
  /\ Simple(<<>>)
  /\ \A c : MainCall(c) /\ c.call \notin {"fork", "wait"} => Simple(<<c>>)
<1>1. Simple(<<>>)
  <2>1. <<>> \in Seq({})
    OBVIOUS
  <2>. QED  BY <2>1 DEF Simple, IsList
<1>2. ASSUME NEW c, MainCall(c), c.call \notin {"fork", "wait"}  PROVE Simple(<<c>>)
  <2>1. <<c>> \in Seq({c})
    OBVIOUS
  <2>2. IsList(<<c>>)
    BY <2>1 DEF IsList
  <2>. QED  BY <1>2, <2>2 DEF Simple
<1>. QED  BY <1>1, <1>2

LEMMA SimpleCalls ==
  \A c : \/ c = Prompt \/ c = Pwd \/ (\E status : c = Exit(status)) \/ (\E d : c = Chdir(d))
         \/ \E item : c = Write("stdout", item)
         => MainCall(c) /\ c.call \notin {"fork", "wait"}
BY DEF MainCall, Prompt, Pwd, Exit, Chdir, Write

LEMMA SimpleOne ==
  /\ Simple(<<Prompt>>) /\ Simple(<<Pwd>>)
  /\ \A x : Simple(<<Exit(x)>>) /\ Simple(<<Chdir(x)>>) /\ Simple(<<Write("stdout", x)>>)
BY SimpleTuples, SimpleCalls

LEMMA EchoSimple ==
  ASSUME NEW argv, IsList(argv)
  PROVE  Simple(BiEcho(argv))
<1>. DEFINE from == IF Len(argv) > 1 /\ argv[2] = "-n" THEN 3 ELSE 2
            n == Len(argv) - from + 1
            item(i) == <<argv[from + i - 1], 1>>
            echo == [i \in 1 .. n |-> Write("stdout", item(i))]
            X == {Write("stdout", item(i)) : i \in 1 .. n}
<1>1. BiEcho(argv) = echo
  BY DEF BiEcho
<1>2. n \in Int
  BY SeqFacts
<1>. HIDE DEF n, item
<1>3. CASE n >= 0
  <2>1. echo \in Seq(X)
    BY <1>2, <1>3
  <2>2. IsList(echo)
    BY <2>1 DEF IsList
  <2>3. \A i \in DOMAIN echo : MainCall(echo[i]) /\ echo[i].call \notin {"fork", "wait"}
    BY SimpleCalls
  <2>. QED  BY <1>1, <2>2, <2>3 DEF Simple
<1>4. CASE n < 0
  <2>1. echo = <<>>
    BY <1>2, <1>4
  <2>. QED  BY <1>1, <2>1, SimpleTuples
<1>. QED  BY <1>2, <1>3, <1>4

LEMMA BuiltinSimple ==
  ASSUME NEW argv, IsList(argv)
  PROVE  Simple(DoBuiltin(argv))
<1>1. \A x : Simple(Puts(x))
  BY SimpleOne DEF Puts
<1>2. Simple(BiCd(argv))
  BY SimpleOne, SimpleTuples DEF BiCd
<1>3. Simple(BiBuiltin(argv))
  BY <1>1, SimpleTuples, Zenon DEF BiBuiltin
<1>4. Simple(BiQuit)
  BY SimpleOne DEF BiQuit
<1>. QED  BY <1>1, <1>2, <1>3, <1>4, EchoSimple, SimpleOne DEF DoBuiltin

LEMMA ForkLines ==
  ASSUME NEW child, Orderly(child)
  PROVE  /\ Lines(<<Fork("background", child)>>)
         /\ Lines(<<Fork("pid", child), Wait("pid", "pid")>>)
<1>1. /\ MainCall(Fork("background", child)) /\ MainCall(Fork("pid", child))
      /\ MainCall(Wait("pid", "pid"))
      /\ InForeground(Fork("pid", child)) /\ ~InForeground(Fork("background", child))
      /\ Fork("background", child).call = "fork" /\ Fork("pid", child).call = "fork"
      /\ Wait("pid", "pid").call = "wait" /\ ~InForeground(Wait("pid", "pid"))
  BY DEF MainCall, InForeground, Fork, Wait
<1>. DEFINE f == Fork("pid", child)
            b == Fork("background", child)
            w == Wait("pid", "pid")
<1>. HIDE DEF f, b, w
<1>2. <<b>> \in Seq({b}) /\ <<f, w>> \in Seq({f, w})
  OBVIOUS
<1>3. IsList(<<b>>) /\ IsList(<<f, w>>)
  BY <1>2 DEF IsList
<1>4. Lines(<<b>>)
  BY <1>1, <1>3 DEF Lines, b
<1>5. Lines(<<f, w>>)
  <2>. DEFINE s == <<f, w>>
  <2>1. DOMAIN s = {1, 2} /\ s[1] = f /\ s[2] = w /\ IsList(s)
    BY <1>3
  <2>. HIDE DEF s
  <2>2. Lines(s)
    BY <1>1, <2>1 DEF Lines, f, w
  <2>. QED  BY <2>2 DEF s
<1>. QED  BY <1>4, <1>5 DEF f, b, w

LEMMA ShellLineLines ==
  ASSUME NEW shell, NEW line, IsList(line)
  PROVE  Lines(ShellLine(shell, line))
<1>. DEFINE words == Parse(line)
            argv == NoAmpersand(words)
            child4 == <<Exec(First(argv)), Exit(1)>>
            rest == IF words = <<>> THEN <<>>
                    ELSE IF IsBuiltin(shell, First(words)) THEN DoBuiltin(words)
                    ELSE IF shell = "hw4" THEN RunCommand4(words)
                    ELSE RunCommand(words)
<1>1. ShellLine(shell, line) = <<Prompt>> \o rest
  BY DEF ShellLine
<1>2. IsList(words)
  BY ParseIsSeq
<1>. HIDE DEF words
<1>3. IsList(argv)
  BY <1>2, NoAmpersandIsSeq
<1>4. Orderly(RunChild(argv))
  BY <1>3, RunChildOrderly
<1>5. Orderly(child4)
  BY OrderlyTuples
<1>6. Lines(RunCommand4(words))
  <2>. HIDE DEF child4
  <2>1. Lines(<<Fork("background", child4)>>) /\ Lines(<<Fork("pid", child4), Wait("pid", "pid")>>)
    BY <1>5, ForkLines
  <2>. QED  BY <2>1 DEF RunCommand4, child4
<1>7. Lines(RunCommand(words))
  <2>1. Lines(<<Fork("background", RunChild(argv))>>)
        /\ Lines(<<Fork("pid", RunChild(argv)), Wait("pid", "pid")>>)
    BY <1>4, ForkLines
  <2>. QED  BY <2>1 DEF RunCommand
<1>8. Lines(DoBuiltin(words)) /\ Lines(<<>>) /\ Lines(<<Prompt>>)
  BY <1>2, BuiltinSimple, SimpleTuples, SimpleOne, SimpleLines
<1>9. Lines(rest)
  BY <1>6, <1>7, <1>8
<1>. HIDE DEF rest
<1>. QED  BY <1>1, <1>8, <1>9, LinesConcat

\* Sequences from a set that is closed under concatenation, one after another.
LEMMA FlattenIn ==
  ASSUME NEW S, NEW seqs \in Seq(S), \A s, t \in S : s \o t \in S
  PROVE  FlattenSeq(seqs) \in S \/ FlattenSeq(seqs) = <<>>
<1>1. CASE Len(seqs) = 0
  BY <1>1 DEF FlattenSeq
<1>2. CASE Len(seqs) # 0
  <2>. DEFINE N == Len(seqs) - 1
              Eq(f) == f = [i \in 1 .. Len(seqs) |-> IF i = 1 THEN seqs[i] ELSE f[i - 1] \o seqs[i]]
              G == [t \in S \X (1 .. N) |-> t[1] \o seqs[t[2] + 1]]
              flatten == CHOOSE f : Eq(f)
  <2>1. N \in Nat /\ Len(seqs) = N + 1 /\ \A i \in 1 .. N + 1 : seqs[i] \in S
    BY <1>2
  <2>2. FlattenSeq(seqs) = flatten[N + 1]
    BY <1>2, <2>1 DEF FlattenSeq
  <2>. HIDE DEF N, flatten
  <2>3. \A x \in S : \A n \in 1 .. N : x \o seqs[n + 1] \in S
    <3>. SUFFICES ASSUME NEW x \in S, NEW n \in 1 .. N  PROVE x \o seqs[n + 1] \in S
      OBVIOUS
    <3>1. n + 1 \in 1 .. N + 1
      BY <2>1
    <3>. QED  BY <2>1, <3>1
  <2>4. \A x \in S : \A n \in 1 .. N : G[<<x, n>>] = x \o seqs[n + 1]
    OBVIOUS
  <2>. HIDE DEF G
  <2>5. StepsIn(G, S, N)
    BY <2>3, <2>4, Zenon DEF StepsIn
  <2>6. seqs[1] \in S
    BY <2>1
  <2>7. PICK g \in [0 .. N -> S] : Follows(g, seqs[1], G, N)
    BY <2>1, <2>5, <2>6, RecursionExists
  <2>8. \E f : Eq(f)
    <3>. DEFINE h == [i \in 1 .. Len(seqs) |-> g[i - 1]]
    <3>1. ASSUME NEW i \in 1 .. Len(seqs)
          PROVE  h[i] = IF i = 1 THEN seqs[i] ELSE h[i - 1] \o seqs[i]
      <4>1. CASE i = 1
        BY <2>7, <4>1 DEF Follows
      <4>2. CASE i # 1
        <5>1. i - 1 \in 1 .. N /\ (i - 1) - 1 \in 0 .. N /\ (i - 1) + 1 = i /\ i - 1 \in 1 .. Len(seqs)
          BY <2>1, <4>2
        <5>2. g[i - 1] = G[<<g[(i - 1) - 1], i - 1>>] /\ g[(i - 1) - 1] \in S
          BY <2>7, <5>1 DEF Follows
        <5>3. g[i - 1] = g[(i - 1) - 1] \o seqs[i]
          BY <2>4, <5>1, <5>2
        <5>4. h[i] = g[i - 1] /\ h[i - 1] = g[(i - 1) - 1]
          BY <5>1
        <5>. QED  BY <4>2, <5>3, <5>4
      <4>. QED  BY <4>1, <4>2
    <3>2. h = [i \in 1 .. Len(seqs) |-> IF i = 1 THEN seqs[i] ELSE h[i - 1] \o seqs[i]]
      BY <3>1
    <3>. HIDE DEF h
    <3>3. Eq(h)
      BY <3>2
    <3>. HIDE DEF Eq
    <3>. QED  BY <3>3
  <2>. HIDE DEF Eq
  <2>9. Eq(flatten)
    BY <2>8 DEF flatten
  <2>10. \A i \in 1 .. N + 1 : flatten[i] = IF i = 1 THEN seqs[i] ELSE flatten[i - 1] \o seqs[i]
    BY <2>1, <2>9 DEF Eq
  <2>. DEFINE f == [n \in 0 .. N |-> flatten[n + 1]]
  <2>11. f[0] \in S
    <3>1. flatten[1] = seqs[1] /\ 0 \in 0 .. N
      BY <2>1, <2>10
    <3>. QED  BY <2>6, <3>1
  <2>12. ASSUME NEW n \in 1 .. N, f[n - 1] \in S  PROVE f[n] \in S
    <3>1. n + 1 \in 1 .. N + 1 /\ n + 1 # 1 /\ (n + 1) - 1 = n /\ n \in 0 .. N
          /\ n - 1 \in 0 .. N /\ (n - 1) + 1 = n
      BY <2>1
    <3>2. flatten[n + 1] = flatten[n] \o seqs[n + 1]
      BY <2>10, <3>1
    <3>3. f[n] = flatten[n + 1] /\ f[n - 1] = flatten[n]
      BY <3>1
    <3>. QED  BY <2>3, <2>12, <3>2, <3>3
  <2>13. f[N] = flatten[N + 1] /\ N \in 0 .. N
    BY <2>1
  <2>. HIDE DEF f
  <2>14. \A n \in 0 .. N : f[n] \in S
    BY <2>1, <2>11, <2>12, RecursionIn
  <2>. QED  BY <2>2, <2>13, <2>14
<1>. QED  BY <1>1, <1>2

\* The calls of a whole session.
LEMMA SessionLines ==
  ASSUME NEW shell, NEW lines, IsList(lines), \A i \in DOMAIN lines : IsList(lines[i])
  PROVE  Lines(ShellMain(shell, lines))
<1>. DEFINE seqs == [i \in DOMAIN lines |-> ShellLine(shell, lines[i])]
            X == UNION {{seqs[i][j] : j \in DOMAIN seqs[i]} : i \in DOMAIN lines}
            S == {s \in Seq(X) : Lines(s)}
<1>1. Len(lines) \in Nat /\ DOMAIN lines = 1 .. Len(lines)
  BY SeqFacts
<1>2. \A i \in DOMAIN lines : Lines(seqs[i])
  BY ShellLineLines
<1>3. \A i \in DOMAIN lines : seqs[i] \in S
  <2>. SUFFICES ASSUME NEW i \in DOMAIN lines  PROVE seqs[i] \in S
    OBVIOUS
  <2>1. IsList(seqs[i]) /\ Lines(seqs[i])
    BY <1>2 DEF Lines
  <2>2. PICK Y : seqs[i] \in Seq(Y)
    BY <2>1 DEF IsList
  <2>3. \A j \in DOMAIN seqs[i] : seqs[i][j] \in X
    OBVIOUS
  <2>. DEFINE q == seqs[i]
  <2>. HIDE DEF q, X
  <2>4. q \in Seq(X)
    <3>1. q \in Seq(Y) /\ \A j \in DOMAIN q : q[j] \in X
      BY <2>2, <2>3 DEF q
    <3>. QED  BY <3>1
  <2>. QED  BY <2>1, <2>4 DEF q
<1>4. \A s, t \in S : s \o t \in S
  <2>. HIDE DEF X
  <2>. QED  BY LinesConcat
<1>5. seqs \in Seq(S)
  <2>. HIDE DEF S
  <2>. QED  BY <1>1, <1>3
<1>6. ShellMain(shell, lines) = FlattenSeq(seqs) \o <<Prompt, Exit(0)>>
  BY DEF ShellMain
<1>. HIDE DEF seqs, X
<1>7. FlattenSeq(seqs) \in S \/ FlattenSeq(seqs) = <<>>
  <2>. HIDE DEF S
  <2>. QED  BY <1>4, <1>5, FlattenIn
<1>8. Lines(FlattenSeq(seqs))
  BY <1>7, SimpleTuples, SimpleLines
<1>9. Lines(<<Prompt, Exit(0)>>)
  <2>1. Lines(<<Prompt>>) /\ Lines(<<Exit(0)>>)
    BY SimpleOne, SimpleLines
  <2>2. <<Prompt, Exit(0)>> = <<Prompt>> \o <<Exit(0)>>
    OBVIOUS
  <2>. QED  BY <2>1, <2>2, LinesConcat
<1>. QED  BY <1>6, <1>8, <1>9, LinesConcat
---------------------------------------------------------------------------
(* The inductive invariant: what is true of the shell, of the other        *)
(* processes, and of the children that the shell has not reaped.           *)

Fields == {"parent", "name", "state", "status", "calls", "asleep", "cwd", "buf", "env", "fds"}

StdFiles == [n \in {0, 1} |-> IF n = 0 THEN [file |-> Keyboard, mode |-> "r"]
                              ELSE [file |-> Terminal, mode |-> "w"]]

MainRecord(r) ==
  /\ DOMAIN r = Fields /\ r.parent = 0
  /\ r.state = "running" =>
       r.fds = StdFiles /\ "stdout" \in DOMAIN r.env /\ r.env["stdout"] = 1

OtherRecord(r) ==
  /\ DOMAIN r = Fields
  /\ r.state = "running" => HasRight(r.calls)
  /\ r.parent \notin {0, 1} => r.name = "right"

\* The children of the shell that are not reaped: jobs in the background, and pids.
Left(ps, pids) ==
  \A q \in DOMAIN ps : ps[q].parent = 1 /\ ps[q].state # "reaped"
                       => ps[q].name = "background" \/ q \in pids

MainCalls(ps, r) ==
  r.state = "running" =>
    \/ Lines(r.calls) /\ Left(ps, {})
    \/ Waiting(r.calls) /\ Left(ps, {r.env["pid"]})

Inv(ps) ==
  /\ IsList(ps) /\ 1 \in DOMAIN ps
  /\ MainRecord(ps[1]) /\ MainCalls(ps, ps[1])
  /\ \A q \in DOMAIN ps : q # 1 => OtherRecord(ps[q])

\* From ps to qs no process ends and leaves children behind, save those that
\* are never waited for.
NoneLeft(ps, qs) ==
  \A p, q \in DOMAIN ps :
     ps[p].state = "running" /\ qs[p].state # "running"
       /\ ps[q].parent = p /\ ps[q].state # "reaped"
     => ps[q].name \in Unwaited

StaysRunning(ps, qs) == \A p \in DOMAIN ps : ps[p].state = "running" => qs[p].state = "running"

LEMMA StayingLeavesNone ==
  ASSUME NEW ps, NEW qs, StaysRunning(ps, qs)
  PROVE  NoneLeft(ps, qs)
BY DEF StaysRunning, NoneLeft

LEMMA InvFacts ==
  ASSUME NEW ps, Inv(ps)
  PROVE  /\ Len(ps) \in Nat /\ DOMAIN ps = 1 .. Len(ps) /\ 1 \in DOMAIN ps
         /\ \A p \in DOMAIN ps : DOMAIN ps[p] = Fields
BY SeqFacts DEF Inv, MainRecord, OtherRecord

\* A process other than the shell goes on.
LEMMA OtherStep ==
  ASSUME NEW ps, Inv(ps), NEW p \in DOMAIN ps, p # 1, NEW r, DOMAIN r = Fields,
         r.state = ps[p].state, r.parent = ps[p].parent, r.name = ps[p].name,
         HasRight(r.calls)
  PROVE  Inv([ps EXCEPT ![p] = r]) /\ StaysRunning(ps, [ps EXCEPT ![p] = r])
<1>. DEFINE qs == [ps EXCEPT ![p] = r]
<1>1. IsList(qs) /\ DOMAIN qs = DOMAIN ps
  BY ExceptIsSeq DEF Inv
<1>2. qs[p] = r /\ \A q \in DOMAIN ps : q # p => qs[q] = ps[q]
  OBVIOUS
<1>3. 1 \in DOMAIN ps
  BY DEF Inv
<1>. HIDE DEF qs
<1>4. qs[1] = ps[1]
  BY <1>2, <1>3
<1>5. \A pids : Left(ps, pids) => Left(qs, pids)
  BY <1>1, <1>2 DEF Left
<1>6. MainCalls(qs, qs[1])
  BY <1>4, <1>5 DEF Inv, MainCalls
<1>7. OtherRecord(r)
  BY DEF Inv, OtherRecord
<1>8. Inv(qs)
  BY <1>1, <1>2, <1>4, <1>6, <1>7 DEF Inv
<1>9. StaysRunning(ps, qs)
  BY <1>2 DEF StaysRunning
<1>. QED  BY <1>8, <1>9 DEF qs

\* The shell goes on.
LEMMA MainStep ==
  ASSUME NEW ps, Inv(ps), NEW r, MainRecord(r), r.state = "running", MainCalls(ps, r)
  PROVE  Inv([ps EXCEPT ![1] = r]) /\ StaysRunning(ps, [ps EXCEPT ![1] = r])
<1>. DEFINE qs == [ps EXCEPT ![1] = r]
<1>1. IsList(qs) /\ DOMAIN qs = DOMAIN ps
  BY ExceptIsSeq DEF Inv
<1>2. 1 \in DOMAIN ps
  BY DEF Inv
<1>3. qs[1] = r /\ \A q \in DOMAIN ps : q # 1 => qs[q] = ps[q]
  BY <1>2
<1>. HIDE DEF qs
<1>4. r.parent = 0
  BY DEF MainRecord
<1>5. \A pids : Left(ps, pids) => Left(qs, pids)
  BY <1>1, <1>3, <1>4 DEF Left
<1>6. MainCalls(qs, r)
  BY <1>5 DEF MainCalls
<1>7. Inv(qs)
  BY <1>1, <1>2, <1>3, <1>6 DEF Inv
<1>8. StaysRunning(ps, qs)
  BY <1>3 DEF StaysRunning
<1>. QED  BY <1>7, <1>8 DEF qs

\* A child is there.
LEMMA ChildStep ==
  ASSUME NEW ps, Inv(ps), NEW p \in DOMAIN ps, NEW r, DOMAIN r = Fields,
         r.parent = p, r.state = "running", HasRight(r.calls),
         p # 1 => r.name = "right",
         p = 1 => \/ r.name = "background"
                  \/ ~Lines(ps[1].calls) /\ ps[1].env["pid"] = Len(ps) + 1
  PROVE  Inv(Append(ps, r)) /\ StaysRunning(ps, Append(ps, r))
<1>. DEFINE qs == Append(ps, r)
            n == Len(ps) + 1
<1>1. Len(ps) \in Nat /\ DOMAIN ps = 1 .. Len(ps) /\ 1 \in DOMAIN ps /\ IsList(ps)
  BY InvFacts DEF Inv
<1>2. /\ IsList(qs) /\ DOMAIN qs = 1 .. n /\ qs[n] = r
      /\ \A q \in DOMAIN ps : qs[q] = ps[q]
  BY <1>1, AppendFacts
<1>. HIDE DEF qs
<1>3. /\ DOMAIN qs = DOMAIN ps \union {n} /\ n # 1 /\ n \notin DOMAIN ps
      /\ qs[1] = ps[1] /\ 1 \in DOMAIN qs
  BY <1>1, <1>2
<1>. HIDE DEF n
<1>4. \A pids : Left(ps, pids) /\ (p = 1 => r.name = "background" \/ n \in pids) => Left(qs, pids)
  BY <1>2, <1>3 DEF Left
<1>5. MainCalls(qs, ps[1])
  <2>1. p = 1 => r.name = "background" \/ (~Lines(ps[1].calls) /\ n \in {ps[1].env["pid"]})
    BY DEF n
  <2>2. MainCalls(ps, ps[1])
    BY DEF Inv
  <2>. QED  BY <1>4, <2>1, <2>2 DEF MainCalls
<1>6. OtherRecord(r)
  BY DEF OtherRecord
<1>7. Inv(qs)
  BY <1>2, <1>3, <1>5, <1>6 DEF Inv
<1>8. StaysRunning(ps, qs)
  BY <1>2 DEF StaysRunning
<1>. QED  BY <1>7, <1>8 DEF qs

EndOf(ps, p, status) ==
  [q \in DOMAIN ps |->
    LET r == IF ps[q].parent = p THEN [ps[q] EXCEPT !.parent = 0] ELSE ps[q]
        e == IF q = p THEN [r EXCEPT !.state = "zombie", !.status = status,
                                     !.calls = <<>>, !.fds = <<>>] ELSE r
    IN IF e.state = "zombie" /\ e.parent = 0 THEN [e EXCEPT !.state = "reaped"] ELSE e]

LEMMA EndFields ==
  ASSUME NEW ps, NEW p \in DOMAIN ps, NEW status, NEW q \in DOMAIN ps, DOMAIN ps[q] = Fields,
         NEW e, e = EndOf(ps, p, status)[q]
  PROVE  /\ DOMAIN e = Fields /\ e.name = ps[q].name
         /\ e.parent = IF ps[q].parent = p THEN 0 ELSE ps[q].parent
         /\ q # p => e.calls = ps[q].calls /\ e.fds = ps[q].fds /\ e.env = ps[q].env
         /\ q # p => e.state = ps[q].state \/ (ps[q].state = "zombie" /\ e.state = "reaped")
         /\ q = p => e.state \in {"zombie", "reaped"} /\ e.fds = <<>>
         /\ q # p /\ ps[q].state = "running" => e.state = "running"
<1>. DEFINE r == IF ps[q].parent = p THEN [ps[q] EXCEPT !.parent = 0] ELSE ps[q]
            d == IF q = p THEN [r EXCEPT !.state = "zombie", !.status = status,
                                     !.calls = <<>>, !.fds = <<>>] ELSE r
<1>1. e = IF d.state = "zombie" /\ d.parent = 0 THEN [d EXCEPT !.state = "reaped"] ELSE d
  BY DEF EndOf
<1>2. /\ DOMAIN r = Fields /\ r.name = ps[q].name /\ r.state = ps[q].state
      /\ r.calls = ps[q].calls /\ r.fds = ps[q].fds /\ r.env = ps[q].env
      /\ r.parent = IF ps[q].parent = p THEN 0 ELSE ps[q].parent
  BY DEF Fields
<1>. HIDE DEF r
<1>3. /\ DOMAIN d = Fields /\ d.name = r.name /\ d.parent = r.parent
      /\ q # p => d = r
      /\ q = p => d.state = "zombie" /\ d.fds = <<>>
  BY <1>2 DEF Fields
<1>. HIDE DEF d
<1>4. /\ DOMAIN e = Fields /\ e.name = d.name /\ e.parent = d.parent
      /\ e.calls = d.calls /\ e.fds = d.fds /\ e.env = d.env
      /\ e.state = d.state \/ (d.state = "zombie" /\ e.state = "reaped")
  BY <1>1, <1>3 DEF Fields
<1>. QED  BY <1>2, <1>3, <1>4

\* A process ends; the shell does so with its foreground done.
LEMMA EndStep ==
  ASSUME NEW ps, Inv(ps), NEW p \in DOMAIN ps, ps[p].state = "running", NEW status,
         p = 1 => Left(ps, {})
  PROVE  Inv(EndOf(ps, p, status)) /\ NoneLeft(ps, EndOf(ps, p, status))
<1>. DEFINE qs == EndOf(ps, p, status)
<1>1. Len(ps) \in Nat /\ DOMAIN ps = 1 .. Len(ps) /\ 1 \in DOMAIN ps
      /\ \A q \in DOMAIN ps : DOMAIN ps[q] = Fields
  BY InvFacts
<1>2. /\ MainRecord(ps[1]) /\ MainCalls(ps, ps[1])
      /\ \A q \in DOMAIN ps : q # 1 => OtherRecord(ps[q])
  BY DEF Inv
<1>3. IsList(qs) /\ DOMAIN qs = DOMAIN ps
  <2>1. DOMAIN qs = 1 .. Len(ps) /\ qs = [q \in 1 .. Len(ps) |-> qs[q]]
    BY <1>1 DEF EndOf
  <2>. HIDE DEF qs
  <2>. QED  BY <1>1, <2>1, FunctionIsSeq
<1>4. \A q \in DOMAIN ps :
         /\ DOMAIN qs[q] = Fields /\ qs[q].name = ps[q].name
         /\ qs[q].parent = IF ps[q].parent = p THEN 0 ELSE ps[q].parent
         /\ q # p => qs[q].calls = ps[q].calls /\ qs[q].fds = ps[q].fds /\ qs[q].env = ps[q].env
         /\ q # p => qs[q].state = ps[q].state \/ (ps[q].state = "zombie" /\ qs[q].state = "reaped")
         /\ q = p => qs[q].state \in {"zombie", "reaped"}
         /\ q # p /\ ps[q].state = "running" => qs[q].state = "running"
  <2>. HIDE DEF qs
  <2>. SUFFICES ASSUME NEW q \in DOMAIN ps
       PROVE
         /\ DOMAIN qs[q] = Fields /\ qs[q].name = ps[q].name
         /\ qs[q].parent = IF ps[q].parent = p THEN 0 ELSE ps[q].parent
         /\ q # p => qs[q].calls = ps[q].calls /\ qs[q].fds = ps[q].fds /\ qs[q].env = ps[q].env
         /\ q # p => qs[q].state = ps[q].state \/ (ps[q].state = "zombie" /\ qs[q].state = "reaped")
         /\ q = p => qs[q].state \in {"zombie", "reaped"}
         /\ q # p /\ ps[q].state = "running" => qs[q].state = "running"
    OBVIOUS
  <2>1. DOMAIN ps[q] = Fields /\ qs[q] = EndOf(ps, p, status)[q]
    BY <1>1 DEF qs
  <2>. QED  BY <2>1, EndFields
<1>. HIDE DEF qs
<1>5. \A q \in DOMAIN ps : q # 1 => OtherRecord(qs[q])
  <2>. SUFFICES ASSUME NEW q \in DOMAIN ps, q # 1  PROVE OtherRecord(qs[q])
    OBVIOUS
  <2>1. OtherRecord(ps[q])
    BY <1>2
  <2>2. qs[q].parent \notin {0, 1} => qs[q].name = "right"
    BY <1>4, <2>1 DEF OtherRecord
  <2>3. qs[q].state = "running" => HasRight(qs[q].calls)
    BY <1>4, <2>1 DEF OtherRecord
  <2>. QED  BY <1>4, <2>2, <2>3 DEF OtherRecord
<1>6. MainRecord(qs[1]) /\ (qs[1].state = "running" => p # 1 /\ ps[1].state = "running")
  <2>1. qs[1].parent = 0
    BY <1>1, <1>2, <1>4 DEF MainRecord
  <2>2. qs[1].state = "running" => p # 1 /\ ps[1].state = "running"
    BY <1>1, <1>4
  <2>. QED  BY <1>1, <1>2, <1>4, <2>1, <2>2 DEF MainRecord
<1>7. p # 1 => \A pids : Left(ps, pids) => Left(qs, pids)
  BY <1>3, <1>4 DEF Left
<1>8. MainCalls(qs, qs[1])
  <2>. SUFFICES ASSUME qs[1].state = "running"  PROVE MainCalls(qs, qs[1])
    BY DEF MainCalls
  <2>1. p # 1 /\ ps[1].state = "running" /\ qs[1].calls = ps[1].calls /\ qs[1].env = ps[1].env
    BY <1>1, <1>4, <1>6
  <2>. QED  BY <1>2, <1>7, <2>1 DEF MainCalls
<1>9. Inv(qs)
  BY <1>1, <1>3, <1>5, <1>6, <1>8 DEF Inv
<1>10. NoneLeft(ps, qs)
  <2>. SUFFICES ASSUME NEW r \in DOMAIN ps, NEW q \in DOMAIN ps, ps[r].state = "running",
                       qs[r].state # "running", ps[q].parent = r, ps[q].state # "reaped"
                PROVE  ps[q].name \in Unwaited
    BY DEF NoneLeft
  <2>1. r = p
    BY <1>4
  <2>2. CASE p = 1
    <3>1. ps[q].name = "background"
      BY <2>1, <2>2 DEF Left
    <3>. QED  BY <3>1 DEF Unwaited
  <2>3. CASE p # 1
    <3>1. ps[q].parent \notin {0, 1}
      BY <1>1, <2>1, <2>3
    <3>2. q # 1
      BY <1>2, <3>1 DEF MainRecord
    <3>3. ps[q].name = "right"
      BY <1>2, <3>1, <3>2 DEF OtherRecord
    <3>. QED  BY <3>3 DEF Unwaited
  <2>. QED  BY <2>2, <2>3
<1>. QED  BY <1>9, <1>10 DEF qs

\* The child q is reaped, and the shell goes on.
Reaps(ps, qs, q) ==
  /\ IsList(qs) /\ DOMAIN qs = DOMAIN ps
  /\ qs[1] = [ps[1] EXCEPT !.calls = Tail(ps[1].calls)]
  /\ \A p \in DOMAIN ps : p = q => qs[p] = [ps[p] EXCEPT !.state = "reaped"]
  /\ \A p \in DOMAIN ps : p # 1 /\ p # q => qs[p] = ps[p]

LEMMA WaitReaps ==
  ASSUME NEW ps, Inv(ps), NEW q, q # 1,
         NEW qs, qs = [ps EXCEPT ![q].state = "reaped", ![1].calls = Tail(ps[1].calls)]
  PROVE  Reaps(ps, qs, q)
<1>1. Len(ps) \in Nat /\ DOMAIN ps = 1 .. Len(ps) /\ 1 \in DOMAIN ps /\ IsList(ps)
  BY InvFacts DEF Inv
<1>. DEFINE a == [ps[q] EXCEPT !.state = "reaped"]
            os == [ps EXCEPT ![q] = a]
            b == [ps[1] EXCEPT !.calls = Tail(ps[1].calls)]
<1>2. os[1] = ps[1]
  BY <1>1
<1>3. qs = [os EXCEPT ![1] = b]
  BY <1>2
<1>. HIDE DEF a, b
<1>4. /\ os[1] = ps[1] /\ IsList(os) /\ DOMAIN os = DOMAIN ps
      /\ \A p \in DOMAIN ps : p = q => os[p] = a
      /\ \A p \in DOMAIN ps : p # q => os[p] = ps[p]
  BY <1>1, <1>2, ExceptIsSeq
<1>. HIDE DEF os
<1>5. IsList([os EXCEPT ![1] = b]) /\ DOMAIN [os EXCEPT ![1] = b] = DOMAIN os
  BY <1>4, ExceptIsSeq
<1>. DEFINE rs == [os EXCEPT ![1] = b]
<1>6. /\ IsList(rs) /\ DOMAIN rs = DOMAIN ps /\ rs[1] = b
      /\ \A p \in DOMAIN ps : p = q => rs[p] = a
      /\ \A p \in DOMAIN ps : p # 1 /\ p # q => rs[p] = ps[p]
  BY <1>1, <1>4, <1>5
<1>7. qs = rs
  BY <1>3
<1>. HIDE DEF rs
<1>. QED  BY <1>6, <1>7, Zenon DEF Reaps, a, b

LEMMA WaitStep ==
  ASSUME NEW ps, Inv(ps), ps[1].state = "running", Waiting(ps[1].calls),
         NEW q, q = ps[1].env["pid"], q # 1, ps[q].state = "zombie",
         NEW qs, Reaps(ps, qs, q)
  PROVE  Inv(qs) /\ StaysRunning(ps, qs)
<1>1. Len(ps) \in Nat /\ DOMAIN ps = 1 .. Len(ps) /\ 1 \in DOMAIN ps
      /\ \A p \in DOMAIN ps : DOMAIN ps[p] = Fields
  BY InvFacts
<1>2. /\ MainRecord(ps[1]) /\ MainCalls(ps, ps[1])
      /\ \A p \in DOMAIN ps : p # 1 => OtherRecord(ps[p])
  BY DEF Inv
<1>. DEFINE mine == [ps[1] EXCEPT !.calls = Tail(ps[1].calls)]
            his == [ps[q] EXCEPT !.state = "reaped"]
<1>4. /\ IsList(qs) /\ DOMAIN qs = DOMAIN ps
      /\ qs[1] = mine /\ (q \in DOMAIN ps => qs[q] = his)
      /\ \A p \in DOMAIN ps : p # 1 /\ p # q => qs[p] = ps[p]
  BY <1>1 DEF Reaps
<1>6. /\ DOMAIN mine = Fields /\ mine.parent = 0 /\ mine.state = "running"
      /\ mine.calls = Tail(ps[1].calls) /\ mine.fds = ps[1].fds /\ mine.env = ps[1].env
  BY <1>1, <1>2 DEF Fields, MainRecord
<1>7. q \in DOMAIN ps => /\ DOMAIN his = Fields /\ his.parent = ps[q].parent
                         /\ his.state = "reaped" /\ his.name = ps[q].name
  BY <1>1 DEF Fields
<1>. HIDE DEF mine, his
<1>8. MainRecord(mine)
  BY <1>2, <1>6 DEF MainRecord
<1>9. ~Lines(ps[1].calls)
  <2>1. ps[1].calls # <<>> /\ ps[1].calls[1].call = "wait"
    BY DEF Waiting, Wait
  <2>. QED  BY <2>1, LinesTail
<1>10. Left(ps, {q})
  BY <1>2, <1>9 DEF MainCalls
<1>11. Left(qs, {})
  <2>. SUFFICES ASSUME NEW p \in DOMAIN ps, qs[p].parent = 1, qs[p].state # "reaped"
                PROVE  qs[p].name = "background"
    BY <1>4 DEF Left
  <2>1. p # 1 /\ p # q
    BY <1>4, <1>6, <1>7
  <2>2. qs[p] = ps[p]
    BY <1>4, <2>1
  <2>. QED  BY <1>10, <2>1, <2>2 DEF Left
<1>12. Lines(mine.calls)
  BY <1>6 DEF Waiting
<1>13. \A p \in DOMAIN ps : p # 1 => OtherRecord(qs[p])
  BY <1>2, <1>4, <1>7 DEF OtherRecord
<1>14. MainCalls(qs, mine)
  BY <1>11, <1>12 DEF MainCalls
<1>15. Inv(qs)
  BY <1>1, <1>4, <1>8, <1>13, <1>14 DEF Inv
<1>16. StaysRunning(ps, qs)
  <2>. SUFFICES ASSUME NEW p \in DOMAIN ps, ps[p].state = "running"
                PROVE  qs[p].state = "running"
    BY DEF StaysRunning
  <2>1. p # q
    OBVIOUS
  <2>2. p = 1 \/ qs[p] = ps[p]
    BY <1>4, <2>1
  <2>. QED  BY <1>4, <1>6, <2>2
<1>. QED  BY <1>15, <1>16

\* Whatever else of the processes changes.
LEMMA SameStep ==
  ASSUME NEW ps, Inv(ps), NEW qs, IsList(qs), DOMAIN qs = DOMAIN ps,
         \A p \in DOMAIN ps :
            /\ DOMAIN qs[p] = Fields /\ qs[p].parent = ps[p].parent /\ qs[p].name = ps[p].name
            /\ qs[p].state = ps[p].state /\ qs[p].calls = ps[p].calls
            /\ qs[p].fds = ps[p].fds /\ qs[p].env = ps[p].env
  PROVE  Inv(qs) /\ StaysRunning(ps, qs)
<1>1. /\ 1 \in DOMAIN ps /\ MainRecord(ps[1]) /\ MainCalls(ps, ps[1])
      /\ \A p \in DOMAIN ps : p # 1 => OtherRecord(ps[p])
  BY DEF Inv
<1>2. MainRecord(qs[1])
  BY <1>1 DEF MainRecord
<1>3. \A p \in DOMAIN ps : p # 1 => OtherRecord(qs[p])
  BY <1>1 DEF OtherRecord
<1>4. \A pids : Left(ps, pids) => Left(qs, pids)
  BY DEF Left
<1>5. MainCalls(qs, qs[1])
  BY <1>1, <1>4 DEF MainCalls
<1>6. StaysRunning(ps, qs)
  BY DEF StaysRunning
<1>. QED  BY <1>1, <1>2, <1>3, <1>5, <1>6 DEF Inv
---------------------------------------------------------------------------
(* The steps of the processes *)

WaitsRight(ws) == \A w \in ws : w.got = w.asked

LEMMA Callers ==
  ASSUME NEW p, Call(p)
  PROVE  procs[p].state = "running" /\ procs[p].calls # <<>>
<1>1. CASE DoFork(p)
  BY <1>1 DEF DoFork, At
<1>2. CASE DoExec(p)
  BY <1>2 DEF DoExec, At
<1>3. CASE DoExit(p)
  BY <1>3 DEF DoExit, At
<1>4. CASE DoWait(p)
  BY <1>4 DEF DoWait, At
<1>5. CASE DoChdir(p)
  BY <1>5 DEF DoChdir, At
<1>6. CASE DoPrompt(p)
  BY <1>6 DEF DoPrompt, At
<1>7. CASE DoPwd(p)
  BY <1>7 DEF DoPwd, At
<1>8. CASE DoUndefined(p)
  BY <1>8 DEF DoUndefined, At
<1>9. CASE DoSleep(p)
  BY <1>9 DEF DoSleep, At
<1>10. CASE DoPipe(p)
  BY <1>10 DEF DoPipe, At
<1>11. CASE DoClose(p)
  BY <1>11 DEF DoClose, At
<1>12. CASE DoDup2(p)
  BY <1>12 DEF DoDup2, At
<1>13. CASE DoOpen(p)
  BY <1>13 DEF DoOpen, At
<1>14. CASE DoWrite(p)
  BY <1>14 DEF DoWrite, At
<1>15. CASE DoRead(p)
  BY <1>15 DEF DoRead, At
<1>16. CASE DoFifo(p)
  BY <1>16, Zenon DEF DoFifo, At
<1>17. CASE DoForever(p)
  BY <1>17 DEF DoForever, At
<1>18. CASE DoNoRoom(p)
  BY <1>18 DEF DoNoRoom, At
<1>. QED  BY <1>1, <1>2, <1>3, <1>4, <1>5, <1>6, <1>7, <1>8, <1>9, <1>10, <1>11, <1>12, <1>13,
             <1>14, <1>15, <1>16, <1>17, <1>18 DEF Call

\* r is the process s with other calls, and perhaps other files.
Alike(r, s, calls) ==
  /\ DOMAIN r = Fields /\ r.state = s.state /\ r.parent = s.parent /\ r.name = s.name
  /\ r.calls = calls

\* The records that the actions of Processes leave.
Sleeper(s, c, x)     == [s EXCEPT !.calls = c, !.asleep = x]
WithFiles(s, c, x)   == [s EXCEPT !.calls = c, !.fds = x]
Piped(s, c, x, y)    == [s EXCEPT !.calls = c, !.fds = x, !.env = y]
Opening(s, c, x, y)  == [s EXCEPT !.calls = c, !.env = x, !.fds = y]
Buffered(s, c, x)    == [s EXCEPT !.calls = c, !.buf = x]
Moved(s, c, x)       == [s EXCEPT !.calls = c, !.cwd = x]
Going(s, c)          == [s EXCEPT !.calls = c]

LEMMA Records ==
  ASSUME NEW s, DOMAIN s = Fields, NEW c
  PROVE  /\ \A x : Alike(Sleeper(s, c, x), s, c)
         /\ \A x : Alike(WithFiles(s, c, x), s, c)
         /\ \A x, y : Alike(Piped(s, c, x, y), s, c)
         /\ \A x, y : Alike(Opening(s, c, x, y), s, c)
         /\ \A x : Alike(Buffered(s, c, x), s, c)
         /\ \A x : Alike(Moved(s, c, x), s, c) /\ Moved(s, c, x).fds = s.fds
                   /\ Moved(s, c, x).env = s.env
         /\ Alike(Going(s, c), s, c) /\ Going(s, c).fds = s.fds /\ Going(s, c).env = s.env
BY DEF Alike, Fields, Sleeper, WithFiles, Piped, Opening, Buffered, Moved, Going

LEMMA OtherBecomes ==
  ASSUME Inv(procs), NEW p \in Pids, p # 1, NEW calls, HasRight(calls),
         NEW r, Alike(r, procs[p], calls), Becomes(p, r)
  PROVE  Inv(procs') /\ NoneLeft(procs, procs')
<1>1. /\ DOMAIN r = Fields /\ r.state = procs[p].state /\ r.parent = procs[p].parent
      /\ r.name = procs[p].name /\ HasRight(r.calls)
  BY DEF Alike
<1>2. p \in DOMAIN procs /\ procs' = [procs EXCEPT ![p] = r]
  BY DEF Becomes, Pids
<1>. QED  BY <1>1, <1>2, OtherStep, StayingLeavesNone

LEMMA OtherContinues ==
  ASSUME Inv(procs), NEW p \in Pids, p # 1, NEW calls, HasRight(calls), Continue(p, calls)
  PROVE  Inv(procs') /\ NoneLeft(procs, procs')
<1>1. DOMAIN procs[p] = Fields
  BY InvFacts DEF Pids
<1>2. Alike(Going(procs[p], calls), procs[p], calls)
  BY <1>1, Records
<1>3. Becomes(p, Going(procs[p], calls))
  BY DEF Becomes, Continue, Going
<1>. QED  BY <1>2, <1>3, OtherBecomes

LEMMA Ending ==
  ASSUME Inv(procs), NEW p \in Pids, procs[p].state = "running", p = 1 => Left(procs, {}),
         NEW status, End(p, status)
  PROVE  Inv(procs') /\ NoneLeft(procs, procs')
<1>1. procs' = EndOf(procs, p, status)
  BY Zenon DEF End, EndOf, Pids
<1>2. p \in DOMAIN procs
  BY DEF Pids
<1>3. Inv(EndOf(procs, p, status)) /\ NoneLeft(procs, EndOf(procs, p, status))
  BY <1>2, EndStep
<1>. QED  BY <1>1, <1>3

\* The records that DoFork leaves.
Parent(p) == [procs[p] EXCEPT !.calls = Rest(p),
                              !.env = With(procs[p].env, Arg(p).var, Len(procs) + 1)]
TheChild(p) == [procs[p] EXCEPT !.parent = p, !.name = Arg(p).var, !.calls = Arg(p).calls]

LEMMA ForkRecords ==
  ASSUME Inv(procs), NEW p \in Pids
  PROVE  /\ DOMAIN Parent(p) = Fields /\ Parent(p).state = procs[p].state
         /\ Parent(p).parent = procs[p].parent /\ Parent(p).name = procs[p].name
         /\ Parent(p).calls = Rest(p) /\ Parent(p).fds = procs[p].fds
         /\ Parent(p).env = With(procs[p].env, Arg(p).var, Len(procs) + 1)
         /\ DOMAIN TheChild(p) = Fields /\ TheChild(p).state = procs[p].state
         /\ TheChild(p).parent = p /\ TheChild(p).name = Arg(p).var
         /\ TheChild(p).calls = Arg(p).calls /\ TheChild(p).fds = procs[p].fds
         /\ TheChild(p).env = procs[p].env
<1>1. DOMAIN procs[p] = Fields
  BY InvFacts DEF Pids
<1>. QED  BY <1>1 DEF Parent, TheChild, Fields

LEMMA Forks ==
  ASSUME Inv(procs), NEW p \in Pids, DoFork(p), NEW qs, qs = [procs EXCEPT ![p] = Parent(p)],
         Inv(qs), StaysRunning(procs, qs), HasRight(Arg(p).calls),
         p # 1 => Arg(p).var = "right",
         p = 1 => \/ Arg(p).var = "background"
                  \/ ~Lines(Rest(p)) /\ Parent(p).env["pid"] = Len(procs) + 1
  PROVE  Inv(procs') /\ NoneLeft(procs, procs')
<1>. DEFINE child == TheChild(p)
<1>1. procs' = Append(qs, child)
  BY DEF DoFork, Parent, TheChild
<1>2. procs[p].state = "running"
  BY DEF DoFork, At
<1>3. /\ DOMAIN child = Fields /\ child.state = "running" /\ child.parent = p
      /\ child.name = Arg(p).var /\ child.calls = Arg(p).calls
  BY <1>2, ForkRecords
<1>4. p \in DOMAIN qs /\ Len(qs) = Len(procs) /\ qs[p] = Parent(p) /\ DOMAIN qs = DOMAIN procs
  BY ExceptIsSeq DEF Pids, Inv
<1>5. p = 1 => \/ child.name = "background"
               \/ ~Lines(qs[1].calls) /\ qs[1].env["pid"] = Len(qs) + 1
  BY <1>3, <1>4, ForkRecords
<1>. HIDE DEF child
<1>6. Inv(Append(qs, child)) /\ StaysRunning(qs, Append(qs, child))
  <2>1. HasRight(child.calls) /\ (p # 1 => child.name = "right")
    BY <1>3
  <2>. QED  BY <1>3, <1>4, <1>5, <2>1, ChildStep
<1>7. StaysRunning(procs, procs')
  BY <1>1, <1>4, <1>6 DEF StaysRunning
<1>. QED  BY <1>1, <1>6, <1>7, StayingLeavesNone

\* What a process may call, other than the shell.
LEMMA OtherCalls ==
  ASSUME Inv(procs), NEW p \in Pids, p # 1, procs[p].state = "running", procs[p].calls # <<>>
  PROVE  /\ DOMAIN procs[p] = Fields /\ HasRight(procs[p].calls) /\ HasRight(Rest(p))
         /\ \/ Arg(p).call \in PlainNames
            \/ Arg(p).call = "fork" /\ Arg(p).var = "right" /\ HasRight(Arg(p).calls)
<1>1. DOMAIN procs[p] = Fields /\ HasRight(procs[p].calls)
  BY DEF Inv, OtherRecord, Pids
<1>2. HasRight(Rest(p)) /\ 1 \in DOMAIN procs[p].calls
  BY <1>1, RightTail, RightIsSeq, SeqFacts DEF Rest
<1>3. \/ Plain(procs[p].calls[1])
      \/ /\ procs[p].calls[1].call = "fork" /\ procs[p].calls[1].var = "right"
         /\ HasRight(procs[p].calls[1].calls)
  BY <1>1, <1>2, RightNested
<1>. QED  BY <1>1, <1>2, <1>3 DEF Arg, Plain

LEMMA OtherForks ==
  ASSUME Inv(procs), NEW p \in Pids, p # 1, DoFork(p)
  PROVE  Inv(procs') /\ NoneLeft(procs, procs')
<1>1. procs[p].state = "running" /\ procs[p].calls # <<>> /\ Arg(p).call = "fork"
  BY DEF DoFork, At, Arg
<1>2. /\ DOMAIN procs[p] = Fields /\ HasRight(Rest(p))
      /\ Arg(p).var = "right" /\ HasRight(Arg(p).calls)
  BY <1>1, OtherCalls DEF PlainNames
<1>. DEFINE mine == Parent(p)
            qs == [procs EXCEPT ![p] = mine]
<1>3. /\ DOMAIN mine = Fields /\ mine.state = procs[p].state /\ mine.parent = procs[p].parent
      /\ mine.name = procs[p].name /\ HasRight(mine.calls)
  BY <1>2, ForkRecords
<1>. HIDE DEF mine
<1>4. Inv(qs) /\ StaysRunning(procs, qs)
  BY <1>3, OtherStep DEF Pids
<1>5. qs = [procs EXCEPT ![p] = Parent(p)]
  BY DEF mine
<1>. HIDE DEF qs
<1>. QED  BY <1>2, <1>4, <1>5, Forks

LEMMA OtherReads ==
  ASSUME Inv(procs), NEW p \in Pids, p # 1, DoRead(p)
  PROVE  Inv(procs') /\ NoneLeft(procs, procs')
<1>1. procs[p].state = "running" /\ procs[p].calls # <<>>
      /\ Arg(p).call \in {"read", "copy", "copyall", "upperall"}
  BY DEF DoRead, At, Arg
<1>2. /\ DOMAIN procs[p] = Fields /\ HasRight(Rest(p)) /\ HasRight(procs[p].calls)
      /\ Arg(p).call \in {"copy", "copyall"}
  BY <1>1, OtherCalls DEF PlainNames
<1>3. HasRight(AfterEnd(p))
  BY <1>2 DEF AfterEnd
<1>4. \A item : HasRight(AfterItem(p, item))
  <2>. SUFFICES ASSUME NEW item  PROVE HasRight(AfterItem(p, item))
    OBVIOUS
  <2>1. HasRight(<<Write(Arg(p).to, item)>>)
    BY PlainTuples, PlainCalls, PlainHasRight
  <2>2. HasRight(<<Write(Arg(p).to, item)>> \o Rest(p))
        /\ HasRight(<<Write(Arg(p).to, item)>> \o procs[p].calls)
    BY <1>2, <2>1, RightConcat
  <2>3. CASE Arg(p).call = "copy"
    BY <2>2, <2>3 DEF AfterItem
  <2>4. CASE Arg(p).call = "copyall"
    BY <2>2, <2>4 DEF AfterItem
  <2>. QED  BY <1>2, <2>3, <2>4
<1>. DEFINE item == Head(files[File(p, Arg(p).var)])
<1>5. \/ Becomes(p, Buffered(procs[p], AfterItem(p, item), item))
      \/ Continue(p, AfterEnd(p))
  BY DEF DoRead, Buffered
<1>. HIDE DEF item
<1>6. CASE Becomes(p, Buffered(procs[p], AfterItem(p, item), item))
  <2>1. Alike(Buffered(procs[p], AfterItem(p, item), item), procs[p], AfterItem(p, item))
    BY <1>2, Records
  <2>. QED  BY <1>4, <1>6, <2>1, OtherBecomes
<1>7. CASE Continue(p, AfterEnd(p))
  BY <1>3, <1>7, OtherContinues
<1>. QED  BY <1>5, <1>6, <1>7

\* The calls that only the shell makes, and those of no shell.
LEMMA ChildNever ==
  ASSUME Inv(procs), NEW p \in Pids, p # 1,
         DoWait(p) \/ DoChdir(p) \/ DoPrompt(p) \/ DoPwd(p) \/ DoFifo(p) \/ DoForever(p)
  PROVE  FALSE
<1>1. Arg(p).call \in {"wait", "chdir", "prompt", "pwd", "fifo", "forever"}
  <2>1. CASE DoWait(p)
    BY <2>1 DEF DoWait, At, Arg
  <2>2. CASE DoChdir(p)
    BY <2>2 DEF DoChdir, At, Arg
  <2>3. CASE DoPrompt(p)
    BY <2>3 DEF DoPrompt, At, Arg
  <2>4. CASE DoPwd(p)
    BY <2>4 DEF DoPwd, At, Arg
  <2>5. CASE DoFifo(p)
    BY <2>5, Zenon DEF DoFifo, At, Arg
  <2>6. CASE DoForever(p)
    BY <2>6 DEF DoForever, At, Arg
  <2>. QED  BY <2>1, <2>2, <2>3, <2>4, <2>5, <2>6
<1>2. procs[p].state = "running" /\ procs[p].calls # <<>>
  BY Callers DEF Call
<1>3. Arg(p).call \in PlainNames \union {"fork"}
  BY <1>2, OtherCalls
<1>. QED  BY <1>1, <1>3 DEF PlainNames

LEMMA OtherProcessStep ==
  ASSUME Inv(procs), NEW p \in Pids, p # 1, Call(p)
  PROVE  Inv(procs') /\ NoneLeft(procs, procs') /\ UNCHANGED waits
<1>1. procs[p].state = "running" /\ procs[p].calls # <<>>
  BY Callers
<1>2. /\ DOMAIN procs[p] = Fields /\ HasRight(procs[p].calls) /\ HasRight(Rest(p))
      /\ Arg(p).call \in PlainNames \union {"fork"}
  BY <1>1, OtherCalls
<1>3. CASE DoFork(p)
  <2>1. UNCHANGED waits
    BY <1>3 DEF DoFork
  <2>. QED  BY <1>3, <2>1, OtherForks
<1>4. CASE DoExec(p)
  <2>1. UNCHANGED waits /\ \E cmd : Continue(p, Command(cmd))
    BY <1>4 DEF DoExec
  <2>. QED  BY <2>1, RightCommand, OtherContinues
<1>5. CASE DoExit(p)
  <2>1. UNCHANGED waits /\ End(p, Arg(p).status)
    BY <1>5 DEF DoExit
  <2>. QED  BY <1>1, <2>1, Ending
<1>6. CASE DoUndefined(p)
  <2>1. UNCHANGED waits /\ (Continue(p, Rest(p)) \/ \E status : End(p, status))
    BY <1>6 DEF DoUndefined
  <2>. QED  BY <1>1, <1>2, <2>1, OtherContinues, Ending
<1>7. CASE DoSleep(p)
  <2>1. UNCHANGED waits
    BY <1>7 DEF DoSleep
  <2>2. PICK x : Becomes(p, Sleeper(procs[p], Rest(p), x))
    BY <1>7, Zenon DEF DoSleep, Sleeper
  <2>3. Alike(Sleeper(procs[p], Rest(p), x), procs[p], Rest(p))
    BY <1>2, Records
  <2>. QED  BY <1>2, <2>1, <2>2, <2>3, OtherBecomes
<1>8. CASE DoPipe(p)
  <2>1. UNCHANGED waits
    BY <1>8 DEF DoPipe
  <2>2. PICK x, y : Becomes(p, Piped(procs[p], Rest(p), x, y))
    BY <1>8, Zenon DEF DoPipe, Piped
  <2>3. Alike(Piped(procs[p], Rest(p), x, y), procs[p], Rest(p))
    BY <1>2, Records
  <2>. QED  BY <1>2, <2>1, <2>2, <2>3, OtherBecomes
<1>9. CASE DoClose(p)
  <2>1. UNCHANGED waits
    BY <1>9 DEF DoClose
  <2>2. PICK x : Becomes(p, WithFiles(procs[p], Rest(p), x))
    BY <1>9, Zenon DEF DoClose, WithFiles
  <2>3. Alike(WithFiles(procs[p], Rest(p), x), procs[p], Rest(p))
    BY <1>2, Records
  <2>. QED  BY <1>2, <2>1, <2>2, <2>3, OtherBecomes
<1>10. CASE DoDup2(p)
  <2>1. UNCHANGED waits
    BY <1>10 DEF DoDup2
  <2>2. PICK x : Becomes(p, WithFiles(procs[p], Rest(p), x))
    BY <1>10, Zenon DEF DoDup2, WithFiles
  <2>3. Alike(WithFiles(procs[p], Rest(p), x), procs[p], Rest(p))
    BY <1>2, Records
  <2>. QED  BY <1>2, <2>1, <2>2, <2>3, OtherBecomes
<1>11. CASE DoOpen(p)
  <2>1. UNCHANGED waits
    BY <1>11 DEF DoOpen
  <2>2. PICK x, y : Becomes(p, Opening(procs[p], Rest(p), x, y))
    BY <1>11, Zenon DEF DoOpen, Opening
  <2>3. Alike(Opening(procs[p], Rest(p), x, y), procs[p], Rest(p))
    BY <1>2, Records
  <2>. QED  BY <1>2, <2>1, <2>2, <2>3, OtherBecomes
<1>12. CASE DoWrite(p)
  <2>1. UNCHANGED waits /\ (Continue(p, Rest(p)) \/ End(p, SIGPIPE))
    BY <1>12 DEF DoWrite
  <2>. QED  BY <1>1, <1>2, <2>1, OtherContinues, Ending
<1>13. CASE DoRead(p)
  <2>1. UNCHANGED waits
    BY <1>13 DEF DoRead
  <2>. QED  BY <1>13, <2>1, OtherReads
<1>14. ASSUME \/ DoWait(p) \/ DoChdir(p) \/ DoPrompt(p) \/ DoPwd(p) \/ DoFifo(p) \/ DoForever(p)
       PROVE  FALSE
  BY <1>14, ChildNever
<1>15. CASE DoNoRoom(p)
  <2>1. UNCHANGED waits /\ End(p, 1)
    BY <1>15 DEF DoNoRoom
  <2>. QED  BY <1>1, <2>1, Ending
<1>. QED  BY <1>3, <1>4, <1>5, <1>6, <1>7, <1>8, <1>9, <1>10, <1>11, <1>12, <1>13, <1>14, <1>15 DEF Call

\* What the shell may call.
LEMMA WaitingIsNotLines ==
  ASSUME NEW s, Waiting(s)
  PROVE  ~Lines(s)
<1>1. s # <<>> /\ s[1].call = "wait"
  BY DEF Waiting, Wait
<1>. QED  BY <1>1, LinesTail

LEMMA ShellCalls ==
  ASSUME Inv(procs), procs[1].state = "running", procs[1].calls # <<>>
  PROVE  /\ DOMAIN procs[1] = Fields /\ MainRecord(procs[1]) /\ 1 \in DOMAIN procs
         /\ \/ /\ Lines(procs[1].calls) /\ Left(procs, {}) /\ MainCall(Arg(1))
               /\ Arg(1).call \in {"prompt", "pwd", "exit", "chdir", "write", "fork"}
               /\ ~InForeground(Arg(1)) => Lines(Rest(1))
               /\ InForeground(Arg(1)) => Waiting(Rest(1))
            \/ /\ Waiting(procs[1].calls) /\ Arg(1) = Wait("pid", "pid")
<1>1. MainRecord(procs[1]) /\ MainCalls(procs, procs[1]) /\ 1 \in DOMAIN procs
  BY DEF Inv
<1>2. DOMAIN procs[1] = Fields
  BY <1>1 DEF MainRecord
<1>3. \/ Lines(procs[1].calls) /\ Left(procs, {})
      \/ Waiting(procs[1].calls)
  BY <1>1 DEF MainCalls
<1>4. CASE Lines(procs[1].calls) /\ Left(procs, {})
  <2>1. /\ MainCall(procs[1].calls[1]) /\ procs[1].calls[1].call # "wait"
        /\ ~InForeground(procs[1].calls[1]) => Lines(Tail(procs[1].calls))
        /\ InForeground(procs[1].calls[1]) => Waiting(Tail(procs[1].calls))
    BY <1>4, LinesTail
  <2>2. Wait("pid", "pid").call = "wait"
    BY DEF Wait
  <2>3. procs[1].calls[1].call \in {"prompt", "pwd", "exit", "chdir", "write", "fork"}
    BY <2>1, <2>2 DEF MainCall
  <2>. QED  BY <1>1, <1>2, <1>4, <2>1, <2>3 DEF Arg, Rest
<1>5. CASE Waiting(procs[1].calls)
  BY <1>1, <1>2, <1>5 DEF Waiting, Arg
<1>. QED  BY <1>3, <1>4, <1>5

LEMMA ShellBecomes ==
  ASSUME Inv(procs), procs[1].state = "running", NEW calls, Lines(calls), Left(procs, {}),
         NEW r, Alike(r, procs[1], calls), r.fds = procs[1].fds, r.env = procs[1].env,
         Becomes(1, r)
  PROVE  Inv(procs') /\ NoneLeft(procs, procs')
<1>1. MainRecord(procs[1])
  BY DEF Inv
<1>2. MainRecord(r) /\ r.state = "running" /\ Lines(r.calls)
  BY <1>1 DEF Alike, MainRecord
<1>3. MainCalls(procs, r)
  BY <1>2 DEF MainCalls
<1>4. procs' = [procs EXCEPT ![1] = r]
  BY DEF Becomes
<1>. QED  BY <1>2, <1>3, <1>4, MainStep, StayingLeavesNone

LEMMA ShellContinues ==
  ASSUME Inv(procs), procs[1].state = "running", NEW calls, Lines(calls), Left(procs, {}),
         Continue(1, calls)
  PROVE  Inv(procs') /\ NoneLeft(procs, procs')
<1>1. DOMAIN procs[1] = Fields
  BY DEF Inv, MainRecord
<1>2. /\ Alike(Going(procs[1], calls), procs[1], calls)
      /\ Going(procs[1], calls).fds = procs[1].fds /\ Going(procs[1], calls).env = procs[1].env
  BY <1>1, Records
<1>3. Becomes(1, Going(procs[1], calls))
  BY DEF Becomes, Continue, Going
<1>. QED  BY <1>2, <1>3, ShellBecomes

LEMMA ShellForks ==
  ASSUME Inv(procs), DoFork(1)
  PROVE  Inv(procs') /\ NoneLeft(procs, procs')
<1>1. procs[1].state = "running" /\ procs[1].calls # <<>> /\ Arg(1).call = "fork"
  BY DEF DoFork, At, Arg
<1>2. ~(Arg(1) = Wait("pid", "pid"))
  BY <1>1 DEF Wait
<1>3. /\ MainRecord(procs[1]) /\ 1 \in Pids
      /\ Left(procs, {}) /\ MainCall(Arg(1))
      /\ ~InForeground(Arg(1)) => Lines(Rest(1))
      /\ InForeground(Arg(1)) => Waiting(Rest(1))
  BY <1>1, <1>2, ShellCalls DEF Pids
<1>4. Arg(1).var \in {"pid", "background"} /\ HasRight(Arg(1).calls)
  BY <1>1, <1>2, <1>3 DEF MainCall, Orderly
<1>. DEFINE mine == Parent(1)
            qs == [procs EXCEPT ![1] = mine]
<1>5. /\ DOMAIN mine = Fields /\ mine.state = "running" /\ mine.parent = 0
      /\ mine.calls = Rest(1) /\ mine.fds = procs[1].fds
      /\ mine.env = With(procs[1].env, Arg(1).var, Len(procs) + 1)
  BY <1>1, <1>3, ForkRecords DEF MainRecord
<1>. HIDE DEF mine
<1>6. MainRecord(mine)
  <2>1. procs[1].fds = StdFiles /\ "stdout" \in DOMAIN procs[1].env /\ procs[1].env["stdout"] = 1
    BY <1>1, <1>3 DEF MainRecord
  <2>2. "stdout" # Arg(1).var
    BY <1>4
  <2>3. "stdout" \in DOMAIN mine.env /\ mine.env["stdout"] = 1
    BY <1>5, <2>1, <2>2 DEF With
  <2>. QED  BY <1>5, <2>1, <2>3 DEF MainRecord
<1>7. MainCalls(procs, mine)
  <2>1. \A q : Left(procs, {q})
    BY <1>3 DEF Left
  <2>. QED  BY <1>3, <1>5, <2>1 DEF MainCalls
<1>8. Inv(qs) /\ StaysRunning(procs, qs)
  BY <1>5, <1>6, <1>7, MainStep
<1>9. \/ Arg(1).var = "background"
      \/ ~Lines(Rest(1)) /\ mine.env["pid"] = Len(procs) + 1
  <2>1. CASE Arg(1).var = "pid"
    <3>1. Waiting(Rest(1))
      BY <1>1, <1>3, <2>1 DEF InForeground
    <3>2. ~Lines(Rest(1))
      BY <3>1, WaitingIsNotLines
    <3>3. mine.env["pid"] = Len(procs) + 1
      BY <1>5, <2>1 DEF With
    <3>. QED  BY <3>2, <3>3
  <2>. QED  BY <1>4, <2>1
<1>10. qs = [procs EXCEPT ![1] = Parent(1)]
  BY DEF mine
<1>. HIDE DEF qs
<1>. QED  BY <1>3, <1>4, <1>8, <1>9, <1>10, Forks DEF mine

LEMMA ShellWaits ==
  ASSUME Inv(procs), DoWait(1)
  PROVE  /\ Inv(procs') /\ NoneLeft(procs, procs')
         /\ WaitsRight(waits) => WaitsRight(waits')
<1>1. procs[1].state = "running" /\ procs[1].calls # <<>> /\ Arg(1).call = "wait"
  BY DEF DoWait, At, Arg
<1>2. Waiting(procs[1].calls) /\ Arg(1) = Wait("pid", "pid") /\ MainRecord(procs[1])
  BY <1>1, ShellCalls
<1>3. Arg(1).var = "pid" /\ Arg(1).for = "pid"
  BY <1>2 DEF Wait
<1>. DEFINE q == procs[1].env["pid"]
<1>4. /\ procs[q].parent = 1 /\ procs[q].state = "zombie"
      /\ procs' = [procs EXCEPT ![q].state = "reaped", ![1].calls = Tail(procs[1].calls)]
      /\ waits' = waits \union {[asked |-> q, got |-> q]}
  BY <1>3 DEF DoWait, Rest
<1>5. q # 1
  BY <1>2, <1>4 DEF MainRecord
<1>6. WaitsRight(waits) => WaitsRight(waits')
  BY <1>4 DEF WaitsRight
<1>7. Reaps(procs, procs', q)
  <2>. HIDE DEF q
  <2>. QED  BY <1>4, <1>5, WaitReaps
<1>8. Inv(procs') /\ StaysRunning(procs, procs')
  BY <1>1, <1>2, <1>4, <1>5, <1>7, WaitStep
<1>. QED  BY <1>6, <1>8, StayingLeavesNone

\* The shell writes to the terminal, which is never full.
LEMMA WritesOn ==
  ASSUME Inv(procs), DoWrite(1)
  PROVE  Continue(1, Rest(1)) /\ Left(procs, {}) /\ Lines(Rest(1)) /\ procs[1].state = "running"
<1>1. procs[1].state = "running" /\ procs[1].calls # <<>> /\ Arg(1).call = "write"
  BY DEF DoWrite, At, Arg
<1>2. ~(Arg(1) = Wait("pid", "pid")) /\ ~InForeground(Arg(1))
  BY <1>1 DEF Wait, InForeground
<1>3. Left(procs, {}) /\ MainCall(Arg(1)) /\ Lines(Rest(1)) /\ MainRecord(procs[1])
  BY <1>1, <1>2, ShellCalls
<1>4. Arg(1).var = "stdout"
  BY <1>1, <1>2, <1>3 DEF MainCall
<1>5. File(1, "stdout") = Terminal
  <2>1. procs[1].fds = StdFiles /\ procs[1].env["stdout"] = 1
    BY <1>1, <1>3 DEF MainRecord
  <2>2. StdFiles[1] = [file |-> Terminal, mode |-> "w"]
    BY DEF StdFiles
  <2>. QED  BY <2>1, <2>2 DEF File
<1>6. Continue(1, Rest(1))
  BY <1>4, <1>5 DEF DoWrite, Endless
<1>. QED  BY <1>1, <1>3, <1>6

LEMMA ShellWrites ==
  ASSUME Inv(procs), DoWrite(1)
  PROVE  Inv(procs') /\ NoneLeft(procs, procs')
BY WritesOn, ShellContinues

\* The calls that the shell leaves to its children.
LEMMA MainNever ==
  ASSUME Inv(procs),
         \/ DoExec(1) \/ DoUndefined(1) \/ DoSleep(1) \/ DoPipe(1) \/ DoClose(1)
         \/ DoDup2(1) \/ DoOpen(1) \/ DoRead(1) \/ DoFifo(1) \/ DoForever(1) \/ DoNoRoom(1)
  PROVE  FALSE
<1>1. Arg(1).call \in {"exec", "execread", "undefined", "sleep", "pipe", "close", "dup2",
                       "open", "read", "copy", "copyall", "upperall", "fifo", "forever"}
  <2>1. CASE DoExec(1)
    BY <2>1 DEF DoExec, At, Arg
  <2>2. CASE DoUndefined(1)
    BY <2>2 DEF DoUndefined, At, Arg
  <2>3. CASE DoSleep(1)
    BY <2>3 DEF DoSleep, At, Arg
  <2>4. CASE DoPipe(1)
    BY <2>4, Zenon DEF DoPipe, At, Arg
  <2>5. CASE DoClose(1)
    BY <2>5 DEF DoClose, At, Arg
  <2>6. CASE DoDup2(1)
    BY <2>6 DEF DoDup2, At, Arg
  <2>7. CASE DoOpen(1)
    BY <2>7 DEF DoOpen, At, Arg
  <2>8. CASE DoRead(1)
    BY <2>8 DEF DoRead, At, Arg
  <2>9. CASE DoFifo(1)
    BY <2>9, Zenon DEF DoFifo, At, Arg
  <2>10. CASE DoForever(1)
    BY <2>10 DEF DoForever, At, Arg
  <2>11. CASE DoNoRoom(1)
    BY <2>11 DEF DoNoRoom, At, Arg
  <2>. QED  BY <2>1, <2>2, <2>3, <2>4, <2>5, <2>6, <2>7, <2>8, <2>9, <2>10, <2>11
<1>2. procs[1].state = "running" /\ procs[1].calls # <<>>
  BY Callers DEF Call
<1>3. Arg(1).call \in {"prompt", "pwd", "exit", "chdir", "write", "fork", "wait"}
  <2>1. Wait("pid", "pid").call = "wait"
    BY DEF Wait
  <2>. QED  BY <1>2, <2>1, ShellCalls
<1>. QED  BY <1>1, <1>3

LEMMA LastCall ==
  ASSUME NEW s, IsList(s), s # <<>>
  PROVE  Len(s) \in DOMAIN s /\ Last(s) = s[Len(s)]
BY SeqFacts DEF Last

\* No shell, and no child of one, waits for the user outside the prompt, or goes on
\* for ever.
LEMMA UserNever ==
  ASSUME Inv(procs), NEW p \in Pids, User(p)
  PROVE  FALSE
<1>1. procs[p].state = "running" /\ procs[p].calls # <<>>
      /\ (Arg(p).call = "ask" \/ Last(procs[p].calls).call = "forever")
  BY DEF User, Type, Interrupt, At, Arg
<1>2. CASE p = 1
  <2>. DEFINE s == procs[1].calls
  <2>0. Wait("pid", "pid").call = "wait"
    BY DEF Wait
  <2>1. Arg(1).call \in {"prompt", "pwd", "exit", "chdir", "write", "fork", "wait"}
    BY <1>1, <1>2, <2>0, ShellCalls
  <2>2. Lines(s) \/ Waiting(s)
    BY <1>1, <1>2, ShellCalls
  <2>. HIDE DEF s
  <2>3. IsList(s) /\ s # <<>>
    BY <1>1, <1>2, <2>2 DEF Lines, Waiting, s
  <2>4. /\ Len(s) \in DOMAIN s /\ Last(s) = s[Len(s)] /\ Len(s) \in Nat /\ DOMAIN s = 1 .. Len(s)
        /\ DOMAIN Tail(s) = 1 .. Len(s) - 1
        /\ \A i \in DOMAIN Tail(s) : Tail(s)[i] = s[i + 1]
    BY <2>3, LastCall, SeqFacts
  <2>5. MainCall(Last(s))
    <3>1. CASE Lines(s)
      BY <2>4, <3>1 DEF Lines
    <3>2. CASE Waiting(s) /\ Len(s) = 1
      BY <2>4, <3>2 DEF Waiting, MainCall
    <3>3. CASE Waiting(s) /\ Len(s) # 1
      <4>1. Len(s) - 1 \in DOMAIN Tail(s) /\ (Len(s) - 1) + 1 = Len(s)
        BY <2>4, <3>3
      <4>2. Tail(s)[Len(s) - 1] = Last(s)
        BY <2>4, <4>1
      <4>3. MainCall(Tail(s)[Len(s) - 1])
        BY <3>3, <4>1 DEF Waiting, Lines
      <4>. QED  BY <4>2, <4>3
    <3>. QED  BY <2>2, <3>1, <3>2, <3>3
  <2>6. Last(s).call # "forever"
    BY <2>0, <2>5 DEF MainCall
  <2>. QED  BY <1>1, <1>2, <2>1, <2>6 DEF s
<1>3. CASE p # 1
  <2>. DEFINE s == procs[p].calls
  <2>1. HasRight(s) /\ Arg(p).call \in PlainNames \union {"fork"}
    BY <1>1, <1>3, OtherCalls
  <2>. HIDE DEF s
  <2>2. Len(s) \in DOMAIN s /\ Last(s) = s[Len(s)]
    BY <1>1, <2>1, RightIsSeq, LastCall DEF s
  <2>3. Plain(Last(s)) \/ Last(s).call = "fork"
    BY <2>1, <2>2, RightNested
  <2>. QED  BY <1>1, <2>1, <2>3 DEF Plain, PlainNames, s
<1>. QED  BY <1>2, <1>3

LEMMA ShellStep ==
  ASSUME Inv(procs), Call(1), WaitsRight(waits)
  PROVE  Inv(procs') /\ NoneLeft(procs, procs') /\ WaitsRight(waits')
<1>1. procs[1].state = "running" /\ procs[1].calls # <<>>
  BY Callers
<1>2. /\ DOMAIN procs[1] = Fields /\ 1 \in Pids
      /\ Arg(1).call \in {"prompt", "pwd", "exit", "chdir", "write", "fork", "wait"}
      /\ Arg(1).call \in {"prompt", "pwd", "exit", "chdir"} => Left(procs, {}) /\ Lines(Rest(1))
  <2>1. Wait("pid", "pid").call = "wait"
    BY DEF Wait
  <2>2. Arg(1).call # "fork" => ~InForeground(Arg(1))
    BY DEF InForeground
  <2>. QED  BY <1>1, <2>1, <2>2, ShellCalls DEF Pids
<1>3. CASE DoFork(1)
  <2>1. UNCHANGED waits
    BY <1>3 DEF DoFork
  <2>. QED  BY <1>3, <2>1, ShellForks
<1>4. CASE DoWait(1)
  BY <1>4, ShellWaits
<1>5. CASE DoWrite(1)
  <2>1. UNCHANGED waits
    BY <1>5 DEF DoWrite
  <2>. QED  BY <1>5, <2>1, ShellWrites
<1>6. CASE DoExit(1)
  <2>1. UNCHANGED waits /\ End(1, Arg(1).status) /\ Arg(1).call = "exit"
    BY <1>6 DEF DoExit, At, Arg
  <2>. QED  BY <1>1, <1>2, <2>1, Ending
<1>7. CASE DoPrompt(1)
  <2>1. UNCHANGED waits /\ Continue(1, Rest(1)) /\ Arg(1).call = "prompt"
    BY <1>7 DEF DoPrompt, At, Arg
  <2>. QED  BY <1>1, <1>2, <2>1, ShellContinues
<1>8. CASE DoPwd(1)
  <2>1. UNCHANGED waits /\ Arg(1).call = "pwd"
        /\ Continue(1, <<Write("stdout", <<procs[1].cwd, 1>>)>> \o Rest(1))
    BY <1>8 DEF DoPwd, At, Arg
  <2>2. Lines(<<Write("stdout", <<procs[1].cwd, 1>>)>>)
    BY SimpleOne, SimpleLines
  <2>3. Lines(<<Write("stdout", <<procs[1].cwd, 1>>)>> \o Rest(1))
    BY <1>2, <2>1, <2>2, LinesConcat
  <2>. QED  BY <1>1, <1>2, <2>1, <2>3, ShellContinues
<1>9. CASE DoChdir(1)
  <2>1. UNCHANGED waits /\ Arg(1).call = "chdir"
        /\ Becomes(1, Moved(procs[1], Rest(1), Arg(1).dir))
    BY <1>9 DEF DoChdir, At, Arg, Moved
  <2>2. /\ Alike(Moved(procs[1], Rest(1), Arg(1).dir), procs[1], Rest(1))
        /\ Moved(procs[1], Rest(1), Arg(1).dir).fds = procs[1].fds
        /\ Moved(procs[1], Rest(1), Arg(1).dir).env = procs[1].env
    BY <1>2, Records
  <2>. QED  BY <1>1, <1>2, <2>1, <2>2, ShellBecomes
<1>10. ASSUME \/ DoExec(1) \/ DoUndefined(1) \/ DoSleep(1) \/ DoPipe(1) \/ DoClose(1)
              \/ DoDup2(1) \/ DoOpen(1) \/ DoRead(1) \/ DoFifo(1) \/ DoForever(1)
              \/ DoNoRoom(1)
       PROVE  FALSE
  BY <1>10, MainNever
<1>. QED  BY <1>3, <1>4, <1>5, <1>6, <1>7, <1>8, <1>9, <1>10 DEF Call

LEMMA TickKeeps ==
  ASSUME Inv(procs), Tick
  PROVE  /\ DOMAIN procs' = DOMAIN procs /\ IsList(procs')
         /\ \A p \in DOMAIN procs :
              /\ DOMAIN procs'[p] = Fields /\ procs'[p].parent = procs[p].parent
              /\ procs'[p].name = procs[p].name
              /\ procs'[p].state = procs[p].state /\ procs'[p].calls = procs[p].calls
              /\ procs'[p].fds = procs[p].fds /\ procs'[p].env = procs[p].env
<1>. DEFINE m == Min({procs[p].asleep : p \in Running} \ {0})
<1>1. procs' = [p \in Pids |-> IF procs[p].asleep = 0 THEN procs[p]
                               ELSE [procs[p] EXCEPT !.asleep = procs[p].asleep - m]]
  BY DEF Tick
<1>. HIDE DEF m
<1>2. Len(procs) \in Nat /\ DOMAIN procs = 1 .. Len(procs)
      /\ \A p \in DOMAIN procs : DOMAIN procs[p] = Fields
  BY InvFacts
<1>3. DOMAIN procs' = DOMAIN procs /\ procs' = [p \in 1 .. Len(procs) |-> procs'[p]]
  BY <1>1, <1>2 DEF Pids
<1>4. IsList(procs')
  BY <1>2, <1>3, FunctionIsSeq
<1>5. \A p \in DOMAIN procs :
         /\ DOMAIN procs'[p] = Fields /\ procs'[p].parent = procs[p].parent
         /\ procs'[p].name = procs[p].name
         /\ procs'[p].state = procs[p].state /\ procs'[p].calls = procs[p].calls
         /\ procs'[p].fds = procs[p].fds /\ procs'[p].env = procs[p].env
  BY <1>1, <1>2 DEF Pids, Fields
<1>. QED  BY <1>3, <1>4, <1>5

LEMMA TickStep ==
  ASSUME Inv(procs), Tick
  PROVE  Inv(procs') /\ NoneLeft(procs, procs') /\ UNCHANGED waits
<1>1. UNCHANGED waits
  BY DEF Tick
<1>2. Inv(procs') /\ StaysRunning(procs, procs')
  BY TickKeeps, SameStep
<1>. QED  BY <1>1, <1>2, StayingLeavesNone
---------------------------------------------------------------------------
(* The types: what the files hold, and what the descriptors refer to       *)

FilesRight(fs) ==
  /\ IsList(fs) /\ 1 .. 5 \subseteq DOMAIN fs
  /\ \A f \in DOMAIN fs : IsList(fs[f]) /\ (f \in Endless \/ Len(fs[f]) <= PipeSize)

\* A file that becomes s.
LEMMA FileStep ==
  ASSUME NEW fs, FilesRight(fs), NEW f, NEW s,
         f \in DOMAIN fs => IsList(s) /\ (f \in Endless \/ Len(s) <= PipeSize)
  PROVE  FilesRight([fs EXCEPT ![f] = s]) /\ DOMAIN [fs EXCEPT ![f] = s] = DOMAIN fs
<1>1. IsList([fs EXCEPT ![f] = s]) /\ DOMAIN [fs EXCEPT ![f] = s] = DOMAIN fs
  BY ExceptIsSeq DEF FilesRight
<1>2. \A g \in DOMAIN fs : [fs EXCEPT ![f] = s][g] = IF g = f THEN s ELSE fs[g]
  OBVIOUS
<1>. QED  BY <1>1, <1>2 DEF FilesRight

\* Whatever a process calls, and whatever it writes or reads.
LEMMA FilesStep ==
  ASSUME FilesRight(files), NEW p, Call(p)
  PROVE  FilesRight(files') /\ DOMAIN files \subseteq DOMAIN files'
<1>. PipeSize \in Nat \ {0}
  BY PipeSizeAssumption
<1>1. CASE UNCHANGED files
  BY <1>1
<1>2. CASE DoPipe(p)
  <2>1. files' = Append(files, <<>>)
    BY <1>2 DEF DoPipe
  <2>2. IsList(files) /\ Len(files) \in Nat /\ DOMAIN files = 1 .. Len(files)
    BY SeqFacts DEF FilesRight
  <2>3. /\ IsList(files') /\ DOMAIN files' = 1 .. Len(files) + 1
        /\ \A f \in DOMAIN files : files'[f] = files[f]
        /\ files'[Len(files) + 1] = <<>>
    BY <2>1, <2>2, AppendFacts
  <2>4. DOMAIN files' = DOMAIN files \union {Len(files) + 1}
    BY <2>2, <2>3
  <2>5. IsList(<<>>) /\ Len(<<>>) <= PipeSize
    <3>1. <<>> \in Seq({})
      OBVIOUS
    <3>. QED  BY <3>1 DEF IsList
  <2>. QED  BY <2>3, <2>4, <2>5 DEF FilesRight
<1>3. CASE DoOpen(p)
  <2>1. PICK f, s : files' = [files EXCEPT ![f] = s] /\ s \in {<<>>, files[f]}
    BY <1>3 DEF DoOpen
  <2>2. IsList(<<>>) /\ Len(<<>>) <= PipeSize
    <3>1. <<>> \in Seq({})
      OBVIOUS
    <3>. QED  BY <3>1 DEF IsList
  <2>3. f \in DOMAIN files => IsList(s) /\ (f \in Endless \/ Len(s) <= PipeSize)
    BY <2>1, <2>2 DEF FilesRight
  <2>. QED  BY <2>1, <2>3, FileStep
<1>4. CASE DoWrite(p)
  <2>1. PICK f, item : \/ UNCHANGED files
                       \/ /\ f \in Endless \/ Len(files[f]) < PipeSize
                          /\ files' = [files EXCEPT ![f] = Append(files[f], item)]
    BY <1>4 DEF DoWrite
  <2>. DEFINE s == Append(files[f], item)
  <2>2. ASSUME f \in DOMAIN files, f \in Endless \/ Len(files[f]) < PipeSize
        PROVE  IsList(s) /\ (f \in Endless \/ Len(s) <= PipeSize)
    <3>1. IsList(files[f]) /\ Len(files[f]) \in Nat
      BY <2>2, SeqFacts DEF FilesRight
    <3>2. IsList(s) /\ Len(s) = Len(files[f]) + 1
      BY <3>1, AppendFacts
    <3>. QED  BY <2>2, <3>1, <3>2
  <2>. HIDE DEF s
  <2>3. CASE UNCHANGED files
    BY <1>1, <2>3
  <2>4. CASE (f \in Endless \/ Len(files[f]) < PipeSize) /\ files' = [files EXCEPT ![f] = s]
    BY <2>2, <2>4, FileStep
  <2>. QED  BY <2>1, <2>3, <2>4 DEF s
<1>5. CASE DoRead(p)
  <2>1. PICK f : \/ UNCHANGED files
                 \/ files[f] # <<>> /\ files' = [files EXCEPT ![f] = Tail(files[f])]
    BY <1>5 DEF DoRead
  <2>. DEFINE s == Tail(files[f])
  <2>2. ASSUME f \in DOMAIN files, files[f] # <<>>
        PROVE  IsList(s) /\ (f \in Endless \/ Len(s) <= PipeSize)
    <3>1. IsList(files[f]) /\ Len(files[f]) \in Nat /\ (f \in Endless \/ Len(files[f]) <= PipeSize)
      BY <2>2, SeqFacts DEF FilesRight
    <3>2. IsList(s) /\ Len(s) = Len(files[f]) - 1
      BY <2>2, <3>1, SeqFacts
    <3>. QED  BY <3>1, <3>2
  <2>. HIDE DEF s
  <2>3. CASE UNCHANGED files
    BY <1>1, <2>3
  <2>4. CASE files[f] # <<>> /\ files' = [files EXCEPT ![f] = s]
    BY <2>2, <2>4, FileStep
  <2>. QED  BY <2>1, <2>3, <2>4 DEF s
<1>6. CASE \/ DoFork(p) \/ DoExec(p) \/ DoExit(p) \/ DoWait(p) \/ DoChdir(p) \/ DoPrompt(p)
           \/ DoPwd(p) \/ DoUndefined(p) \/ DoSleep(p) \/ DoClose(p) \/ DoDup2(p) \/ DoFifo(p)
           \/ DoForever(p) \/ DoNoRoom(p)
  <2>1. DoFifo(p) => UNCHANGED files
    BY Zenon DEF DoFifo
  <2>2. UNCHANGED files
    BY <1>6, <2>1 DEF DoFork, DoExec, DoExit, DoWait, DoChdir, DoPrompt, DoPwd, DoUndefined,
                DoSleep, DoClose, DoDup2, DoForever, DoNoRoom
  <2>. QED  BY <1>1, <2>2
<1>. QED  BY <1>2, <1>3, <1>4, <1>5, <1>6 DEF Call

Named(env, v, n) == v \in DOMAIN env /\ env[v] = n

\* The descriptors and their names, in each of the shapes.
Fits(fds, env, k) ==
  /\ Named(env, "stdin", 0) /\ Named(env, "stdout", 1)
  /\ k = "std"  => DOMAIN fds = {0, 1}
  /\ k = "file" => DOMAIN fds = {0, 1, 2} /\ Named(env, "fd", 2)
  /\ k = "pipe" => /\ DOMAIN fds = {0, 1, 2, 3}
                   /\ Named(env, "pipefds[0]", 2) /\ Named(env, "pipefds[1]", 3)
  /\ k = "in"   => DOMAIN fds = {0, 1, 2} /\ Named(env, "pipefds[0]", 2)
  /\ k = "out"  => DOMAIN fds = {0, 1, 3} /\ Named(env, "pipefds[1]", 3)

\* Every descriptor refers to one of the files fs.
EndRight(e, fs)   == e.file \in fs /\ e.mode \in {"r", "w"}
EndsRight(fds, fs) == \A d \in DOMAIN fds : EndRight(fds[d], fs)

LEMMA TwoDescriptors == Cardinality({0, 1}) = 2
<1>1. IsFiniteSet({0}) /\ Cardinality({0}) = 1
  BY FS_Singleton
<1>2. Cardinality({0} \union {1}) = 2
  BY <1>1, FS_AddElement
<1>3. {0} \union {1} = {0, 1}
  OBVIOUS
<1>. QED  BY <1>2, <1>3

LEMMA LowestDescriptors ==
  ASSUME NEW fds
  PROVE  /\ DOMAIN fds = {0, 1} => Lowest(fds) = 2
         /\ DOMAIN fds = {0, 1, 2} => Lowest(fds) = 3
<1>1. Cardinality({0, 1}) = 2 /\ Cardinality({0, 1, 2}) = 3
  <2>1. IsFiniteSet({0}) /\ Cardinality({0}) = 1
    BY FS_Singleton
  <2>2. IsFiniteSet({0} \union {1}) /\ Cardinality({0} \union {1}) = 2
    BY <2>1, FS_AddElement
  <2>3. {0} \union {1} = {0, 1} /\ {0, 1} \union {2} = {0, 1, 2}
    OBVIOUS
  <2>4. IsFiniteSet({0, 1}) /\ Cardinality({0, 1}) = 2
    BY <2>2, <2>3
  <2>5. Cardinality({0, 1} \union {2}) = 3
    BY <2>4, FS_AddElement
  <2>. QED  BY <2>3, <2>4, <2>5
<1>2. 0 .. 2 \ {0, 1} = {2} /\ 0 .. 3 \ {0, 1, 2} = {3}
  OBVIOUS
<1>3. Min({2}) = 2 /\ Min({3}) = 3
  <2>1. {2} \in SUBSET Nat /\ {2} # {} /\ {3} \in SUBSET Nat /\ {3} # {}
    OBVIOUS
  <2>2. Min({2}) \in {2} /\ Min({3}) \in {3}
    BY <2>1, MinProps
  <2>. QED  BY <2>2
<1>. QED  BY <1>1, <1>2, <1>3 DEF Lowest

LEMMA OpenedFacts ==
  ASSUME NEW fds, NEW end
  PROVE  /\ DOMAIN fds = {0, 1} =>
              /\ DOMAIN Opened(fds, end) = {0, 1, 2} /\ Opened(fds, end)[2] = end
              /\ \A d \in {0, 1} : Opened(fds, end)[d] = fds[d]
         /\ DOMAIN fds = {0, 1, 2} =>
              /\ DOMAIN Opened(fds, end) = {0, 1, 2, 3} /\ Opened(fds, end)[3] = end
              /\ \A d \in {0, 1, 2} : Opened(fds, end)[d] = fds[d]
<1>. DEFINE g(n) == [d \in DOMAIN fds \union {n} |-> IF d = n THEN end ELSE fds[d]]
<1>1. Opened(fds, end) = g(Lowest(fds))
  BY DEF Opened, With
<1>2. CASE DOMAIN fds = {0, 1}
  <2>1. Lowest(fds) = 2 /\ {0, 1} \union {2} = {0, 1, 2}
    BY <1>2, LowestDescriptors
  <2>2. DOMAIN g(2) = {0, 1, 2} /\ g(2)[2] = end /\ \A d \in {0, 1} : g(2)[d] = fds[d]
    BY <1>2, <2>1
  <2>. HIDE DEF g
  <2>. QED  BY <1>1, <1>2, <2>1, <2>2
<1>3. CASE DOMAIN fds = {0, 1, 2}
  <2>1. Lowest(fds) = 3 /\ {0, 1, 2} \union {3} = {0, 1, 2, 3}
    BY <1>3, LowestDescriptors
  <2>2. DOMAIN g(3) = {0, 1, 2, 3} /\ g(3)[3] = end /\ \A d \in {0, 1, 2} : g(3)[d] = fds[d]
    BY <1>3, <2>1
  <2>. HIDE DEF g
  <2>. QED  BY <1>1, <1>3, <2>1, <2>2
<1>. QED  BY <1>2, <1>3

LEMMA OpenFits ==
  ASSUME NEW fds, NEW env, Fits(fds, env, "std"), NEW fs, EndsRight(fds, fs),
         NEW end, EndRight(end, fs)
  PROVE  /\ Fits(Opened(fds, end), With(env, "fd", Lowest(fds)), "file")
         /\ EndsRight(Opened(fds, end), fs)
<1>1. DOMAIN fds = {0, 1} /\ Lowest(fds) = 2
  BY LowestDescriptors DEF Fits
<1>2. /\ DOMAIN Opened(fds, end) = {0, 1, 2} /\ Opened(fds, end)[2] = end
      /\ \A d \in {0, 1} : Opened(fds, end)[d] = fds[d]
  BY <1>1, OpenedFacts
<1>3. EndsRight(Opened(fds, end), fs)
  BY <1>1, <1>2 DEF EndsRight
<1>4. Named(env, "stdin", 0) /\ Named(env, "stdout", 1)
  BY DEF Fits
<1>. DEFINE e == With(env, "fd", 2)
<1>5. Named(e, "stdin", 0) /\ Named(e, "stdout", 1) /\ Named(e, "fd", 2)
  BY <1>4 DEF Named, With
<1>. HIDE DEF e
<1>6. Fits(Opened(fds, end), e, "file")
  BY <1>2, <1>5 DEF Fits
<1>. QED  BY <1>1, <1>3, <1>6 DEF e

LEMMA PipeFits ==
  ASSUME NEW fds, NEW env, Fits(fds, env, "std"), NEW fs, EndsRight(fds, fs),
         NEW rd, EndRight(rd, fs), NEW wr, EndRight(wr, fs),
         NEW r, r = Opened(fds, rd), NEW w, w = Opened(r, wr)
  PROVE  /\ Fits(w, With(With(env, "pipefds[1]", Lowest(r)), "pipefds[0]", Lowest(fds)), "pipe")
         /\ EndsRight(w, fs)
<1>1. DOMAIN fds = {0, 1} /\ Lowest(fds) = 2
  BY LowestDescriptors DEF Fits
<1>2. DOMAIN r = {0, 1, 2} /\ r[2] = rd /\ \A d \in {0, 1} : r[d] = fds[d]
  BY <1>1, OpenedFacts
<1>3. Lowest(r) = 3
  BY <1>2, LowestDescriptors
<1>4. DOMAIN w = {0, 1, 2, 3} /\ w[3] = wr /\ \A d \in {0, 1, 2} : w[d] = r[d]
  BY <1>2, <1>3, OpenedFacts
<1>5. EndsRight(w, fs)
  BY <1>1, <1>2, <1>4 DEF EndsRight
<1>6. Named(env, "stdin", 0) /\ Named(env, "stdout", 1)
  BY DEF Fits
<1>. DEFINE e == With(With(env, "pipefds[1]", 3), "pipefds[0]", 2)
<1>7. /\ Named(e, "stdin", 0) /\ Named(e, "stdout", 1)
      /\ Named(e, "pipefds[0]", 2) /\ Named(e, "pipefds[1]", 3)
  BY <1>6 DEF Named, With
<1>. HIDE DEF e
<1>8. Fits(w, e, "pipe")
  BY <1>4, <1>7 DEF Fits
<1>. QED  BY <1>1, <1>3, <1>5, <1>8 DEF e

LEMMA CloseFits ==
  ASSUME NEW fds, NEW env, NEW k, Fits(fds, env, k), NEW fs, EndsRight(fds, fs),
         NEW c, c.call = "close", NEW t, Leads(c, k, t)
  PROVE  Fits(Without(fds, env[c.var]), env, t) /\ EndsRight(Without(fds, env[c.var]), fs)
<1>1. \A v : DOMAIN Without(fds, v) = DOMAIN fds \ {v} /\ EndsRight(Without(fds, v), fs)
  BY DEF Without, EndsRight
<1>2. /\ \A v, w, x : Open(v, w, x).call # "close"
      /\ \A v, w : Dup2(v, w).call # "close" /\ Pipe(v, w).call # "close"
      /\ \A v : Close(v).var = v
  BY DEF Open, Dup2, Pipe, Close
<1>3. \/ c.var = "fd" /\ k = "file" /\ t = "std"
      \/ c.var = "pipefds[1]" /\ k = "pipe" /\ t = "in"
      \/ c.var = "pipefds[0]" /\ k = "in" /\ t = "std"
      \/ c.var = "pipefds[0]" /\ k = "pipe" /\ t = "out"
      \/ c.var = "pipefds[1]" /\ k = "out" /\ t = "std"
  BY <1>2 DEF Leads, PlainNames, Touching
<1>4. Fits(Without(fds, env[c.var]), env, t)
  BY <1>1, <1>3 DEF Fits, Named
<1>. QED  BY <1>1, <1>4

LEMMA Dup2Fits ==
  ASSUME NEW fds, NEW env, NEW k, Fits(fds, env, k), NEW fs, EndsRight(fds, fs),
         NEW c, c.call = "dup2", NEW t, Leads(c, k, t)
  PROVE  /\ Fits(With(fds, env[c.to], fds[env[c.var]]), env, t)
         /\ EndsRight(With(fds, env[c.to], fds[env[c.var]]), fs)
<1>1. /\ \A v, w, x : Open(v, w, x).call # "dup2"
      /\ \A v, w : Pipe(v, w).call # "dup2"
      /\ \A v, w : Dup2(v, w).var = v /\ Dup2(v, w).to = w
      /\ \A v : Close(v).call # "dup2"
  BY DEF Open, Dup2, Pipe, Close
<1>2. /\ k = t /\ c.to \in {"stdin", "stdout"}
      /\ \/ c.var = "fd" /\ k = "file"
         \/ c.var = "pipefds[0]" /\ k = "in"
         \/ c.var = "pipefds[1]" /\ k = "out"
  BY <1>1 DEF Leads, PlainNames, Touching
<1>3. env[c.to] \in DOMAIN fds /\ env[c.var] \in DOMAIN fds
  BY <1>2 DEF Fits, Named
<1>. DEFINE e == fds[env[c.var]]
            g == With(fds, env[c.to], e)
<1>4. EndRight(e, fs)
  BY <1>3 DEF EndsRight
<1>. HIDE DEF e
<1>5. DOMAIN g = DOMAIN fds /\ \A d \in DOMAIN fds : g[d] = e \/ g[d] = fds[d]
  BY <1>3 DEF With
<1>. HIDE DEF g
<1>6. EndsRight(g, fs)
  BY <1>4, <1>5 DEF EndsRight
<1>7. Fits(g, env, t)
  BY <1>2, <1>5 DEF Fits
<1>. QED  BY <1>6, <1>7 DEF g, e

LEMMA ForkFits ==
  ASSUME NEW fds, NEW env, NEW k, Fits(fds, env, k), NEW v \in {"right", "pid", "background"},
         NEW n
  PROVE  Fits(fds, With(env, v, n), k)
<1>1. \A w, m : Named(env, w, m) /\ w # v => Named(With(env, v, n), w, m)
  BY DEF Named, With
<1>. QED  BY <1>1 DEF Fits

\* The shape of the descriptors of a process that runs.
Shaped(r, p, k) ==
  /\ k \in Shapes /\ Fits(r.fds, r.env, k)
  /\ p = 1 => k = "std"
  /\ p # 1 => Keeps(r.calls, k)

ProcRight(r, p, fs) ==
  /\ r.state \in {"running", "zombie", "reaped"} /\ r.parent \in 0 .. p - 1
  /\ EndsRight(r.fds, fs)
  /\ r.state = "running" => \E k : Shaped(r, p, k)
  /\ r.state # "running" => DOMAIN r.fds = {}

ProcsRight(ps, fs) == \A p \in DOMAIN ps : ProcRight(ps[p], p, fs)

LEMMA RightStays ==
  ASSUME NEW r, NEW p, NEW fs, ProcRight(r, p, fs), NEW gs, fs \subseteq gs
  PROVE  ProcRight(r, p, gs)
<1>1. EndsRight(r.fds, gs)
  BY DEF ProcRight, EndsRight, EndRight
<1>. QED  BY <1>1 DEF ProcRight

LEMMA RightBecomes ==
  ASSUME NEW ps, NEW fs, ProcsRight(ps, fs), NEW gs, fs \subseteq gs,
         NEW p, NEW r, ProcRight(r, p, gs)
  PROVE  ProcsRight([ps EXCEPT ![p] = r], gs)
<1>1. \A q \in DOMAIN ps : ProcRight(ps[q], q, gs)
  BY RightStays DEF ProcsRight
<1>. HIDE DEF ProcRight
<1>. QED  BY <1>1 DEF ProcsRight

LEMMA RightAppend ==
  ASSUME NEW ps, IsList(ps), NEW fs, ProcsRight(ps, fs), NEW r, ProcRight(r, Len(ps) + 1, fs)
  PROVE  ProcsRight(Append(ps, r), fs)
<1>1. Len(ps) \in Nat /\ DOMAIN ps = 1 .. Len(ps)
  BY SeqFacts
<1>2. /\ DOMAIN Append(ps, r) = 1 .. Len(ps) + 1
      /\ \A i \in 1 .. Len(ps) : Append(ps, r)[i] = ps[i]
      /\ Append(ps, r)[Len(ps) + 1] = r
  BY AppendFacts
<1>3. DOMAIN Append(ps, r) = DOMAIN ps \union {Len(ps) + 1}
  BY <1>1, <1>2
<1>. HIDE DEF ProcRight
<1>. QED  BY <1>1, <1>2, <1>3 DEF ProcsRight

LEMMA RightEnd ==
  ASSUME NEW ps, Inv(ps), NEW fs, ProcsRight(ps, fs), NEW p \in DOMAIN ps, NEW status
  PROVE  ProcsRight(EndOf(ps, p, status), fs)
<1>1. Len(ps) \in Nat /\ DOMAIN ps = 1 .. Len(ps) /\ \A q \in DOMAIN ps : DOMAIN ps[q] = Fields
  BY InvFacts
<1>2. DOMAIN EndOf(ps, p, status) = DOMAIN ps
  BY DEF EndOf
<1>. SUFFICES ASSUME NEW q \in DOMAIN ps, NEW e, e = EndOf(ps, p, status)[q]
              PROVE  ProcRight(e, q, fs)
  BY <1>2 DEF ProcsRight
<1>3. /\ e.parent = IF ps[q].parent = p THEN 0 ELSE ps[q].parent
      /\ q # p => e.calls = ps[q].calls /\ e.fds = ps[q].fds /\ e.env = ps[q].env
      /\ q # p => e.state = ps[q].state \/ (ps[q].state = "zombie" /\ e.state = "reaped")
      /\ q = p => e.state \in {"zombie", "reaped"} /\ e.fds = <<>>
  <2>1. DOMAIN ps[q] = Fields
    BY <1>1
  <2>. QED  BY <2>1, EndFields
<1>4. ProcRight(ps[q], q, fs) /\ q \in Nat \ {0}
  BY <1>1 DEF ProcsRight
<1>5. e.parent \in 0 .. q - 1
  BY <1>3, <1>4 DEF ProcRight
<1>6. CASE q = p
  <2>1. DOMAIN e.fds = {}
    BY <1>3, <1>6
  <2>. QED  BY <1>3, <1>5, <1>6, <2>1 DEF ProcRight, EndsRight
<1>7. CASE q # p
  <2>1. \A k : Shaped(ps[q], q, k) => Shaped(e, q, k)
    BY <1>3, <1>7 DEF Shaped
  <2>2. e.state \in {"running", "zombie", "reaped"}
        /\ (e.state = "running" <=> ps[q].state = "running")
    BY <1>3, <1>4, <1>7 DEF ProcRight
  <2>. QED  BY <1>3, <1>4, <1>5, <1>7, <2>1, <2>2 DEF ProcRight
<1>. QED  BY <1>6, <1>7

LEMMA RightReaps ==
  ASSUME NEW ps, Inv(ps), NEW fs, ProcsRight(ps, fs), NEW q, ps[q].state = "zombie", q # 1,
         NEW qs, Reaps(ps, qs, q)
  PROVE  ProcsRight(qs, fs)
<1>1. 1 \in DOMAIN ps /\ \A p \in DOMAIN ps : DOMAIN ps[p] = Fields
  BY InvFacts
<1>. SUFFICES ASSUME NEW p \in DOMAIN ps  PROVE ProcRight(qs[p], p, fs)
  BY DEF ProcsRight, Reaps
<1>2. DOMAIN ps[p] = Fields /\ ProcRight(ps[p], p, fs)
  BY <1>1 DEF ProcsRight
<1>3. CASE p = 1
  <2>. DEFINE e == [ps[1] EXCEPT !.calls = Tail(ps[1].calls)]
  <2>1. qs[p] = e
    BY <1>3 DEF Reaps
  <2>2. e.state = ps[p].state /\ e.parent = ps[p].parent /\ e.fds = ps[p].fds /\ e.env = ps[p].env
    BY <1>2, <1>3 DEF Fields
  <2>. HIDE DEF e
  <2>3. \A k : Shaped(ps[p], p, k) => Shaped(e, p, k)
    BY <1>3, <2>2 DEF Shaped
  <2>. QED  BY <1>2, <2>1, <2>2, <2>3 DEF ProcRight
<1>4. CASE p = q
  <2>. DEFINE e == [ps[p] EXCEPT !.state = "reaped"]
  <2>1. qs[p] = e
    BY <1>4 DEF Reaps
  <2>2. e.state = "reaped" /\ e.parent = ps[p].parent /\ e.fds = ps[p].fds
    BY <1>2 DEF Fields
  <2>. HIDE DEF e
  <2>. QED  BY <1>2, <1>4, <2>1, <2>2 DEF ProcRight
<1>5. CASE p # 1 /\ p # q
  BY <1>2, <1>5 DEF Reaps
<1>. QED  BY <1>3, <1>4, <1>5

LEMMA RecordFiles ==
  ASSUME NEW s, DOMAIN s = Fields, NEW c
  PROVE  /\ \A x : WithFiles(s, c, x).fds = x /\ WithFiles(s, c, x).env = s.env
         /\ \A x, y : Piped(s, c, x, y).fds = x /\ Piped(s, c, x, y).env = y
         /\ \A x, y : Opening(s, c, x, y).env = x /\ Opening(s, c, x, y).fds = y
         /\ \A x : Sleeper(s, c, x).fds = s.fds /\ Sleeper(s, c, x).env = s.env
         /\ \A x : Buffered(s, c, x).fds = s.fds /\ Buffered(s, c, x).env = s.env
BY DEF Fields, WithFiles, Piped, Opening, Sleeper, Buffered

Types == FilesRight(files) /\ ProcsRight(procs, DOMAIN files)

\* A process other than the shell goes on, with descriptors of the shape k.
LEMMA ChildGoes ==
  ASSUME Types, NEW p \in Pids, p # 1, procs[p].state = "running", NEW calls, NEW k, NEW r,
         Keeps(calls, k), Alike(r, procs[p], calls), Fits(r.fds, r.env, k),
         EndsRight(r.fds, DOMAIN files'), DOMAIN files \subseteq DOMAIN files', Becomes(p, r)
  PROVE  ProcsRight(procs', DOMAIN files')
<1>1. ProcRight(procs[p], p, DOMAIN files)
  BY DEF Types, ProcsRight, Pids
<1>2. r.state = "running" /\ r.parent = procs[p].parent /\ r.calls = calls
  BY DEF Alike
<1>3. k \in Shapes
  BY KeepsFacts
<1>4. Shaped(r, p, k)
  BY <1>2, <1>3 DEF Shaped
<1>5. ProcRight(r, p, DOMAIN files')
  BY <1>1, <1>2, <1>4 DEF ProcRight
<1>6. procs' = [procs EXCEPT ![p] = r]
  BY DEF Becomes
<1>. HIDE DEF ProcRight
<1>. QED  BY <1>5, <1>6, RightBecomes DEF Types

LEMMA ChildContinues ==
  ASSUME Inv(procs), Types, NEW p \in Pids, p # 1, procs[p].state = "running", NEW calls, NEW k,
         Keeps(calls, k), Fits(procs[p].fds, procs[p].env, k),
         DOMAIN files \subseteq DOMAIN files', Continue(p, calls)
  PROVE  ProcsRight(procs', DOMAIN files')
<1>. DEFINE r == Going(procs[p], calls)
<1>1. DOMAIN procs[p] = Fields
  BY InvFacts DEF Pids
<1>2. Alike(r, procs[p], calls) /\ r.fds = procs[p].fds /\ r.env = procs[p].env
  BY <1>1, Records
<1>3. Becomes(p, r)
  BY DEF Becomes, Continue, Going
<1>. HIDE DEF r
<1>4. EndsRight(r.fds, DOMAIN files')
  <2>1. EndsRight(procs[p].fds, DOMAIN files)
    BY DEF Types, ProcsRight, ProcRight, Pids
  <2>. QED  BY <1>2, <2>1 DEF EndsRight, EndRight
<1>. QED  BY <1>2, <1>3, <1>4, ChildGoes

\* Where a process other than the shell is in its calls.
LEMMA ChildCalls ==
  ASSUME Inv(procs), Types, NEW p \in Pids, p # 1, procs[p].state = "running",
         procs[p].calls # <<>>
  PROVE  /\ DOMAIN procs[p] = Fields /\ Arg(p).call \in PlainNames \union {"fork"}
         /\ EndsRight(procs[p].fds, DOMAIN files)
         /\ \E k, t : /\ Fits(procs[p].fds, procs[p].env, k) /\ Keeps(procs[p].calls, k)
                      /\ Leads(Arg(p), k, t) /\ Keeps(Rest(p), t)
                      /\ Arg(p).call = "fork" => Keeps(Arg(p).calls, k)
<1>1. DOMAIN procs[p] = Fields /\ Arg(p).call \in PlainNames \union {"fork"}
  BY OtherCalls
<1>2. EndsRight(procs[p].fds, DOMAIN files) /\ \E k : Shaped(procs[p], p, k)
  BY DEF Types, ProcsRight, ProcRight, Pids
<1>3. PICK k : Fits(procs[p].fds, procs[p].env, k) /\ Keeps(procs[p].calls, k)
  BY <1>2 DEF Shaped
<1>4. /\ \E t : Leads(Arg(p), k, t) /\ Keeps(Rest(p), t)
      /\ Arg(p).call = "fork" => Keeps(Arg(p).calls, k)
  BY <1>3, KeepsFacts DEF Arg, Rest
<1>. QED  BY <1>1, <1>2, <1>3, <1>4

\* The shape stays with calls that do not touch a descriptor.
LEMMA LeadsNowhere ==
  ASSUME NEW c, NEW k, NEW t, Leads(c, k, t)
  PROVE  /\ c.call \notin {"open", "dup2", "close", "pipe"} => k = t
         /\ c.call = "exec" => k = "std"
         /\ c.call = "pipe" => /\ k = "std" /\ t = "pipe" /\ c.rd = "pipefds[0]"
                               /\ c.wr = "pipefds[1]"
         /\ c.call = "open" => /\ k = "std" /\ t = "file" /\ c.var = "fd"
                               /\ c.file \in 1 .. 5 /\ c.mode \in {"r", "w"}
         /\ c.call = "fork" => c.var = "right"
BY DEF Leads, PlainNames, Touching, Open, Dup2, Close, Pipe, InFile, OutFile

\* A process that has forked, and its child.
LEMMA ForkTypes ==
  ASSUME Inv(procs), Types, NEW p \in Pids, DoFork(p), NEW k, NEW l,
         Shaped(Parent(p), p, k), Shaped(TheChild(p), Len(procs) + 1, l)
  PROVE  ProcsRight(procs', DOMAIN files')
<1>. DEFINE qs == [procs EXCEPT ![p] = Parent(p)]
<1>1. /\ procs' = Append(qs, TheChild(p)) /\ UNCHANGED files
      /\ procs[p].state = "running"
  BY DEF DoFork, At, Parent, TheChild
<1>2. IsList(procs) /\ Len(procs) \in Nat /\ DOMAIN procs = 1 .. Len(procs) /\ p \in 1 .. Len(procs)
  BY InvFacts DEF Inv, Pids
<1>3. IsList(qs) /\ Len(qs) = Len(procs)
  BY <1>2, ExceptIsSeq
<1>4. ProcRight(procs[p], p, DOMAIN files) /\ ProcsRight(procs, DOMAIN files)
  BY DEF Types, ProcsRight, Pids
<1>5. ProcRight(Parent(p), p, DOMAIN files)
  BY <1>1, <1>4, ForkRecords DEF ProcRight
<1>6. ProcRight(TheChild(p), Len(procs) + 1, DOMAIN files)
  <2>1. p \in 0 .. (Len(procs) + 1) - 1
    BY <1>2
  <2>. QED  BY <1>1, <1>4, <2>1, ForkRecords DEF ProcRight
<1>. HIDE DEF ProcRight
<1>7. ProcsRight(qs, DOMAIN files)
  BY <1>4, <1>5, RightBecomes
<1>. HIDE DEF qs
<1>8. ProcsRight(Append(qs, TheChild(p)), DOMAIN files)
  BY <1>3, <1>6, <1>7, RightAppend
<1>. QED  BY <1>1, <1>8

LEMMA EndTypes ==
  ASSUME Inv(procs), Types, NEW p \in Pids, NEW status, End(p, status),
         DOMAIN files \subseteq DOMAIN files'
  PROVE  ProcsRight(procs', DOMAIN files')
<1>1. procs' = EndOf(procs, p, status)
  BY Zenon DEF End, EndOf, Pids
<1>2. ProcsRight(EndOf(procs, p, status), DOMAIN files)
  BY RightEnd DEF Types, Pids
<1>. QED  BY <1>1, <1>2, RightStays DEF ProcsRight

LEMMA ChildReads ==
  ASSUME Inv(procs), Types, NEW p \in Pids, p # 1, DoRead(p), DOMAIN files \subseteq DOMAIN files'
  PROVE  ProcsRight(procs', DOMAIN files')
<1>1. procs[p].state = "running" /\ procs[p].calls # <<>>
      /\ Arg(p).call \in {"read", "copy", "copyall", "upperall"}
  BY DEF DoRead, At, Arg
<1>2. /\ DOMAIN procs[p] = Fields /\ Arg(p).call \in PlainNames \union {"fork"}
      /\ EndsRight(procs[p].fds, DOMAIN files)
      /\ \E k, t : /\ Fits(procs[p].fds, procs[p].env, k) /\ Keeps(procs[p].calls, k)
                   /\ Leads(Arg(p), k, t) /\ Keeps(Rest(p), t)
  BY <1>1, ChildCalls
<1>3. Arg(p).call \in {"copy", "copyall"}
  BY <1>1, <1>2 DEF PlainNames
<1>4. PICK k : /\ Fits(procs[p].fds, procs[p].env, k) /\ Keeps(procs[p].calls, k)
               /\ Keeps(Rest(p), k) /\ k \in Shapes
  BY <1>2, <1>3, LeadsNowhere, KeepsFacts
<1>5. Keeps(AfterEnd(p), k)
  BY <1>3, <1>4 DEF AfterEnd
<1>6. \A item : Keeps(AfterItem(p, item), k)
  <2>. SUFFICES ASSUME NEW item  PROVE Keeps(AfterItem(p, item), k)
    OBVIOUS
  <2>. DEFINE w == Write(Arg(p).to, item)
  <2>1. Leads(w, k, k) /\ w.call # "fork"
    BY IdleCalls
  <2>. HIDE DEF w, Leads
  <2>2. Keeps(<<w>> \o Rest(p), k) /\ Keeps(<<w>> \o procs[p].calls, k)
    BY <1>4, <2>1, KeepsCons
  <2>3. CASE Arg(p).call = "copy"
    BY <2>2, <2>3 DEF AfterItem, w
  <2>4. CASE Arg(p).call = "copyall"
    BY <2>2, <2>4 DEF AfterItem, w
  <2>. QED  BY <1>3, <2>3, <2>4
<1>. DEFINE item == Head(files[File(p, Arg(p).var)])
            r == Buffered(procs[p], AfterItem(p, item), item)
<1>7. Becomes(p, r) \/ Continue(p, AfterEnd(p))
  BY DEF DoRead, Buffered
<1>8. Alike(r, procs[p], AfterItem(p, item)) /\ r.fds = procs[p].fds /\ r.env = procs[p].env
  <2>. HIDE DEF item
  <2>1. DOMAIN procs[p] = Fields
    BY <1>2
  <2>2. \A calls, x : /\ Alike(Buffered(procs[p], calls, x), procs[p], calls)
                      /\ Buffered(procs[p], calls, x).fds = procs[p].fds
                      /\ Buffered(procs[p], calls, x).env = procs[p].env
    BY <2>1 DEF Alike, Fields, Buffered
  <2>. QED  BY <2>2
<1>9. Keeps(AfterItem(p, item), k)
  BY <1>6
<1>. HIDE DEF item, r
<1>10. CASE Becomes(p, r)
  <2>1. EndsRight(r.fds, DOMAIN files')
    BY <1>2, <1>8 DEF EndsRight, EndRight
  <2>. QED  BY <1>1, <1>4, <1>8, <1>9, <1>10, <2>1, ChildGoes
<1>11. CASE Continue(p, AfterEnd(p))
  BY <1>1, <1>4, <1>5, <1>11, ChildContinues
<1>. QED  BY <1>7, <1>10, <1>11

LEMMA ChildTypes ==
  ASSUME Inv(procs), Types, NEW p \in Pids, p # 1, Call(p)
  PROVE  ProcsRight(procs', DOMAIN files')
<1>1. procs[p].state = "running" /\ procs[p].calls # <<>>
  BY Callers
<1>2. /\ DOMAIN procs[p] = Fields /\ Arg(p).call \in PlainNames \union {"fork"}
      /\ EndsRight(procs[p].fds, DOMAIN files)
      /\ \E k, t : /\ Fits(procs[p].fds, procs[p].env, k) /\ Keeps(procs[p].calls, k)
                   /\ Leads(Arg(p), k, t) /\ Keeps(Rest(p), t)
                   /\ Arg(p).call = "fork" => Keeps(Arg(p).calls, k)
  BY <1>1, ChildCalls
<1>3. PICK k, t : /\ Fits(procs[p].fds, procs[p].env, k) /\ Keeps(procs[p].calls, k)
                  /\ Leads(Arg(p), k, t) /\ Keeps(Rest(p), t)
                  /\ Arg(p).call = "fork" => Keeps(Arg(p).calls, k)
  BY <1>2
<1>4. DOMAIN files \subseteq DOMAIN files'
  BY FilesStep DEF Types
<1>5. EndsRight(procs[p].fds, DOMAIN files')
  BY <1>2, <1>4 DEF EndsRight, EndRight
<1>6. k \in Shapes
  BY <1>3, KeepsFacts
<1>7. CASE DoFork(p)
  <2>1. Arg(p).call = "fork"
    BY <1>7 DEF DoFork, At, Arg
  <2>2. k = t /\ Arg(p).var = "right" /\ Keeps(Arg(p).calls, k)
    BY <1>3, <2>1, LeadsNowhere
  <2>3. Fits(procs[p].fds, With(procs[p].env, Arg(p).var, Len(procs) + 1), k)
    BY <1>3, <2>2, ForkFits
  <2>4. Shaped(Parent(p), p, k)
    BY <1>3, <1>6, <2>2, <2>3, ForkRecords DEF Shaped
  <2>5. Len(procs) + 1 # 1
    <3>1. Len(procs) \in Nat /\ 1 \in 1 .. Len(procs)
      BY InvFacts
    <3>. QED  BY <3>1
  <2>6. Shaped(TheChild(p), Len(procs) + 1, k)
    BY <1>3, <1>6, <2>2, <2>5, ForkRecords DEF Shaped
  <2>. QED  BY <1>7, <2>4, <2>6, ForkTypes
<1>8. CASE DoExec(p)
  <2>1. Arg(p).call = "exec"
    <3>1. Arg(p).call \in {"exec", "execread"}
      BY <1>8 DEF DoExec, At, Arg
    <3>. QED  BY <1>2, <3>1 DEF PlainNames
  <2>2. k = "std" /\ \E cmd : Continue(p, Command(cmd))
    BY <1>3, <1>8, <2>1, LeadsNowhere DEF DoExec
  <2>3. \A cmd : Keeps(Command(cmd), "std")
    BY OrderlyCommand DEF Orderly
  <2>. QED  BY <1>1, <1>3, <1>4, <2>2, <2>3, ChildContinues
<1>9. CASE DoExit(p)
  BY <1>4, <1>9, EndTypes DEF DoExit
<1>10. CASE DoUndefined(p)
  <2>1. Arg(p).call = "undefined"
    BY <1>10 DEF DoUndefined, At, Arg
  <2>2. k = t
    BY <1>3, <2>1, LeadsNowhere
  <2>3. Continue(p, Rest(p)) \/ \E status : End(p, status)
    BY <1>10 DEF DoUndefined
  <2>. QED  BY <1>1, <1>3, <1>4, <2>2, <2>3, ChildContinues, EndTypes
<1>11. CASE DoSleep(p)
  <2>1. Arg(p).call = "sleep"
    BY <1>11 DEF DoSleep, At, Arg
  <2>2. k = t
    BY <1>3, <2>1, LeadsNowhere
  <2>3. PICK x : Becomes(p, Sleeper(procs[p], Rest(p), x))
    BY <1>11, Zenon DEF DoSleep, Sleeper
  <2>. DEFINE r == Sleeper(procs[p], Rest(p), x)
  <2>4. Alike(r, procs[p], Rest(p)) /\ r.fds = procs[p].fds /\ r.env = procs[p].env
    <3>1. DOMAIN procs[p] = Fields
      BY <1>2
    <3>. QED  BY <3>1, Records, RecordFiles
  <2>. HIDE DEF r
  <2>. QED  BY <1>1, <1>3, <1>4, <1>5, <2>2, <2>3, <2>4, ChildGoes DEF r
<1>12. CASE DoPipe(p)
  <2>. DEFINE f == Len(files) + 1
              rd == [file |-> f, mode |-> "r"]
              wr == [file |-> f, mode |-> "w"]
              mid == Opened(procs[p].fds, rd)
              new == Opened(mid, wr)
              env == With(With(procs[p].env, "pipefds[1]", Lowest(mid)), "pipefds[0]",
                          Lowest(procs[p].fds))
              r == Piped(procs[p], Rest(p), new, env)
  <2>1. Arg(p).call = "pipe"
    BY <1>12 DEF DoPipe, At, Arg
  <2>2. k = "std" /\ t = "pipe" /\ Arg(p).rd = "pipefds[0]" /\ Arg(p).wr = "pipefds[1]"
    BY <1>3, <2>1, LeadsNowhere
  <2>3. Becomes(p, r) /\ files' = Append(files, <<>>)
    BY <1>12, <2>2, Zenon DEF DoPipe, Piped
  <2>4. f \in DOMAIN files'
    <3>1. IsList(files) /\ Len(files) \in Nat
      BY SeqFacts DEF Types, FilesRight
    <3>2. DOMAIN Append(files, <<>>) = 1 .. f
      BY <3>1, AppendFacts
    <3>. QED  BY <2>3, <3>1, <3>2
  <2>5. EndRight(rd, DOMAIN files') /\ EndRight(wr, DOMAIN files')
    BY <2>4 DEF EndRight
  <2>6. Alike(r, procs[p], Rest(p)) /\ r.fds = new /\ r.env = env
    <3>1. DOMAIN procs[p] = Fields
      BY <1>2
    <3>2. \A x, y : /\ Alike(Piped(procs[p], Rest(p), x, y), procs[p], Rest(p))
                    /\ Piped(procs[p], Rest(p), x, y).fds = x
                    /\ Piped(procs[p], Rest(p), x, y).env = y
      BY <3>1 DEF Alike, Fields, Piped
    <3>. QED  BY <3>2, Zenon
  <2>. HIDE DEF f, rd, wr, r
  <2>7. Fits(new, env, "pipe") /\ EndsRight(new, DOMAIN files')
    BY <1>3, <1>5, <2>2, <2>5, PipeFits
  <2>. HIDE DEF new, env
  <2>. QED  BY <1>1, <1>3, <1>4, <2>2, <2>3, <2>6, <2>7, ChildGoes
<1>13. CASE DoClose(p)
  <2>. DEFINE new == Without(procs[p].fds, procs[p].env[Arg(p).var])
              r == WithFiles(procs[p], Rest(p), new)
  <2>1. Arg(p).call = "close"
    BY <1>13 DEF DoClose, At, Arg
  <2>2. Becomes(p, r)
    BY <1>13, Zenon DEF DoClose, WithFiles
  <2>3. Alike(r, procs[p], Rest(p)) /\ r.fds = new /\ r.env = procs[p].env
    <3>1. DOMAIN procs[p] = Fields
      BY <1>2
    <3>2. \A x : /\ Alike(WithFiles(procs[p], Rest(p), x), procs[p], Rest(p))
                 /\ WithFiles(procs[p], Rest(p), x).fds = x
                 /\ WithFiles(procs[p], Rest(p), x).env = procs[p].env
      BY <3>1 DEF Alike, Fields, WithFiles
    <3>. QED  BY <3>2, Zenon
  <2>. HIDE DEF r
  <2>4. Fits(new, procs[p].env, t) /\ EndsRight(new, DOMAIN files')
    BY <1>3, <1>5, <2>1, CloseFits
  <2>. HIDE DEF new
  <2>. QED  BY <1>1, <1>3, <1>4, <2>2, <2>3, <2>4, ChildGoes
<1>14. CASE DoDup2(p)
  <2>. DEFINE new == With(procs[p].fds, procs[p].env[Arg(p).to],
                          procs[p].fds[procs[p].env[Arg(p).var]])
              r == WithFiles(procs[p], Rest(p), new)
  <2>1. Arg(p).call = "dup2"
    BY <1>14 DEF DoDup2, At, Arg
  <2>2. Becomes(p, r)
    BY <1>14, Zenon DEF DoDup2, WithFiles
  <2>3. Alike(r, procs[p], Rest(p)) /\ r.fds = new /\ r.env = procs[p].env
    <3>1. DOMAIN procs[p] = Fields
      BY <1>2
    <3>2. \A x : /\ Alike(WithFiles(procs[p], Rest(p), x), procs[p], Rest(p))
                 /\ WithFiles(procs[p], Rest(p), x).fds = x
                 /\ WithFiles(procs[p], Rest(p), x).env = procs[p].env
      BY <3>1 DEF Alike, Fields, WithFiles
    <3>. QED  BY <3>2, Zenon
  <2>. HIDE DEF r
  <2>4. Fits(new, procs[p].env, t) /\ EndsRight(new, DOMAIN files')
    BY <1>3, <1>5, <2>1, Dup2Fits
  <2>. HIDE DEF new
  <2>. QED  BY <1>1, <1>3, <1>4, <2>2, <2>3, <2>4, ChildGoes
<1>15. CASE DoOpen(p)
  <2>. DEFINE end == [file |-> Arg(p).file, mode |-> Arg(p).mode]
              new == Opened(procs[p].fds, end)
              env == With(procs[p].env, "fd", Lowest(procs[p].fds))
              r == Opening(procs[p], Rest(p), env, new)
  <2>1. Arg(p).call = "open"
    BY <1>15 DEF DoOpen, At, Arg
  <2>2. /\ k = "std" /\ t = "file" /\ Arg(p).var = "fd"
        /\ Arg(p).file \in 1 .. 5 /\ Arg(p).mode \in {"r", "w"}
    BY <1>3, <2>1, LeadsNowhere
  <2>3. Becomes(p, r)
    BY <1>15, <2>2, Zenon DEF DoOpen, Opening
  <2>4. EndRight(end, DOMAIN files')
    <3>1. 1 .. 5 \subseteq DOMAIN files
      BY DEF Types, FilesRight
    <3>. QED  BY <1>4, <2>2, <3>1 DEF EndRight
  <2>5. Alike(r, procs[p], Rest(p)) /\ r.fds = new /\ r.env = env
    <3>1. DOMAIN procs[p] = Fields
      BY <1>2
    <3>2. \A x, y : /\ Alike(Opening(procs[p], Rest(p), x, y), procs[p], Rest(p))
                    /\ Opening(procs[p], Rest(p), x, y).fds = y
                    /\ Opening(procs[p], Rest(p), x, y).env = x
      BY <3>1 DEF Alike, Fields, Opening
    <3>. QED  BY <3>2, Zenon
  <2>. HIDE DEF end, r
  <2>6. Fits(new, env, "file") /\ EndsRight(new, DOMAIN files')
    BY <1>3, <1>5, <2>2, <2>4, OpenFits
  <2>. HIDE DEF new, env
  <2>. QED  BY <1>1, <1>3, <1>4, <2>2, <2>3, <2>5, <2>6, ChildGoes
<1>16. CASE DoWrite(p)
  <2>1. Arg(p).call = "write"
    BY <1>16 DEF DoWrite, At, Arg
  <2>2. k = t
    BY <1>3, <2>1, LeadsNowhere
  <2>3. Continue(p, Rest(p)) \/ End(p, SIGPIPE)
    BY <1>16 DEF DoWrite
  <2>. QED  BY <1>1, <1>3, <1>4, <2>2, <2>3, ChildContinues, EndTypes
<1>17. CASE DoRead(p)
  BY <1>4, <1>17, ChildReads
<1>18. ASSUME \/ DoWait(p) \/ DoChdir(p) \/ DoPrompt(p) \/ DoPwd(p) \/ DoFifo(p) \/ DoForever(p)
       PROVE  FALSE
  BY <1>18, ChildNever
<1>19. CASE DoNoRoom(p)
  BY <1>4, <1>19, EndTypes DEF DoNoRoom
<1>. QED  BY <1>7, <1>8, <1>9, <1>10, <1>11, <1>12, <1>13, <1>14, <1>15, <1>16, <1>17, <1>18,
             <1>19 DEF Call

\* The shell waits for a process that there is, and the waits were for such.
Asks(ps)        == ps[1].state = "running" /\ Waiting(ps[1].calls) => ps[1].env["pid"] \in DOMAIN ps
Asked(ws, pids) == \A w \in ws : w \in [asked : pids, got : pids]

\* The forms that a call may have, save waitpid and the open of a FIFO.
LEMMA CallForms ==
  ASSUME NEW p \in Pids, Call(p), ~DoWait(p), ~DoFifo(p)
  PROVE  \/ \E r : Becomes(p, r)
         \/ \E status : End(p, status)
         \/ DoFork(p)
<1>1. CASE DoExec(p)
  BY <1>1 DEF DoExec, Continue, Becomes
<1>2. CASE DoExit(p)
  BY <1>2 DEF DoExit
<1>3. CASE DoChdir(p)
  BY <1>3 DEF DoChdir
<1>4. CASE DoPrompt(p) \/ DoPwd(p)
  BY <1>4 DEF DoPrompt, DoPwd, Continue, Becomes
<1>5. CASE DoUndefined(p)
  BY <1>5 DEF DoUndefined, Continue, Becomes
<1>6. CASE DoSleep(p)
  BY <1>6 DEF DoSleep
<1>7. CASE DoPipe(p)
  BY <1>7, Zenon DEF DoPipe
<1>8. CASE DoClose(p)
  BY <1>8 DEF DoClose
<1>9. CASE DoDup2(p)
  BY <1>9 DEF DoDup2
<1>10. CASE DoOpen(p)
  BY <1>10 DEF DoOpen
<1>11. CASE DoWrite(p)
  BY <1>11 DEF DoWrite, Continue, Becomes
<1>12. CASE DoRead(p)
  BY <1>12 DEF DoRead, Continue, Becomes
<1>13. CASE DoForever(p)
  BY <1>13 DEF DoForever, Continue, Becomes
<1>14. CASE DoNoRoom(p)
  BY <1>14 DEF DoNoRoom
<1>. QED  BY <1>1, <1>2, <1>3, <1>4, <1>5, <1>6, <1>7, <1>8, <1>9, <1>10, <1>11, <1>12, <1>13,
             <1>14 DEF Call

\* Processes are added, never taken away; and no process touches another that runs.
LEMMA OthersStay ==
  ASSUME Inv(procs), NEW p \in Pids, Call(p), ~DoWait(p), ~DoFifo(p)
  PROVE  /\ DOMAIN procs \subseteq DOMAIN procs'
         /\ \A q \in Pids : q # p /\ procs'[q].state = "running" =>
              /\ procs[q].state = "running"
              /\ procs'[q].calls = procs[q].calls /\ procs'[q].env = procs[q].env
<1>1. IsList(procs) /\ Len(procs) \in Nat /\ DOMAIN procs = 1 .. Len(procs)
      /\ \A q \in DOMAIN procs : DOMAIN procs[q] = Fields
  BY InvFacts DEF Inv
<1>2. ASSUME NEW r, Becomes(p, r)  PROVE DOMAIN procs' = DOMAIN procs /\ \A q \in Pids : q # p => procs'[q] = procs[q]
  BY <1>2 DEF Becomes, Pids
<1>3. ASSUME NEW status, End(p, status), NEW q \in Pids
      PROVE  /\ DOMAIN procs' = DOMAIN procs
             /\ q # p /\ procs'[q].state = "running" =>
                  /\ procs[q].state = "running"
                  /\ procs'[q].calls = procs[q].calls /\ procs'[q].env = procs[q].env
  <2>1. procs' = EndOf(procs, p, status)
    BY <1>3, Zenon DEF End, EndOf, Pids
  <2>2. DOMAIN procs' = DOMAIN procs
    <3>1. DOMAIN EndOf(procs, p, status) = DOMAIN procs
      BY DEF EndOf
    <3>. QED  BY <2>1, <3>1
  <2>3. p \in DOMAIN procs /\ q \in DOMAIN procs /\ DOMAIN procs[q] = Fields
    BY <1>1, <1>3 DEF Pids
  <2>. DEFINE e == EndOf(procs, p, status)[q]
  <2>4. /\ q # p => e.calls = procs[q].calls /\ e.fds = procs[q].fds /\ e.env = procs[q].env
        /\ q # p => e.state = procs[q].state \/ (procs[q].state = "zombie" /\ e.state = "reaped")
    BY <2>3, EndFields
  <2>. QED  BY <2>1, <2>2, <2>4
<1>4. CASE DoFork(p)
  <2>. DEFINE qs == [procs EXCEPT ![p] = Parent(p)]
  <2>1. procs' = Append(qs, TheChild(p))
    BY <1>4 DEF DoFork, Parent, TheChild
  <2>2. IsList(qs) /\ Len(qs) = Len(procs) /\ \A q \in Pids : q # p => qs[q] = procs[q]
    BY <1>1, ExceptIsSeq DEF Pids
  <2>. HIDE DEF qs
  <2>3. /\ DOMAIN procs' = 1 .. Len(procs) + 1
        /\ \A q \in 1 .. Len(procs) : procs'[q] = qs[q]
    BY <2>1, <2>2, AppendFacts
  <2>. QED  BY <1>1, <2>2, <2>3 DEF Pids
<1>. QED  BY <1>2, <1>3, <1>4, CallForms

LEMMA ChildAsks ==
  ASSUME Inv(procs), NEW p \in Pids, p # 1, Call(p), Asks(procs), Asked(waits, Pids)
  PROVE  Asks(procs') /\ Asked(waits', Pids')
<1>1. ~DoWait(p) /\ ~DoFifo(p)
  BY ChildNever
<1>2. /\ DOMAIN procs \subseteq DOMAIN procs'
      /\ \A q \in Pids : q # p /\ procs'[q].state = "running" =>
           /\ procs[q].state = "running"
           /\ procs'[q].calls = procs[q].calls /\ procs'[q].env = procs[q].env
  BY <1>1, OthersStay
<1>3. 1 \in Pids /\ UNCHANGED waits
  BY OtherProcessStep, InvFacts DEF Pids
<1>4. Asks(procs')
  BY <1>2, <1>3 DEF Asks
<1>. QED  BY <1>2, <1>3, <1>4 DEF Asked, Pids

\* The shell goes on with a line, or the next command of one.
LEMMA MainGoes ==
  ASSUME Inv(procs), Types, procs[1].state = "running", NEW calls, Lines(calls), NEW r,
         Alike(r, procs[1], calls), r.fds = procs[1].fds, r.env = procs[1].env, Becomes(1, r),
         DOMAIN files \subseteq DOMAIN files'
  PROVE  ProcsRight(procs', DOMAIN files') /\ Asks(procs')
<1>1. 1 \in Pids /\ ProcRight(procs[1], 1, DOMAIN files)
  BY InvFacts DEF Types, ProcsRight, Pids
<1>2. r.state = "running" /\ r.parent = procs[1].parent /\ r.calls = calls
  BY DEF Alike
<1>3. PICK k : Shaped(procs[1], 1, k)
  BY <1>1 DEF ProcRight
<1>4. Shaped(r, 1, k)
  BY <1>3 DEF Shaped
<1>5. ProcRight(procs[1], 1, DOMAIN files')
  BY <1>1, RightStays
<1>6. ProcRight(r, 1, DOMAIN files')
  BY <1>2, <1>4, <1>5 DEF ProcRight
<1>7. procs' = [procs EXCEPT ![1] = r]
  BY DEF Becomes
<1>8. procs'[1] = r
  BY <1>1, <1>7 DEF Pids
<1>9. Asks(procs')
  BY <1>2, <1>8, WaitingIsNotLines DEF Asks
<1>. HIDE DEF ProcRight
<1>. QED  BY <1>6, <1>7, <1>9, RightBecomes DEF Types

LEMMA MainContinues ==
  ASSUME Inv(procs), Types, procs[1].state = "running", NEW calls, Lines(calls),
         Continue(1, calls), DOMAIN files \subseteq DOMAIN files'
  PROVE  ProcsRight(procs', DOMAIN files') /\ Asks(procs')
<1>1. DOMAIN procs[1] = Fields
  BY DEF Inv, MainRecord
<1>2. /\ Alike(Going(procs[1], calls), procs[1], calls)
      /\ Going(procs[1], calls).fds = procs[1].fds /\ Going(procs[1], calls).env = procs[1].env
  BY <1>1, Records
<1>3. Becomes(1, Going(procs[1], calls))
  BY DEF Becomes, Continue, Going
<1>. QED  BY <1>2, <1>3, MainGoes

LEMMA MainForks ==
  ASSUME Inv(procs), Types, DoFork(1)
  PROVE  ProcsRight(procs', DOMAIN files') /\ Asks(procs')
<1>1. procs[1].state = "running" /\ procs[1].calls # <<>> /\ Arg(1).call = "fork"
  BY DEF DoFork, At, Arg
<1>2. ~(Arg(1) = Wait("pid", "pid"))
  BY <1>1 DEF Wait
<1>3. /\ 1 \in Pids /\ MainCall(Arg(1))
      /\ ~InForeground(Arg(1)) => Lines(Rest(1))
  BY <1>1, <1>2, ShellCalls DEF Pids
<1>4. Arg(1).var \in {"pid", "background"} /\ Keeps(Arg(1).calls, "std")
  BY <1>1, <1>2, <1>3 DEF MainCall, Orderly
<1>5. PICK k : Shaped(procs[1], 1, k)
  BY <1>1, <1>3 DEF Types, ProcsRight, ProcRight, Pids
<1>6. k = "std" /\ k \in Shapes /\ Fits(procs[1].fds, procs[1].env, k)
  BY <1>5 DEF Shaped
<1>7. Fits(procs[1].fds, With(procs[1].env, Arg(1).var, Len(procs) + 1), k)
  BY <1>4, <1>6, ForkFits
<1>8. /\ Parent(1).fds = procs[1].fds /\ Parent(1).calls = Rest(1)
      /\ Parent(1).env = With(procs[1].env, Arg(1).var, Len(procs) + 1)
      /\ TheChild(1).fds = procs[1].fds /\ TheChild(1).env = procs[1].env
      /\ TheChild(1).calls = Arg(1).calls
  BY <1>3, ForkRecords
<1>9. Shaped(Parent(1), 1, k)
  BY <1>6, <1>7, <1>8 DEF Shaped
<1>10. IsList(procs) /\ Len(procs) \in Nat /\ 1 \in 1 .. Len(procs) /\ DOMAIN procs = 1 .. Len(procs)
  BY InvFacts DEF Inv
<1>11. Shaped(TheChild(1), Len(procs) + 1, k)
  <2>1. Len(procs) + 1 # 1
    BY <1>10
  <2>. QED  BY <1>4, <1>6, <1>8, <2>1 DEF Shaped
<1>12. ProcsRight(procs', DOMAIN files')
  BY <1>3, <1>9, <1>11, ForkTypes
<1>. DEFINE qs == [procs EXCEPT ![1] = Parent(1)]
<1>13. procs' = Append(qs, TheChild(1))
  BY DEF DoFork, Parent, TheChild
<1>14. IsList(qs) /\ Len(qs) = Len(procs) /\ qs[1] = Parent(1)
  BY <1>10, ExceptIsSeq
<1>. HIDE DEF qs
<1>15. DOMAIN procs' = 1 .. Len(procs) + 1 /\ procs'[1] = Parent(1)
  BY <1>10, <1>13, <1>14, AppendFacts
<1>16. Asks(procs')
  <2>1. CASE Arg(1).var = "pid"
    <3>1. With(procs[1].env, "pid", Len(procs) + 1)["pid"] = Len(procs) + 1
      BY DEF With
    <3>2. procs'[1].env["pid"] = Len(procs) + 1
      BY <1>8, <1>15, <2>1, <3>1
    <3>3. Len(procs) + 1 \in DOMAIN procs'
      BY <1>10, <1>15
    <3>. QED  BY <3>2, <3>3 DEF Asks
  <2>2. CASE Arg(1).var # "pid"
    <3>1. ~Waiting(Rest(1))
      BY <1>3, <2>2, WaitingIsNotLines DEF InForeground
    <3>. QED  BY <1>8, <1>15, <3>1 DEF Asks
  <2>. QED  BY <2>1, <2>2
<1>. QED  BY <1>12, <1>16

LEMMA MainWaits ==
  ASSUME Inv(procs), Types, DoWait(1), Asks(procs), Asked(waits, Pids)
  PROVE  ProcsRight(procs', DOMAIN files') /\ Asks(procs') /\ Asked(waits', Pids')
<1>1. procs[1].state = "running" /\ procs[1].calls # <<>> /\ Arg(1).call = "wait"
  BY DEF DoWait, At, Arg
<1>2. Waiting(procs[1].calls) /\ Arg(1) = Wait("pid", "pid") /\ MainRecord(procs[1])
      /\ 1 \in DOMAIN procs /\ DOMAIN procs[1] = Fields
  BY <1>1, ShellCalls
<1>3. Arg(1).var = "pid" /\ Arg(1).for = "pid"
  BY <1>2 DEF Wait
<1>. DEFINE q == procs[1].env["pid"]
<1>4. /\ procs[q].parent = 1 /\ procs[q].state = "zombie"
      /\ procs' = [procs EXCEPT ![q].state = "reaped", ![1].calls = Tail(procs[1].calls)]
      /\ waits' = waits \union {[asked |-> q, got |-> q]}
      /\ UNCHANGED files
  BY <1>3 DEF DoWait, Rest
<1>5. q # 1
  BY <1>2, <1>4 DEF MainRecord
<1>6. q \in Pids
  BY <1>1, <1>2 DEF Asks, Pids
<1>. HIDE DEF q
<1>7. Reaps(procs, procs', q)
  BY <1>4, <1>5, WaitReaps
<1>8. ProcsRight(procs', DOMAIN files)
  BY <1>4, <1>5, <1>7, RightReaps DEF Types
<1>9. DOMAIN procs' = DOMAIN procs /\ procs'[1] = [procs[1] EXCEPT !.calls = Tail(procs[1].calls)]
  BY <1>7 DEF Reaps
<1>10. procs'[1].calls = Tail(procs[1].calls)
  BY <1>2, <1>9 DEF Fields
<1>11. Asks(procs')
  BY <1>2, <1>10, WaitingIsNotLines DEF Asks, Waiting
<1>12. Asked(waits', Pids')
  BY <1>4, <1>6, <1>9 DEF Asked, Pids
<1>. QED  BY <1>4, <1>8, <1>11, <1>12

LEMMA MainTypes ==
  ASSUME Inv(procs), Types, Call(1), Asks(procs), Asked(waits, Pids)
  PROVE  ProcsRight(procs', DOMAIN files') /\ Asks(procs') /\ Asked(waits', Pids')
<1>1. procs[1].state = "running" /\ procs[1].calls # <<>>
  BY Callers
<1>2. /\ 1 \in Pids /\ DOMAIN procs[1] = Fields
      /\ Arg(1).call \in {"prompt", "pwd", "exit", "chdir", "write", "fork", "wait"}
      /\ Arg(1).call \in {"prompt", "pwd", "exit", "chdir", "write"} => Lines(Rest(1))
  <2>1. Wait("pid", "pid").call = "wait"
    BY DEF Wait
  <2>2. Arg(1).call # "fork" => ~InForeground(Arg(1))
    BY DEF InForeground
  <2>. QED  BY <1>1, <2>1, <2>2, ShellCalls DEF Pids
<1>3. DOMAIN files \subseteq DOMAIN files'
  BY FilesStep DEF Types
<1>4. CASE DoWait(1)
  BY <1>4, MainWaits
<1>5. ASSUME ~DoWait(1)
      PROVE  ProcsRight(procs', DOMAIN files') /\ Asks(procs') /\ UNCHANGED waits
  <2>1. CASE DoFork(1)
    <3>1. UNCHANGED waits
      BY <2>1 DEF DoFork
    <3>. QED  BY <2>1, <3>1, MainForks
  <2>2. CASE DoExit(1)
    <3>1. End(1, Arg(1).status) /\ UNCHANGED waits
      BY <2>2 DEF DoExit
    <3>2. ProcsRight(procs', DOMAIN files')
      BY <1>2, <1>3, <3>1, EndTypes
    <3>3. procs' = EndOf(procs, 1, Arg(1).status)
      BY <3>1, Zenon DEF End, EndOf, Pids
    <3>. DEFINE e == EndOf(procs, 1, Arg(1).status)[1]
    <3>4. 1 \in DOMAIN procs
      BY <1>2 DEF Pids
    <3>5. e.state \in {"zombie", "reaped"}
      BY <1>2, <3>4, EndFields
    <3>6. procs'[1].state # "running"
      BY <3>3, <3>5
    <3>. QED  BY <3>1, <3>2, <3>6 DEF Asks
  <2>3. CASE DoPrompt(1)
    <3>1. UNCHANGED waits /\ Continue(1, Rest(1)) /\ Arg(1).call = "prompt"
      BY <2>3 DEF DoPrompt, At, Arg
    <3>. QED  BY <1>1, <1>2, <1>3, <3>1, MainContinues
  <2>4. CASE DoPwd(1)
    <3>1. UNCHANGED waits /\ Arg(1).call = "pwd"
          /\ Continue(1, <<Write("stdout", <<procs[1].cwd, 1>>)>> \o Rest(1))
      BY <2>4 DEF DoPwd, At, Arg
    <3>2. Lines(<<Write("stdout", <<procs[1].cwd, 1>>)>>)
      BY SimpleOne, SimpleLines
    <3>3. Lines(<<Write("stdout", <<procs[1].cwd, 1>>)>> \o Rest(1))
      BY <1>2, <3>1, <3>2, LinesConcat
    <3>. QED  BY <1>1, <1>3, <3>1, <3>3, MainContinues
  <2>5. CASE DoChdir(1)
    <3>1. UNCHANGED waits /\ Arg(1).call = "chdir"
          /\ Becomes(1, Moved(procs[1], Rest(1), Arg(1).dir))
      BY <2>5 DEF DoChdir, At, Arg, Moved
    <3>2. /\ Alike(Moved(procs[1], Rest(1), Arg(1).dir), procs[1], Rest(1))
          /\ Moved(procs[1], Rest(1), Arg(1).dir).fds = procs[1].fds
          /\ Moved(procs[1], Rest(1), Arg(1).dir).env = procs[1].env
      BY <1>2, Records
    <3>. QED  BY <1>1, <1>2, <1>3, <3>1, <3>2, MainGoes
  <2>6. CASE DoWrite(1)
    <3>1. UNCHANGED waits /\ Arg(1).call = "write"
      BY <2>6 DEF DoWrite, At, Arg
    <3>2. Continue(1, Rest(1))
      BY <2>6, WritesOn
    <3>. QED  BY <1>1, <1>2, <1>3, <3>1, <3>2, MainContinues
  <2>7. ASSUME \/ DoExec(1) \/ DoUndefined(1) \/ DoSleep(1) \/ DoPipe(1) \/ DoClose(1)
               \/ DoDup2(1) \/ DoOpen(1) \/ DoRead(1) \/ DoFifo(1) \/ DoForever(1)
               \/ DoNoRoom(1)
        PROVE  FALSE
    BY <2>7, MainNever
  <2>. QED  BY <1>5, <2>1, <2>2, <2>3, <2>4, <2>5, <2>6, <2>7 DEF Call
<1>6. UNCHANGED waits => Asked(waits', Pids')
  <2>1. ASSUME ~DoWait(1)  PROVE DOMAIN procs \subseteq DOMAIN procs'
    BY <1>2, <2>1, MainNever, OthersStay
  <2>. QED  BY <1>4, <2>1, MainWaits DEF Asked, Pids
<1>. QED  BY <1>4, <1>5, <1>6, MainWaits

\* Sleepers wake; nothing else changes.
LEMMA TickTypes ==
  ASSUME Inv(procs), Types, Tick, Asks(procs), Asked(waits, Pids)
  PROVE  Types' /\ Asks(procs') /\ Asked(waits', Pids')
<1>1. /\ DOMAIN procs' = DOMAIN procs /\ 1 \in DOMAIN procs
      /\ \A p \in DOMAIN procs :
           /\ procs'[p].parent = procs[p].parent /\ procs'[p].state = procs[p].state
           /\ procs'[p].calls = procs[p].calls
           /\ procs'[p].fds = procs[p].fds /\ procs'[p].env = procs[p].env
  BY TickKeeps, InvFacts
<1>2. UNCHANGED files /\ UNCHANGED waits
  BY DEF Tick
<1>3. ASSUME NEW p \in DOMAIN procs  PROVE ProcRight(procs'[p], p, DOMAIN files)
  <2>1. ProcRight(procs[p], p, DOMAIN files)
    BY <1>3 DEF Types, ProcsRight
  <2>2. \A k : Shaped(procs[p], p, k) => Shaped(procs'[p], p, k)
    BY <1>1, <1>3 DEF Shaped
  <2>. QED  BY <1>1, <1>3, <2>1, <2>2 DEF ProcRight
<1>. HIDE DEF ProcRight
<1>4. Types'
  BY <1>1, <1>2, <1>3 DEF Types, ProcsRight
<1>5. Asks(procs')
  BY <1>1 DEF Asks
<1>6. Asked(waits', Pids')
  BY <1>1, <1>2 DEF Asked, Pids
<1>. QED  BY <1>4, <1>5, <1>6
---------------------------------------------------------------------------
(* The theorems *)

\* The program that was started is a shell, of hw4 or hw6, whatever session it
\* has: any number of lines, each of any words.  The other programs of Programs
\* may be any.
Session ==
  \E shell \in {"hw4", "hw6"} : \E lines :
    /\ IsList(lines) /\ \A n \in DOMAIN lines : IsList(lines[n])
    /\ procs = <<NewProcess(ShellMain(shell, lines))>>

ShellInv == Inv(procs) /\ WaitsRight(waits)

LEMMA SessionStarts ==
  ASSUME Session
  PROVE  \E calls : Lines(calls) /\ procs = <<NewProcess(calls)>>
<1>1. PICK shell \in {"hw4", "hw6"} : \E lines :
         /\ IsList(lines) /\ \A n \in DOMAIN lines : IsList(lines[n])
         /\ procs = <<NewProcess(ShellMain(shell, lines))>>
  BY DEF Session
<1>2. PICK lines :
        /\ IsList(lines) /\ \A n \in DOMAIN lines : IsList(lines[n])
        /\ procs = <<NewProcess(ShellMain(shell, lines))>>
  BY <1>1
<1>3. Lines(ShellMain(shell, lines))
  BY <1>2, SessionLines
<1>. QED  BY <1>2, <1>3

LEMMA ShellStarts == Init /\ Session => ShellInv
<1>. SUFFICES ASSUME Init, Session  PROVE ShellInv
  OBVIOUS
<1>1. PICK calls : Lines(calls) /\ procs = <<NewProcess(calls)>>
  BY SessionStarts
<1>. DEFINE r == NewProcess(calls)
<1>4. /\ DOMAIN r = Fields /\ r.parent = 0 /\ r.state = "running"
      /\ r.calls = calls /\ r.fds = StdFiles
      /\ "stdout" \in DOMAIN r.env /\ r.env["stdout"] = 1
  BY DEF NewProcess, Fields, StdFiles
<1>. HIDE DEF r
<1>5. procs \in Seq({r}) /\ DOMAIN procs = {1} /\ procs[1] = r
  BY <1>1 DEF r
<1>6. IsList(procs)
  BY <1>5 DEF IsList
<1>7. MainRecord(r)
  BY <1>4 DEF MainRecord
<1>8. Left(procs, {})
  BY <1>4, <1>5 DEF Left
<1>9. MainCalls(procs, r)
  BY <1>1, <1>4, <1>8 DEF MainCalls
<1>10. Inv(procs)
  BY <1>5, <1>6, <1>7, <1>9 DEF Inv
<1>12. WaitsRight(waits)
  BY DEF Init, WaitsRight
<1>. QED  BY <1>10, <1>12 DEF ShellInv

LEMMA ShellInvStep ==
  ASSUME ShellInv, [Next]_vars
  PROVE  ShellInv' /\ NoneLeft(procs, procs')
<1>. Inv(procs) /\ WaitsRight(waits)
  BY DEF ShellInv
<1>1. ASSUME NEW p \in Pids, Call(p)  PROVE ShellInv' /\ NoneLeft(procs, procs')
  <2>1. CASE p = 1
    BY <1>1, <2>1, ShellStep DEF ShellInv
  <2>2. CASE p # 1
    <3>1. Inv(procs') /\ NoneLeft(procs, procs') /\ UNCHANGED waits
      BY <1>1, <2>2, OtherProcessStep
    <3>. QED  BY <3>1 DEF ShellInv
  <2>. QED  BY <2>1, <2>2
<1>2. CASE Tick
  BY <1>2, TickStep DEF ShellInv
<1>3. CASE UNCHANGED vars
  <2>1. NoneLeft(procs, procs)
    BY DEF NoneLeft
  <2>. QED  BY <1>3, <2>1 DEF vars, ShellInv
<1>4. ASSUME NEW p \in Pids, User(p)  PROVE FALSE
  BY <1>4, UserNever
<1>. QED  BY <1>1, <1>2, <1>3, <1>4 DEF Next, Processing

LEMMA NewIsRight ==
  ASSUME NEW calls
  PROVE  LET r == NewProcess(calls)
         IN  /\ r.state = "running" /\ r.parent = 0 /\ r.calls = calls
             /\ EndsRight(r.fds, 1 .. 5) /\ Fits(r.fds, r.env, "std")
<1>. DEFINE r == NewProcess(calls)
<1>1. r.state = "running" /\ r.parent = 0 /\ r.calls = calls /\ r.fds = StdFiles
      /\ r.env = [v \in {"stdin", "stdout"} |-> IF v = "stdin" THEN 0 ELSE 1]
  BY DEF NewProcess, StdFiles
<1>. HIDE DEF r
<1>2. EndsRight(StdFiles, 1 .. 5)
  BY DEF EndsRight, EndRight, StdFiles, Keyboard, Terminal
<1>3. Fits(r.fds, r.env, "std")
  BY <1>1 DEF Fits, Named, StdFiles
<1>. QED  BY <1>1, <1>2, <1>3 DEF r

LEMMA FilesStart ==
  ASSUME NEW item
  PROVE  LET fs == <<<<>>, <<>>, <<item>>, <<>>, <<>>>>
         IN  FilesRight(fs) /\ DOMAIN fs = 1 .. 5
<1>. DEFINE fs == <<<<>>, <<>>, <<item>>, <<>>, <<>>>>
<1>0. PipeSize \in Nat \ {0}
  BY PipeSizeAssumption
<1>1. fs \in Seq(Seq({item})) /\ DOMAIN fs = 1 .. 5
  OBVIOUS
<1>2. \A f \in 1 .. 5 : fs[f] = <<>> \/ fs[f] = <<item>>
  OBVIOUS
<1>3. IsList(fs)
  BY <1>1 DEF IsList
<1>4. <<>> \in Seq({item}) /\ <<item>> \in Seq({item}) /\ Len(<<>>) = 0 /\ Len(<<item>>) = 1
  OBVIOUS
<1>. HIDE DEF fs
<1>5. ASSUME NEW f \in 1 .. 5  PROVE IsList(fs[f]) /\ Len(fs[f]) <= PipeSize
  <2>1. CASE fs[f] = <<>>
    BY <1>0, <1>4, <2>1 DEF IsList
  <2>2. CASE fs[f] = <<item>>
    <3>1. IsList(fs[f])
      BY <1>4, <2>2 DEF IsList
    <3>2. 1 <= PipeSize
      BY <1>0
    <3>. QED  BY <1>4, <2>2, <3>1, <3>2
  <2>. QED  BY <1>2, <2>1, <2>2
<1>. QED  BY <1>1, <1>3, <1>5 DEF FilesRight, fs

TypeInv == ShellInv /\ Types /\ Asks(procs) /\ Asked(waits, Pids)

LEMMA TypesStart == Init /\ Session => TypeInv
<1>. SUFFICES ASSUME Init, Session  PROVE TypeInv
  OBVIOUS
<1>1. ShellInv
  BY ShellStarts
<1>2. PICK calls : Lines(calls) /\ procs = <<NewProcess(calls)>>
  BY SessionStarts
<1>. DEFINE r == NewProcess(calls)
<1>3. /\ r.state = "running" /\ r.parent = 0 /\ r.calls = calls
      /\ EndsRight(r.fds, 1 .. 5) /\ Fits(r.fds, r.env, "std")
  BY NewIsRight
<1>. HIDE DEF r
<1>4. DOMAIN procs = {1} /\ procs[1] = r
  BY <1>2 DEF r
<1>5. FilesRight(files) /\ DOMAIN files = 1 .. 5
  BY FilesStart DEF Init
<1>6. Shaped(r, 1, "std")
  BY <1>3 DEF Shaped, Shapes
<1>7. ProcRight(r, 1, 1 .. 5)
  BY <1>3, <1>6 DEF ProcRight
<1>8. Types
  BY <1>4, <1>5, <1>7 DEF Types, ProcsRight
<1>9. Lines(r.calls)
  BY <1>2, <1>3
<1>10. Asks(procs)
  BY <1>4, <1>9, WaitingIsNotLines DEF Asks
<1>11. Asked(waits, Pids)
  BY DEF Init, Asked
<1>. QED  BY <1>1, <1>8, <1>10, <1>11 DEF TypeInv

LEMMA TypesStep ==
  ASSUME TypeInv, [Next]_vars
  PROVE  TypeInv'
<1>1. ShellInv'
  BY ShellInvStep DEF TypeInv
<1>2. ASSUME NEW p \in Pids, Call(p)  PROVE Types' /\ Asks(procs') /\ Asked(waits', Pids')
  <2>1. FilesRight(files')
    BY <1>2, FilesStep DEF TypeInv, Types
  <2>2. ProcsRight(procs', DOMAIN files') /\ Asks(procs') /\ Asked(waits', Pids')
    <3>1. CASE p = 1
      BY <1>2, <3>1, MainTypes DEF TypeInv, ShellInv
    <3>2. CASE p # 1
      BY <1>2, <3>2, ChildTypes, ChildAsks DEF TypeInv, ShellInv
    <3>. QED  BY <3>1, <3>2
  <2>. QED  BY <2>1, <2>2 DEF Types
<1>3. CASE Tick
  BY <1>3, <1>1, TickTypes DEF TypeInv, ShellInv
<1>4. CASE UNCHANGED vars
  BY <1>1, <1>4 DEF TypeInv, Types, vars, Pids
<1>5. ASSUME NEW p \in Pids, User(p)  PROVE FALSE
  BY <1>5, UserNever DEF TypeInv, ShellInv
<1>. QED  BY <1>1, <1>2, <1>3, <1>4, <1>5 DEF Next, Processing, TypeInv

\* Between two commands of either shell, whatever lines it reads, only jobs in the
\* background are left of its children and no file of a command is open; and each
\* wait of run_command gets the status of the command it is for.
THEOREM ShellRightChildren ==
  Spec /\ Session => []RightChildren
<1>1. Init /\ Session => ShellInv
  BY ShellStarts
<1>2. ShellInv /\ [Next]_vars => ShellInv'
  BY ShellInvStep
<1>3. ShellInv => RightChildren
  <2>. SUFFICES ASSUME ShellInv  PROVE RightChildren
    OBVIOUS
  <2>1. OwnStatus
    BY DEF ShellInv, WaitsRight, OwnStatus
  <2>2. ASSUME At(1, "prompt")
        PROVE  /\ DOMAIN procs[1].fds = {0, 1}
               /\ \A p \in Pids : procs[p].parent = 1 /\ procs[p].state # "reaped"
                                   => procs[p].name = "background"
    <3>1. procs[1].state = "running" /\ procs[1].calls # <<>> /\ Arg(1).call = "prompt"
      BY <2>2 DEF At, Arg
    <3>2. ~(Arg(1) = Wait("pid", "pid"))
      BY <3>1 DEF Wait
    <3>3. Left(procs, {}) /\ MainRecord(procs[1])
      BY <3>1, <3>2, ShellCalls DEF ShellInv
    <3>4. DOMAIN procs[1].fds = {0, 1}
      BY <3>1, <3>3 DEF MainRecord, StdFiles
    <3>. QED  BY <3>3, <3>4 DEF Left, Pids
  <2>. QED  BY <2>1, <2>2 DEF RightChildren, PromptIsClean
<1>. QED  BY <1>1, <1>2, <1>3, PTL DEF Spec

\* Neither shell ends, nor does any of its commands, while a child of it is left
\* that it should have waited for: what is left are jobs in the background and
\* the right sides of pipes.
THEOREM ShellLeavesNoChild ==
  Spec /\ Session => NoChildLeft
<1>1. Init /\ Session => ShellInv
  BY ShellStarts
<1>2. ShellInv /\ [Next]_vars => ShellInv'
  BY ShellInvStep
<1>3. ShellInv /\ [Next]_vars =>
        [\A p, q \in Pids :
           procs[p].state = "running" /\ procs'[p].state # "running"
             /\ procs[q].parent = p /\ procs[q].state # "reaped"
           => procs[q].name \in Unwaited]_vars
  BY ShellInvStep DEF NoneLeft, Pids
<1>. QED  BY <1>1, <1>2, <1>3, PTL DEF Spec, NoChildLeft

\* The types, for both shells and whatever lines they read.  Every descriptor of
\* every process refers to a file that is there, and four are enough: a shell
\* keeps the two that it starts with, and a command has those of one redirection
\* or of one pipe beside them, however many lines there are, and however long the
\* pipe lines.
THEOREM ShellTypeOK ==
  Spec /\ Session => []TypeOK
<1>1. Init /\ Session => TypeInv
  BY TypesStart
<1>2. TypeInv /\ [Next]_vars => TypeInv'
  BY TypesStep
<1>3. TypeInv => TypeOK
  <2>. SUFFICES ASSUME TypeInv  PROVE TypeOK
    OBVIOUS
  <2>1. ASSUME NEW p \in Pids
        PROVE  /\ procs[p].state \in {"running", "zombie", "reaped"}
               /\ procs[p].parent \in 0 .. p - 1
               /\ DOMAIN procs[p].fds \subseteq 0 .. OpenMax - 1
               /\ \A e \in Ends(p) : e.file \in DOMAIN files /\ e.mode \in {"r", "w"}
    <3>1. ProcRight(procs[p], p, DOMAIN files)
      BY <2>1 DEF TypeInv, Types, ProcsRight, Pids
    <3>2. DOMAIN procs[p].fds \subseteq {0, 1, 2, 3}
      BY <3>1 DEF ProcRight, Shaped, Shapes, Fits
    <3>3. {0, 1, 2, 3} \subseteq 0 .. OpenMax - 1
      BY OpenMaxAssumption
    <3>. QED  BY <3>1, <3>2, <3>3 DEF ProcRight, EndsRight, EndRight, Ends
  <2>2. \A f \in DOMAIN files : f \in Endless \/ Len(files[f]) <= PipeSize
    BY DEF TypeInv, Types, FilesRight
  <2>3. waits \subseteq [asked : Pids, got : Pids]
    BY DEF TypeInv, Asked
  <2>4. ~At(1, "pipe")
    <3>. SUFFICES ASSUME At(1, "pipe")  PROVE FALSE
      OBVIOUS
    <3>1. procs[1].state = "running" /\ procs[1].calls # <<>> /\ Arg(1).call = "pipe"
      BY DEF At, Arg
    <3>2. Wait("pid", "pid").call = "wait"
      BY DEF Wait
    <3>. QED  BY <3>1, <3>2, ShellCalls DEF TypeInv, ShellInv
  <2>5. ASSUME NEW p \in Pids, At(p, "pipe")  PROVE ~(Room(p) < 2)
    <3>1. procs[p].state = "running" /\ procs[p].calls # <<>> /\ Arg(p).call = "pipe"
      BY <2>5 DEF At, Arg
    <3>2. p # 1
      BY <2>4, <2>5
    <3>3. PICK k, t : Fits(procs[p].fds, procs[p].env, k) /\ Leads(Arg(p), k, t)
      BY <3>1, <3>2, ChildCalls DEF TypeInv, ShellInv
    <3>4. DOMAIN procs[p].fds = {0, 1}
      BY <3>1, <3>3, LeadsNowhere DEF Fits
    <3>5. Cardinality({0, 1}) = 2
      BY TwoDescriptors
    <3>. QED  BY <3>4, <3>5, OpenMaxAssumption DEF Room
  <2>6. CommanderKeeps /\ OnlyMyRpcRunsOut
    BY <2>4, <2>5 DEF CommanderKeeps, OnlyMyRpcRunsOut
  <2>. QED  BY <2>1, <2>2, <2>3, <2>6 DEF TypeOK
<1>. QED  BY <1>1, <1>2, <1>3, PTL DEF Spec
===========================================================================
