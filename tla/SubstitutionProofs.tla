-------------------------- MODULE SubstitutionProofs --------------------------
(* What the substitution of parameters makes of a text, for any text and   *)
(* any number of parameters.  The definitions are recursive; the induction *)
(* over their arguments is one over sets of natural numbers.               *)
EXTENDS NodeCommands, SequenceTheorems, WellFoundedInduction, TLAPS

-----------------------------------------------------------------------------
(* Induction.                                                              *)

\* Every set of natural numbers that is not empty has a least element.
LEMMA LeastNat ==
    ASSUME NEW T, T \subseteq Nat, T # {}
    PROVE  \E n \in T : \A m \in T : n <= m
<1>1. PICK R : R = OpToRel(<, Nat) /\ IsWellFoundedOn(R, Nat)
  BY NatLessThanWellFounded
<1>2. PICK x \in T : \A y \in T : ~ (<<y, x>> \in R)
  BY <1>1, WFMin
<1>3. \A a, b \in Nat : a < b => <<a, b>> \in R
  BY <1>1 DEF OpToRel
<1>4. ASSUME NEW y \in T PROVE x <= y
  <2>1. x \in Nat /\ y \in Nat /\ ~ (<<y, x>> \in R)
    BY <1>2
  <2>2. ~ (y < x)
    BY <1>3, <2>1
  <2> QED BY <2>1, <2>2
<1> QED BY <1>4

\* A set that has 0 and, up to n, the successors of its elements has all
\* numbers up to n.
LEMMA UpTo ==
    ASSUME NEW T, NEW n \in Nat, 0 \in T,
           \A k \in 1 .. n : k - 1 \in T => k \in T
    PROVE  0 .. n \subseteq T
<1> DEFINE D == (0 .. n) \ T
<1>1. SUFFICES ASSUME D # {} PROVE FALSE
  OBVIOUS
<1>2. D \subseteq Nat
  OBVIOUS
<1> HIDE DEF D
<1>3. PICK k \in D : \A m \in D : k <= m
  BY <1>1, <1>2, LeastNat
<1>4. k \in 1 .. n /\ k - 1 \in 0 .. n /\ ~ (k <= k - 1)
  BY <1>3 DEF D
<1> QED BY <1>3, <1>4 DEF D

\* Two functions with the same recurrence are the same.
LEMMA SameRecurrence ==
    ASSUME NEW n \in Nat, NEW f, NEW g, f[0] = g[0],
           \A k \in 1 .. n : f[k - 1] = g[k - 1] => f[k] = g[k]
    PROVE  \A k \in 0 .. n : f[k] = g[k]
<1> DEFINE T == {k \in 0 .. n : f[k] = g[k]}
<1>1. 0 \in T /\ \A k \in 1 .. n : k - 1 \in T => k \in T
  OBVIOUS
<1> HIDE DEF T
<1>2. 0 .. n \subseteq T
  BY <1>1, UpTo
<1> QED BY <1>2 DEF T

-----------------------------------------------------------------------------
(* Flattened sequences.                                                    *)

Joined(s, t) == s \o t

\* f[k] is what the first k sequences are when put together.
Partial(ss, f, n) ==
    /\ f[0] = <<>>
    /\ \A k \in 1 .. n : f[k] = Joined(f[k - 1], ss[k])

\* What the rest of the proofs need to know of concatenation.
LEMMA JoinedIs ==
    \A S : \A s, t, u \in Seq(S) :
        /\ Joined(s, t) \in Seq(S)
        /\ Joined(<<>>, t) = t /\ Joined(s, <<>>) = s
        /\ Joined(Joined(s, t), u) = Joined(s, Joined(t, u))
<1> SUFFICES ASSUME NEW S, NEW s \in Seq(S), NEW t \in Seq(S), NEW u \in Seq(S)
             PROVE  /\ s \o t \in Seq(S)
                    /\ <<>> \o t = t /\ s \o <<>> = s
                    /\ (s \o t) \o u = s \o (t \o u)
  BY DEF Joined
<1> QED BY ConcatEmptySeq, ConcatAssociative

\* There is such a function ...
LEMMA PartialExists ==
    ASSUME NEW S, NEW ss \in Seq(Seq(S))
    PROVE  \E f \in [0 .. Len(ss) -> Seq(S)] : Partial(ss, f, Len(ss))
<1> DEFINE n == Len(ss)
           Good(k) == \E f \in [0 .. k -> Seq(S)] : Partial(ss, f, k)
           T == {k \in 0 .. n : Good(k)}
<1>1. n \in Nat
  OBVIOUS
<1>2. Good(0)
  <2> DEFINE f == [i \in 0 .. 0 |-> <<>>]
  <2>1. f \in [0 .. 0 -> Seq(S)] /\ f[0] = <<>>
    OBVIOUS
  <2> HIDE DEF f
  <2>2. Partial(ss, f, 0)
    BY <2>1 DEF Partial
  <2> QED BY <2>1, <2>2
<1>3. ASSUME NEW k \in 1 .. n, Good(k - 1) PROVE Good(k)
  <2>1. PICK f \in [0 .. k - 1 -> Seq(S)] : Partial(ss, f, k - 1)
    BY <1>3
  <2> DEFINE x == Joined(f[k - 1], ss[k])
             g == [i \in 0 .. k |-> IF i = k THEN x ELSE f[i]]
  <2>2. ss[k] \in Seq(S) /\ f[k - 1] \in Seq(S)
    OBVIOUS
  <2>3. x \in Seq(S)
    BY <2>2, JoinedIs
  <2>4. g[k] = Joined(f[k - 1], ss[k]) /\ \A i \in 0 .. k - 1 : g[i] = f[i]
    OBVIOUS
  <2> HIDE DEF x
  <2>5. g \in [0 .. k -> Seq(S)]
    BY <2>3
  <2> HIDE DEF g
  <2>6. g[0] = <<>>
    BY <2>1, <2>4 DEF Partial
  <2>7. ASSUME NEW j \in 1 .. k PROVE g[j] = Joined(g[j - 1], ss[j])
    <3>1. j - 1 \in 0 .. k - 1 /\ g[j - 1] = f[j - 1]
      BY <2>4
    <3>2. CASE j = k
      BY <2>4, <3>1, <3>2
    <3>3. CASE j # k
      <4>1. j \in 1 .. k - 1 /\ g[j] = f[j]
        BY <2>4, <3>3
      <4> QED BY <2>1, <3>1, <4>1 DEF Partial
    <3> QED BY <3>2, <3>3
  <2> QED BY <2>5, <2>6, <2>7 DEF Partial
<1> HIDE DEF Good
<1>4. 0 \in T /\ \A k \in 1 .. n : k - 1 \in T => k \in T
  BY <1>1, <1>2, <1>3
<1> HIDE DEF T
<1>5. 0 .. n \subseteq T
  BY <1>1, <1>4, UpTo
<1>6. n \in T
  BY <1>1, <1>5
<1> QED BY <1>6 DEF T, Good

\* ... and FlattenSeq() is its last value.
LEMMA FlattenIsPartial ==
    ASSUME NEW S, NEW ss \in Seq(Seq(S)), NEW f, Partial(ss, f, Len(ss))
    PROVE  FlattenSeq(ss) = f[Len(ss)]
<1> DEFINE n == Len(ss)
<1>1. n \in Nat
  OBVIOUS
<1>2. CASE n = 0
  BY <1>2 DEF FlattenSeq, Partial
<1>3. CASE n # 0
  <2> DEFINE Recurs(h) == h = [i \in 1 .. n |->
                                IF i = 1 THEN ss[i] ELSE Joined(h[i - 1], ss[i])]
             flatten == CHOOSE h : Recurs(h)
  <2>1. PICK p \in [0 .. n -> Seq(S)] : Partial(ss, p, n)
    BY PartialExists
  <2>2. Recurs([i \in 1 .. n |-> p[i]])
    <3>1. ASSUME NEW i \in 1 .. n, i # 1 PROVE p[i] = Joined(p[i - 1], ss[i]) /\ i - 1 \in 1 .. n
      BY <2>1, <3>1 DEF Partial
    <3>2. p[1] = ss[1]
      <4>1. 1 \in 1 .. n /\ ss[1] \in Seq(S)
        BY <1>1, <1>3
      <4>2. p[1] = Joined(<<>>, ss[1])
        BY <2>1, <4>1 DEF Partial
      <4> QED BY <4>1, <4>2, JoinedIs
    <3> QED BY <3>1, <3>2
  <2>3. Recurs(flatten)
    BY <2>2
  <2>4. FlattenSeq(ss) = flatten[n]
    BY <1>3 DEF FlattenSeq, Joined
  <2> HIDE DEF flatten
  <2> DEFINE g == [i \in 0 .. n |-> IF i = 0 THEN <<>> ELSE flatten[i]]
  <2>5. \A k \in 0 .. n : g[k] = f[k]
    <3>1. g[0] = f[0]
      BY <1>1 DEF Partial
    <3>2. ASSUME NEW k \in 1 .. n, g[k - 1] = f[k - 1] PROVE g[k] = f[k]
      <4>1. f[k] = Joined(g[k - 1], ss[k]) /\ ss[k] \in Seq(S)
        BY <3>2 DEF Partial
      <4>2. CASE k = 1
        <5>1. g[0] = <<>> /\ g[1] = flatten[1] /\ flatten[1] = ss[1]
          BY <1>1, <1>3, <2>3
        <5> QED BY <4>1, <4>2, <5>1, JoinedIs
      <4>3. CASE k # 1
        <5>1. g[k] = flatten[k] /\ g[k - 1] = flatten[k - 1]
          BY <1>1, <4>3
        <5>2. flatten[k] = Joined(flatten[k - 1], ss[k])
          BY <2>3, <4>3
        <5> QED BY <4>1, <5>1, <5>2
      <4> QED BY <4>2, <4>3
    <3> HIDE DEF g
    <3> QED BY <1>1, <3>1, <3>2, SameRecurrence, ZenonT(40)
  <2>6. g[n] = flatten[n]
    BY <1>1, <1>3
  <2> QED BY <1>1, <2>4, <2>5, <2>6
<1> QED BY <1>2, <1>3

\* What is flattened has the elements of its parts.
LEMMA FlattenType ==
    ASSUME NEW S, NEW ss \in Seq(Seq(S))
    PROVE  FlattenSeq(ss) \in Seq(S)
<1>1. PICK f \in [0 .. Len(ss) -> Seq(S)] : Partial(ss, f, Len(ss))
  BY PartialExists
<1>2. Len(ss) \in 0 .. Len(ss)
  OBVIOUS
<1> QED BY <1>1, <1>2, FlattenIsPartial

\* One part is what it is flattened to.
LEMMA FlattenOne ==
    ASSUME NEW S, NEW s \in Seq(S)
    PROVE  FlattenSeq(<<s>>) = s
<1> DEFINE f == [k \in 0 .. 1 |-> IF k = 0 THEN <<>> ELSE s]
           ss == <<s>>
<1>1. ss \in Seq(Seq(S)) /\ Len(ss) = 1 /\ ss[1] = s
  OBVIOUS
<1>2. f[0] = <<>> /\ f[1] = s
  OBVIOUS
<1> HIDE DEF f, ss
<1>3. Partial(ss, f, Len(ss))
  BY <1>1, <1>2, JoinedIs DEF Partial
<1>4. FlattenSeq(ss) = f[Len(ss)]
  BY <1>1, <1>3, FlattenIsPartial
<1> QED BY <1>1, <1>2, <1>4 DEF ss

\* Parts of one element each.
LEMMA FlattenUnits ==
    ASSUME NEW S, NEW t \in Seq(S),
           NEW ss \in Seq(Seq(S)), Len(ss) = Len(t),
           \A i \in 1 .. Len(t) : ss[i] = <<t[i]>>
    PROVE  FlattenSeq(ss) = t
<1> DEFINE n == Len(t)
           f == [k \in 0 .. n |-> SubSeq(t, 1, k)]
<1>1. n \in Nat /\ f[n] = SubSeq(t, 1, n) /\ f[0] = SubSeq(t, 1, 0)
  OBVIOUS
<1>2. f[0] = <<>>
  BY <1>1, SubSeqEmpty
<1>3. ASSUME NEW k \in 1 .. n PROVE f[k] = Joined(f[k - 1], ss[k])
  <2>1. 1 \in 1 .. Len(t) /\ k \in 1 .. Len(t) /\ k - 1 \in 0 .. n
    BY <1>1
  <2>2. f[k] = SubSeq(t, 1, k) /\ f[k - 1] = SubSeq(t, 1, k - 1)
    <3>1. k \in 0 .. n /\ k - 1 \in 0 .. n
      BY <1>1
    <3> HIDE DEF n
    <3> QED BY <3>1
  <2>3. SubSeq(t, 1, k) = SubSeq(t, 1, k - 1) \o << t[k] >>
    BY <2>1, SubSeqRecursiveSecond
  <2> QED BY <2>2, <2>3 DEF Joined
<1> HIDE DEF f
<1>4. FlattenSeq(ss) = f[n]
  BY <1>2, <1>3, FlattenIsPartial DEF Partial
<1> QED BY <1>1, <1>4, SubSeqFull

\* To flatten two sequences behind each other is to flatten each.
LEMMA FlattenConcat ==
    ASSUME NEW S, NEW ss \in Seq(Seq(S)), NEW tt \in Seq(Seq(S))
    PROVE  FlattenSeq(ss \o tt) = FlattenSeq(ss) \o FlattenSeq(tt)
<1> DEFINE m == Len(ss)
           n == Len(tt)
           uu == ss \o tt
<1>0. /\ m \in Nat /\ m = Len(ss) /\ n \in Nat /\ n = Len(tt)
      /\ uu \in Seq(Seq(S)) /\ Len(uu) = m + n
      /\ \A i \in 1 .. m : uu[i] = ss[i]
      /\ \A i \in 1 .. n : uu[m + i] = tt[i]
  <2>1. \A i \in 1 .. m + n : uu[i] = IF i <= m THEN ss[i] ELSE tt[i - m]
    BY ConcatProperties
  <2> QED BY <2>1, ConcatProperties
<1>1. PICK f : f \in [0 .. m -> Seq(S)] /\ Partial(ss, f, m)
  BY PartialExists DEF m
<1>2. PICK h : h \in [0 .. n -> Seq(S)] /\ Partial(tt, h, n)
  BY PartialExists DEF n
<1> HIDE DEF uu, m, n
<1>3. PICK g : g \in [0 .. m + n -> Seq(S)] /\ Partial(uu, g, m + n)
  <2>1. uu \in Seq(Seq(S))
    BY <1>0
  <2>2. \E g : g \in [0 .. Len(uu) -> Seq(S)] /\ Partial(uu, g, Len(uu))
    BY <2>1, PartialExists
  <2> QED BY <1>0, <2>2
<1>4. \A k \in 0 .. m : g[k] = f[k]
  <2>1. g[0] = f[0]
    BY <1>1, <1>3 DEF Partial
  <2>2. ASSUME NEW k \in 1 .. m, g[k - 1] = f[k - 1] PROVE g[k] = f[k]
    <3>1. k \in 1 .. m + n
      BY <1>0
    <3> QED BY <1>0, <1>1, <1>3, <2>2, <3>1 DEF Partial
  <2>3. m \in Nat
    BY <1>0
  <2> QED BY <2>1, <2>2, <2>3, SameRecurrence, ZenonT(40)
<1> DEFINE x == [k \in 0 .. n |-> g[m + k]]
           y == [k \in 0 .. n |-> Joined(f[m], h[k])]
<1>5. f[m] \in Seq(S)
  <2>1. m \in 0 .. m
    BY <1>0
  <2> QED BY <1>1, <2>1
<1>6. x[0] = y[0]
  <2>1. x[0] = f[m]
    BY <1>0, <1>4
  <2>2. h[0] = <<>> /\ 0 \in 0 .. n
    BY <1>0, <1>2 DEF Partial
  <2>3. Joined(f[m], <<>>) = f[m]
    BY <1>5, JoinedIs
  <2> QED BY <2>1, <2>2, <2>3
<1>7. ASSUME NEW k \in 1 .. n, x[k - 1] = y[k - 1] PROVE x[k] = y[k]
  <2>1. /\ m + k \in 1 .. m + n /\ k - 1 \in 0 .. n /\ k \in 0 .. n
        /\ (m + k) - 1 = m + (k - 1)
    BY <1>0
  <2>2. x[k] = g[m + k] /\ x[k - 1] = g[m + k - 1]
    BY <2>1
  <2>3. x[k] = Joined(x[k - 1], tt[k])
    BY <1>0, <1>3, <2>1, <2>2 DEF Partial
  <2>4. h[k] = Joined(h[k - 1], tt[k])
    BY <1>2 DEF Partial
  <2>5. h[k - 1] \in Seq(S) /\ tt[k] \in Seq(S)
    <3>1. h[k - 1] \in Seq(S)
      BY <1>2, <2>1
    <3>2. k \in 1 .. Len(tt)
      BY <1>0
    <3> QED BY <3>1, <3>2, ElementOfSeq
  <2>6. Joined(Joined(f[m], h[k - 1]), tt[k])
        = Joined(f[m], Joined(h[k - 1], tt[k]))
    <3>1. \A a, b, c \in Seq(S) : Joined(Joined(a, b), c) = Joined(a, Joined(b, c))
      BY JoinedIs
    <3> QED BY <1>5, <2>5, <3>1
  <2>7. y[k] = Joined(f[m], h[k]) /\ y[k - 1] = Joined(f[m], h[k - 1])
    BY <2>1
  <2> QED BY <1>7, <2>3, <2>4, <2>6, <2>7
<1> HIDE DEF x, y
<1>8. x[n] = y[n]
  <2>1. n \in Nat
    BY <1>0
  <2>2. \A k \in 0 .. n : x[k] = y[k]
    BY <1>6, <1>7, <2>1, SameRecurrence, ZenonT(40)
  <2>3. n \in 0 .. n
    BY <2>1
  <2> QED BY <2>2, <2>3
<1>9. x[n] = g[m + n] /\ y[n] = Joined(f[m], h[n])
  BY <1>0 DEF x, y
<1>10. FlattenSeq(uu) = g[m + n]
  <2>1. uu \in Seq(Seq(S)) /\ Len(uu) = m + n
    BY <1>0
  <2> QED BY <1>3, <2>1, FlattenIsPartial
<1>11. FlattenSeq(ss) = f[m] /\ FlattenSeq(tt) = h[n]
  BY <1>0, <1>1, <1>2, FlattenIsPartial
<1> QED BY <1>8, <1>9, <1>10, <1>11 DEF uu, Joined

\* One part of many, and what is before and behind it.
LEMMA FlattenSplit ==
    ASSUME NEW S, NEW ss \in Seq(Seq(S)), NEW i \in 1 .. Len(ss)
    PROVE  FlattenSeq(ss) =
             Joined(Joined(FlattenSeq(SubSeq(ss, 1, i - 1)), ss[i]),
                    FlattenSeq(SubSeq(ss, i + 1, Len(ss))))
<1> DEFINE n == Len(ss)
           a == SubSeq(ss, 1, i - 1)
           b == SubSeq(ss, i + 1, n)
           c == SubSeq(ss, i, n)
<1>1. n \in Nat /\ \A k \in 1 .. n : ss[k] \in Seq(S)
  OBVIOUS
<1>2. a \in Seq(Seq(S)) /\ b \in Seq(Seq(S)) /\ c \in Seq(Seq(S))
  BY <1>1, SubSeqProperties
<1>3. c = <<ss[i]>> \o b
  BY <1>1, SubSeqRecursiveFirst
<1>4. ss = a \o c
  <2>1. 1 \in 1 .. n + 1 /\ i - 1 \in 1 - 1 .. n /\ n \in i - 1 .. n /\ i - 1 + 1 = i
    BY <1>1
  <2>2. SubSeq(ss, 1, i - 1) \o SubSeq(ss, i - 1 + 1, n) = SubSeq(ss, 1, n)
    BY <2>1, ConcatAdjacentSubSeq
  <2> QED BY <2>1, <2>2, SubSeqFull
<1>5. <<ss[i]>> \in Seq(Seq(S)) /\ ss[i] \in Seq(S)
  BY <1>1
<1> HIDE DEF a, b, c
<1>6. FlattenSeq(c) = FlattenSeq(<<ss[i]>>) \o FlattenSeq(b)
  BY <1>2, <1>3, <1>5, FlattenConcat
<1>7. FlattenSeq(ss) = FlattenSeq(a) \o FlattenSeq(c)
  BY <1>2, <1>4, FlattenConcat
<1>8. FlattenSeq(<<ss[i]>>) = ss[i]
  BY <1>5, FlattenOne
<1>9. FlattenSeq(a) \in Seq(S) /\ FlattenSeq(b) \in Seq(S)
  BY <1>2, FlattenType
<1>10. FlattenSeq(ss)
         = Joined(FlattenSeq(a), Joined(ss[i], FlattenSeq(b)))
  BY <1>6, <1>7, <1>8 DEF Joined
<1>11. \A x, y, z \in Seq(S) : Joined(Joined(x, y), z) = Joined(x, Joined(y, z))
  BY JoinedIs
<1> QED BY <1>5, <1>9, <1>10, <1>11 DEF a, b

-----------------------------------------------------------------------------
(* One parameter.                                                          *)

\* A text without a reference that matches stays as it is.
LEMMA ReplaceNothing ==
    ASSUME NEW text, NEW param,
           \A i \in DOMAIN text : ~ Matches(text[i], param.name)
    PROVE  Replace(text, param) = text
BY DEF Replace

\* The pieces that stay as they are wherever they are put.
Literals(S) == {piece \in S : Literal(piece)}

\* What Replace() inserts, one text for each piece of the value.
InsertedAll(value, key, before, behind) ==
    [i \in DOMAIN value |-> Inserted(value[i], key, before, behind)]

\* A literal value is inserted as it stands.
LEMMA InsertedVerbatim ==
    ASSUME NEW S, NEW value \in Seq(Literals(S)), NEW key, NEW before, NEW behind
    PROVE  FlattenSeq(InsertedAll(value, key, before, behind)) = value
<1> DEFINE ss == [i \in DOMAIN value |-> Inserted(value[i], key, before, behind)]
<1>1. /\ value \in Seq(S) /\ Len(value) \in Nat /\ DOMAIN value = 1 .. Len(value)
      /\ \A i \in 1 .. Len(value) : value[i] \in S /\ Literal(value[i])
  <2>1. Literals(S) \subseteq S
    BY DEF Literals
  <2>2. \A piece \in Literals(S) : piece \in S /\ Literal(piece)
    BY DEF Literals
  <2>3. value \in Seq(S)
    BY <2>1, SeqMonotonic
  <2> QED BY <2>2, <2>3
<1>2. ASSUME NEW i \in 1 .. Len(value)
      PROVE  ss[i] = <<value[i]>> /\ <<value[i]>> \in Seq(S)
  <2>1. /\ value[i] # Lit("$$") /\ value[i] # Lit("$&")
        /\ value[i] # Lit("$before") /\ value[i] # Lit("$behind")
    BY <1>1 DEF Literal, Patterns
  <2>2. Inserted(value[i], key, before, behind) = <<value[i]>>
    BY <2>1 DEF Inserted
  <2> QED BY <1>1, <2>2
<1>3. ss = [i \in 1 .. Len(value) |-> ss[i]]
  BY <1>1
<1> HIDE DEF ss
<1>4. ss \in [1 .. Len(value) -> Seq(S)]
  BY <1>2, <1>3
<1>5. ss \in Seq(Seq(S)) /\ Len(ss) = Len(value)
  BY <1>1, <1>4
<1> QED BY <1>1, <1>2, <1>5, FlattenUnits DEF ss, InsertedAll

\* A literal value takes the place of the first reference to the parameter.
LEMMA ReplaceFirst ==
    ASSUME NEW S, NEW a \in Seq(S), NEW p \in S, NEW b \in Seq(S), NEW param,
           param.value \in Seq(Literals(S)),
           \A i \in 1 .. Len(a) : ~ Matches(a[i], param.name),
           Matches(p, param.name), p.words = param.name
    PROVE  Replace(Joined(Joined(a, <<p>>), b), param)
             = Joined(Joined(a, param.value), b)
<1> DEFINE ap == a \o <<p>>
           text == ap \o b
           l == Len(a)
           n == Len(b)
<1>1. /\ l \in Nat /\ n \in Nat
      /\ ap \in Seq(S) /\ Len(ap) = l + 1 /\ ap[l + 1] = p
      /\ \A i \in 1 .. l : ap[i] = a[i]
  OBVIOUS
<1>2. /\ text \in Seq(S) /\ Len(text) = l + 1 + n
      /\ \A i \in 1 .. l + 1 : text[i] = ap[i]
      /\ \A i \in 1 .. n : text[l + 1 + i] = b[i]
  <2> HIDE DEF ap
  <2>1. /\ text \in Seq(S) /\ Len(text) = Len(ap) + Len(b)
        /\ \A i \in 1 .. Len(ap) + Len(b) :
              text[i] = IF i <= Len(ap) THEN ap[i] ELSE b[i - Len(ap)]
    BY <1>1, ConcatProperties
  <2> HIDE DEF text, l, n
  <2>2. Len(ap) = l + 1 /\ Len(b) = n /\ l \in Nat /\ n \in Nat
    BY <1>1 DEF n
  <2>3. \A i \in 1 .. l + 1 : text[i] = ap[i]
    BY <2>1, <2>2
  <2>4. ASSUME NEW i \in 1 .. n PROVE text[l + 1 + i] = b[i]
    <3>1. PICK k : k = l + 1 + i
      OBVIOUS
    <3>2. /\ k \in 1 .. Len(ap) + Len(b) /\ ~ (k <= Len(ap))
          /\ k - Len(ap) = i
      BY <2>2, <3>1
    <3>3. text[k] = b[k - Len(ap)]
      BY <2>1, <3>2
    <3> QED BY <3>1, <3>2, <3>3
  <2> QED BY <2>1, <2>2, <2>3, <2>4
<1> HIDE DEF ap, text, l, n
<1> DEFINE matching == {i \in DOMAIN text : Matches(text[i], param.name)}
           first == CHOOSE i \in matching : \A j \in matching : i <= j
<1>3. DOMAIN text = 1 .. l + 1 + n
  BY <1>1, <1>2
<1>4. l + 1 \in matching /\ \A j \in matching : l + 1 <= j
  BY <1>1, <1>2, <1>3 DEF l
<1>5. first = l + 1
  <2>1. \A i \in matching : i \in Int
    BY <1>1, <1>3
  <2> HIDE DEF matching
  <2> QED BY <1>1, <1>4, <2>1
<1>6. SubSeq(text, 1, l) = a
  <2>1. /\ SubSeq(text, 1, l) \in Seq(S) /\ Len(SubSeq(text, 1, l)) = l
        /\ \A i \in 1 .. l : SubSeq(text, 1, l)[i] = text[i]
    BY <1>1, <1>2
  <2>2. Len(a) = l /\ \A i \in 1 .. l : text[i] = a[i]
    BY <1>1, <1>2 DEF l
  <2> QED BY <2>1, <2>2, SeqEqual
<1>7. SubSeq(text, l + 2, l + 1 + n) = b
  <2> DEFINE t == SubSeq(text, l + 2, l + 1 + n)
  <2>1. /\ t \in Seq(S) /\ Len(t) = n
        /\ \A i \in 1 .. n : t[i] = text[l + 1 + i]
    BY <1>1, <1>2
  <2>2. Len(b) = n
    BY DEF n
  <2> HIDE DEF t
  <2>3. t = b
    BY <1>2, <2>1, <2>2, SeqEqual
  <2> QED BY <2>3 DEF t
<1>8. Rest(text[l + 1], param.name) = <<>>
  BY <1>1, <1>2 DEF Rest
<1> HIDE DEF matching, first
<1>9. first - 1 = l /\ first + 1 = l + 2
  BY <1>1, <1>5
<1>10. Replace(text, param) = (a \o param.value) \o (<<>> \o b)
  <2> DEFINE before == SubSeq(text, 1, first - 1)
             behind == Rest(text[first], param.name)
                       \o SubSeq(text, first + 1, Len(text))
             value == [i \in DOMAIN param.value |->
                          Inserted(param.value[i], param.name, before, behind)]
  <2>1. FlattenSeq(value) = param.value
    <3> HIDE DEF before, behind
    <3>1. FlattenSeq(InsertedAll(param.value, param.name, before, behind))
            = param.value
      BY InsertedVerbatim
    <3> QED BY <3>1 DEF InsertedAll
  <2>2. matching # {}
    BY <1>4 DEF matching
  <2>3. Replace(text, param) = (before \o FlattenSeq(value)) \o behind
    BY <2>2 DEF Replace, matching, first
  <2>4. before = a /\ behind = <<>> \o b
    BY <1>2, <1>5, <1>6, <1>7, <1>8, <1>9
  <2> HIDE DEF value, before, behind
  <2> QED BY <2>1, <2>3, <2>4
<1>11. Joined(<<>>, b) = b
  BY JoinedIs
<1> QED BY <1>10, <1>11 DEF Joined, text, ap

-----------------------------------------------------------------------------
(* One parameter after the other.                                          *)

NamesOf(params) == {params[j].name : j \in 1 .. Len(params)}

\* A text of pieces from S and parameters that can be filled in exactly.
Fits(S, text, params, values) ==
    /\ text \in Seq(S)
    /\ params \in Seq(Range(params))
    /\ DOMAIN values = NamesOf(params)
    /\ \A j \in 1 .. Len(params) :
          /\ params[j].value \in Seq(Literals(S))
          /\ values[params[j].name] = params[j].value
    /\ \A j, k \in 1 .. Len(params) : params[j].name = params[k].name => j = k
    /\ \A i \in 1 .. Len(text), j \in 1 .. Len(params) :
          Matches(text[i], params[j].name) <=>
              text[i].ref /\ text[i].words = params[j].name
    /\ \A i, j \in 1 .. Len(text) :
          text[i].ref /\ text[j].ref /\ text[i].words = text[j].words => i = j

\* What becomes of each piece of the text with the first k parameters, and of
\* the text as a whole.
Known(piece, params, k) == piece.ref /\ \E j \in 1 .. k : piece.words = params[j].name

Images(text, params, values, k) ==
    [i \in 1 .. Len(text) |->
        IF Known(text[i], params, k) THEN values[text[i].words] ELSE <<text[i]>>]

Stage(text, params, values, k) == FlattenSeq(Images(text, params, values, k))

\* The pieces that do not refer to a parameter.
Others(S, param) == {piece \in S : ~ Matches(piece, param.name)}

\* The image of a piece changes with the parameter it refers to, which appears
\* in no other image.
LEMMA ImageStep ==
    ASSUME NEW S, NEW text, NEW params, NEW values,
           Fits(S, text, params, values), NEW k \in 1 .. Len(params),
           NEW i \in 1 .. Len(text)
    PROVE  LET old == Images(text, params, values, k - 1)[i]
               new == Images(text, params, values, k)[i]
           IN /\ old \in Seq(S) /\ new \in Seq(S)
              /\ IF text[i].ref /\ text[i].words = params[k].name
                 THEN /\ Matches(text[i], params[k].name)
                      /\ old = <<text[i]>> /\ new = params[k].value
                 ELSE old = new /\ old \in Seq(Others(S, params[k]))
<1> DEFINE old == Images(text, params, values, k - 1)[i]
           new == Images(text, params, values, k)[i]
           M == Others(S, params[k])
<1>0. Len(params) \in Nat
  BY DEF Fits
<1>1. text[i] \in S
  BY DEF Fits
<1>2. /\ old = IF Known(text[i], params, k - 1)
               THEN values[text[i].words] ELSE <<text[i]>>
      /\ new = IF Known(text[i], params, k)
               THEN values[text[i].words] ELSE <<text[i]>>
  BY DEF Images
<1>3. \A j \in 1 .. Len(params) :
         params[j].value \in Seq(S) /\ params[j].value \in Seq(M)
  <2>1. ASSUME NEW j \in 1 .. Len(params)
        PROVE  params[j].value \in Seq(S) /\ params[j].value \in Seq(M)
    <3>1. params[j].value \in Seq(Literals(S))
      BY DEF Fits
    <3>2. Literals(S) \subseteq S /\ Literals(S) \subseteq M
      BY DEF Literals, Literal, Others, Matches
    <3> QED BY <3>1, <3>2, SeqMonotonic
  <2> QED BY <2>1
<1>4. CASE text[i].ref /\ text[i].words = params[k].name
  <2>1. ~ Known(text[i], params, k - 1)
    BY <1>0, <1>4 DEF Known, Fits
  <2>2. Known(text[i], params, k)
    BY <1>0, <1>4 DEF Known
  <2>3. values[text[i].words] = params[k].value
    BY <1>4 DEF Fits
  <2>4. Matches(text[i], params[k].name)
    BY <1>4 DEF Fits
  <2>5. <<text[i]>> \in Seq(S)
    BY <1>1
  <2> QED BY <1>2, <1>3, <1>4, <2>1, <2>2, <2>3, <2>4, <2>5
<1>5. CASE ~ (text[i].ref /\ text[i].words = params[k].name)
  <2>1. Known(text[i], params, k - 1) <=> Known(text[i], params, k)
    BY <1>0, <1>5 DEF Known
  <2>2. old = new
    BY <1>2, <2>1
  <2>3. CASE Known(text[i], params, k)
    <3>1. PICK j \in 1 .. k : text[i].words = params[j].name
      BY <2>3 DEF Known
    <3>2. j \in 1 .. Len(params)
      BY <1>0
    <3>3. values[text[i].words] = params[j].value
      BY <3>1, <3>2 DEF Fits
    <3> QED BY <1>2, <1>3, <1>5, <2>2, <2>3, <3>2, <3>3
  <2>4. CASE ~ Known(text[i], params, k)
    <3>1. text[i] \in M
      BY <1>1, <1>5 DEF Others, Fits
    <3>2. <<text[i]>> \in Seq(S) /\ <<text[i]>> \in Seq(M)
      BY <1>1, <3>1
    <3> QED BY <1>2, <1>5, <2>2, <2>4, <3>2
  <2> QED BY <2>3, <2>4
<1> QED BY <1>4, <1>5

\* A function on the numbers up to n is a sequence.
LEMMA FunctionIsSeq ==
    ASSUME NEW X, NEW n \in Nat, NEW f \in [1 .. n -> X]
    PROVE  f \in Seq(X) /\ Len(f) = n
OBVIOUS

\* To replace the next parameter is to go on to the next stage.
LEMMA StageStep ==
    ASSUME NEW S, NEW text, NEW params, NEW values,
           Fits(S, text, params, values), NEW k \in 1 .. Len(params)
    PROVE  Replace(Stage(text, params, values, k - 1), params[k])
             = Stage(text, params, values, k)
<1> DEFINE n == Len(text)
           old == Images(text, params, values, k - 1)
           new == Images(text, params, values, k)
           M == Others(S, params[k])
           Refers(i) == text[i].ref /\ text[i].words = params[k].name
<1>1. n \in Nat /\ \A i \in 1 .. n : text[i] \in S
  BY DEF Fits
<1>2. \A i \in 1 .. n :
         /\ old[i] \in Seq(S) /\ new[i] \in Seq(S)
         /\ IF Refers(i)
            THEN /\ Matches(text[i], params[k].name)
                 /\ old[i] = <<text[i]>> /\ new[i] = params[k].value
            ELSE old[i] = new[i] /\ old[i] \in Seq(M)
  BY ImageStep
<1>3. \A i, j \in 1 .. n : Refers(i) /\ Refers(j) => i = j
  BY DEF Fits
<1>4. DOMAIN old = 1 .. n /\ DOMAIN new = 1 .. n
      /\ old = [i \in 1 .. n |-> old[i]] /\ new = [i \in 1 .. n |-> new[i]]
  BY DEF Images
<1> HIDE DEF n, old, new
<1>5. /\ old \in Seq(Seq(S)) /\ new \in Seq(Seq(S))
      /\ Len(old) = n /\ Len(new) = n
  <2>1. old \in [1 .. n -> Seq(S)] /\ new \in [1 .. n -> Seq(S)]
    BY <1>2, <1>4
  <2> QED BY <1>1, <2>1, FunctionIsSeq
<1>6. M \subseteq S /\ Seq(M) \subseteq Seq(S)
      /\ \A piece \in M : ~ Matches(piece, params[k].name)
  BY SeqMonotonic DEF Others
<1>7. params[k].value \in Seq(Literals(S))
  BY DEF Fits
<1> HIDE DEF M
<1>8. CASE \A i \in 1 .. n : ~ Refers(i)
  <2>1. \A i \in 1 .. n : old[i] = new[i] /\ old[i] \in Seq(M)
    BY <1>2, <1>8
  <2>2. old = new /\ old \in [1 .. n -> Seq(M)]
    BY <1>4, <2>1
  <2>3. old \in Seq(Seq(M))
    BY <1>1, <2>2, FunctionIsSeq
  <2>4. FlattenSeq(old) \in Seq(M)
    BY <2>3, FlattenType
  <2>5. \A i \in DOMAIN FlattenSeq(old) : FlattenSeq(old)[i] \in M
    BY <2>4
  <2>6. Replace(FlattenSeq(old), params[k]) = FlattenSeq(old)
    BY <1>6, <2>5, ReplaceNothing
  <2> QED BY <2>2, <2>6 DEF Stage, old, new
<1>9. ASSUME NEW i \in 1 .. n, Refers(i)
      PROVE  Replace(FlattenSeq(old), params[k]) = FlattenSeq(new)
  <2> DEFINE a == SubSeq(old, 1, i - 1)
             b == SubSeq(old, i + 1, n)
             c == SubSeq(new, 1, i - 1)
             d == SubSeq(new, i + 1, n)
  <2>1. \A j \in 1 .. n : j # i => old[j] = new[j] /\ old[j] \in Seq(M)
    BY <1>2, <1>3, <1>9
  <2>2. /\ Matches(text[i], params[k].name) /\ text[i].words = params[k].name
        /\ old[i] = <<text[i]>> /\ new[i] = params[k].value
    BY <1>2, <1>9
  <2>3. /\ \A j \in 1 .. i - 1 : old[j] = new[j] /\ old[j] \in Seq(M)
        /\ \A j \in i + 1 .. n : old[j] = new[j] /\ old[j] \in Seq(M)
    BY <1>1, <2>1
  <2>4. a = c /\ a \in Seq(Seq(M))
    <3>1. /\ a \in Seq(Seq(M)) /\ c \in Seq(Seq(M)) /\ Len(a) = Len(c)
          /\ \A j \in 1 .. Len(a) : a[j] = old[j] /\ c[j] = new[j] /\ j \in 1 .. i - 1
      BY <1>1, <2>3, SubSeqProperties
    <3> HIDE DEF a, c
    <3> QED BY <2>3, <3>1, SeqEqual
  <2>5. b = d /\ b \in Seq(Seq(M))
    <3>1. /\ b \in Seq(Seq(M)) /\ d \in Seq(Seq(M)) /\ Len(b) = Len(d)
          /\ \A j \in 1 .. Len(b) :
                b[j] = old[j + i] /\ d[j] = new[j + i] /\ j + i \in i + 1 .. n
      BY <1>1, <2>3, SubSeqProperties
    <3> HIDE DEF b, d
    <3>2. \A j \in 1 .. Len(b) : b[j] = d[j]
      BY <2>3, <3>1
    <3> QED BY <3>1, <3>2, SeqEqual
  <2>6. /\ FlattenSeq(old) = Joined(Joined(FlattenSeq(a), old[i]), FlattenSeq(b))
        /\ FlattenSeq(new) = Joined(Joined(FlattenSeq(c), new[i]), FlattenSeq(d))
    BY <1>5, FlattenSplit
  <2> HIDE DEF a, b, c, d
  <2>7. FlattenSeq(a) \in Seq(M) /\ FlattenSeq(b) \in Seq(M)
    BY <2>4, <2>5, FlattenType
  <2>8. FlattenSeq(a) \in Seq(S) /\ FlattenSeq(b) \in Seq(S)
        /\ \A j \in 1 .. Len(FlattenSeq(a)) :
              ~ Matches(FlattenSeq(a)[j], params[k].name)
    BY <1>6, <2>7
  <2>9. Replace(Joined(Joined(FlattenSeq(a), <<text[i]>>), FlattenSeq(b)), params[k])
          = Joined(Joined(FlattenSeq(a), params[k].value), FlattenSeq(b))
    <3>1. PICK x, y, p, param : /\ x = FlattenSeq(a) /\ y = FlattenSeq(b)
                                /\ p = text[i] /\ param = params[k]
      OBVIOUS
    <3>2. /\ x \in Seq(S) /\ y \in Seq(S) /\ p \in S
          /\ param.value \in Seq(Literals(S))
          /\ \A j \in 1 .. Len(x) : ~ Matches(x[j], param.name)
          /\ Matches(p, param.name) /\ p.words = param.name
      BY <1>1, <1>7, <2>2, <2>8, <3>1
    <3>3. Replace(Joined(Joined(x, <<p>>), y), param)
            = Joined(Joined(x, param.value), y)
      BY <3>2, ReplaceFirst
    <3> QED BY <3>1, <3>3
  <2> QED BY <2>2, <2>4, <2>5, <2>6, <2>9
<1> QED BY <1>8, <1>9 DEF Stage, old, new

\* Substitution replaces every reference to a parameter, and nothing else.
LEMMA SubstitutionIsExact ==
    ASSUME NEW S, NEW text, NEW params, NEW values,
           Fits(S, text, params, values)
    PROVE  SubstituteParams(text, params) = Expanded(text, values)
<1> DEFINE n == Len(params)
           Recurs(f) == f = [i \in 0 .. n |->
                                IF i = 0 THEN text ELSE Replace(f[i - 1], params[i])]
           after == CHOOSE f : Recurs(f)
           stage == [i \in 0 .. n |-> Stage(text, params, values, i)]
<1>1. n \in Nat /\ text \in Seq(S) /\ Len(text) \in Nat
      /\ DOMAIN text = 1 .. Len(text)
  BY DEF Fits
<1>2. Stage(text, params, values, 0) = text
  <2> DEFINE ss == Images(text, params, values, 0)
  <2>1. /\ DOMAIN ss = 1 .. Len(text)
        /\ \A i \in 1 .. Len(text) : ss[i] = <<text[i]>> /\ ss[i] \in Seq(S)
        /\ ss = [i \in 1 .. Len(text) |-> ss[i]]
    BY <1>1 DEF Images, Known
  <2> HIDE DEF ss
  <2>2. ss \in [1 .. Len(text) -> Seq(S)]
    BY <2>1
  <2>3. ss \in Seq(Seq(S)) /\ Len(ss) = Len(text)
    BY <1>1, <2>2, FunctionIsSeq
  <2>4. FlattenSeq(ss) = text
    BY <1>1, <2>1, <2>3, FlattenUnits
  <2> QED BY <2>4 DEF Stage, ss
<1>3. Stage(text, params, values, n) = Expanded(text, values)
  <2>1. \A i \in 1 .. Len(text) :
           Known(text[i], params, n) <=>
               text[i].ref /\ text[i].words \in DOMAIN values
    BY DEF Known, Fits, NamesOf
  <2>2. Images(text, params, values, n) =
           [i \in DOMAIN text |->
               IF text[i].ref /\ text[i].words \in DOMAIN values
               THEN values[text[i].words] ELSE <<text[i]>>]
    BY <1>1, <2>1 DEF Images
  <2> QED BY <2>2 DEF Stage, Expanded
<1>4. Recurs(stage)
  <2>1. \A k \in 1 .. n : Replace(Stage(text, params, values, k - 1), params[k])
                            = Stage(text, params, values, k)
    BY StageStep
  <2>2. \A k \in 1 .. n : k - 1 \in 0 .. n
    BY <1>1
  <2> QED BY <1>2, <2>1, <2>2
<1>5. Recurs(after)
  BY <1>4
<1>6. SubstituteParams(text, params) = after[n]
  BY DEF SubstituteParams
<1>s. \A k \in 0 .. n : stage[k] = Stage(text, params, values, k)
  OBVIOUS
<1> HIDE DEF after, stage
<1>7. \A k \in 0 .. n : after[k] = stage[k]
  <2>1. after[0] = stage[0]
    <3>1. after[0] = text /\ stage[0] = Stage(text, params, values, 0)
      BY <1>1, <1>5, <1>s
    <3> QED BY <1>2, <3>1
  <2>2. ASSUME NEW k \in 1 .. n, after[k - 1] = stage[k - 1]
        PROVE  after[k] = stage[k]
    <3>1. after[k] = Replace(after[k - 1], params[k])
      BY <1>1, <1>5
    <3>2. stage[k] = Replace(stage[k - 1], params[k])
      BY <1>1, <1>4
    <3> QED BY <2>2, <3>1, <3>2
  <2>3. n \in Nat
    BY <1>1
  <2> HIDE DEF n
  <2> QED BY <2>1, <2>2, <2>3, SameRecurrence, ZenonT(40)
<1>8. stage[n] = Stage(text, params, values, n) /\ n \in 0 .. n
  BY <1>1, <1>s
<1> QED BY <1>3, <1>6, <1>7, <1>8

-----------------------------------------------------------------------------
(* The parameters of a node.                                               *)

\* The parameters of the template, in their order, and the two built-in ones.
LEMMA ParamsShape ==
    ASSUME NEW template, NEW nodeConfig,
           template.params \in Seq(Range(template.params))
    PROVE  LET params == Params(template, nodeConfig)
               m == Len(template.params)
           IN /\ m \in Nat /\ params \in Seq(Range(params)) /\ Len(params) = m + 2
              /\ \A i \in 1 .. m :
                    /\ params[i].name = template.params[i].name
                    /\ params[i].value = ParamValue(template.params[i], nodeConfig)
              /\ params[m + 1] = [name |-> <<"exe">>, value |-> <<>>]
              /\ params[m + 2] = [name |-> <<"cmd">>, value |-> <<>>]
<1> DEFINE m == Len(template.params)
           own == [i \in DOMAIN template.params |->
                     [name  |-> template.params[i].name,
                      value |-> ParamValue(template.params[i], nodeConfig)]]
           S == {own[i] : i \in 1 .. m} \cup {BuiltIn[1], BuiltIn[2]}
           params == own \o BuiltIn
<1>1. m \in Nat /\ DOMAIN template.params = 1 .. m
  OBVIOUS
<1>2. DOMAIN own = 1 .. m /\ own \in [1 .. m -> S]
  BY <1>1
<1>3. \A i \in 1 .. m :
         /\ own[i].name = template.params[i].name
         /\ own[i].value = ParamValue(template.params[i], nodeConfig)
  BY <1>1
<1>4. /\ BuiltIn \in Seq(S) /\ Len(BuiltIn) = 2
      /\ BuiltIn[1] = [name |-> <<"exe">>, value |-> <<>>]
      /\ BuiltIn[2] = [name |-> <<"cmd">>, value |-> <<>>]
  BY DEF BuiltIn
<1> HIDE DEF own, S, m
<1>5. own \in Seq(S) /\ Len(own) = m
  BY <1>1, <1>2, FunctionIsSeq
<1>6. /\ params \in Seq(S) /\ Len(params) = m + 2
      /\ \A i \in 1 .. m : params[i] = own[i]
      /\ params[m + 1] = BuiltIn[1] /\ params[m + 2] = BuiltIn[2]
  <2>1. /\ params \in Seq(S) /\ Len(params) = Len(own) + Len(BuiltIn)
        /\ \A i \in 1 .. Len(own) + Len(BuiltIn) :
              params[i] = IF i <= Len(own) THEN own[i] ELSE BuiltIn[i - Len(own)]
    BY <1>4, <1>5, ConcatProperties
  <2> HIDE DEF params
  <2>2. /\ m + 1 \in 1 .. m + 2 /\ ~ (m + 1 <= m) /\ m + 1 - m = 1
        /\ m + 2 \in 1 .. m + 2 /\ ~ (m + 2 <= m) /\ m + 2 - m = 2
    BY <1>1
  <2>3. Len(own) = m /\ Len(own) + Len(BuiltIn) = m + 2
    BY <1>1, <1>4, <1>5
  <2> QED BY <1>1, <2>1, <2>2, <2>3
<1>7. params \in Seq(Range(params))
  BY <1>6, SeqOfRange
<1>8. params = Params(template, nodeConfig)
  BY DEF Params, own
<1> QED BY <1>1, <1>3, <1>4, <1>6, <1>7, <1>8 DEF m

\* The documented values are those of the parameters, if no two of them have
\* the same name.
LEMMA ValuesOfParams ==
    ASSUME NEW template, NEW nodeConfig,
           template.params \in Seq(Range(template.params)),
           Distinct(Params(template, nodeConfig))
    PROVE  LET params == Params(template, nodeConfig)
               values == Values(template, nodeConfig)
           IN /\ DOMAIN values = NamesOf(params)
              /\ \A j \in 1 .. Len(params) : values[params[j].name] = params[j].value
<1> DEFINE params == Params(template, nodeConfig)
           values == Values(template, nodeConfig)
           own == template.params
           m == Len(own)
           names == {own[i].name : i \in DOMAIN own}
           default(name) == own[CHOOSE i \in DOMAIN own : own[i].name = name].default
<1>1. /\ m \in Nat /\ params \in Seq(Range(params)) /\ Len(params) = m + 2
      /\ \A i \in 1 .. m :
            /\ params[i].name = own[i].name
            /\ params[i].value = ParamValue(own[i], nodeConfig)
      /\ params[m + 1] = [name |-> <<"exe">>, value |-> <<>>]
      /\ params[m + 2] = [name |-> <<"cmd">>, value |-> <<>>]
  BY ParamsShape
<1>2. values = [name \in names \cup {<<"exe">>, <<"cmd">>} |->
                   IF name \notin names THEN <<>>
                   ELSE IF name \in DOMAIN nodeConfig.params
                   THEN nodeConfig.params[name] ELSE default(name)]
  BY DEF Values
<1>3. DOMAIN own = 1 .. m
  OBVIOUS
<1> HIDE DEF params, values, own, m
<1>4. DOMAIN params = 1 .. m + 2
  BY <1>1
<1>5. \A i, j \in 1 .. m + 2 : params[i].name = params[j].name => i = j
  BY <1>4 DEF Distinct, params
<1>6. /\ params[m + 1].name = <<"exe">> /\ params[m + 1].value = <<>>
      /\ params[m + 2].name = <<"cmd">> /\ params[m + 2].value = <<>>
  BY <1>1
<1>7. /\ \A j \in 1 .. m + 2 : j \in 1 .. m \/ j = m + 1 \/ j = m + 2
      /\ \A j \in 1 .. m : j \in 1 .. m + 2 /\ j # m + 1 /\ j # m + 2
      /\ m + 1 \in 1 .. m + 2 /\ m + 2 \in 1 .. m + 2
  <2>1. m \in Nat
    BY <1>1
  <2> QED BY <2>1
<1>8. names = {params[j].name : j \in 1 .. m}
  BY <1>1, <1>3
<1>9. <<"exe">> \notin names /\ <<"cmd">> \notin names
  <2>1. \A j \in 1 .. m : params[j].name # params[m + 1].name
                          /\ params[j].name # params[m + 2].name
    BY <1>5, <1>7
  <2> QED BY <1>6, <1>8, <2>1
<1>10. DOMAIN values = {params[j].name : j \in 1 .. m + 2}
  <2> HIDE DEF names
  <2>1. DOMAIN values = names \cup {<<"exe">>, <<"cmd">>}
    BY <1>2
  <2> QED BY <1>6, <1>7, <1>8, <2>1
<1>11. ASSUME NEW j \in 1 .. m PROVE values[params[j].name] = params[j].value
  <2> DEFINE name == params[j].name
  <2>1. name \in names /\ name = own[j].name
    BY <1>1, <1>8
  <2>2. params[j].value = IF name \in DOMAIN nodeConfig.params
                          THEN nodeConfig.params[name] ELSE own[j].default
    BY <1>1, <2>1 DEF ParamValue
  <2>3. \A i \in DOMAIN own : own[i].name = name => i = j
    BY <1>1, <1>3, <1>5, <1>7
  <2>4. (CHOOSE i \in DOMAIN own : own[i].name = name) = j
    BY <1>3, <2>1, <2>3
  <2>5. default(name) = own[j].default
    BY <2>4
  <2> HIDE DEF name, names, default
  <2>6. values[name] = IF name \in DOMAIN nodeConfig.params
                       THEN nodeConfig.params[name] ELSE default(name)
    BY <1>2, <2>1
  <2> QED BY <2>2, <2>5, <2>6 DEF name
<1>12. values[params[m + 1].name] = <<>> /\ values[params[m + 2].name] = <<>>
  <2> HIDE DEF names
  <2> QED BY <1>2, <1>6, <1>9
<1>13. \A j \in 1 .. m + 2 : values[params[j].name] = params[j].value
  BY <1>6, <1>7, <1>11, <1>12
<1> QED BY <1>1, <1>10, <1>13 DEF params, values, NamesOf

\* A text that is fillable is filled in as documented.
LEMMA FilledAsDocumented ==
    ASSUME NEW name \in DOMAIN TemplateFile, NEW nodeConfig, NEW text,
           Distinct(Params(TemplateFile[name], nodeConfig)),
           Fillable(text, Params(TemplateFile[name], nodeConfig))
    PROVE  SubstituteParams(text, Params(TemplateFile[name], nodeConfig))
             = Expanded(text, Values(TemplateFile[name], nodeConfig))
<1> DEFINE template == TemplateFile[name]
           params == Params(template, nodeConfig)
           values == Values(template, nodeConfig)
           n == Len(params)
           S == Range(text) \cup UNION {Range(params[j].value) : j \in 1 .. n}
<1>1. template.params \in Seq(Range(template.params))
  BY TemplateAssumption
<1>2. /\ DOMAIN values = NamesOf(params)
      /\ \A j \in 1 .. n : values[params[j].name] = params[j].value
  <2>1. Distinct(Params(template, nodeConfig))
    OBVIOUS
  <2> HIDE DEF template
  <2> QED BY <1>1, <2>1, ValuesOfParams
<1>3. params \in Seq(Range(params)) /\ n \in Nat /\ DOMAIN params = 1 .. n
  BY <1>1, ParamsShape
<1>4. \A j \in 1 .. n : params[j].name \in Seq(Range(params[j].name))
  <2>1. /\ Len(template.params) \in Nat /\ n = Len(template.params) + 2
        /\ \A i \in 1 .. Len(template.params) :
              params[i].name = template.params[i].name
        /\ params[Len(template.params) + 1].name = <<"exe">>
        /\ params[Len(template.params) + 2].name = <<"cmd">>
    BY <1>1, ParamsShape
  <2>2. \A i \in 1 .. Len(template.params) :
           template.params[i].name \in Seq(Range(template.params[i].name))
    BY <1>1, TemplateAssumption
  <2>3. <<"exe">> \in Seq({"exe"}) /\ <<"cmd">> \in Seq({"cmd"})
    OBVIOUS
  <2>4. <<"exe">> \in Seq(Range(<<"exe">>)) /\ <<"cmd">> \in Seq(Range(<<"cmd">>))
    BY <2>3, SeqOfRange
  <2> HIDE DEF params, n, template
  <2>5. ASSUME NEW j \in 1 .. n PROVE params[j].name \in Seq(Range(params[j].name))
    <3>1. CASE j \in 1 .. Len(template.params)
      BY <2>1, <2>2, <3>1
    <3>2. CASE j \in {Len(template.params) + 1, Len(template.params) + 2}
      BY <2>1, <2>4, <3>2
    <3> QED BY <2>1, <3>1, <3>2
  <2> QED BY <2>5
<1> HIDE DEF params, values, n
<1>5. text \in Seq(Range(text)) /\ DOMAIN text = 1 .. Len(text)
  BY DEF Fillable
<1>6. text \in Seq(S)
  BY <1>5, SeqMonotonic
<1>7. \A j \in 1 .. n : params[j].value \in Seq(Literals(S))
  <2>1. ASSUME NEW j \in 1 .. n
        PROVE  params[j].value \in Seq(Literals(S))
    <3> DEFINE value == params[j].value
    <3>1. value \in Seq(Literals(Range(value)))
      BY <1>3 DEF Distinct, Literals, params
    <3>2. Literals(Range(value)) \subseteq Literals(S)
      BY DEF Literals
    <3> QED BY <3>1, <3>2, SeqMonotonic
  <2> QED BY <2>1
<1> HIDE DEF S
<1>8. \A j, k \in 1 .. n : params[j].name = params[k].name => j = k
  BY <1>3 DEF Distinct, params
<1>9. \A i \in 1 .. Len(text), j \in 1 .. n :
         Matches(text[i], params[j].name) <=>
             text[i].ref /\ text[i].words = params[j].name
  <2>1. \A j \in 1 .. n : Len(params[j].name) \in Nat
    BY <1>4
  <2>2. \A j \in 1 .. n : IsPrefix(params[j].name, params[j].name)
    BY <2>1 DEF IsPrefix
  <2>3. \A i \in 1 .. Len(text), j \in 1 .. n :
           text[i].ref /\ IsPrefix(params[j].name, text[i].words) =>
               params[j].name = text[i].words
    BY <1>3, <1>5 DEF Fillable, params
  <2> QED BY <2>2, <2>3 DEF Matches
<1>10. \A i, j \in 1 .. Len(text) :
          text[i].ref /\ text[j].ref /\ text[i].words = text[j].words => i = j
  BY <1>5 DEF Fillable
<1>11. Fits(S, text, params, values)
  BY <1>2, <1>3, <1>6, <1>7, <1>8, <1>9, <1>10 DEF Fits, n
<1>12. SubstituteParams(text, params) = Expanded(text, values)
  BY <1>11, SubstitutionIsExact
<1> QED BY <1>12 DEF params, values
=============================================================================
