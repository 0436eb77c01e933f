---------------------------- MODULE FilterProofs ----------------------------
(***************************************************************************)
(* The laws of the filter that the proofs about message queues need: what  *)
(* it does to appended, concatenated, tested-again and distinct sequences. *)
(* Each is shown by an induction on the sequence, stated with a set in the *)
(* place of a predicate: the numbers, or the sequences, for which a law    *)
(* holds are a set T that contains the first one and, with each one, the   *)
(* next.                                                                   *)
(***************************************************************************)
EXTENDS Filter, SequenceTheorems, WellFoundedInduction, TLAPS

\* A set of numbers that contains 0 and the successor of each of its numbers
\* contains all of them.
LEMMA Induction ==
  ASSUME NEW T, 0 \in T, \A n \in Nat : n \in T => n + 1 \in T
  PROVE  \A n \in Nat : n \in T
<1> DEFINE Others == Nat \ T
<1>1. SUFFICES ASSUME Others # {}  PROVE FALSE
  OBVIOUS
<1> DEFINE Less == {p \in Nat \X Nat : p[1] < p[2]}
<1>2. IsWellFoundedOn(Less, Nat)
  BY NatLessThanWellFounded DEF OpToRel
<1>3. \E x \in Others : \A y \in Others : ~ (<<y, x>> \in Less)
  <2> HIDE DEF Others, Less
  <2>1. Others \subseteq Nat  BY DEF Others
  <2> QED  BY <1>1, <1>2, <2>1, WFMin
<1>4. PICK x \in Others : \A y \in Others : ~ (y < x)
  BY <1>3
<1>5. x # 0 /\ x - 1 \in Nat /\ x - 1 < x /\ (x - 1) + 1 = x
  OBVIOUS
<1>6. x - 1 \in T
  BY <1>4, <1>5
<1> QED  BY <1>5, <1>6

\* One step of the recursion of Kept.
Step(f, s, S, i) ==
  IF i = 0 THEN <<>>
  ELSE IF s[i] \in S THEN Append(f[i - 1], s[i])
  ELSE f[i - 1]

\* The recursion that defines Kept has a solution up to every length.
LEMMA KeptExists ==
  ASSUME NEW s, NEW S
  PROVE  \A n \in Nat : \E f : f = [i \in 0..n |-> Step(f, s, S, i)]
<1> DEFINE T == {n \in Nat : \E f : f = [i \in 0..n |-> Step(f, s, S, i)]}
<1>1. 0 \in T
  <2> DEFINE f == [i \in 0..0 |-> <<>>]
  <2>1. f = [i \in 0..0 |-> Step(f, s, S, i)]  BY DEF Step
  <2> QED  BY <2>1
<1>2. ASSUME NEW n \in Nat, n \in T  PROVE n + 1 \in T
  <2>1. PICK f : f = [i \in 0..n |-> Step(f, s, S, i)]  BY <1>2
  <2> DEFINE g == [i \in 0..(n + 1) |-> IF i <= n THEN f[i] ELSE Step(f, s, S, i)]
  <2>2. ASSUME NEW i \in 0..(n + 1)  PROVE g[i] = Step(g, s, S, i)
    <3>1. i # 0 => g[i - 1] = f[i - 1]  OBVIOUS
    <3>2. Step(g, s, S, i) = Step(f, s, S, i)  BY <3>1 DEF Step
    <3>3. i <= n => f[i] = Step(f, s, S, i)
      <4>1. CASE i <= n
        <5>1. i \in 0..n BY <4>1
        <5> QED BY <5>1, <2>1
      <4> QED BY <4>1
    <3> QED  BY <3>2, <3>3
  <2>3. g = [i \in 0..(n + 1) |-> Step(g, s, S, i)]  BY <2>2
  <2> HIDE DEF g
  <2> QED  BY <2>3
<1> HIDE DEF T
<1>3. \A n \in Nat : n \in T  BY <1>1, <1>2, Induction
<1> QED  BY <1>3 DEF T

\* So Kept satisfies its defining equation.
LEMMA KeptEquation ==
  ASSUME NEW s, NEW S, Len(s) \in Nat
  PROVE  Kept(s, S) = [i \in 0..Len(s) |-> Step(Kept(s, S), s, S, i)]
<1>1. \E f : f = [i \in 0..Len(s) |-> Step(f, s, S, i)]
  BY KeptExists
<1> QED  BY <1>1 DEF Kept, Step

\* A set of sequences that contains the empty one and, with each, all that are
\* longer by one element contains all sequences.
LEMMA SeqInduction ==
  ASSUME NEW X, NEW T, <<>> \in T,
         \A s \in Seq(X), x \in X : s \in T => Append(s, x) \in T
  PROVE  \A s \in Seq(X) : s \in T
<1> DEFINE P == {n \in Nat : \A s \in Seq(X) : Len(s) = n => s \in T}
<1>1. 0 \in P
  <2>1. \A s \in Seq(X) : Len(s) = 0 => s = <<>>  OBVIOUS
  <2> QED  BY <2>1
<1>2. ASSUME NEW n \in Nat, n \in P  PROVE n + 1 \in P
  <2> SUFFICES ASSUME NEW s \in Seq(X), Len(s) = n + 1  PROVE s \in T
    OBVIOUS
  <2>1. s # <<>>  OBVIOUS
  <2>2. PICK u \in Seq(X), x \in X : s = Append(u, x)
    BY <2>1, SequenceEmptyOrAppend
  <2>3. Len(u) = n  BY <2>2
  <2> QED  BY <1>2, <2>2, <2>3
<1> HIDE DEF P
<1>3. \A n \in Nat : n \in P  BY <1>1, <1>2, Induction
<1> QED  BY <1>3 DEF P

\* The prefixes of a sequence are filtered alike when it grows.
LEMMA KeptPrefix ==
  ASSUME NEW X, NEW S, NEW s \in Seq(X), NEW x \in X
  PROVE  \A i \in 0..Len(s) : Kept(Append(s, x), S)[i] = Kept(s, S)[i]
<1> DEFINE t == Append(s, x)
           T == {i \in Nat : i <= Len(s) => Kept(t, S)[i] = Kept(s, S)[i]}
<1>1. t \in Seq(X) /\ Len(t) = Len(s) + 1 /\ \A i \in 1..Len(s) : t[i] = s[i]
  OBVIOUS
<1> HIDE DEF t
<1>2. /\ Kept(s, S) = [i \in 0..Len(s) |-> Step(Kept(s, S), s, S, i)]
      /\ Kept(t, S) = [i \in 0..Len(t) |-> Step(Kept(t, S), t, S, i)]
  BY <1>1, KeptEquation
<1>3. 0 \in T
  BY <1>1, <1>2 DEF Step
<1>4. ASSUME NEW i \in Nat, i \in T  PROVE i + 1 \in T
  <2> SUFFICES ASSUME i + 1 <= Len(s)
               PROVE  Kept(t, S)[i + 1] = Kept(s, S)[i + 1]
    OBVIOUS
  <2>1. Kept(t, S)[i] = Kept(s, S)[i]  BY <1>4
  <2>2. i + 1 \in 0..Len(s) /\ i + 1 \in 0..Len(t) /\ i + 1 \in 1..Len(s)
        /\ i + 1 # 0 /\ (i + 1) - 1 = i
    BY <1>1
  <2>3. /\ Kept(s, S)[i + 1] = Step(Kept(s, S), s, S, i + 1)
        /\ Kept(t, S)[i + 1] = Step(Kept(t, S), t, S, i + 1)
    BY <1>2, <2>2
  <2> QED  BY <1>1, <2>1, <2>2, <2>3 DEF Step
<1> HIDE DEF T
<1>5. \A i \in Nat : i \in T  BY <1>3, <1>4, Induction
<1> QED  BY <1>5 DEF T, t

\* Nothing remains of nothing.
LEMMA OnlyEmpty == ASSUME NEW S  PROVE Only(<<>>, S) = <<>>
<1>1. Len(<<>>) = 0  OBVIOUS
<1>2. Kept(<<>>, S) = [i \in 0..0 |-> Step(Kept(<<>>, S), <<>>, S, i)]
  BY <1>1, KeptEquation
<1> QED  BY <1>1, <1>2 DEF Only, Step

\* A further element is kept at the end, or dropped.
LEMMA OnlyAppend ==
  ASSUME NEW X, NEW S, NEW s \in Seq(X), NEW x \in X
  PROVE  Only(Append(s, x), S) = IF x \in S THEN Append(Only(s, S), x) ELSE Only(s, S)
<1> DEFINE t == Append(s, x)
<1>1. t \in Seq(X) /\ Len(t) = Len(s) + 1 /\ Len(s) \in Nat /\ t[Len(s) + 1] = x
  OBVIOUS
<1>2. Kept(t, S)[Len(s)] = Only(s, S)
  BY <1>1, KeptPrefix DEF Only
<1> HIDE DEF t
<1>3. Kept(t, S)[Len(s) + 1] = Step(Kept(t, S), t, S, Len(s) + 1)
  <2>1. Kept(t, S) = [i \in 0..Len(t) |-> Step(Kept(t, S), t, S, i)]
    BY <1>1, KeptEquation
  <2>2. Len(s) + 1 \in 0..Len(t)  BY <1>1
  <2> QED  BY <2>1, <2>2
<1>4. Only(t, S) = Step(Kept(t, S), t, S, Len(s) + 1)
  BY <1>1, <1>3 DEF Only
<1>5. Len(s) + 1 # 0 /\ (Len(s) + 1) - 1 = Len(s)
  BY <1>1
<1> QED  BY <1>1, <1>2, <1>4, <1>5 DEF Step, t

\* What is kept has the type of the elements that can be kept.
LEMMA OnlyType ==
  ASSUME NEW X, NEW S, NEW Y, \A x \in X : x \in S => x \in Y,
         NEW s \in Seq(X)
  PROVE  Only(s, S) \in Seq(Y)
<1> DEFINE T == {t \in Seq(X) : Only(t, S) \in Seq(Y)}
<1>1. <<>> \in T
  <2>1. <<>> \in Seq(X) /\ <<>> \in Seq(Y) OBVIOUS
  <2> QED BY <2>1, OnlyEmpty
<1>2. ASSUME NEW t \in Seq(X), NEW x \in X, t \in T  PROVE Append(t, x) \in T
  <2>1. Only(Append(t, x), S) = IF x \in S THEN Append(Only(t, S), x) ELSE Only(t, S)
    BY OnlyAppend
  <2>2. Only(t, S) \in Seq(Y) /\ Append(t, x) \in Seq(X)  BY <1>2
  <2>3. x \in S => Append(Only(t, S), x) \in Seq(Y)  BY <2>2
  <2> QED  BY <2>1, <2>2, <2>3
<1> HIDE DEF T
<1>3. \A t \in Seq(X) : t \in T  BY <1>1, <1>2, SeqInduction
<1> QED  BY <1>3 DEF T

\* Concatenation and Append commute.
LEMMA ConcatAppend ==
  ASSUME NEW X, NEW s \in Seq(X), NEW t \in Seq(X), NEW x \in X
  PROVE  s \o Append(t, x) = Append(s \o t, x)
OBVIOUS

\* A concatenation is filtered part by part.
LEMMA OnlyConcat ==
  ASSUME NEW X, NEW S, NEW s \in Seq(X), NEW t \in Seq(X)
  PROVE  Only(s \o t, S) = Only(s, S) \o Only(t, S)
<1> DEFINE T == {u \in Seq(X) : Only(s \o u, S) = Only(s, S) \o Only(u, S)}
<1>1. <<>> \in T
  <2>1. Only(s, S) \in Seq(X \cap S)  BY OnlyType
  <2> QED  BY <2>1, OnlyEmpty
<1>2. ASSUME NEW u \in Seq(X), NEW x \in X, u \in T  PROVE Append(u, x) \in T
  <2> DEFINE v == s \o u
  <2>1. v \in Seq(X) /\ Append(u, x) \in Seq(X)
    OBVIOUS
  <2>2. s \o Append(u, x) = Append(v, x)
    BY ConcatAppend
  <2>3. Only(v, S) = Only(s, S) \o Only(u, S)  BY <1>2
  <2> HIDE DEF v
  <2>4. Only(Append(v, x), S) = IF x \in S THEN Append(Only(v, S), x) ELSE Only(v, S)
    BY <2>1, OnlyAppend
  <2>5. Only(Append(u, x), S) = IF x \in S THEN Append(Only(u, S), x) ELSE Only(u, S)
    BY OnlyAppend
  <2>6. Only(s, S) \in Seq(X) /\ Only(u, S) \in Seq(X)  BY OnlyType
  <2>7. Only(s, S) \o Append(Only(u, S), x) = Append(Only(s, S) \o Only(u, S), x)
    <3>1. ASSUME NEW a \in Seq(X), NEW b \in Seq(X)
          PROVE  a \o Append(b, x) = Append(a \o b, x)
      BY ConcatAppend
    <3> QED  BY <2>6, <3>1
  <2>8. Only(Append(v, x), S) = Only(s, S) \o Only(Append(u, x), S)
    BY <2>3, <2>4, <2>5, <2>7
  <2> QED  BY <2>1, <2>8, <2>2
<1> HIDE DEF T
<1>3. \A u \in Seq(X) : u \in T  BY <1>1, <1>2, SeqInduction
<1> QED  BY <1>3 DEF T

\* One element is kept or dropped.
LEMMA OnlyOne ==
  ASSUME NEW S, NEW x
  PROVE  Only(<<x>>, S) = IF x \in S THEN <<x>> ELSE <<>>
<1>1. <<x>> = Append(<<>>, x) /\ <<>> \in Seq({x}) /\ x \in {x}  OBVIOUS
<1>2. Only(Append(<<>>, x), S) = IF x \in S THEN Append(Only(<<>>, S), x) ELSE Only(<<>>, S)
  BY <1>1, OnlyAppend
<1> QED  BY <1>1, <1>2, OnlyEmpty

\* The first element is kept or dropped, and the rest is filtered.
LEMMA OnlyHeadTail ==
  ASSUME NEW X, NEW S, NEW s \in Seq(X), s # <<>>
  PROVE  Only(s, S) = IF Head(s) \in S THEN <<Head(s)>> \o Only(Tail(s), S) ELSE Only(Tail(s), S)
<1>1. s = <<Head(s)>> \o Tail(s) /\ Tail(s) \in Seq(X) /\ <<Head(s)>> \in Seq(X)
  OBVIOUS
<1>2. Only(s, S) = Only(<<Head(s)>>, S) \o Only(Tail(s), S)
  BY <1>1, OnlyConcat
<1>3. Only(Tail(s), S) \in Seq(X)  BY <1>1, OnlyType
<1>4. Only(<<Head(s)>>, S) = IF Head(s) \in S THEN <<Head(s)>> ELSE <<>>
  BY OnlyOne
<1>5. <<>> \o Only(Tail(s), S) = Only(Tail(s), S)
  BY <1>3
<1> QED  BY <1>2, <1>4, <1>5

\* Sets that agree on the elements of a sequence filter it alike.
LEMMA OnlySame ==
  ASSUME NEW X, NEW S, NEW U, NEW s \in Seq(X),
         \A i \in 1..Len(s) : s[i] \in S <=> s[i] \in U
  PROVE  Only(s, S) = Only(s, U)
<1> DEFINE Agree(t) == \A i \in 1..Len(t) : t[i] \in S <=> t[i] \in U
           T == {t \in Seq(X) : Agree(t) => Only(t, S) = Only(t, U)}
<1>1. <<>> \in T  BY OnlyEmpty
<1>2. ASSUME NEW t \in Seq(X), NEW x \in X, t \in T  PROVE Append(t, x) \in T
  <2>1. Append(t, x) \in Seq(X)  OBVIOUS
  <2> SUFFICES ASSUME Agree(Append(t, x))
               PROVE  Only(Append(t, x), S) = Only(Append(t, x), U)
    BY <2>1
  <2>2. /\ Append(t, x) \in Seq(X) /\ Len(Append(t, x)) = Len(t) + 1
        /\ Append(t, x)[Len(t) + 1] = x /\ Len(t) + 1 \in 1..(Len(t) + 1)
        /\ \A i \in 1..Len(t) : Append(t, x)[i] = t[i] /\ i \in 1..(Len(t) + 1)
    OBVIOUS
  <2>3. (x \in S <=> x \in U) /\ Agree(t)  BY <2>2
  <2>4. Only(t, S) = Only(t, U)  BY <1>2, <2>3
  <2>5. Only(Append(t, x), S) = IF x \in S THEN Append(Only(t, S), x) ELSE Only(t, S)
    BY OnlyAppend
  <2>6. Only(Append(t, x), U) = IF x \in U THEN Append(Only(t, U), x) ELSE Only(t, U)
    BY OnlyAppend
  <2> QED  BY <2>3, <2>4, <2>5, <2>6
<1> HIDE DEF T
<1>3. \A t \in Seq(X) : t \in T  BY <1>1, <1>2, SeqInduction
<1> QED  BY <1>3 DEF T

\* Filtering twice is filtering by both sets.
LEMMA OnlyTwice ==
  ASSUME NEW X, NEW S, NEW U, NEW V, NEW s \in Seq(X),
         \A x \in X : x \in V <=> x \in S /\ x \in U
  PROVE  Only(Only(s, S), U) = Only(s, V)
<1> DEFINE T == {t \in Seq(X) : Only(Only(t, S), U) = Only(t, V)}
<1>1. <<>> \in T  BY OnlyEmpty
<1>2. ASSUME NEW t \in Seq(X), NEW x \in X, t \in T  PROVE Append(t, x) \in T
  <2>1. Only(t, S) \in Seq(X)  BY OnlyType
  <2>2. /\ Only(Append(t, x), S) = IF x \in S THEN Append(Only(t, S), x) ELSE Only(t, S)
        /\ Only(Append(t, x), V)
             = IF x \in V THEN Append(Only(t, V), x) ELSE Only(t, V)
    BY OnlyAppend
  <2>3. x \in S => Only(Append(Only(t, S), x), U)
               = IF x \in U THEN Append(Only(Only(t, S), U), x) ELSE Only(Only(t, S), U)
    BY <2>1, OnlyAppend
  <2>4. Append(t, x) \in Seq(X) /\ Only(Only(t, S), U) = Only(t, V)
    BY <1>2
  <2>5. Only(Only(Append(t, x), S), U) = Only(Append(t, x), V)
    <3>1. CASE x \in S /\ x \in U  BY <2>2, <2>3, <2>4, <3>1
    <3>2. CASE x \in S /\ x \notin U  BY <2>2, <2>3, <2>4, <3>2
    <3>3. CASE x \notin S  BY <2>2, <2>4, <3>3
    <3> QED  BY <3>1, <3>2, <3>3
  <2> QED  BY <2>4, <2>5
<1> HIDE DEF T
<1>3. \A t \in Seq(X) : t \in T  BY <1>1, <1>2, SeqInduction
<1> QED  BY <1>3 DEF T

\* A sequence whose elements are all in the set stays as it is.
LEMMA OnlyAll ==
  ASSUME NEW X, NEW S, NEW s \in Seq(X), \A i \in 1..Len(s) : s[i] \in S
  PROVE  Only(s, S) = s
<1> DEFINE T == {t \in Seq(X) : Only(t, X) = t}
<1>1. <<>> \in T
  <2>1. <<>> \in Seq(X)  OBVIOUS
  <2> QED  BY <2>1, OnlyEmpty
<1>2. ASSUME NEW t \in Seq(X), NEW x \in X, t \in T  PROVE Append(t, x) \in T
  <2>1. Append(t, x) \in Seq(X)  OBVIOUS
  <2>2. Only(Append(t, x), X) = Append(t, x)  BY <1>2, OnlyAppend
  <2> QED  BY <2>1, <2>2
<1> HIDE DEF T
<1>3. \A t \in Seq(X) : t \in T  BY <1>1, <1>2, SeqInduction
<1>4. Only(s, X) = s  BY <1>3 DEF T
<1>5. \A i \in 1..Len(s) : s[i] \in S <=> s[i] \in X  OBVIOUS
<1>6. Only(s, S) = Only(s, X)  BY <1>5, OnlySame
<1> QED  BY <1>4, <1>6

\* A sequence with no element in the set leaves nothing.
LEMMA OnlyNone ==
  ASSUME NEW X, NEW S, NEW s \in Seq(X), \A i \in 1..Len(s) : s[i] \notin S
  PROVE  Only(s, S) = <<>>
<1>1. Only(s, S) = Only(s, {})  BY OnlySame
<1>2. Only(s, {}) \in Seq(X \cap {})  BY OnlyType
<1>3. X \cap {} = {}  OBVIOUS
<1>4. Only(s, {}) \in Seq({})  BY <1>2, <1>3
<1> QED  BY <1>1, <1>4

\* What is kept was there.
LEMMA OnlyElements ==
  ASSUME NEW X, NEW S, NEW s \in Seq(X)
  PROVE  \A i \in 1..Len(Only(s, S)) : \E j \in 1..Len(s) : Only(s, S)[i] = s[j]
<1> DEFINE R == {s[j] : j \in 1..Len(s)}
<1>1. s \in Seq(R)
  <2>1. s \in [1..Len(s) -> R] /\ Len(s) \in Nat OBVIOUS
  <2> HIDE DEF R
  <2> QED  BY <2>1
<1> HIDE DEF R
<1>2. Only(s, S) \in Seq(R \cap S)  BY <1>1, OnlyType
<1>3. \A i \in 1..Len(Only(s, S)) : Only(s, S)[i] \in R  BY <1>2
<1> QED  BY <1>3 DEF R

\* Distinct elements stay distinct.
LEMMA OnlyDistinct ==
  ASSUME NEW X, NEW S, NEW s \in Seq(X),
         \A i, j \in 1..Len(s) : s[i] = s[j] => i = j
  PROVE  \A i, j \in 1..Len(Only(s, S)) : Only(s, S)[i] = Only(s, S)[j] => i = j
<1> DEFINE D(t) == \A i, j \in 1..Len(t) : t[i] = t[j] => i = j
           T == {t \in Seq(X) : D(t) => D(Only(t, S))}
<1>1. <<>> \in T  BY OnlyEmpty
<1>2. ASSUME NEW t \in Seq(X), NEW x \in X, t \in T  PROVE Append(t, x) \in T
  <2>1. Append(t, x) \in Seq(X)  OBVIOUS
  <2> SUFFICES ASSUME D(Append(t, x))  PROVE D(Only(Append(t, x), S))
    BY <2>1
  <2> DEFINE k == Only(t, S)
  <2>2. D(t) /\ \A j \in 1..Len(t) : t[j] # x
    <3>1. /\ Append(t, x) \in Seq(X) /\ Len(Append(t, x)) = Len(t) + 1
          /\ Append(t, x)[Len(t) + 1] = x /\ Len(t) + 1 \in 1..(Len(t) + 1)
          /\ \A i \in 1..Len(t) : Append(t, x)[i] = t[i] /\ i \in 1..(Len(t) + 1) /\ i # Len(t) + 1
      OBVIOUS
    <3> QED  BY <3>1
  <2>3. D(k) /\ k \in Seq(X)  BY <1>2, <2>2, OnlyType
  <2>4. \A i \in 1..Len(k) : k[i] # x
    BY <2>2, OnlyElements
  <2>5. Only(Append(t, x), S) = IF x \in S THEN Append(k, x) ELSE k
    BY OnlyAppend
  <2> HIDE DEF k
  <2>6. D(Append(k, x))
    <3>1. k \in Seq(X)  BY <2>3
    <3>2. /\ Len(Append(k, x)) = Len(k) + 1 /\ Len(k) \in Nat
          /\ Append(k, x)[Len(k) + 1] = x
          /\ \A i \in 1..Len(k) : Append(k, x)[i] = k[i]
          /\ \A i \in 1..(Len(k) + 1) : i \in 1..Len(k) \/ i = Len(k) + 1
      BY <3>1
    <3> QED  BY <2>3, <2>4, <3>2
  <2> QED  BY <2>3, <2>5, <2>6
<1> HIDE DEF T
<1>3. \A t \in Seq(X) : t \in T  BY <1>1, <1>2, SeqInduction
<1> QED  BY <1>3 DEF T

\* What the kept messages carry has its type.
LEMMA BodiesType ==
  ASSUME NEW X, NEW S, NEW Y, \A x \in X : x \in S => x.body \in Y,
         NEW s \in Seq(X)
  PROVE  Bodies(s, S) \in Seq(Y)
<1> DEFINE Z == {x \in X : x \in S}
           k == Only(s, S)
<1>1. k \in Seq(Z)
  <2>1. \A x \in X : x \in S => x \in Z  OBVIOUS
  <2> HIDE DEF Z
  <2> QED  BY <2>1, OnlyType
<1> HIDE DEF k
<1>2. \A i \in 1..Len(k) : k[i] \in Z  BY <1>1
<1>3. \A i \in 1..Len(k) : k[i].body \in Y  BY <1>2
<1>4. Len(k) \in Nat  BY <1>1
<1>5. [i \in 1..Len(k) |-> k[i].body] \in Seq(Y)
  BY <1>3, <1>4
<1> QED  BY <1>5 DEF Bodies, k

\* No messages carry nothing.
LEMMA BodiesEmpty == ASSUME NEW S  PROVE Bodies(<<>>, S) = <<>>
<1>1. Len(<<>>) = 0  OBVIOUS
<1>2. Bodies(<<>>, S) = [i \in 1..0 |-> <<>>[i].body]
  BY <1>1, OnlyEmpty DEF Bodies
<1> QED  BY <1>2

\* The contents of a concatenation are those of its parts.
LEMMA BodiesConcat ==
  ASSUME NEW X, NEW S, NEW s \in Seq(X), NEW t \in Seq(X)
  PROVE  Bodies(s \o t, S) = Bodies(s, S) \o Bodies(t, S)
<1> DEFINE k == Only(s, S)
           l == Only(t, S)
           Y == {x.body : x \in X}
<1>1. \A x \in X : x \in S => x.body \in Y  OBVIOUS
<1> HIDE DEF Y
<1>2. k \in Seq(X) /\ l \in Seq(X)  BY OnlyType
<1>3. Only(s \o t, S) = k \o l  BY OnlyConcat
<1>4. Bodies(s, S) \in Seq(Y) /\ Bodies(t, S) \in Seq(Y)  BY <1>1, BodiesType
<1>5. /\ Bodies(s, S) = [i \in 1..Len(k) |-> k[i].body]
      /\ Bodies(t, S) = [i \in 1..Len(l) |-> l[i].body]
      /\ Bodies(s \o t, S) = [i \in 1..Len(k \o l) |-> (k \o l)[i].body]
  BY <1>3 DEF Bodies
<1>6. s \o t \in Seq(X)  OBVIOUS
<1>7. Bodies(s \o t, S) \in Seq(Y)  BY <1>1, <1>6, BodiesType
<1> HIDE DEF k, l
<1> DEFINE b == Bodies(s, S)
           c == Bodies(t, S)
           d == Bodies(s \o t, S)
<1>8. /\ Len(k) \in Nat /\ Len(l) \in Nat
      /\ Len(b) = Len(k) /\ Len(c) = Len(l) /\ Len(d) = Len(k) + Len(l)
      /\ Len(k \o l) = Len(k) + Len(l)
  BY <1>2, <1>5
<1>9. ASSUME NEW i \in 1..(Len(k) + Len(l))  PROVE d[i] = (b \o c)[i]
  <2>1. (k \o l)[i] = IF i <= Len(k) THEN k[i] ELSE l[i - Len(k)]
    BY <1>2
  <2>2. (b \o c)[i] = IF i <= Len(k) THEN b[i] ELSE c[i - Len(k)]
    BY <1>4, <1>8
  <2>3. d[i] = (k \o l)[i].body  BY <1>5, <1>8
  <2>4. i <= Len(k) => b[i] = k[i].body  BY <1>5, <1>8
  <2>5. i > Len(k) => c[i - Len(k)] = l[i - Len(k)].body  BY <1>5, <1>8
  <2> QED  BY <1>8, <2>1, <2>2, <2>3, <2>4, <2>5
<1> HIDE DEF b, c, d
<1>10. b \in Seq(Y) /\ c \in Seq(Y) /\ d \in Seq(Y)  BY <1>4, <1>7 DEF b, c, d
<1>11. b \o c \in Seq(Y) /\ Len(b \o c) = Len(b) + Len(c)  BY <1>10
<1>12. d = b \o c  BY <1>8, <1>9, <1>10, <1>11, SeqEqual
<1> QED  BY <1>12 DEF b, c, d

\* What one message carries, if it is of the kind.
LEMMA BodiesOne ==
  ASSUME NEW S, NEW x
  PROVE  Bodies(<<x>>, S) = IF x \in S THEN <<x.body>> ELSE <<>>
<1>1. Only(<<x>>, S) = IF x \in S THEN <<x>> ELSE <<>>  BY OnlyOne
<1>2. CASE x \in S
  <2>1. Bodies(<<x>>, S) = [i \in 1..Len(<<x>>) |-> <<x>>[i].body]
    BY <1>1, <1>2 DEF Bodies
  <2>2. Len(<<x>>) = 1 /\ <<x>>[1] = x  OBVIOUS
  <2> QED  BY <1>2, <2>1, <2>2
<1>3. CASE x \notin S
  <2>1. Bodies(<<x>>, S) = [i \in 1..Len(<<>>) |-> <<>>[i].body]
    BY <1>1, <1>3 DEF Bodies
  <2>2. Len(<<>>) = 0  OBVIOUS
  <2> QED  BY <1>3, <2>1, <2>2
<1> QED  BY <1>2, <1>3

\* A message that arrives adds what it carries, if it is of the kind.
LEMMA BodiesAppend ==
  ASSUME NEW X, NEW S, NEW s \in Seq(X), NEW x \in X
  PROVE  Bodies(Append(s, x), S) = IF x \in S THEN Append(Bodies(s, S), x.body) ELSE Bodies(s, S)
<1> DEFINE Y == {y.body : y \in X}
<1>1. x.body \in Y /\ \A y \in X : y \in S => y.body \in Y  OBVIOUS
<1> HIDE DEF Y
<1>2. Append(s, x) = s \o <<x>> /\ <<x>> \in Seq(X)  OBVIOUS
<1>3. Bodies(Append(s, x), S) = Bodies(s, S) \o Bodies(<<x>>, S)
  BY <1>2, BodiesConcat
<1>4. Bodies(s, S) \in Seq(Y)  BY <1>1, BodiesType
<1>5. Bodies(<<x>>, S) = IF x \in S THEN <<x.body>> ELSE <<>>  BY BodiesOne
<1>6. Bodies(s, S) \o <<x.body>> = Append(Bodies(s, S), x.body)
  BY <1>1, <1>4, AppendIsConcat
<1>7. Bodies(s, S) \o <<>> = Bodies(s, S)  BY <1>4
<1> QED  BY <1>3, <1>5, <1>6, <1>7

\* A message that is handled takes away what it carries, if it is of the kind.
LEMMA BodiesHeadTail ==
  ASSUME NEW X, NEW S, NEW s \in Seq(X), s # <<>>
  PROVE  Bodies(s, S) = IF Head(s) \in S THEN <<Head(s).body>> \o Bodies(Tail(s), S)
                        ELSE Bodies(Tail(s), S)
<1> DEFINE Y == {y.body : y \in X}
<1>1. \A y \in X : y \in S => y.body \in Y  OBVIOUS
<1> HIDE DEF Y
<1>2. s = <<Head(s)>> \o Tail(s) /\ Tail(s) \in Seq(X) /\ <<Head(s)>> \in Seq(X)
  OBVIOUS
<1>3. Bodies(s, S) = Bodies(<<Head(s)>>, S) \o Bodies(Tail(s), S)
  BY <1>2, BodiesConcat
<1>4. Bodies(Tail(s), S) \in Seq(Y)  BY <1>1, <1>2, BodiesType
<1>5. Bodies(<<Head(s)>>, S) = IF Head(s) \in S THEN <<Head(s).body>> ELSE <<>>
  BY BodiesOne
<1>6. <<>> \o Bodies(Tail(s), S) = Bodies(Tail(s), S)  BY <1>4
<1> QED  BY <1>3, <1>5, <1>6

\* The elements of a sequence.
Elements(s) == {s[i] : i \in 1..Len(s)}

\* No element occurs twice.
Distinct(s) == \A i, j \in 1..Len(s) : s[i] = s[j] => i = j

\* The concatenation, as an operator that a proof need not expand.
Join(s, t) == s \o t

\* Elements that leave the set leave their places, and nothing else moves.
LEMMA OnlyDrop ==
  ASSUME NEW X, NEW s \in Seq(X), Distinct(s), NEW K, NEW M,
         NEW a \in Seq(X), NEW b \in Seq(X), NEW c \in Seq(X),
         Only(s, K) = Join(Join(a, b), c),
         \A x \in X : x \in M <=> x \in K /\ x \notin Elements(b)
  PROVE  Only(s, M) = Join(a, c)
<1> DEFINE l == (a \o b) \o c
<1>1. /\ l \in Seq(X) /\ Len(a) \in Nat /\ Len(b) \in Nat /\ Len(c) \in Nat
      /\ Len(l) = Len(a) + Len(b) + Len(c)
      /\ \A i \in 1..Len(a) : l[i] = a[i]
      /\ \A i \in 1..Len(b) : l[Len(a) + i] = b[i]
      /\ \A i \in 1..Len(c) : l[Len(a) + Len(b) + i] = c[i]
  OBVIOUS
<1>2. l = Only(s, K)  BY DEF Join
<1>3. Only(s, M) = Only(l, M)
  <2>1. \A x \in X : x \in M <=> x \in K /\ x \in M  OBVIOUS
  <2>2. Only(Only(s, K), M) = Only(s, M)  BY <2>1, OnlyTwice
  <2> QED  BY <1>2, <2>2
<1>4. Only(l, M) = (Only(a, M) \o Only(b, M)) \o Only(c, M)
  <2>1. a \o b \in Seq(X)  OBVIOUS
  <2>2. Only(l, M) = Only(a \o b, M) \o Only(c, M)  BY <2>1, OnlyConcat
  <2>3. Only(a \o b, M) = Only(a, M) \o Only(b, M)  BY OnlyConcat
  <2> QED  BY <2>2, <2>3
<1>5. Only(b, M) = <<>>
  <2>1. \A i \in 1..Len(b) : b[i] \notin M  BY DEF Elements
  <2> QED  BY <2>1, OnlyNone
<1>6. Distinct(l)
  BY <1>2, OnlyDistinct DEF Distinct
<1>7. \A i \in 1..Len(l) : l[i] \in X /\ l[i] \in K
  <2>1. \A x \in X : x \in K => x \in K  OBVIOUS
  <2>2. Only(s, K) \in Seq(K)  BY <2>1, OnlyType
  <2>3. l \in Seq(K)  BY <1>2, <2>2
  <2> HIDE DEF l
  <2>4. \A i \in 1..Len(l) : l[i] \in K  BY <2>3
  <2> QED  BY <1>1, <2>4
<1> HIDE DEF l
<1>8. \A i \in 1..Len(a) : a[i] \in M
  <2> SUFFICES ASSUME NEW i \in 1..Len(a), a[i] \in Elements(b)  PROVE FALSE
    <3>1. \A i \in 1..Len(a) : a[i] \in X /\ a[i] \in K
      BY <1>1, <1>7
    <3> QED  BY <3>1
  <2>1. PICK j \in 1..Len(b) : a[i] = b[j]  BY DEF Elements
  <2>2. i \in 1..Len(l) /\ Len(a) + j \in 1..Len(l) /\ i # Len(a) + j
    BY <1>1
  <2> QED  BY <1>1, <1>6, <2>1, <2>2 DEF Distinct
<1>9. \A i \in 1..Len(c) : c[i] \in M
  <2> SUFFICES ASSUME NEW i \in 1..Len(c), c[i] \in Elements(b)  PROVE FALSE
    <3>1. \A i \in 1..Len(c) : Len(a) + Len(b) + i \in 1..Len(l)
      BY <1>1
    <3>2. \A i \in 1..Len(c) : c[i] \in X /\ c[i] \in K
      BY <1>1, <1>7, <3>1
    <3> QED  BY <3>2
  <2>1. PICK j \in 1..Len(b) : c[i] = b[j]  BY DEF Elements
  <2>2. Len(a) + Len(b) + i \in 1..Len(l) /\ Len(a) + j \in 1..Len(l)
        /\ Len(a) + Len(b) + i # Len(a) + j
    BY <1>1
  <2> QED  BY <1>1, <1>6, <2>1, <2>2 DEF Distinct
<1>10. Only(a, M) = a /\ Only(c, M) = c
  BY <1>8, <1>9, OnlyAll
<1>11. (a \o <<>>) \o c = a \o c  OBVIOUS
<1> QED  BY <1>3, <1>4, <1>5, <1>10, <1>11 DEF Join

\* The elements of a concatenation are those of its parts.
LEMMA ElementsConcat ==
  ASSUME NEW X, NEW s \in Seq(X), NEW t \in Seq(X)
  PROVE  Elements(Join(s, t)) = Elements(s) \cup Elements(t)
<1> USE DEF Join
<1>1. /\ Len(s) \in Nat /\ Len(t) \in Nat /\ Len(s \o t) = Len(s) + Len(t)
      /\ \A i \in 1..Len(s) : (s \o t)[i] = s[i] /\ i \in 1..(Len(s) + Len(t))
      /\ \A i \in 1..Len(t) : (s \o t)[Len(s) + i] = t[i] /\ Len(s) + i \in 1..(Len(s) + Len(t))
  OBVIOUS
<1>2. ASSUME NEW i \in 1..(Len(s) + Len(t))
      PROVE  i \in 1..Len(s) \/ \E j \in 1..Len(t) : i = Len(s) + j
  <2>1. CASE i <= Len(s)  BY <1>1, <2>1
  <2>2. CASE i > Len(s)
    <3>1. i - Len(s) \in 1..Len(t) /\ i = Len(s) + (i - Len(s))  BY <1>1, <2>2
    <3> QED  BY <3>1
  <2> QED  BY <1>1, <2>1, <2>2
<1>3. Elements(s \o t) \subseteq Elements(s) \cup Elements(t)
  BY <1>1, <1>2 DEF Elements
<1>4. Elements(s) \subseteq Elements(s \o t)
  BY <1>1 DEF Elements
<1>5. Elements(t) \subseteq Elements(s \o t)
  BY <1>1 DEF Elements
<1> QED  BY <1>3, <1>4, <1>5

\* Of four parts in a row, the two in the middle are one.
LEMMA FourInTwo ==
  ASSUME NEW X, NEW a \in Seq(X), NEW b \in Seq(X), NEW c \in Seq(X), NEW d \in Seq(X)
  PROVE  Join(Join(Join(a, b), c), d) = Join(Join(a, Join(Join(b, c), d)), <<>>)
BY DEF Join

\* An empty second part can be taken out, and the parts grouped anew.
LEMMA Regroup ==
  ASSUME NEW X, NEW a \in Seq(X), NEW p \in Seq(X), NEW q \in Seq(X), NEW r \in Seq(X)
  PROVE  Join(Join(Join(a, <<>>), Join(p, q)), r) = Join(Join(a, p), Join(q, r))
<1>1. Join(a, <<>>) = a  BY DEF Join
<1>2. Join(Join(a, Join(p, q)), r) = Join(Join(a, p), Join(q, r))  BY DEF Join
<1> QED  BY <1>1, <1>2

\* The first element of the last part moves to the end of the part before it.
LEMMA HeadToBack ==
  ASSUME NEW X, NEW u \in Seq(X), NEW p \in Seq(X), NEW r \in Seq(X), NEW x \in X
  PROVE  Join(Join(u, p), Join(<<x>>, r)) = Join(Join(u, Append(p, x)), r)
BY DEF Join

\* The first element of the last part moves into an empty part before it.
LEMMA HeadForward ==
  ASSUME NEW X, NEW a \in Seq(X), NEW p \in Seq(X), p # <<>>
  PROVE  Join(Join(a, <<>>), p) = Join(Join(a, <<Head(p)>>), Tail(p))
BY DEF Join

\* A last part of one element moves to the end of the first, and leaves nothing.
LEMMA LastForward ==
  ASSUME NEW X, NEW a \in Seq(X), NEW x \in X
  PROVE  Join(a, <<x>>) = Join(Append(a, x), <<>>)
BY DEF Join

\* A new element keeps the elements distinct.
LEMMA DistinctAppend ==
  ASSUME NEW X, NEW s \in Seq(X), NEW x \in X, Distinct(s), x \notin Elements(s)
  PROVE  Distinct(Append(s, x)) /\ Elements(Append(s, x)) = Elements(s) \cup {x}
<1> DEFINE t == Append(s, x)
<1>1. /\ Len(t) = Len(s) + 1 /\ Len(s) \in Nat
      /\ t[Len(s) + 1] = x
      /\ \A i \in 1..Len(s) : t[i] = s[i]
      /\ \A i \in 1..(Len(s) + 1) : i \in 1..Len(s) \/ i = Len(s) + 1
      /\ \A i \in 1..Len(s) : i \in 1..(Len(s) + 1)
      /\ Len(s) + 1 \in 1..(Len(s) + 1)
  OBVIOUS
<1> HIDE DEF t
<1>2. \A i \in 1..Len(s) : s[i] # x  BY DEF Elements
<1>3. Distinct(t)  BY <1>1, <1>2 DEF Distinct
<1>4. Elements(t) \subseteq Elements(s) \cup {x}  BY <1>1 DEF Elements
<1>5. x \in Elements(t)  BY <1>1 DEF Elements
<1>6. Elements(s) \subseteq Elements(t)
  <2> SUFFICES ASSUME NEW i \in 1..Len(s)  PROVE s[i] \in Elements(t)
    BY DEF Elements
  <2>1. s[i] = t[i] /\ i \in 1..Len(t)  BY <1>1
  <2> QED  BY <2>1 DEF Elements
<1> QED  BY <1>3, <1>4, <1>5, <1>6 DEF t

\* A part that is taken out leaves distinct elements, and no new one.
LEMMA DistinctDrop ==
  ASSUME NEW X, NEW a \in Seq(X), NEW b \in Seq(X), NEW c \in Seq(X),
         Distinct(Join(Join(a, b), c))
  PROVE  /\ Distinct(Join(a, c))
         /\ Elements(Join(a, c)) \subseteq Elements(Join(Join(a, b), c))
<1> DEFINE l == Join(Join(a, b), c)
           m == Join(a, c)
           f(i) == IF i <= Len(a) THEN i ELSE i + Len(b)
<1>1. /\ Len(a) \in Nat /\ Len(b) \in Nat /\ Len(c) \in Nat
      /\ Len(l) = Len(a) + Len(b) + Len(c) /\ Len(m) = Len(a) + Len(c)
  BY DEF Join
<1>2. \A i \in 1..Len(m) : f(i) \in 1..Len(l)
  <2> HIDE DEF l, m
  <2> QED  BY <1>1
<1>3. ASSUME NEW i \in 1..Len(m)  PROVE m[i] = l[f(i)]
  <2>1. i \in 1..(Len(a) + Len(c))  BY <1>1
  <2>2. CASE i <= Len(a)  BY <1>1, <2>1, <2>2 DEF Join
  <2>3. CASE i > Len(a)  BY <1>1, <2>1, <2>3 DEF Join
  <2> QED  BY <1>1, <2>1, <2>2, <2>3
<1> HIDE DEF l, m
<1>4. \A i, j \in 1..Len(m) : f(i) = f(j) => i = j
  BY <1>1
<1> HIDE DEF f
<1>5. Distinct(m)  BY <1>2, <1>3, <1>4 DEF Distinct, l
<1>6. Elements(m) \subseteq Elements(l)  BY <1>2, <1>3 DEF Elements
<1> QED  BY <1>5, <1>6 DEF l, m

\* The first part of distinct elements is distinct.
LEMMA DistinctFirst ==
  ASSUME NEW X, NEW a \in Seq(X), NEW c \in Seq(X), Distinct(Join(a, c))
  PROVE  Distinct(a)
<1> DEFINE m == Join(a, c)
<1>1. /\ Len(a) \in Nat /\ Len(c) \in Nat /\ Len(m) = Len(a) + Len(c)
      /\ \A i \in 1..Len(a) : m[i] = a[i]
  BY DEF Join
<1> HIDE DEF m
<1>2. \A i \in 1..Len(a) : i \in 1..Len(m)  BY <1>1
<1> QED  BY <1>1, <1>2 DEF Distinct, m

\* If the kept elements are distinct, each of them occurs once to begin with.
LEMMA OnlyOnce ==
  ASSUME NEW X, NEW S, NEW s \in Seq(X), Distinct(Only(s, S))
  PROVE  \A i, j \in 1..Len(s) : s[i] = s[j] /\ s[i] \in S => i = j
<1> DEFINE Once(t) == \A i, j \in 1..Len(t) : t[i] = t[j] /\ t[i] \in S => i = j
           Held(t) == \A i \in 1..Len(t) : t[i] \in S => t[i] \in Elements(Only(t, S))
           T == {t \in Seq(X) : Held(t) /\ (Distinct(Only(t, S)) => Once(t))}
<1>1. <<>> \in T
  <2>1. <<>> \in Seq(X) /\ Len(<<>>) = 0  OBVIOUS
  <2> QED  BY <2>1
<1>2. ASSUME NEW t \in Seq(X), NEW x \in X, t \in T  PROVE Append(t, x) \in T
  <2> DEFINE u == Append(t, x)
             k == Only(t, S)
             l == Only(u, S)
  <2>1. /\ u \in Seq(X) /\ Len(u) = Len(t) + 1 /\ Len(t) \in Nat
        /\ u[Len(t) + 1] = x /\ Len(t) + 1 \in 1..(Len(t) + 1)
        /\ \A i \in 1..Len(t) : u[i] = t[i] /\ i \in 1..(Len(t) + 1)
        /\ \A i \in 1..(Len(t) + 1) : i \in 1..Len(t) \/ i = Len(t) + 1
    OBVIOUS
  <2>2. k \in Seq(X)  BY OnlyType
  <2>3. l = IF x \in S THEN Append(k, x) ELSE k  BY OnlyAppend
  <2>4. Held(t) /\ (Distinct(k) => Once(t))  BY <1>2
  <2> HIDE DEF u, k, l
  <2>5. \A i \in 1..Len(t) : t[i] \in S => t[i] \in Elements(k)
    BY <2>4 DEF k
  <2>6. /\ Len(Append(k, x)) = Len(k) + 1 /\ Len(k) \in Nat
        /\ Append(k, x)[Len(k) + 1] = x /\ Len(k) + 1 \in 1..(Len(k) + 1)
        /\ \A i \in 1..Len(k) : Append(k, x)[i] = k[i] /\ i \in 1..(Len(k) + 1) /\ i # Len(k) + 1
    BY <2>2
  <2>7. CASE x \in S
    <3>1. Elements(k) \cup {x} \subseteq Elements(l)
      BY <2>3, <2>6, <2>7 DEF Elements
    <3>2. \A i \in 1..Len(u) : u[i] \in S => u[i] \in Elements(l)
      BY <2>1, <2>5, <3>1
    <3>3. ASSUME Distinct(l)  PROVE Once(u)
      <4>1. Distinct(k) /\ x \notin Elements(k)
        BY <2>3, <2>6, <2>7, <3>3 DEF Distinct, Elements
      <4> QED  BY <2>1, <2>4, <2>5, <4>1
    <3> QED  BY <2>1, <3>2, <3>3 DEF l, u
  <2>8. CASE x \notin S
    <3>1. \A i \in 1..Len(u) : u[i] \in S => u[i] \in Elements(l)
      BY <2>1, <2>3, <2>5, <2>8
    <3>2. ASSUME Distinct(l)  PROVE Once(u)
      BY <2>1, <2>3, <2>4, <2>8, <3>2
    <3> QED  BY <2>1, <3>1, <3>2 DEF l, u
  <2> QED  BY <2>7, <2>8
<1> HIDE DEF T
<1>3. \A t \in Seq(X) : t \in T  BY <1>1, <1>2, SeqInduction
<1> QED  BY <1>3 DEF T
=============================================================================
