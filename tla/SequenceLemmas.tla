----------------------------- MODULE SequenceLemmas -----------------------------
(***************************************************************************)
(* Induction over numbers and over sequences, and recursion over sequences, *)
(* for the proofs about loops.  The theorems of the library take predicates *)
(* as parameters; here sets stand in their place.                           *)
(***************************************************************************)
EXTENDS Integers, SequencesExt, FiniteSetTheorems, SequenceTheorems, WellFoundedInduction, TLAPS

\* A set of numbers that is not empty has a least one.
LEMMA LeastNumber ==
    ASSUME NEW T \in SUBSET Nat, T # {}
    PROVE  \E x \in T : \A y \in T : ~(y < x)
<1> DEFINE R == OpToRel(<, Nat)
<1>1. IsWellFoundedOn(R, Nat)
  BY NatLessThanWellFounded DEF OpToRel
<1>2. PICK x \in T : \A y \in T : ~(<<y, x>> \in R)
  <2> HIDE DEF R
  <2> QED BY <1>1, WFMin
<1>3. \A y \in T : y < x => <<y, x>> \in R
  BY DEF OpToRel
<1> QED BY <1>2, <1>3

\* Induction, with a set in the place of the predicate: the least number
\* outside the set would be 0 or the successor of one inside it.
LEMMA Induction ==
    ASSUME NEW T, 0 \in T, \A n \in Nat : n \in T => n + 1 \in T
    PROVE  Nat \subseteq T
<1> SUFFICES ASSUME Nat \ T # {} PROVE FALSE
  OBVIOUS
<1>1. PICK x \in Nat \ T : \A y \in Nat \ T : ~(y < x)
  BY LeastNumber
<1>2. x - 1 \in Nat /\ x - 1 < x
  BY <1>1
<1>3. x - 1 \in T
  BY <1>1, <1>2
<1> QED BY <1>1, <1>2, <1>3

\* What SubSeq takes from the beginning.
LEMMA Prefix ==
    ASSUME NEW S, NEW s \in Seq(S), NEW n \in 0..Len(s)
    PROVE  /\ SubSeq(s, 1, n) \in Seq(S) /\ Len(SubSeq(s, 1, n)) = n
           /\ \A i \in 1..n : SubSeq(s, 1, n)[i] = s[i]
  OBVIOUS

\* s is what t begins with.
Begins(s, t) == Len(s) <= Len(t) /\ \A i \in 1..Len(s) : s[i] = t[i]

\* In the middle of three.
LEMMA BeginsTransitive ==
    ASSUME NEW S, NEW s \in Seq(S), NEW t \in Seq(S), NEW u \in Seq(S), Begins(s, t), Begins(t, u)
    PROVE  Begins(s, u)
<1>1. Len(s) \in Nat /\ Len(t) \in Nat /\ Len(u) \in Nat /\ Len(s) <= Len(t) /\ Len(t) <= Len(u)
  BY DEF Begins
<1>2. \A i \in 1..Len(s) : i \in 1..Len(t)
  BY <1>1
<1> QED BY <1>1, <1>2 DEF Begins

\* A sequence is two parts of it.
LEMMA Cut ==
    ASSUME NEW S, NEW s \in Seq(S), NEW n \in 0..Len(s)
    PROVE  /\ SubSeq(s, 1, n) \in Seq(S) /\ SubSeq(s, n + 1, Len(s)) \in Seq(S)
           /\ s = SubSeq(s, 1, n) \o SubSeq(s, n + 1, Len(s))
<1>1. Len(s) \in Nat /\ 1 \in 1..Len(s) + 1 /\ n \in 1 - 1..Len(s) /\ Len(s) \in n..Len(s)
  OBVIOUS
<1>2. SubSeq(s, 1, n) \o SubSeq(s, n + 1, Len(s)) = SubSeq(s, 1, Len(s))
  BY <1>1, ConcatAdjacentSubSeq
<1>3. SubSeq(s, 1, Len(s)) = s
  BY SubSeqFull
<1>4. SubSeq(s, 1, n) \in Seq(S) /\ SubSeq(s, n + 1, Len(s)) \in Seq(S)
  OBVIOUS
<1> QED BY <1>2, <1>3, <1>4, Zenon

\* A prefix one longer.
LEMMA PrefixGrows ==
    ASSUME NEW S, NEW s \in Seq(S), NEW n \in 0..Len(s), n + 1 \in 1..Len(s)
    PROVE  /\ SubSeq(s, 1, n) \in Seq(S)
           /\ SubSeq(s, 1, n + 1) = Append(SubSeq(s, 1, n), s[n + 1])
<1>1. /\ SubSeq(s, 1, n) \in Seq(S) /\ Len(SubSeq(s, 1, n)) = n
      /\ \A i \in 1..n : SubSeq(s, 1, n)[i] = s[i]
  BY Prefix
<1>2. /\ SubSeq(s, 1, n + 1) \in Seq(S) /\ Len(SubSeq(s, 1, n + 1)) = n + 1
      /\ \A i \in 1..n + 1 : SubSeq(s, 1, n + 1)[i] = s[i]
  BY Prefix
<1> QED BY <1>1, <1>2

\* A sequence that is not empty is its front and its last element.
LEMMA FrontLast ==
    ASSUME NEW S, NEW s \in Seq(S), s # <<>>
    PROVE  /\ Front(s) \in Seq(S) /\ Len(Front(s)) = Len(s) - 1
           /\ Last(s) \in S /\ Len(s) \in Nat \ {0}
           /\ s = Append(Front(s), Last(s))
<1>1. Front(s) \in Seq(S) /\ Len(Front(s)) = Len(s) - 1 /\ Len(s) \in Nat \ {0}
  <2>1. Len(s) \in Nat \ {0} /\ Len(s) - 1 \in 0..Len(s)
    OBVIOUS
  <2> QED BY <2>1, Prefix DEF Front
<1>2. Last(s) \in S
  BY <1>1 DEF Last
<1>3. \A i \in 1..Len(s) : Append(Front(s), Last(s))[i] = s[i]
  BY <1>1, <1>2 DEF Front, Last
<1>4. Append(Front(s), Last(s)) \in Seq(S) /\ Len(Append(Front(s), Last(s))) = Len(s)
  BY <1>1, <1>2
<1> QED BY <1>1, <1>2, <1>3, <1>4

\* What Append put there, Front and Last take off.
LEMMA AppendFrontLast ==
    ASSUME NEW S, NEW s \in Seq(S), NEW x \in S
    PROVE  /\ Front(Append(s, x)) = s /\ Last(Append(s, x)) = x
           /\ Append(s, x) \in Seq(S) /\ Append(s, x) # <<>>
<1>1. Append(s, x) \in Seq(S) /\ Len(Append(s, x)) = Len(s) + 1 /\ Len(s) \in Nat
  OBVIOUS
<1>2. Append(s, x) # <<>>
  BY <1>1
<1>3. Last(Append(s, x)) = x
  BY <1>1 DEF Last
<1>4. Front(Append(s, x)) \in Seq(S) /\ Len(Front(Append(s, x))) = Len(s)
  BY <1>1 DEF Front
<1>5. \A i \in 1..Len(s) : Front(Append(s, x))[i] = s[i]
  BY <1>1 DEF Front
<1> QED BY <1>1, <1>2, <1>3, <1>4, <1>5

\* A recursion over sequences: a value for the empty one, and a step that takes the
\* last element off; f is a solution.
Recursion(S, A, a0, Op) == a0 \in A /\ Op \in [A \X S -> A]

Solves(f, S, A, a0, Op) ==
    /\ f \in [Seq(S) -> A]
    /\ \A s \in Seq(S) : f[s] = IF s = <<>> THEN a0 ELSE Op[<<f[Front(s)], Last(s)>>]

\* Every such recursion has one: there are solutions for the sequences up to each
\* length, and they agree.
LEMMA SeqRecursion ==
    ASSUME NEW S, NEW A, NEW a0, NEW Op, Recursion(S, A, a0, Op)
    PROVE  \E f : Solves(f, S, A, a0, Op)
<1> USE DEF Recursion
<1> DEFINE Short(n) == {s \in Seq(S) : Len(s) <= n}
           Follows(g, n) == /\ g \in [Short(n) -> A]
                            /\ \A s \in Short(n) :
                                 g[s] = IF s = <<>> THEN a0 ELSE Op[<<g[Front(s)], Last(s)>>]
           Reached == {n \in Nat : \E g : Follows(g, n)}
           Agree(g, m, h, n) == {k \in Nat : \A s \in Seq(S) : Len(s) = k /\ k <= m /\ k <= n => g[s] = h[s]}
<1>1. \A n \in Nat : \A s \in Short(n) : s # <<>> =>
        Front(s) \in Short(n - 1) /\ Front(s) \in Short(n) /\ Last(s) \in S /\ Len(s) \in Nat \ {0}
  BY FrontLast
<1>2. 0 \in Reached
  <2> DEFINE g == [s \in Short(0) |-> a0]
  <2>1. \A s \in Short(0) : s = <<>>
    OBVIOUS
  <2>2. Follows(g, 0)
    BY <2>1
  <2> QED BY <2>2
<1>3. ASSUME NEW n \in Nat, n \in Reached PROVE n + 1 \in Reached
  <2>1. PICK g : Follows(g, n)
    BY <1>3
  <2> DEFINE h == [s \in Short(n + 1) |-> IF s = <<>> THEN a0 ELSE Op[<<g[Front(s)], Last(s)>>]]
  <2>2. \A s \in Short(n + 1) : s # <<>> => Front(s) \in Short(n) /\ Front(s) \in Short(n + 1) /\ Last(s) \in S
    <3> TAKE s \in Short(n + 1)
    <3> HAVE s # <<>>
    <3>1. n + 1 \in Nat /\ (n + 1) - 1 = n
      OBVIOUS
    <3> QED BY <1>1, <3>1
  <2>3. h \in [Short(n + 1) -> A]
    <3> SUFFICES ASSUME NEW s \in Short(n + 1)
                 PROVE  (IF s = <<>> THEN a0 ELSE Op[<<g[Front(s)], Last(s)>>]) \in A
      OBVIOUS
    <3> HIDE DEF Short
    <3> QED BY <2>1, <2>2
  <2>4. \A s \in Short(n) : h[s] = g[s]
    <3> TAKE s \in Short(n)
    <3>1. s \in Short(n + 1)
      OBVIOUS
    <3>2. g[s] = IF s = <<>> THEN a0 ELSE Op[<<g[Front(s)], Last(s)>>]
      BY <2>1
    <3> HIDE DEF Short
    <3> QED BY <3>1, <3>2
  <2>5. \A s \in Short(n + 1) : h[s] = IF s = <<>> THEN a0 ELSE Op[<<h[Front(s)], Last(s)>>]
    <3> HIDE DEF Short
    <3> QED BY <2>2, <2>4
  <2>6. Follows(h, n + 1)
    BY <2>3, <2>5
  <2> HIDE DEF Follows, h
  <2> QED BY <2>6
<1>4. Nat \subseteq Reached
  <2> HIDE DEF Reached
  <2> QED BY <1>2, <1>3, Induction
<1>5. ASSUME NEW g, NEW h, NEW m \in Nat, NEW n \in Nat, Follows(g, m), Follows(h, n)
      PROVE  \A s \in Short(m) : s \in Short(n) => g[s] = h[s]
  <2>1. 0 \in Agree(g, m, h, n)
    <3> SUFFICES ASSUME NEW s \in Seq(S), Len(s) = 0 PROVE g[s] = h[s]
      OBVIOUS
    <3>1. s = <<>> /\ s \in Short(m) /\ s \in Short(n)
      OBVIOUS
    <3> HIDE DEF Short
    <3> QED BY <1>5, <3>1
  <2>2. ASSUME NEW k \in Nat, k \in Agree(g, m, h, n) PROVE k + 1 \in Agree(g, m, h, n)
    <3> SUFFICES ASSUME NEW s \in Seq(S), Len(s) = k + 1, k + 1 <= m, k + 1 <= n PROVE g[s] = h[s]
      OBVIOUS
    <3>1. s # <<>> /\ s \in Short(m) /\ s \in Short(n)
      OBVIOUS
    <3>2. Front(s) \in Seq(S) /\ Len(Front(s)) = k
      BY <3>1, FrontLast
    <3>3. g[Front(s)] = h[Front(s)]
      BY <2>2, <3>2
    <3> HIDE DEF Short
    <3> QED BY <1>5, <3>1, <3>3
  <2>3. Nat \subseteq Agree(g, m, h, n)
    <3> HIDE DEF Agree
    <3> QED BY <2>1, <2>2, Induction
  <2> QED BY <2>3
<1> DEFINE G(n) == CHOOSE g : Follows(g, n)
           f == [s \in Seq(S) |-> G(Len(s))[s]]
<1>6. \A n \in Nat : Follows(G(n), n)
  <2> TAKE n \in Nat
  <2>1. \E g : Follows(g, n)
    BY <1>4
  <2> HIDE DEF Follows
  <2> QED BY <2>1
<1>7. \A n \in Nat : \A s \in Short(n) : f[s] = G(n)[s]
  <2> TAKE n \in Nat
  <2> TAKE s \in Short(n)
  <2>1. Len(s) \in Nat /\ s \in Short(Len(s)) /\ s \in Seq(S)
    OBVIOUS
  <2>2. G(Len(s))[s] = G(n)[s]
    <3> HIDE DEF G, Short, Follows
    <3> QED BY <2>1, <1>5, <1>6
  <2> QED BY <2>1, <2>2
<1>8. f \in [Seq(S) -> A]
  <2> SUFFICES ASSUME NEW s \in Seq(S) PROVE G(Len(s))[s] \in A
    OBVIOUS
  <2>1. Len(s) \in Nat /\ s \in Short(Len(s))
    OBVIOUS
  <2>2. G(Len(s)) \in [Short(Len(s)) -> A]
    <3> HIDE DEF G, Short
    <3> QED BY <2>1, <1>6
  <2> HIDE DEF G, Short
  <2> QED BY <2>1, <2>2
<1>9. ASSUME NEW s \in Seq(S)
      PROVE  f[s] = IF s = <<>> THEN a0 ELSE Op[<<f[Front(s)], Last(s)>>]
  <2>1. Len(s) \in Nat /\ s \in Short(Len(s))
    OBVIOUS
  <2>2. f[s] = IF s = <<>> THEN a0 ELSE Op[<<G(Len(s))[Front(s)], Last(s)>>]
    <3>1. Follows(G(Len(s)), Len(s))
      BY <1>6, <2>1
    <3>2. f[s] = G(Len(s))[s]
      OBVIOUS
    <3> HIDE DEF G, Short, f
    <3> QED BY <2>1, <3>1, <3>2
  <2>3. s # <<>> => f[Front(s)] = G(Len(s))[Front(s)]
    <3> HIDE DEF G, Short, f
    <3> QED BY <1>1, <1>7, <2>1
  <2> HIDE DEF G, f
  <2> QED BY <2>2, <2>3
<1> HIDE DEF f
<1> QED BY <1>8, <1>9 DEF Solves

\* Induction over sequences, with a set in the place of the predicate.
LEMMA SeqInduction ==
    ASSUME NEW S, NEW T, <<>> \in T,
           \A s \in Seq(S), x \in S : s \in T => Append(s, x) \in T
    PROVE  Seq(S) \subseteq T
<1> DEFINE N == {n \in Nat : \A s \in Seq(S) : Len(s) = n => s \in T}
<1>1. 0 \in N
  <2> SUFFICES ASSUME NEW s \in Seq(S), Len(s) = 0 PROVE s \in T
    OBVIOUS
  <2>1. s = <<>>
    OBVIOUS
  <2> QED BY <2>1
<1>2. ASSUME NEW n \in Nat, n \in N PROVE n + 1 \in N
  <2> SUFFICES ASSUME NEW s \in Seq(S), Len(s) = n + 1 PROVE s \in T
    OBVIOUS
  <2>1. s # <<>>
    OBVIOUS
  <2>2. /\ Front(s) \in Seq(S) /\ Len(Front(s)) = Len(s) - 1
        /\ Last(s) \in S /\ s = Append(Front(s), Last(s))
    BY <2>1, FrontLast, Zenon
  <2>3. Front(s) \in T
    <3>1. Len(Front(s)) = n
      BY <2>2
    <3> QED BY <1>2, <2>2, <3>1
  <2>4. Append(Front(s), Last(s)) \in T
    BY <2>2, <2>3, Zenon
  <2> QED BY <2>2, <2>4
<1>3. Nat \subseteq N
  <2> HIDE DEF N
  <2> QED BY <1>1, <1>2, Induction
<1> QED BY <1>3

\* What is defined by such a recursion has its type, when its step has.
LEMMA SeqRecursionTyped ==
    ASSUME NEW S, NEW A, NEW F, F[<<>>] \in A,
           \A s \in Seq(S), x \in S : F[s] \in A => F[Append(s, x)] \in A
    PROVE  \A s \in Seq(S) : F[s] \in A
<1> DEFINE T == {s \in Seq(S) : F[s] \in A}
<1>1. <<>> \in T
  OBVIOUS
<1>2. \A s \in Seq(S), x \in S : s \in T => Append(s, x) \in T
  OBVIOUS
<1>3. Seq(S) \subseteq T
  <2> HIDE DEF T
  <2> QED BY <1>1, <1>2, SeqInduction
<1> QED BY <1>3
=================================================================================
