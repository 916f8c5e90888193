--------------------------- MODULE SequenceLemmas ---------------------------
(***************************************************************************)
(* Induction over numbers and sequences in a form without an operator      *)
(* parameter, and what it gives about FlattenSeq() of the community        *)
(* modules, for the proofs about the log and about the parser.             *)
(***************************************************************************)
EXTENDS Naturals, SequencesExt, SequenceTheorems, WellFoundedInduction, TLAPS

\* A non-empty set of natural numbers has a least element.
LEMMA LeastNumber ==
  ASSUME NEW T, T \subseteq Nat, T # {}
  PROVE  \E x \in T : \A y \in T : ~(y < x)
<1>1. PICK x \in T : \A y \in T : <<y, x>> \notin OpToRel(<, Nat)
  BY NatLessThanWellFounded, WFMin
<1>2. \A y \in T : <<y, x>> \in {ss \in Nat \X Nat : ss[1] < ss[2]} <=> y < x
  BY SMT
<1>3. \A y \in T : ~(y < x)
  BY <1>1, <1>2 DEF OpToRel
<1> QED BY <1>3

\* What holds at 0, and at i if it holds at i - 1, holds up to n.
LEMMA UpTo ==
  ASSUME NEW n \in Nat, NEW I, 0 \in I, \A i \in 1..n : i - 1 \in I => i \in I
  PROVE  n \in I
<1> DEFINE R == (0..n) \ I
<1> SUFFICES ASSUME R # {} PROVE FALSE
  OBVIOUS
<1>1. R \subseteq Nat
  OBVIOUS
<1>2. PICK x \in R : \A y \in R : ~(y < x)
  <2> HIDE DEF R
  <2> QED BY <1>1, LeastNumber
<1>3. x \in 1..n /\ x \notin I
  BY <1>2
<1>4. x - 1 \in 0..n /\ x - 1 < x
  BY <1>3
<1>5. x - 1 \in I
  BY <1>2, <1>4
<1> QED BY <1>3, <1>5

\* A set of sequences that has the empty one and is closed under Append()
\* has all of them.
LEMMA SequenceInduction ==
  ASSUME NEW S, NEW T \in SUBSET Seq(S),
         <<>> \in T,
         \A s \in T, e \in S : Append(s, e) \in T
  PROVE  T = Seq(S)
<1> SUFFICES ASSUME Seq(S) \ T # {} PROVE FALSE
  OBVIOUS
<1> DEFINE lengths == {Len(s) : s \in Seq(S) \ T}
<1>1. lengths \subseteq Nat /\ lengths # {}
  <2>1. \A s \in Seq(S) \ T : Len(s) \in Nat
    BY LenProperties
  <2> QED BY <2>1, Zenon
<1>2. PICK n \in lengths : \A m \in lengths : ~(m < n)
  BY <1>1, LeastNumber
<1>3. PICK s \in Seq(S) \ T : Len(s) = n
  BY <1>2
<1>4. PICK t \in Seq(S), e \in S : s = Append(t, e)
  BY <1>3, SequenceEmptyOrAppend
<1>5. Len(t) \in Nat /\ Len(s) = Len(t) + 1
  BY <1>4, LenProperties, AppendProperties
<1>6. t \in T
  <2>1. t \notin T => Len(t) \in lengths
    BY Zenon
  <2> HIDE DEF lengths
  <2>2. Len(t) < n
    BY <1>3, <1>5
  <2> QED BY <1>2, <2>1, <2>2
<1> QED BY <1>3, <1>4, <1>6

-----------------------------------------------------------------------------
(* FlattenSeq().                                                           *)

\* f is the function that FlattenSeq(s) is defined with.
Flattens(s, f) ==
  f = [i \in 1..Len(s) |-> IF i = 1 THEN s[i] ELSE f[i - 1] \o s[i]]

LEMMA FlattensUnique ==
  ASSUME NEW S, NEW s \in Seq(S), NEW f, NEW g, Flattens(s, f), Flattens(s, g)
  PROVE  f = g
<1> DEFINE differ == {i \in 1..Len(s) : f[i] # g[i]}
<1>1. Len(s) \in Nat
  BY LenProperties
<1>2. /\ f = [i \in 1..Len(s) |-> f[i]] /\ g = [i \in 1..Len(s) |-> g[i]]
      /\ \A i \in 1..Len(s) :
           /\ f[i] = IF i = 1 THEN s[i] ELSE f[i - 1] \o s[i]
           /\ g[i] = IF i = 1 THEN s[i] ELSE g[i - 1] \o s[i]
  BY DEF Flattens
<1>3. differ = {}
  <2> SUFFICES ASSUME differ # {} PROVE FALSE
    OBVIOUS
  <2>1. differ \subseteq Nat
    BY <1>1
  <2>2. PICK i \in differ : \A j \in differ : ~(j < i)
    BY <2>1, LeastNumber, Zenon
  <2>3. i # 1 => f[i - 1] = g[i - 1]
    BY <1>1, <2>2
  <2>4. f[i] = (IF i = 1 THEN s[i] ELSE f[i - 1] \o s[i])
    BY <1>2, <2>2
  <2>5. g[i] = (IF i = 1 THEN s[i] ELSE g[i - 1] \o s[i])
    BY <1>2, <2>2
  <2>6. f[i] # g[i]
    BY <2>2
  <2> QED BY <2>3, <2>4, <2>5, <2>6
<1> QED BY <1>2, <1>3

\* The function of a longer sequence extends the one of a shorter.
LEMMA FlattensAppend ==
  ASSUME NEW S, NEW s \in Seq(S), NEW e \in S, NEW f, Flattens(s, f)
  PROVE  LET n == Len(s) + 1
             g == [i \in 1..n |-> IF i < n THEN f[i]
                                  ELSE IF n = 1 THEN e ELSE f[n - 1] \o e]
         IN Flattens(Append(s, e), g)
<1> DEFINE n == Len(s) + 1
           g == [i \in 1..n |-> IF i < n THEN f[i]
                                ELSE IF n = 1 THEN e ELSE f[n - 1] \o e]
<1>1. /\ Len(s) \in Nat /\ Len(Append(s, e)) = n
      /\ \A i \in 1..Len(s) : Append(s, e)[i] = s[i]
      /\ Append(s, e)[n] = e
  BY LenProperties, AppendProperties
<1>2. \A i \in 1..Len(s) : f[i] = IF i = 1 THEN s[i] ELSE f[i - 1] \o s[i]
  BY DEF Flattens
<1>3. ASSUME NEW i \in 1..n
      PROVE  g[i] = IF i = 1 THEN Append(s, e)[i] ELSE g[i - 1] \o Append(s, e)[i]
  <2>1. CASE i < n
    BY <1>1, <1>2, <2>1
  <2>2. CASE i = n
    BY <1>1, <2>2
  <2> QED BY <1>1, <2>1, <2>2
<1>4. g = [i \in 1..n |-> IF i = 1 THEN Append(s, e)[i]
                          ELSE g[i - 1] \o Append(s, e)[i]]
  BY <1>3
<1> HIDE DEF g
<1>5. Flattens(Append(s, e), g)
  BY <1>1, <1>4 DEF Flattens
<1> QED BY <1>5 DEF g

LEMMA FlattensExists ==
  ASSUME NEW S, NEW s \in Seq(S)
  PROVE  \E f : Flattens(s, f)
<1> DEFINE T == {t \in Seq(S) : \E f : Flattens(t, f)}
<1>1. <<>> \in T
  <2>1. Flattens(<<>>, [i \in 1..0 |-> 0])
    BY DEF Flattens
  <2> QED BY <2>1, EmptySeq
<1>2. ASSUME NEW t \in T, NEW e \in S PROVE Append(t, e) \in T
  <2>1. PICK f : Flattens(t, f)
    OBVIOUS
  <2>2. \E g : Flattens(Append(t, e), g)
    BY <2>1, FlattensAppend
  <2> QED BY <2>2, AppendProperties
<1>3. T = Seq(S)
  <2> HIDE DEF T
  <2>1. T \in SUBSET Seq(S)
    BY DEF T
  <2> QED BY <1>1, <1>2, <2>1, SequenceInduction
<1> QED BY <1>3

LEMMA FlattenSeqIs ==
  ASSUME NEW S, NEW s \in Seq(S), s # <<>>, NEW f, Flattens(s, f)
  PROVE  FlattenSeq(s) = f[Len(s)]
<1> DEFINE c == CHOOSE g : Flattens(s, g)
<1>1. Flattens(s, c)
  BY FlattensExists
<1>2. FlattenSeq(s) = c[Len(s)]
  <2>1. Len(s) # 0
    BY EmptySeq
  <2> QED BY <2>1 DEF FlattenSeq, Flattens
<1> HIDE DEF c
<1>3. c = f
  BY <1>1, FlattensUnique
<1> QED BY <1>2, <1>3

\* FlattenSeq() of nothing, and of one sequence more.
LEMMA FlattenEmpty == FlattenSeq(<<>>) = <<>>
BY DEF FlattenSeq

LEMMA FlattenAppend ==
  ASSUME NEW S, NEW s \in Seq(Seq(S)), NEW t \in Seq(S)
  PROVE  FlattenSeq(Append(s, t)) = FlattenSeq(s) \o t
<1>1. PICK f : Flattens(s, f)
  BY FlattensExists
<1> DEFINE n == Len(s) + 1
           g == [i \in 1..n |-> IF i < n THEN f[i]
                                ELSE IF n = 1 THEN t ELSE f[n - 1] \o t]
<1>2. Flattens(Append(s, t), g)
  BY <1>1, FlattensAppend
<1>3. /\ Append(s, t) \in Seq(Seq(S)) /\ Append(s, t) # <<>>
      /\ Len(Append(s, t)) = n /\ n \in Nat \ {0}
  BY AppendProperties, LenProperties
<1>4. FlattenSeq(Append(s, t)) = g[n]
  <2> HIDE DEF g
  <2> QED BY <1>2, <1>3, FlattenSeqIs
<1>5. CASE s = <<>>
  <2>1. n = 1
    BY <1>5, EmptySeq
  <2> QED BY <1>4, <1>5, <2>1, FlattenEmpty, ConcatEmptySeq
<1>6. CASE s # <<>>
  <2>1. FlattenSeq(s) = f[Len(s)]
    BY <1>1, <1>6, FlattenSeqIs
  <2>2. Len(s) \in Nat \ {0}
    BY <1>6, EmptySeq
  <2> QED BY <1>4, <2>1, <2>2
<1> QED BY <1>5, <1>6

LEMMA FlattenType ==
  ASSUME NEW S, NEW s \in Seq(Seq(S))
  PROVE  FlattenSeq(s) \in Seq(S)
<1> DEFINE T == {t \in Seq(Seq(S)) : FlattenSeq(t) \in Seq(S)}
<1>1. <<>> \in T
  BY FlattenEmpty, EmptySeq
<1>2. ASSUME NEW t \in T, NEW e \in Seq(S) PROVE Append(t, e) \in T
  BY FlattenAppend, AppendProperties, ConcatProperties
<1>3. T = Seq(Seq(S))
  <2> HIDE DEF T
  <2>1. T \in SUBSET Seq(Seq(S))
    BY DEF T
  <2> QED BY <1>1, <1>2, <2>1, SequenceInduction
<1> QED BY <1>3

LEMMA FlattenConcat ==
  ASSUME NEW S, NEW s \in Seq(Seq(S)), NEW t \in Seq(Seq(S))
  PROVE  FlattenSeq(s \o t) = FlattenSeq(s) \o FlattenSeq(t)
<1> DEFINE T == {u \in Seq(Seq(S)) : FlattenSeq(s \o u) = FlattenSeq(s) \o FlattenSeq(u)}
<1>1. <<>> \in T
  BY FlattenEmpty, FlattenType, EmptySeq, ConcatEmptySeq
<1>2. ASSUME NEW u \in T, NEW e \in Seq(S) PROVE Append(u, e) \in T
  <2>1. s \o Append(u, e) = Append(s \o u, e)
    BY SMTT(60), AppendIsConcat, ConcatAssociative, ConcatProperties
  <2>2. FlattenSeq(Append(s \o u, e)) = FlattenSeq(s \o u) \o e
    BY ConcatProperties, FlattenAppend
  <2>3. FlattenSeq(s \o u) = FlattenSeq(s) \o FlattenSeq(u)
    OBVIOUS
  <2>4. FlattenSeq(Append(u, e)) = FlattenSeq(u) \o e
    BY FlattenAppend
  <2>5. (FlattenSeq(s) \o FlattenSeq(u)) \o e = FlattenSeq(s) \o (FlattenSeq(u) \o e)
    BY SMTT(60), FlattenType, ConcatAssociative
  <2> QED BY <2>1, <2>2, <2>3, <2>4, <2>5, AppendProperties
<1>3. T = Seq(Seq(S))
  <2> HIDE DEF T
  <2>1. T \in SUBSET Seq(Seq(S))
    BY DEF T
  <2> QED BY <1>1, <1>2, <2>1, SequenceInduction
<1> QED BY <1>3
=============================================================================
