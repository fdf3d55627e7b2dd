----------------------------- MODULE ListLemmas -----------------------------
(***************************************************************************)
(* The program's queues and linked lists are sequences in the models.      *)
(* What their operations do to the elements of the list, for lists that    *)
(* hold no element twice; and what a sum over a finite set is, whatever    *)
(* the order it is computed in.                                            *)
(***************************************************************************)
EXTENDS Naturals, Sequences, FiniteSets, SequencesExt, FiniteSetTheorems,
        SequenceTheorems, WellFoundedInduction, TLAPS

\* A set of naturals that is not empty has a least element.
LEMMA Lowest ==
  ASSUME NEW S, S \subseteq Nat, S # {}
  PROVE  \E m \in S : \A n \in S : m <= n
<1>1. PICK m \in S : \A n \in S : ~ (<<n, m>> \in OpToRel(<, Nat))
  BY NatLessThanWellFounded, WFMin
<1>2. \A n \in S : ~ (n < m)
  BY <1>1 DEF OpToRel
<1>3. QED
  BY <1>2

\* Induction over the naturals, for a property given as the set of the numbers
\* that have it.  What a loop over a list computes is shown with it.
LEMMA NatInductionSet ==
  ASSUME NEW S, 0 \in S, \A n \in Nat : n \in S => n + 1 \in S
  PROVE  Nat \subseteq S
<1>1. SUFFICES ASSUME Nat \ S # {} PROVE FALSE
  OBVIOUS
<1>2. PICK m \in Nat \ S : \A n \in Nat \ S : m <= n
  BY <1>1, Lowest
<1>3. m - 1 \in Nat /\ m - 1 \notin Nat \ S
  BY <1>2
<1>4. m - 1 \in S /\ (m - 1) + 1 = m
  BY <1>3
<1>5. QED
  BY <1>2, <1>3, <1>4

\* The empty list has no elements, and is the only such list.
LEMMA EmptyList ==
  /\ Range(<< >>) = {} /\ IsInjective(<< >>)
  /\ \A S : \A s \in Seq(S) : Range(s) = {} => s = << >>
<1>1. Range(<< >>) = {} /\ IsInjective(<< >>)
  BY DEF Range, IsInjective
<1>2. ASSUME NEW S, NEW s \in Seq(S), s # << >>
      PROVE  Range(s) # {}
  <2>1. 1 \in DOMAIN s
    BY <1>2
  <2>2. QED
    BY <2>1 DEF Range
<1>3. QED
  BY <1>1, <1>2

\* push / AddTail.
LEMMA AppendList ==
  ASSUME NEW S, NEW s \in Seq(S), NEW x \in S
  PROVE  /\ Append(s, x) \in Seq(S)
         /\ Append(s, x) # << >>
         /\ Len(Append(s, x)) = Len(s) + 1
         /\ Range(Append(s, x)) = Range(s) \cup {x}
         /\ IsInjective(s) /\ x \notin Range(s) => IsInjective(Append(s, x))
<1>1. /\ Append(s, x) \in Seq(S) /\ Len(Append(s, x)) = Len(s) + 1
      /\ Len(s) \in Nat /\ Len(<< >>) = 0
  OBVIOUS
<1>2. DOMAIN s = 1 .. Len(s) /\ DOMAIN Append(s, x) = 1 .. Len(s) + 1
  BY <1>1
<1>3. /\ \A i \in 1 .. Len(s) : Append(s, x)[i] = s[i]
      /\ Append(s, x)[Len(s) + 1] = x
  OBVIOUS
<1>4. Range(Append(s, x)) = Range(s) \cup {x}
  BY <1>2, <1>3 DEF Range
<1>5. IsInjective(s) /\ x \notin Range(s) => IsInjective(Append(s, x))
  BY <1>2, <1>3 DEF Range, IsInjective
<1>6. Append(s, x) # << >>
  BY <1>1
<1>7. QED
  BY <1>1, <1>4, <1>5, <1>6

\* pop / PopHead.
LEMMA TailList ==
  ASSUME NEW S, NEW s \in Seq(S), s # << >>
  PROVE  /\ Tail(s) \in Seq(S)
         /\ Len(s) >= 1 /\ Len(Tail(s)) = Len(s) - 1
         /\ Head(s) \in S /\ Head(s) \in Range(s)
         /\ Range(s) = Range(Tail(s)) \cup {Head(s)}
         /\ IsInjective(s) => IsInjective(Tail(s)) /\ Head(s) \notin Range(Tail(s))
<1>1. /\ Tail(s) \in Seq(S) /\ Len(s) \in Nat /\ Len(s) >= 1
      /\ Len(Tail(s)) = Len(s) - 1 /\ Head(s) = s[1]
  OBVIOUS
<1>2. DOMAIN s = 1 .. Len(s) /\ DOMAIN Tail(s) = 1 .. Len(s) - 1
  BY <1>1
<1>3. \A i \in 1 .. Len(s) - 1 : Tail(s)[i] = s[i + 1]
  BY <1>1
<1>4. Head(s) \in Range(s) /\ Head(s) \in S
  BY <1>1, <1>2 DEF Range
<1>5. ASSUME NEW x \in Range(s), x # Head(s)
      PROVE  x \in Range(Tail(s))
  <2>1. PICK i \in 1 .. Len(s) : x = s[i]
    BY <1>2 DEF Range
  <2>2. i - 1 \in 1 .. Len(s) - 1 /\ x = Tail(s)[i - 1]
    BY <1>1, <1>3, <1>5, <2>1
  <2>3. QED
    BY <1>2, <2>2 DEF Range
<1>6. ASSUME NEW x \in Range(Tail(s))
      PROVE  x \in Range(s) /\ (IsInjective(s) => x # Head(s))
  <2>1. PICK i \in 1 .. Len(s) - 1 : x = Tail(s)[i]
    BY <1>2 DEF Range
  <2>2. i + 1 \in 1 .. Len(s) /\ i + 1 # 1 /\ 1 \in 1 .. Len(s) /\ x = s[i + 1]
    BY <1>1, <1>3, <2>1
  <2>3. QED
    BY <1>1, <1>2, <2>2 DEF Range, IsInjective
<1>7. IsInjective(s) => IsInjective(Tail(s))
  BY <1>1, <1>2, <1>3 DEF IsInjective
<1>8. QED
  BY <1>1, <1>4, <1>5, <1>6, <1>7

\* pop from the end.
LEMMA FrontList ==
  ASSUME NEW S, NEW s \in Seq(S), s # << >>
  PROVE  /\ Front(s) \in Seq(S)
         /\ Last(s) \in S /\ Last(s) \in Range(s)
         /\ Range(s) = Range(Front(s)) \cup {Last(s)}
         /\ IsInjective(s) => IsInjective(Front(s)) /\ Last(s) \notin Range(Front(s))
         /\ Last(s) # Head(s) => Front(s) # << >> /\ Head(Front(s)) = Head(s)
<1>1. Len(s) \in Nat /\ Len(s) >= 1 /\ DOMAIN s = 1 .. Len(s) /\ Head(s) = s[1]
  OBVIOUS
<1>2. Len(s) - 1 \in 0 .. Len(s) /\ 1 \in 1 .. Len(s)
  BY <1>1
<1>3. /\ Front(s) \in Seq(S) /\ Len(Front(s)) = Len(s) - 1
      /\ \A i \in 1 .. Len(s) - 1 : Front(s)[i] = s[i]
  BY <1>1, <1>2 DEF Front
<1>4. DOMAIN Front(s) = 1 .. Len(s) - 1
  BY <1>3
<1>5. 1 .. Len(s) = (1 .. Len(s) - 1) \cup {Len(s)} /\ Len(s) \notin 1 .. Len(s) - 1
  BY <1>1
<1>6. Range(s) = Range(Front(s)) \cup {Last(s)}
  BY <1>1, <1>3, <1>4, <1>5 DEF Range, Last
<1>7. IsInjective(s) => IsInjective(Front(s)) /\ Last(s) \notin Range(Front(s))
  BY <1>1, <1>3, <1>4, <1>5 DEF Range, Last, IsInjective
<1>8. Last(s) # Head(s) => Front(s) # << >> /\ Head(Front(s)) = Head(s)
  <2>1. SUFFICES ASSUME Last(s) # Head(s) PROVE Front(s) # << >> /\ Head(Front(s)) = Head(s)
    OBVIOUS
  <2>2. Len(s) - 1 >= 1 /\ 1 \in 1 .. Len(s) - 1
    BY <1>1, <2>1 DEF Last
  <2>3. QED
    BY <1>1, <1>3, <2>2
<1>9. Last(s) \in S
  BY <1>1 DEF Last
<1>10. QED
  BY <1>3, <1>6, <1>7, <1>8, <1>9

\* Join of two lists.
LEMMA ConcatList ==
  ASSUME NEW S, NEW s \in Seq(S), NEW t \in Seq(S)
  PROVE  /\ s \o t \in Seq(S)
         /\ Range(s \o t) = Range(s) \cup Range(t)
         /\ IsInjective(s) /\ IsInjective(t) /\ Range(s) \cap Range(t) = {}
              => IsInjective(s \o t)
<1>1. s \o t \in Seq(S) /\ Len(s \o t) = Len(s) + Len(t) /\ Len(s) \in Nat /\ Len(t) \in Nat
  OBVIOUS
<1>2. DOMAIN s = 1 .. Len(s) /\ DOMAIN t = 1 .. Len(t)
      /\ DOMAIN (s \o t) = 1 .. Len(s) + Len(t)
  BY <1>1
<1>3. /\ \A i \in 1 .. Len(s) : (s \o t)[i] = s[i]
      /\ \A i \in 1 .. Len(t) : (s \o t)[Len(s) + i] = t[i]
  BY <1>1
<1>4. \A i \in 1 .. Len(s) + Len(t) :
        \/ i \in 1 .. Len(s) /\ (s \o t)[i] = s[i]
        \/ i > Len(s) /\ i - Len(s) \in 1 .. Len(t) /\ (s \o t)[i] = t[i - Len(s)]
  <2> TAKE i \in 1 .. Len(s) + Len(t)
  <2>1. CASE i \in 1 .. Len(s)
    BY <1>3, <2>1
  <2>2. CASE i > Len(s)
    <3>1. i - Len(s) \in 1 .. Len(t) /\ Len(s) + (i - Len(s)) = i
      BY <1>1, <2>2
    <3>2. QED
      BY <1>3, <2>2, <3>1
  <2>3. QED
    BY <1>1, <2>1, <2>2
<1>5. Range(s \o t) \subseteq Range(s) \cup Range(t)
  BY <1>2, <1>4 DEF Range
<1>6. Range(s) \cup Range(t) \subseteq Range(s \o t)
  <2>1. \A i \in 1 .. Len(s) : i \in 1 .. Len(s) + Len(t)
    BY <1>1
  <2>2. \A i \in 1 .. Len(t) : Len(s) + i \in 1 .. Len(s) + Len(t)
    BY <1>1
  <2>3. QED
    BY <1>2, <1>3, <2>1, <2>2 DEF Range
<1>7. ASSUME IsInjective(s), IsInjective(t), Range(s) \cap Range(t) = {},
             NEW i \in 1 .. Len(s) + Len(t), NEW j \in 1 .. Len(s) + Len(t),
             (s \o t)[i] = (s \o t)[j]
      PROVE  i = j
  <2>1. CASE i \in 1 .. Len(s) /\ j \in 1 .. Len(s)
    BY <1>2, <1>3, <1>7, <2>1 DEF IsInjective
  <2>2. CASE i > Len(s) /\ j > Len(s)
    <3>1. /\ i - Len(s) \in 1 .. Len(t) /\ j - Len(s) \in 1 .. Len(t)
          /\ t[i - Len(s)] = t[j - Len(s)]
      BY <1>1, <1>4, <1>7, <2>2
    <3>2. i - Len(s) = j - Len(s)
      BY <1>2, <1>7, <3>1 DEF IsInjective
    <3>3. QED
      BY <1>1, <3>2
  <2>3. CASE i \in 1 .. Len(s) /\ j > Len(s)
    <3>1. (s \o t)[j] = t[j - Len(s)] /\ j - Len(s) \in DOMAIN t
      BY <1>1, <1>2, <1>4, <2>3
    <3>2. (s \o t)[i] = s[i] /\ i \in DOMAIN s
      BY <1>2, <1>3, <2>3
    <3>3. QED
      BY <1>7, <3>1, <3>2 DEF Range
  <2>4. CASE i > Len(s) /\ j \in 1 .. Len(s)
    <3>1. (s \o t)[i] = t[i - Len(s)] /\ i - Len(s) \in DOMAIN t
      BY <1>1, <1>2, <1>4, <2>4
    <3>2. (s \o t)[j] = s[j] /\ j \in DOMAIN s
      BY <1>2, <1>3, <2>4
    <3>3. QED
      BY <1>7, <3>1, <3>2 DEF Range
  <2>5. QED
    BY <1>1, <2>1, <2>2, <2>3, <2>4
<1>8. IsInjective(s) /\ IsInjective(t) /\ Range(s) \cap Range(t) = {} => IsInjective(s \o t)
  BY <1>2, <1>7 DEF IsInjective
<1>9. QED
  BY <1>1, <1>5, <1>6, <1>8

\* A list without repetition is as long as its set of elements is large.
LEMMA ListCardinality ==
  ASSUME NEW S, NEW s \in Seq(S), IsInjective(s)
  PROVE  IsFiniteSet(Range(s)) /\ Cardinality(Range(s)) = Len(s)
<1>1. Len(s) \in Nat /\ s \in [1 .. Len(s) -> Range(s)]
  BY DEF Range
<1>2. s \in Bijection(1 .. Len(s), Range(s))
  BY <1>1 DEF Bijection, Injection, Surjection, IsInjective, Range
<1>3. ExistsBijection(1 .. Len(s), Range(s))
  BY <1>2 DEF ExistsBijection
<1>4. QED
  BY <1>1, <1>3, FS_CountingElements, FS_NatBijection

\* A list of elements of a finite set that is as long as the set is large has
\* all of them, and only such a list does.
LEMMA FullList ==
  ASSUME NEW S, IsFiniteSet(S), NEW s \in Seq(S), IsInjective(s)
  PROVE  /\ Cardinality(S) \in Nat /\ Len(s) <= Cardinality(S)
         /\ Len(s) = Cardinality(S) <=> Range(s) = S
<1>1. Range(s) \subseteq S
  BY DEF Range
<1>2. IsFiniteSet(Range(s)) /\ Cardinality(Range(s)) = Len(s)
  BY ListCardinality
<1>3. QED
  BY <1>1, <1>2, FS_Subset, FS_CardinalityType

\* A finite set in some order.
LEMMA OrderedSet ==
  ASSUME NEW S, IsFiniteSet(S), NEW s \in SetToSeqs(S)
  PROVE  s \in Seq(S) /\ IsInjective(s) /\ Range(s) = S
<1>1. Cardinality(S) \in Nat
  BY FS_CardinalityType
<1>2. /\ s \in [1 .. Cardinality(S) -> S]
      /\ \A i, j \in 1 .. Cardinality(S) : i # j => s[i] # s[j]
  BY DEF SetToSeqs
<1>3. s \in Seq(S) /\ Len(s) = Cardinality(S)
  BY <1>1, <1>2
<1>4. IsInjective(s)
  BY <1>1, <1>2 DEF IsInjective
<1>5. QED
  BY <1>3, <1>4, FullList

-----------------------------------------------------------------------------
(* Several lists, one behind the other *)

\* The lists of the first n of a sequence of lists, joined.
LEMMA FlattenSteps ==
  ASSUME NEW S, NEW ls \in Seq(Seq(S)), Len(ls) # 0
  PROVE  \E f : /\ f = [i \in 1 .. Len(ls) |-> IF i = 1 THEN ls[i] ELSE f[i - 1] \o ls[i]]
                /\ FlattenSeq(ls) = f[Len(ls)]
<1> DEFINE Def(n, f) == f = [i \in 1 .. n |-> IF i = 1 THEN ls[i] ELSE f[i - 1] \o ls[i]]
           Has == {n \in Nat : n <= Len(ls) => \E f : Def(n, f)}
<1>1. 0 \in Has
  <2>1. Def(0, [i \in 1 .. 0 |-> ls[i]])
    OBVIOUS
  <2>2. QED
    BY <2>1
<1>2. ASSUME NEW n \in Nat, n \in Has
      PROVE  n + 1 \in Has
  <2> HIDE DEF Def
  <2>1. SUFFICES ASSUME n + 1 <= Len(ls) PROVE \E f : Def(n + 1, f)
    OBVIOUS
  <2>2. PICK f : Def(n, f)
    <3>1. n <= Len(ls)
      BY <2>1
    <3>2. QED
      BY <1>2, <3>1
  <2> DEFINE g == [i \in 1 .. n + 1 |-> IF i <= n THEN f[i]
                                        ELSE IF i = 1 THEN ls[i] ELSE f[i - 1] \o ls[i]]
  <2>3. Def(n + 1, g)
    <3>1. f = [i \in 1 .. n |-> IF i = 1 THEN ls[i] ELSE f[i - 1] \o ls[i]]
      BY <2>2 DEF Def
    <3>2. \A i \in 1 .. n : f[i] = IF i = 1 THEN ls[i] ELSE f[i - 1] \o ls[i]
      BY <3>1
    <3>3. ASSUME NEW i \in 1 .. n + 1
          PROVE  g[i] = IF i = 1 THEN ls[i] ELSE g[i - 1] \o ls[i]
      <4>1. CASE i <= n
        BY <3>2, <4>1
      <4>2. CASE i = n + 1 /\ i # 1
        <5>1. i - 1 \in 1 .. n + 1 /\ i - 1 <= n /\ ~ (i <= n)
          BY <4>2
        <5>2. g[i - 1] = f[i - 1] /\ g[i] = f[i - 1] \o ls[i]
          BY <4>2, <5>1
        <5>3. QED
          BY <4>2, <5>2
      <4>3. CASE i = n + 1 /\ i = 1
        BY <4>3
      <4>4. QED
        BY <4>1, <4>2, <4>3
    <3> HIDE DEF g
    <3>4. g = [i \in 1 .. n + 1 |-> g[i]]
      BY DEF g
    <3>5. QED
      BY <3>3, <3>4 DEF Def
  <2>4. QED
    BY <2>3
<1>3. Len(ls) \in Has
  <2> HIDE DEF Has
  <2>1. Nat \subseteq Has
    BY <1>1, <1>2, NatInductionSet
  <2>2. QED
    BY <2>1
<1>4. PICK f : Def(Len(ls), f)
  <2> HIDE DEF Def
  <2>1. Len(ls) <= Len(ls)
    OBVIOUS
  <2>2. QED
    BY <1>3, <2>1
<1>5. QED
  BY <1>4 DEF FlattenSeq

\* The elements of the joined list are those of the lists; none is there twice
\* when the lists have none in common.
LEMMA FlattenList ==
  ASSUME NEW S, NEW ls \in Seq(Seq(S))
  PROVE  /\ FlattenSeq(ls) \in Seq(S)
         /\ Range(FlattenSeq(ls)) = UNION {Range(ls[i]) : i \in 1 .. Len(ls)}
         /\ /\ \A i \in 1 .. Len(ls) : IsInjective(ls[i])
            /\ \A i, j \in 1 .. Len(ls) : i # j => Range(ls[i]) \cap Range(ls[j]) = {}
            => IsInjective(FlattenSeq(ls))
<1>1. CASE Len(ls) = 0
  <2>1. FlattenSeq(ls) = << >> /\ 1 .. Len(ls) = {}
    BY <1>1 DEF FlattenSeq
  <2>2. QED
    BY <2>1, EmptyList
<1>2. CASE Len(ls) # 0
  <2>1. PICK f : /\ f = [i \in 1 .. Len(ls) |-> IF i = 1 THEN ls[i] ELSE f[i - 1] \o ls[i]]
                 /\ FlattenSeq(ls) = f[Len(ls)]
    BY <1>2, FlattenSteps
  <2>2. /\ Len(ls) \in Nat /\ \A i \in 1 .. Len(ls) : ls[i] \in Seq(S)
        /\ 1 \in 1 .. Len(ls) => f[1] = ls[1]
        /\ \A i \in 1 .. Len(ls) : i # 1 => f[i] = f[i - 1] \o ls[i]
    <3>1. \A i \in 1 .. Len(ls) : f[i] = IF i = 1 THEN ls[i] ELSE f[i - 1] \o ls[i]
      BY <2>1, Zenon
    <3>2. Len(ls) \in Nat /\ \A i \in 1 .. Len(ls) : ls[i] \in Seq(S)
      OBVIOUS
    <3>3. QED
      BY <3>1, <3>2, Zenon
  <2> DEFINE Disjoint == /\ \A i \in 1 .. Len(ls) : IsInjective(ls[i])
                         /\ \A i, j \in 1 .. Len(ls) :
                              i # j => Range(ls[i]) \cap Range(ls[j]) = {}
             Joined(n) == UNION {Range(ls[i]) : i \in 1 .. n}
             Fine(n) == /\ f[n] \in Seq(S)
                        /\ Range(f[n]) = Joined(n)
                        /\ Disjoint => IsInjective(f[n])
             Has == {n \in Nat : n + 1 <= Len(ls) => Fine(n + 1)}
  <2>3. 0 \in Has
    <3>1. 1 \in 1 .. Len(ls) /\ f[1] = ls[1] /\ 1 .. 1 = {1} /\ 0 + 1 = 1
      BY <1>2, <2>2
    <3>2. /\ f[1] \in Seq(S) /\ Range(f[1]) = Joined(1)
          /\ Disjoint => IsInjective(f[1])
      BY <2>2, <3>1
    <3> HIDE DEF Disjoint, Joined
    <3>3. Fine(0 + 1)
      BY <3>1, <3>2
    <3>4. QED
      BY <3>3
  <2>4. ASSUME NEW n \in Nat, n \in Has
        PROVE  n + 1 \in Has
    <3> HIDE DEF Fine
    <3>1. SUFFICES ASSUME (n + 1) + 1 <= Len(ls) PROVE Fine((n + 1) + 1)
      OBVIOUS
    <3> DEFINE m == (n + 1) + 1
    <3>2. Fine(n + 1)
      <4>1. n + 1 <= Len(ls)
        BY <2>2, <3>1
      <4>2. QED
        BY <2>4, <4>1
    <3>3. /\ m \in 1 .. Len(ls) /\ f[m] = f[n + 1] \o ls[m] /\ ls[m] \in Seq(S)
          /\ 1 .. m = (1 .. n + 1) \cup {m} /\ m \notin 1 .. n + 1
          /\ 1 .. n + 1 \subseteq 1 .. Len(ls)
      <4>1. m \in 1 .. Len(ls) /\ m # 1 /\ m - 1 = n + 1
        BY <2>2, <3>1
      <4>2. f[m] = f[n + 1] \o ls[m] /\ ls[m] \in Seq(S)
        BY <2>2, <4>1
      <4>3. /\ 1 .. m = (1 .. n + 1) \cup {m} /\ m \notin 1 .. n + 1
            /\ 1 .. n + 1 \subseteq 1 .. Len(ls)
        BY <2>2, <4>1
      <4>4. QED
        BY <4>1, <4>2, <4>3
    <3>4. Joined(m) = Joined(n + 1) \cup Range(ls[m])
      BY <3>3
    <3>5. Disjoint => Joined(n + 1) \cap Range(ls[m]) = {}
      <4>1. SUFFICES ASSUME Disjoint, NEW i \in 1 .. n + 1
                     PROVE  Range(ls[i]) \cap Range(ls[m]) = {}
        BY Zenon
      <4>2. i \in 1 .. Len(ls) /\ i # m
        BY <3>3
      <4>3. QED
        BY <3>3, <4>1, <4>2
    <3> HIDE DEF Joined, Disjoint, m
    <3>6. /\ f[m] \in Seq(S) /\ Range(f[m]) = Joined(m)
          /\ Disjoint /\ IsInjective(ls[m]) => IsInjective(f[m])
      BY <3>2, <3>3, <3>4, <3>5, ConcatList DEF Fine
    <3>7. Disjoint => IsInjective(ls[m])
      BY <3>3 DEF Disjoint
    <3>8. QED
      BY <3>6, <3>7 DEF m, Fine
  <2>5. Fine(Len(ls))
    <3> HIDE DEF Has, Fine
    <3>1. Nat \subseteq Has
      BY <2>3, <2>4, NatInductionSet
    <3>2. Len(ls) - 1 \in Nat /\ (Len(ls) - 1) + 1 = Len(ls) /\ Len(ls) <= Len(ls)
      BY <1>2, <2>2
    <3>3. Len(ls) - 1 \in Has
      BY <3>1, <3>2
    <3>4. QED
      BY <3>2, <3>3 DEF Has
  <2>6. QED
    BY <2>1, <2>5
<1>3. QED
  BY <1>1, <1>2

-----------------------------------------------------------------------------
(* Two buffers, one behind the other, as one queue *)

\* A push to the second buffer is a push to the channel.
LEMMA PushConcat ==
  ASSUME NEW S, NEW s \in Seq(S), NEW t \in Seq(S), NEW e \in S
  PROVE  s \o Append(t, e) = Append(s \o t, e)
<1>1. Append(t, e) = t \o <<e>> /\ Append(s \o t, e) = (s \o t) \o <<e>>
  BY AppendIsConcat, ConcatProperties
<1>2. <<e>> \in Seq(S)
  OBVIOUS
<1>3. QED
  BY <1>1, <1>2, ConcatAssociative

\* A pop from the first buffer is a pop from the channel.
LEMMA PopConcat ==
  ASSUME NEW S, NEW s \in Seq(S), NEW t \in Seq(S), s # << >>
  PROVE  /\ s \o t # << >>
         /\ Head(s \o t) = Head(s)
         /\ Tail(s \o t) = Tail(s) \o t
<1> DEFINE u == s \o t
           v == Tail(s) \o t
<1>1. /\ u \in Seq(S) /\ Len(u) = Len(s) + Len(t)
      /\ Len(s) \in Nat \ {0} /\ Len(t) \in Nat
      /\ \A i \in 1 .. Len(s) + Len(t) : u[i] = IF i <= Len(s) THEN s[i] ELSE t[i - Len(s)]
  BY ConcatProperties, EmptySeq, LenProperties
<1>2. u # << >>
  BY <1>1, EmptySeq
<1>3. /\ Tail(s) \in Seq(S) /\ Len(Tail(s)) = Len(s) - 1 /\ Head(s) = s[1]
      /\ \A i \in 1 .. Len(Tail(s)) : Tail(s)[i] = s[i + 1]
  BY HeadTailProperties
<1>4. /\ Tail(u) \in Seq(S) /\ Len(Tail(u)) = Len(u) - 1 /\ Head(u) = u[1]
      /\ \A i \in 1 .. Len(Tail(u)) : Tail(u)[i] = u[i + 1]
  BY <1>1, <1>2, HeadTailProperties
<1>5. /\ v \in Seq(S) /\ Len(v) = Len(Tail(s)) + Len(t)
      /\ \A i \in 1 .. Len(Tail(s)) + Len(t) :
           v[i] = IF i <= Len(Tail(s)) THEN Tail(s)[i] ELSE t[i - Len(Tail(s))]
  BY <1>3, ConcatProperties
<1> HIDE DEF u, v
<1>6. Head(u) = Head(s)
  BY <1>1, <1>3, <1>4
<1>7. Tail(u) = v
  <2>1. Len(Tail(u)) = Len(v)
    BY <1>1, <1>3, <1>4, <1>5
  <2>2. ASSUME NEW i \in 1 .. Len(Tail(u))
        PROVE  Tail(u)[i] = v[i]
    <3>1. Tail(u)[i] = IF i + 1 <= Len(s) THEN s[i + 1] ELSE t[i + 1 - Len(s)]
      BY <1>1, <1>4
    <3>2. v[i] = IF i <= Len(s) - 1 THEN s[i + 1] ELSE t[i - (Len(s) - 1)]
      BY <1>1, <1>3, <1>5, <2>1
    <3>3. QED
      BY <1>1, <3>1, <3>2
  <2>3. QED
    BY <1>4, <1>5, <2>1, <2>2, SeqEqual
<1>8. QED
  BY <1>2, <1>6, <1>7 DEF u, v

-----------------------------------------------------------------------------
(* Sums over finite sets *)

\* Induction over the subsets of a finite set, for a property given as the set
\* of the sets that have it.
LEMMA SubsetInduction ==
  ASSUME NEW S, IsFiniteSet(S), NEW H,
         \A T \in SUBSET S : (\A x \in T : T \ {x} \in H) => T \in H
  PROVE  SUBSET S \subseteq H
<1> DEFINE Has == {n \in Nat : \A T \in SUBSET S : Cardinality(T) = n => T \in H}
<1>1. \A T \in SUBSET S : IsFiniteSet(T) /\ Cardinality(T) \in Nat
  BY FS_Subset, FS_CardinalityType
<1>2. \A T \in SUBSET S : \A x \in T : Cardinality(T \ {x}) = Cardinality(T) - 1
  BY <1>1, FS_RemoveElement
<1>3. 0 \in Has
  <2>1. ASSUME NEW T \in SUBSET S, Cardinality(T) = 0 PROVE T \in H
    <3>1. T = {}
      BY <1>1, <2>1, FS_EmptySet
    <3>2. QED
      BY <3>1
  <2>2. QED
    BY <2>1
<1>4. ASSUME NEW n \in Nat, n \in Has PROVE n + 1 \in Has
  <2>1. ASSUME NEW T \in SUBSET S, Cardinality(T) = n + 1 PROVE T \in H
    <3>1. ASSUME NEW x \in T PROVE T \ {x} \in H
      <4>1. T \ {x} \in SUBSET S /\ Cardinality(T \ {x}) = n
        BY <1>2, <2>1
      <4>2. QED
        BY <1>4, <4>1
    <3>2. QED
      BY <3>1
  <2>2. QED
    BY <2>1
<1>5. Nat \subseteq Has
  <2> HIDE DEF Has
  <2>1. QED
    BY <1>3, <1>4, NatInductionSet
<1>6. ASSUME NEW T \in SUBSET S PROVE T \in H
  <2>1. Cardinality(T) \in Has
    BY <1>1, <1>5
  <2>2. QED
    BY <2>1
<1>7. QED
  BY <1>6

\* How MapThenSumSet sums the weights of the elements of a set: it takes them
\* out one by one, in the order of CHOOSE.
SumSteps(f, w, D) ==
  f = [s \in D |-> IF s = {} THEN 0
                   ELSE w[CHOOSE x \in s : TRUE] + f[s \ {CHOOSE x \in s : TRUE}]]

\* f and g have the same values on D.
AgreeOn(f, g, D) == \A x \in D : f[x] = g[x]

\* The sum of the weights of the elements of S.
Total(w, S) == MapThenSumSet(LAMBDA x : w[x], S)

\* f has the sums of the subsets of S.
Totals(f, w, S) ==
  SumSteps(f, w, SUBSET S) /\ \A T \in SUBSET S : Total(w, T) = f[T]

\* The steps define a function.
LEMMA SumStepsExist ==
  ASSUME NEW S, IsFiniteSet(S), NEW w
  PROVE  \E f : SumSteps(f, w, SUBSET S)
<1> DEFINE D(n) == {T \in SUBSET S : Cardinality(T) <= n}
           Has == {n \in Nat : \E f : SumSteps(f, w, D(n))}
           Step(s, f) == IF s = {} THEN 0
                         ELSE w[CHOOSE x \in s : TRUE] + f[s \ {CHOOSE x \in s : TRUE}]
<1>1. \A T \in SUBSET S : IsFiniteSet(T) /\ Cardinality(T) \in Nat
  BY FS_Subset, FS_CardinalityType
<1>2. \A T \in SUBSET S : \A x \in T : Cardinality(T \ {x}) = Cardinality(T) - 1
  BY <1>1, FS_RemoveElement
<1>3. 0 \in Has
  <2> DEFINE g == [s \in D(0) |-> 0]
  <2>1. \A s \in D(0) : s = {}
    BY <1>1, FS_EmptySet
  <2>2. SumSteps(g, w, D(0))
    <3> HIDE DEF D
    <3>1. QED
      BY <2>1 DEF SumSteps
  <2>3. QED
    BY <2>2, Zenon
<1>4. ASSUME NEW n \in Nat, n \in Has PROVE n + 1 \in Has
  <2>1. PICK f : SumSteps(f, w, D(n))
    BY <1>4
  <2> DEFINE g == [s \in D(n + 1) |-> IF s \in D(n) THEN f[s] ELSE Step(s, f)]
  <2>2. f = [s \in D(n) |-> Step(s, f)]
    BY <2>1 DEF SumSteps
  <2>3. \A s \in D(n) : s \in D(n + 1)
    BY <1>1
  <2>4. ASSUME NEW s \in D(n + 1), s # {}
        PROVE  s \ {CHOOSE x \in s : TRUE} \in D(n)
    <3>1. PICK y : y = CHOOSE x \in s : TRUE
      OBVIOUS
    <3>2. y \in s
      BY <2>4, <3>1
    <3>3. Cardinality(s \ {y}) = Cardinality(s) - 1 /\ Cardinality(s) \in Nat
      BY <1>1, <1>2, <3>2
    <3>4. s \ {y} \in D(n)
      BY <3>3
    <3>5. QED
      BY <3>1, <3>4
  <2> HIDE DEF D
  <2>5. ASSUME NEW s \in D(n + 1) PROVE g[s] = Step(s, f)
    <3>1. CASE s \in D(n)
      <4>1. f[s] = Step(s, f)
        <5> HIDE DEF Step
        <5>1. QED
          BY <2>2, <3>1
      <4>2. QED
        BY <3>1, <4>1
    <3>2. CASE s \notin D(n)
      BY <3>2
    <3>3. QED
      BY <3>1, <3>2
  <2>6. ASSUME NEW s \in D(n + 1) PROVE Step(s, g) = Step(s, f)
    <3>1. CASE s = {}
      BY <3>1
    <3>2. CASE s # {}
      <4>1. PICK t : t = s \ {CHOOSE x \in s : TRUE}
        OBVIOUS
      <4>2. t \in D(n) /\ t \in D(n + 1)
        BY <2>3, <2>4, <3>2, <4>1
      <4>3. g[t] = f[t]
        BY <4>2
      <4>4. QED
        BY <4>1, <4>3
    <3>3. QED
      BY <3>1, <3>2
  <2>7. g = [s \in D(n + 1) |-> Step(s, g)]
    <3>1. \A s \in D(n + 1) : g[s] = Step(s, g)
      <4> HIDE DEF Step, g
      <4>1. QED
        BY <2>5, <2>6
    <3>2. g = [s \in D(n + 1) |-> g[s]]
      OBVIOUS
    <3> HIDE DEF Step, g
    <3>3. QED
      BY <3>1, <3>2
  <2>8. SumSteps(g, w, D(n + 1))
    <3> HIDE DEF g
    <3>1. QED
      BY <2>7 DEF SumSteps
  <2>9. QED
    <3> HIDE DEF g
    <3>1. QED
      BY <2>8
<1>5. Nat \subseteq Has
  <2> HIDE DEF Has
  <2>1. QED
    BY <1>3, <1>4, NatInductionSet
<1>6. Cardinality(S) \in Nat /\ \A T \in SUBSET S : Cardinality(T) <= Cardinality(S)
  BY FS_Subset, FS_CardinalityType
<1>7. D(Cardinality(S)) = SUBSET S
  BY <1>6
<1>8. PICK f : SumSteps(f, w, D(Cardinality(S)))
  <2>1. Cardinality(S) \in Has
    BY <1>5, <1>6
  <2> HIDE DEF D
  <2>2. QED
    BY <2>1
<1>9. QED
  BY <1>7, <1>8

\* The sum does not depend on the set it is computed within, nor on the
\* weights of anything else.
LEMMA SumStepsAgree ==
  ASSUME NEW S, IsFiniteSet(S), NEW T \in SUBSET S, NEW w, NEW v,
         AgreeOn(w, v, T),
         NEW f, SumSteps(f, w, SUBSET S), NEW g, SumSteps(g, v, SUBSET T)
  PROVE  AgreeOn(f, g, SUBSET T)
<1> DEFINE H == {s \in SUBSET T : f[s] = g[s]}
<1>1. IsFiniteSet(T)
  BY FS_Subset
<1>2. ASSUME NEW s \in SUBSET T, \A x \in s : s \ {x} \in H
      PROVE  s \in H
  <2>0. s \in SUBSET S
    OBVIOUS
  <2>1. CASE s = {}
    <3>1. f[s] = 0
      BY <2>0, <2>1 DEF SumSteps
    <3>2. g[s] = 0
      BY <2>1 DEF SumSteps
    <3>3. QED
      BY <3>1, <3>2
  <2>2. CASE s # {}
    <3>1. PICK y : y = CHOOSE x \in s : TRUE
      OBVIOUS
    <3>2. y \in s
      BY <2>2, <3>1
    <3>3. f[s] = w[y] + f[s \ {y}]
      BY <2>0, <2>2, <3>1 DEF SumSteps
    <3>4. g[s] = v[y] + g[s \ {y}]
      BY <2>2, <3>1 DEF SumSteps
    <3>5. f[s \ {y}] = g[s \ {y}] /\ w[y] = v[y]
      BY <1>2, <3>2 DEF AgreeOn
    <3>6. QED
      BY <3>3, <3>4, <3>5
  <2>3. QED
    BY <2>1, <2>2
<1>3. SUBSET T \subseteq H
  <2> HIDE DEF H
  <2>1. QED
    BY <1>1, <1>2, SubsetInduction
<1>4. QED
  BY <1>3 DEF AgreeOn

\* The sum is the value of the last step.
LEMMA TotalSteps ==
  ASSUME NEW S, IsFiniteSet(S), NEW w
  PROVE  \E f : Totals(f, w, S)
<1>1. \A T \in SUBSET S : \E f : SumSteps(f, w, SUBSET T) /\ Total(w, T) = f[T]
  <2>1. TAKE T \in SUBSET S
  <2>2. PICK g : SumSteps(g, w, SUBSET T)
    BY SumStepsExist, FS_Subset
  <2> DEFINE f == CHOOSE iter : SumSteps(iter, w, SUBSET T)
  <2>3. SumSteps(f, w, SUBSET T)
    BY <2>2
  <2>4. Total(w, T) = f[T]
    BY DEF Total, SumSteps, MapThenSumSet, MapThenFoldSet
  <2> HIDE DEF f
  <2>5. QED
    BY <2>3, <2>4
<1>2. PICK f : SumSteps(f, w, SUBSET S)
  BY SumStepsExist
<1>3. ASSUME NEW T \in SUBSET S PROVE Total(w, T) = f[T]
  <2>1. PICK g : SumSteps(g, w, SUBSET T) /\ Total(w, T) = g[T]
    BY <1>1
  <2>2. \A s \in SUBSET T : f[s] = g[s]
    <3>1. AgreeOn(w, w, T)
      BY DEF AgreeOn
    <3>2. AgreeOn(f, g, SUBSET T)
      BY <1>2, <2>1, <3>1, SumStepsAgree
    <3>3. QED
      BY <3>2 DEF AgreeOn
  <2>3. QED
    BY <2>1, <2>2
<1>4. Totals(f, w, S)
  BY <1>2, <1>3 DEF Totals
<1>5. QED
  BY <1>4

\* The sum of natural numbers is one.
LEMMA TotalNat ==
  ASSUME NEW S, IsFiniteSet(S), NEW w, \A x \in S : w[x] \in Nat
  PROVE  \A T \in SUBSET S : Total(w, T) \in Nat
<1> DEFINE H == {s \in SUBSET S : Total(w, s) \in Nat}
<1>0. PICK f : Totals(f, w, S)
  BY TotalSteps
<1>1. SumSteps(f, w, SUBSET S) /\ \A T \in SUBSET S : Total(w, T) = f[T]
  BY <1>0 DEF Totals
<1>2. ASSUME NEW s \in SUBSET S, \A x \in s : s \ {x} \in H
      PROVE  s \in H
  <2>1. CASE s = {}
    <3>1. f[s] = 0
      BY <1>1, <2>1 DEF SumSteps
    <3>2. QED
      BY <1>1, <3>1
  <2>2. CASE s # {}
    <3>1. PICK y : y = CHOOSE x \in s : TRUE
      OBVIOUS
    <3>2. y \in s
      BY <2>2, <3>1
    <3>3. f[s] = w[y] + f[s \ {y}]
      BY <1>1, <2>2, <3>1 DEF SumSteps
    <3>4. Total(w, s \ {y}) = f[s \ {y}] /\ f[s \ {y}] \in Nat /\ w[y] \in Nat
      BY <1>1, <1>2, <3>2
    <3>5. f[s] \in Nat
      BY <3>3, <3>4
    <3>6. QED
      BY <1>1, <3>5
  <2>3. QED
    BY <2>1, <2>2
<1>3. SUBSET S \subseteq H
  <2> HIDE DEF H
  <2>1. QED
    BY <1>2, SubsetInduction
<1>4. QED
  BY <1>3

\* Any element can be taken out first.
LEMMA TotalTake ==
  ASSUME NEW S, IsFiniteSet(S), NEW w, \A x \in S : w[x] \in Nat
  PROVE  /\ Total(w, {}) = 0
         /\ \A T \in SUBSET S : \A x \in T : Total(w, T) = w[x] + Total(w, T \ {x})
<1> DEFINE H == {s \in SUBSET S : \A x \in s : Total(w, s) = w[x] + Total(w, s \ {x})}
<1>0. PICK f : Totals(f, w, S)
  BY TotalSteps
<1>1. SumSteps(f, w, SUBSET S) /\ \A T \in SUBSET S : Total(w, T) = f[T]
  BY <1>0 DEF Totals
<1>2. \A T \in SUBSET S : Total(w, T) \in Nat
  BY TotalNat
<1>3. Total(w, {}) = 0
  <2>1. {} \in SUBSET S /\ f[{}] = 0
    BY <1>1 DEF SumSteps
  <2>2. QED
    BY <1>1, <2>1
<1>4. ASSUME NEW s \in SUBSET S, \A x \in s : s \ {x} \in H
      PROVE  s \in H
  <2>1. SUFFICES ASSUME NEW x \in s PROVE Total(w, s) = w[x] + Total(w, s \ {x})
    OBVIOUS
  <2>2. PICK y : y = CHOOSE z \in s : TRUE
    OBVIOUS
  <2>3. y \in s
    BY <2>2
  <2>4. f[s] = w[y] + f[s \ {y}]
    BY <1>1, <2>2, <2>1 DEF SumSteps
  <2>5. Total(w, s) = w[y] + Total(w, s \ {y})
    BY <1>1, <2>4
  <2>6. CASE x # y
    <3>1. x \in s \ {y} /\ y \in s \ {x}
      BY <2>3, <2>6
    <3>2. Total(w, s \ {y}) = w[x] + Total(w, (s \ {y}) \ {x})
      BY <1>4, <2>3, <3>1
    <3>3. Total(w, s \ {x}) = w[y] + Total(w, (s \ {x}) \ {y})
      BY <1>4, <3>1
    <3>4. PICK r : r = (s \ {y}) \ {x}
      OBVIOUS
    <3>5. r = (s \ {x}) \ {y} /\ r \in SUBSET S
      BY <3>4
    <3>6. w[x] \in Nat /\ w[y] \in Nat /\ Total(w, r) \in Nat
      BY <1>2, <2>3, <3>5
    <3>7. /\ Total(w, s \ {y}) = w[x] + Total(w, r)
          /\ Total(w, s \ {x}) = w[y] + Total(w, r)
      BY <3>2, <3>3, <3>4, <3>5
    <3>8. QED
      BY <2>5, <3>6, <3>7
  <2>7. QED
    BY <2>5, <2>6
<1>5. SUBSET S \subseteq H
  <2> HIDE DEF H
  <2>1. QED
    BY <1>4, SubsetInduction
<1>6. QED
  BY <1>3, <1>5

\* Only the weights of the elements count.
LEMMA TotalSame ==
  ASSUME NEW S, IsFiniteSet(S), NEW w, NEW v, \A x \in S : w[x] = v[x]
  PROVE  Total(w, S) = Total(v, S)
<1>0. PICK f : Totals(f, w, S)
  BY TotalSteps
<1>1. SumSteps(f, w, SUBSET S) /\ \A T \in SUBSET S : Total(w, T) = f[T]
  BY <1>0 DEF Totals
<1>2. PICK g : Totals(g, v, S)
  BY TotalSteps
<1>3. SumSteps(g, v, SUBSET S) /\ \A T \in SUBSET S : Total(v, T) = g[T]
  BY <1>2 DEF Totals
<1>4. S \in SUBSET S
  OBVIOUS
<1>5. \A s \in SUBSET S : f[s] = g[s]
  <2>1. AgreeOn(w, v, S)
    BY DEF AgreeOn
  <2>2. AgreeOn(f, g, SUBSET S)
    BY <1>1, <1>3, <1>4, <2>1, SumStepsAgree
  <2>3. QED
    BY <2>2 DEF AgreeOn
<1>6. QED
  BY <1>1, <1>3, <1>4, <1>5

=============================================================================
