---------------------------- MODULE Sums_proofs -----------------------------
EXTENDS Sums, FiniteSetTheorems, WellFoundedInduction, TLAPS

\* A set of natural numbers that is not empty has a least element.
LEMMA LeastNatural ==
    ASSUME NEW T, T \subseteq Nat, T # {}
    PROVE  \E x \in T : \A y \in T : x <= y
  <1> DEFINE R == OpToRel(<, Nat)
  <1>1. IsWellFoundedOn(R, Nat)
    BY NatLessThanWellFounded
  <1> HIDE DEF R
  <1>2. \E x \in T : \A y \in T : ~(<<y, x>> \in R)
    BY <1>1, WFMin, Zenon
  <1>3. PICK x \in T : \A y \in T : ~(<<y, x>> \in R)
    BY <1>2
  <1>4. ASSUME NEW y \in T
        PROVE  x <= y
    <2>1. x \in Nat /\ y \in Nat
      OBVIOUS
    <2>2. ~(y < x)
      BY <1>3, <2>1 DEF R, OpToRel
    <2> QED
      BY <2>1, <2>2
  <1> QED
    BY <1>4

\* Induction on the natural numbers, with the set of those for which the claim holds.
LEMMA AllNaturals ==
    ASSUME NEW Good, 0 \in Good, \A n \in Nat : n \in Good => n + 1 \in Good
    PROVE  Nat \subseteq Good
  <1> SUFFICES ASSUME Nat \ Good # {}
               PROVE  FALSE
    OBVIOUS
  <1>1. PICK n \in Nat \ Good : \A m \in Nat \ Good : n <= m
    BY LeastNatural
  <1>2. n # 0 /\ n - 1 \in Nat
    BY <1>1
  <1>3. n - 1 \in Good
    BY <1>1, <1>2
  <1> QED
    BY <1>1, <1>2, <1>3

\* Complete induction on the natural numbers.
LEMMA AllNaturalsInOrder ==
    ASSUME NEW Good, \A n \in Nat : (\A m \in Nat : m < n => m \in Good) => n \in Good
    PROVE  Nat \subseteq Good
  <1> SUFFICES ASSUME Nat \ Good # {}
               PROVE  FALSE
    OBVIOUS
  <1>1. PICK n \in Nat \ Good : \A m \in Nat \ Good : n <= m
    BY LeastNatural
  <1>2. \A m \in Nat : m < n => m \in Good
    BY <1>1
  <1> QED
    BY <1>1, <1>2

-----------------------------------------------------------------------------
Element(s) == CHOOSE x \in s : TRUE

\* g has the sums of v over all the subsets of S, added up in the order of Element.
SumsUp(g, S, v) ==
    /\ g \in [SUBSET S -> Int]
    /\ g[{}] = 0
    /\ \A s \in SUBSET S : s # {} => g[s] = v[Element(s)] + g[s \ {Element(s)}]

\* The chosen element is one.
LEMMA ElementOf ==
    ASSUME NEW s, s # {}
    PROVE  Element(s) \in s
  BY DEF Element

\* A subset without one of its elements.
LEMMA OneLess ==
    ASSUME NEW S, IsFiniteSet(S), NEW s \in SUBSET S, NEW x \in s
    PROVE  /\ IsFiniteSet(s) /\ s \ {x} \in SUBSET S
           /\ Cardinality(s) \in Nat /\ Cardinality(s \ {x}) \in Nat
           /\ Cardinality(s) = Cardinality(s \ {x}) + 1
  <1>1. IsFiniteSet(s)
    BY FS_Subset
  <1>2. Cardinality(s) \in Nat /\ Cardinality(s \ {x}) = Cardinality(s) - 1
    BY <1>1, FS_CardinalityType, FS_RemoveElement
  <1>3. IsFiniteSet(s \ {x})
    BY <1>1, FS_Subset
  <1>4. Cardinality(s \ {x}) \in Nat
    BY <1>3, FS_CardinalityType
  <1> QED
    BY <1>1, <1>2, <1>4

\* A subset of a finite set is empty or has an element at least.
LEMMA NoneOrMore ==
    ASSUME NEW S, IsFiniteSet(S), NEW s \in SUBSET S
    PROVE  Cardinality(s) \in Nat /\ (s # {} => Cardinality(s) >= 1)
  <1>1. IsFiniteSet(s)
    BY FS_Subset
  <1>2. Cardinality(s) \in Nat /\ (Cardinality(s) = 0 <=> s = {})
    BY <1>1, FS_CardinalityType, FS_EmptySet
  <1> QED
    BY <1>2

\* There are such sums: those of the subsets with at most n elements, for more and more n.
LEMMA SumsExist ==
    ASSUME NEW S, IsFiniteSet(S), NEW v, \A x \in S : v[x] \in Int
    PROVE  \E g : SumsUp(g, S, v)
  <1> DEFINE Upto(g, n) ==
               /\ g \in [SUBSET S -> Int]
               /\ g[{}] = 0
               /\ \A s \in SUBSET S : s # {} /\ Cardinality(s) <= n =>
                      g[s] = v[Element(s)] + g[s \ {Element(s)}]
             Good == {n \in Nat : \E g : Upto(g, n)}
  <1>1. 0 \in Good
    <2> DEFINE g == [s \in SUBSET S |-> 0]
    <2>1. \A s \in SUBSET S : s # {} => ~(Cardinality(s) <= 0)
      BY NoneOrMore
    <2>2. Upto(g, 0)
      BY <2>1
    <2> QED
      BY <2>2
  <1>2. ASSUME NEW n \in Nat, n \in Good
        PROVE  n + 1 \in Good
    <2>1. PICK g : Upto(g, n)
      BY <1>2
    <2> DEFINE h == [s \in SUBSET S |-> IF s # {} /\ Cardinality(s) = n + 1
                                       THEN v[Element(s)] + g[s \ {Element(s)}]
                                       ELSE g[s]]
    <2>2. \A s \in SUBSET S : s # {} => Element(s) \in s /\ s \ {Element(s)} \in SUBSET S
      BY ElementOf, OneLess
    <2>3. h \in [SUBSET S -> Int]
      BY <2>1, <2>2
    <2>4. h[{}] = 0
      BY <2>1
    <2>5. ASSUME NEW s \in SUBSET S, s # {}, Cardinality(s) <= n + 1
          PROVE  h[s] = v[Element(s)] + h[s \ {Element(s)}]
      <3> DEFINE e == Element(s)
                 t == s \ {e}
      <3>1. /\ e \in s /\ t \in SUBSET S
            /\ Cardinality(s) = Cardinality(t) + 1
            /\ Cardinality(s) \in Nat /\ Cardinality(t) \in Nat
        BY <2>5, ElementOf, OneLess
      <3>2. h[t] = g[t]
        BY <2>5, <3>1
      <3>3. CASE Cardinality(s) = n + 1
        BY <2>5, <3>2, <3>3
      <3>4. CASE Cardinality(s) <= n
        <4>1. h[s] = g[s]
          BY <2>5, <3>1, <3>4
        <4> QED
          BY <2>1, <2>5, <3>2, <3>4, <4>1
      <3> QED
        BY <2>5, <3>1, <3>3, <3>4
    <2> HIDE DEF h
    <2>6. Upto(h, n + 1)
      BY <2>3, <2>4, <2>5
    <2> HIDE DEF Upto
    <2> QED
      BY <2>6
  <1>3. Nat \subseteq Good
    <2> HIDE DEF Good
    <2> QED
      BY <1>1, <1>2, AllNaturals
  <1>4. Cardinality(S) \in Nat /\ \A s \in SUBSET S : Cardinality(s) <= Cardinality(S)
    BY FS_CardinalityType, FS_Subset
  <1>5. PICK g : Upto(g, Cardinality(S))
    BY <1>3, <1>4
  <1> QED
    BY <1>4, <1>5 DEF SumsUp

\* The values of the elements of S are the same.
SameOn(v, w, S) == \A x \in S : v[x] = w[x]

\* The sums of a subset depend only on the values in it.
LEMMA SumsAgree ==
    ASSUME NEW S, NEW T, IsFiniteSet(S), NEW v, NEW w, NEW g, NEW h,
           T \subseteq S, SumsUp(g, S, v), SumsUp(h, T, w), SameOn(v, w, T)
    PROVE  \A s \in SUBSET T : g[s] = h[s]
  <1> DEFINE Good == {n \in Nat : \A s \in SUBSET T : Cardinality(s) = n => g[s] = h[s]}
  <1>1. 0 \in Good
    <2>1. \A s \in SUBSET S : Cardinality(s) = 0 => s = {}
      BY NoneOrMore
    <2> QED
      BY <2>1 DEF SumsUp
  <1>2. ASSUME NEW n \in Nat, n \in Good
        PROVE  n + 1 \in Good
    <2> SUFFICES ASSUME NEW s \in SUBSET T, Cardinality(s) = n + 1
                 PROVE  g[s] = h[s]
      OBVIOUS
    <2> DEFINE t == s \ {Element(s)}
    <2>1. s # {}
      BY FS_EmptySet
    <2>2. Element(s) \in s /\ t \in SUBSET T /\ Cardinality(t) = n
      BY <2>1, ElementOf, OneLess
    <2>3. g[t] = h[t]
      BY <1>2, <2>2
    <2> QED
      BY <2>1, <2>2, <2>3 DEF SumsUp, SameOn
  <1>3. Nat \subseteq Good
    <2> HIDE DEF Good
    <2> QED
      BY <1>1, <1>2, AllNaturals
  <1>4. \A s \in SUBSET T : Cardinality(s) \in Nat
    BY FS_CardinalityType, FS_Subset
  <1> QED
    BY <1>3, <1>4

\* Each element adds its value, in whatever order.
EachAdds(g, S, v) == \A s \in SUBSET S : \A x \in s : g[s] = v[x] + g[s \ {x}]

\* The order of Element makes no difference.
LEMMA AnyOrder ==
    ASSUME NEW S, IsFiniteSet(S), NEW v, \A x \in S : v[x] \in Int, NEW g, SumsUp(g, S, v)
    PROVE  EachAdds(g, S, v)
  <1> DEFINE Good == {n \in Nat : \A s \in SUBSET S : Cardinality(s) = n =>
                                     \A x \in s : g[s] = v[x] + g[s \ {x}]}
  <1>1. 0 \in Good
    <2>1. \A s \in SUBSET S : Cardinality(s) = 0 => s = {}
      BY NoneOrMore
    <2> QED
      BY <2>1
  <1>2. ASSUME NEW n \in Nat, n \in Good
        PROVE  n + 1 \in Good
    <2> SUFFICES ASSUME NEW s \in SUBSET S, Cardinality(s) = n + 1, NEW x \in s
                 PROVE  g[s] = v[x] + g[s \ {x}]
      OBVIOUS
    <2> DEFINE c == Element(s)
    <2>1. c \in s /\ g[s] = v[c] + g[s \ {c}]
      BY ElementOf DEF SumsUp
    <2>2. CASE x = c
      BY <2>1, <2>2
    <2>3. CASE x # c
      <3>1. /\ s \ {c} \in SUBSET S /\ Cardinality(s \ {c}) = n
            /\ s \ {x} \in SUBSET S /\ Cardinality(s \ {x}) = n
        BY <2>1, OneLess
      <3>2. g[s \ {c}] = v[x] + g[(s \ {c}) \ {x}]
        BY <1>2, <2>3, <3>1
      <3>3. g[s \ {x}] = v[c] + g[(s \ {x}) \ {c}]
        BY <1>2, <2>1, <2>3, <3>1
      <3> DEFINE r == g[(s \ {c}) \ {x}]
      <3>4. (s \ {c}) \ {x} = (s \ {x}) \ {c} /\ (s \ {c}) \ {x} \in SUBSET S
        OBVIOUS
      <3>5. r \in Int /\ g[s \ {x}] = v[c] + r /\ g[s \ {c}] = v[x] + r
        BY <3>2, <3>3, <3>4 DEF SumsUp
      <3>6. v[c] \in Int /\ v[x] \in Int
        BY <2>1
      <3> HIDE DEF r
      <3>7. v[c] + (v[x] + r) = v[x] + (v[c] + r)
        BY <3>5, <3>6
      <3> QED
        BY <2>1, <3>5, <3>7
    <2> QED
      BY <2>2, <2>3
  <1>3. Nat \subseteq Good
    <2> HIDE DEF Good
    <2> QED
      BY <1>1, <1>2, AllNaturals
  <1>4. \A s \in SUBSET S : Cardinality(s) \in Nat
    BY FS_CardinalityType, FS_Subset
  <1> QED
    BY <1>3, <1>4 DEF EachAdds

-----------------------------------------------------------------------------
(* SumOver *)

\* What SumOver adds up is one of the sums above.
LEMMA SumOverSumsUp ==
    ASSUME NEW S, IsFiniteSet(S), NEW v, \A x \in S : v[x] \in Int
    PROVE  \E g : SumsUp(g, S, v) /\ SumOver(v, S) = g[S]
  <1> DEFINE Adds(g) == g = [s \in SUBSET S |->
                               IF s = {} THEN 0
                               ELSE v[Element(s)] + g[s \ {Element(s)}]]
             sums == CHOOSE g : Adds(g)
  <1>1. \E g : Adds(g)
    <2>1. PICK g : SumsUp(g, S, v)
      BY SumsExist
    <2>2. Adds(g)
      BY <2>1 DEF SumsUp
    <2> QED
      BY <2>2
  <1>2. Adds(sums)
    <2> HIDE DEF Adds
    <2> QED
      BY <1>1
  <1>3. SumOver(v, S) = sums[S]
    BY DEF SumOver, Fcn!SumFunctionOnSet, Fcn!FoldFunctionOnSet, Fcn!MapThenFoldSet, Element
  <1>4. PICK g : SumsUp(g, S, v)
    BY SumsExist
  <1> HIDE DEF sums
  <1>5. \A s \in SUBSET S : sums[s] = g[s]
    <2> DEFINE Good == {n \in Nat : \A s \in SUBSET S : Cardinality(s) = n => sums[s] = g[s]}
    <2>1. 0 \in Good
      <3>1. \A s \in SUBSET S : Cardinality(s) = 0 => s = {}
        BY NoneOrMore
      <3> QED
        BY <1>2, <1>4, <3>1 DEF SumsUp
    <2>2. ASSUME NEW n \in Nat, n \in Good
          PROVE  n + 1 \in Good
      <3> SUFFICES ASSUME NEW s \in SUBSET S, Cardinality(s) = n + 1
                   PROVE  sums[s] = g[s]
        OBVIOUS
      <3> DEFINE t == s \ {Element(s)}
      <3>1. s # {}
        BY FS_EmptySet
      <3>2. t \in SUBSET S /\ Cardinality(t) = n
        BY <3>1, ElementOf, OneLess
      <3>3. sums[t] = g[t]
        BY <2>2, <3>2
      <3>4. sums[s] = v[Element(s)] + sums[t]
        BY <1>2, <3>1
      <3>5. g[s] = v[Element(s)] + g[t]
        BY <1>4, <3>1 DEF SumsUp
      <3> QED
        BY <3>3, <3>4, <3>5
    <2>3. Nat \subseteq Good
      <3> HIDE DEF Good
      <3> QED
        BY <2>1, <2>2, AllNaturals
    <2> QED
      BY <2>3, NoneOrMore
  <1> QED
    BY <1>3, <1>4, <1>5

\* g has what SumOver makes of the subsets, added up in any order.
SumsOfSubsets(g, S, v) ==
    /\ g \in [SUBSET S -> Int]
    /\ g[{}] = 0
    /\ EachAdds(g, S, v)
    /\ \A s \in SUBSET S : SumOver(v, s) = g[s]

\* There is such a function for every finite set of integers.
LEMMA SumOverSubsets ==
    ASSUME NEW S, IsFiniteSet(S), NEW v, \A x \in S : v[x] \in Int
    PROVE  \E g : SumsOfSubsets(g, S, v)
  <1>1. PICK g : SumsUp(g, S, v)
    BY SumsExist
  <1>2. ASSUME NEW s \in SUBSET S
        PROVE  SumOver(v, s) = g[s]
    <2>1. IsFiniteSet(s) /\ \A x \in s : v[x] \in Int
      BY FS_Subset
    <2>2. PICK h : SumsUp(h, s, v) /\ SumOver(v, s) = h[s]
      BY <2>1, SumOverSumsUp
    <2>3. s \subseteq S /\ SameOn(v, v, s)
      BY DEF SameOn
    <2>4. \A t \in SUBSET s : g[t] = h[t]
      BY <1>1, <2>2, <2>3, SumsAgree
    <2> QED
      BY <2>2, <2>4
  <1>3. g \in [SUBSET S -> Int] /\ g[{}] = 0
    BY <1>1 DEF SumsUp
  <1>4. EachAdds(g, S, v)
    BY <1>1, AnyOrder
  <1>5. SumsOfSubsets(g, S, v)
    BY <1>2, <1>3, <1>4 DEF SumsOfSubsets
  <1> QED
    BY <1>5

\* The sum over a finite set of integers is an integer.
LEMMA SumType ==
    ASSUME NEW S, IsFiniteSet(S), NEW v, \A x \in S : v[x] \in Int
    PROVE  SumOver(v, S) \in Int
  <1>1. PICK g : SumsOfSubsets(g, S, v)
    BY SumOverSubsets
  <1> QED
    BY <1>1 DEF SumsOfSubsets

\* Nothing adds up to nothing.
LEMMA SumOfNone ==
    ASSUME NEW v
    PROVE  SumOver(v, {}) = 0
  <1>1. PICK g : SumsOfSubsets(g, {}, v)
    BY SumOverSubsets, FS_EmptySet
  <1> QED
    BY <1>1 DEF SumsOfSubsets

\* One more element adds its value.
LEMMA SumWithOneMore ==
    ASSUME NEW S, IsFiniteSet(S), NEW x, x \notin S, NEW v,
           \A y \in S \cup {x} : v[y] \in Int
    PROVE  SumOver(v, S \cup {x}) = SumOver(v, S) + v[x]
  <1> DEFINE T == S \cup {x}
  <1>1. IsFiniteSet(T)
    BY FS_AddElement
  <1>2. PICK g : SumsOfSubsets(g, T, v)
    BY <1>1, SumOverSubsets
  <1>3. T \ {x} = S /\ T \in SUBSET T /\ S \in SUBSET T /\ x \in T
    OBVIOUS
  <1>4. SumOver(v, T) = v[x] + SumOver(v, S)
    BY <1>2, <1>3 DEF SumsOfSubsets, EachAdds
  <1>5. SumOver(v, S) \in Int /\ v[x] \in Int
    BY <1>2, <1>3 DEF SumsOfSubsets
  <1> QED
    BY <1>4, <1>5

\* Induction on the subsets of a finite set, with the set of those for which the claim holds.
LEMMA AllSubsets ==
    ASSUME NEW S, IsFiniteSet(S), NEW Good, {} \in Good,
           \A s \in SUBSET S : \A x \in S \ s : s \in Good => s \cup {x} \in Good
    PROVE  S \in Good
  <1> DEFINE Fine == {n \in Nat : \A s \in SUBSET S : Cardinality(s) = n => s \in Good}
  <1>1. 0 \in Fine
    BY NoneOrMore
  <1>2. ASSUME NEW n \in Nat, n \in Fine
        PROVE  n + 1 \in Fine
    <2> SUFFICES ASSUME NEW s \in SUBSET S, Cardinality(s) = n + 1
                 PROVE  s \in Good
      OBVIOUS
    <2>1. s # {}
      BY FS_EmptySet
    <2>2. PICK x : x \in s
      BY <2>1
    <2>3. s \ {x} \in SUBSET S /\ Cardinality(s \ {x}) = n
      BY <2>2, OneLess
    <2>4. (s \ {x}) \cup {x} = s /\ x \in S \ (s \ {x})
      BY <2>2
    <2> QED
      BY <1>2, <2>3, <2>4
  <1>3. Nat \subseteq Fine
    <2> HIDE DEF Fine
    <2> QED
      BY <1>1, <1>2, AllNaturals
  <1> QED
    BY <1>3, FS_CardinalityType

\* Sums of the same values are equal.
LEMMA SumSame ==
    ASSUME NEW S, IsFiniteSet(S), NEW v, NEW w,
           \A x \in S : v[x] \in Int, SameOn(v, w, S)
    PROVE  SumOver(v, S) = SumOver(w, S)
  <1>1. PICK g : SumsUp(g, S, v) /\ SumOver(v, S) = g[S]
    BY SumOverSumsUp
  <1>2. \A x \in S : w[x] \in Int
    BY DEF SameOn
  <1>3. PICK h : SumsUp(h, S, w) /\ SumOver(w, S) = h[S]
    BY <1>2, SumOverSumsUp
  <1>4. \A s \in SUBSET S : g[s] = h[s]
    BY <1>1, <1>3, SumsAgree
  <1> QED
    BY <1>1, <1>3, <1>4

\* The sum grows with the values.
LEMMA SumAtMost ==
    ASSUME NEW S, IsFiniteSet(S), NEW v, NEW w,
           \A x \in S : v[x] \in Int /\ w[x] \in Int /\ v[x] <= w[x]
    PROVE  SumOver(v, S) <= SumOver(w, S)
  <1> DEFINE Good == {s \in SUBSET S : SumOver(v, s) <= SumOver(w, s)}
  <1>1. {} \in Good
    BY SumOfNone
  <1>2. ASSUME NEW s \in SUBSET S, NEW x \in S \ s, s \in Good
        PROVE  s \cup {x} \in Good
    <2>1. IsFiniteSet(s)
      BY FS_Subset
    <2>2. /\ SumOver(v, s) \in Int /\ SumOver(v, s \cup {x}) = SumOver(v, s) + v[x]
          /\ SumOver(w, s) \in Int /\ SumOver(w, s \cup {x}) = SumOver(w, s) + w[x]
      BY <2>1, SumType, SumWithOneMore
    <2>3. v[x] \in Int /\ w[x] \in Int /\ v[x] <= w[x]
      OBVIOUS
    <2> QED
      BY <1>2, <2>2, <2>3
  <1>3. S \in Good
    <2> HIDE DEF Good
    <2> QED
      BY <1>1, <1>2, AllSubsets
  <1> QED
    BY <1>3

\* The sum of natural numbers is one.
LEMMA SumNatural ==
    ASSUME NEW S, IsFiniteSet(S), NEW v, \A x \in S : v[x] \in Nat
    PROVE  SumOver(v, S) \in Nat
  <1> DEFINE Good == {s \in SUBSET S : SumOver(v, s) \in Nat}
  <1>1. {} \in Good
    BY SumOfNone
  <1>2. ASSUME NEW s \in SUBSET S, NEW x \in S \ s, s \in Good
        PROVE  s \cup {x} \in Good
    <2>1. IsFiniteSet(s) /\ \A y \in S : v[y] \in Int
      BY FS_Subset
    <2>2. SumOver(v, s \cup {x}) = SumOver(v, s) + v[x]
      BY <2>1, SumWithOneMore
    <2>3. v[x] \in Nat
      OBVIOUS
    <2> QED
      BY <1>2, <2>2, <2>3
  <1>3. S \in Good
    <2> HIDE DEF Good
    <2> QED
      BY <1>1, <1>2, AllSubsets
  <1> QED
    BY <1>3

\* The sum of sums.
LEMMA SumOfBoth ==
    ASSUME NEW S, IsFiniteSet(S), NEW u, NEW v, NEW w,
           \A x \in S : v[x] \in Int /\ w[x] \in Int /\ u[x] = v[x] + w[x]
    PROVE  SumOver(u, S) = SumOver(v, S) + SumOver(w, S)
  <1> DEFINE Good == {s \in SUBSET S : SumOver(u, s) = SumOver(v, s) + SumOver(w, s)}
  <1>1. {} \in Good
    BY SumOfNone
  <1>2. ASSUME NEW s \in SUBSET S, NEW x \in S \ s, s \in Good
        PROVE  s \cup {x} \in Good
    <2>1. IsFiniteSet(s)
      BY FS_Subset
    <2>2. \A y \in S : u[y] \in Int
      OBVIOUS
    <2>3. /\ SumOver(v, s) \in Int /\ SumOver(v, s \cup {x}) = SumOver(v, s) + v[x]
          /\ SumOver(w, s) \in Int /\ SumOver(w, s \cup {x}) = SumOver(w, s) + w[x]
          /\ SumOver(u, s \cup {x}) = SumOver(u, s) + u[x]
      BY <2>1, <2>2, SumType, SumWithOneMore
    <2>4. v[x] \in Int /\ w[x] \in Int /\ u[x] = v[x] + w[x]
      OBVIOUS
    <2> QED
      BY <1>2, <2>3, <2>4
  <1>3. S \in Good
    <2> HIDE DEF Good
    <2> QED
      BY <1>1, <1>2, AllSubsets
  <1> QED
    BY <1>3

\* The sum of as many values that are all the same.
LEMMA SumOfSame ==
    ASSUME NEW S, IsFiniteSet(S), NEW v, NEW c \in Int, \A x \in S : v[x] = c
    PROVE  SumOver(v, S) = Cardinality(S) * c
  <1> DEFINE Good == {s \in SUBSET S : SumOver(v, s) = Cardinality(s) * c}
  <1>1. {} \in Good
    BY SumOfNone, FS_EmptySet
  <1>2. ASSUME NEW s \in SUBSET S, NEW x \in S \ s, s \in Good
        PROVE  s \cup {x} \in Good
    <2>1. IsFiniteSet(s)
      BY FS_Subset
    <2>2. \A y \in S : v[y] \in Int
      OBVIOUS
    <2>3. SumOver(v, s \cup {x}) = SumOver(v, s) + c
      <3>1. SumOver(v, s \cup {x}) = SumOver(v, s) + v[x]
        BY <2>1, <2>2, SumWithOneMore
      <3> QED
        BY <3>1
    <2>4. Cardinality(s) \in Nat /\ Cardinality(s \cup {x}) = Cardinality(s) + 1
      BY <2>1, FS_CardinalityType, FS_AddElement
    <2>5. SumOver(v, s) = Cardinality(s) * c
      BY <1>2
    <2> DEFINE n == Cardinality(s)
    <2>6. (n + 1) * c = n * c + c
      BY <2>4
    <2> QED
      BY <2>3, <2>4, <2>5, <2>6
  <1>3. S \in Good
    <2> HIDE DEF Good
    <2> QED
      BY <1>1, <1>2, AllSubsets
  <1> QED
    BY <1>3

\* A factor of all the values is one of the sum.
LEMMA SumTimes ==
    ASSUME NEW S, IsFiniteSet(S), NEW v, NEW w, NEW k \in Int,
           \A x \in S : v[x] \in Int /\ w[x] = k * v[x]
    PROVE  SumOver(w, S) = k * SumOver(v, S)
  <1> DEFINE Good == {s \in SUBSET S : SumOver(w, s) = k * SumOver(v, s)}
  <1>1. {} \in Good
    BY SumOfNone
  <1>2. ASSUME NEW s \in SUBSET S, NEW x \in S \ s, s \in Good
        PROVE  s \cup {x} \in Good
    <2>1. IsFiniteSet(s)
      BY FS_Subset
    <2>2. \A y \in S : w[y] \in Int
      OBVIOUS
    <2>3. /\ SumOver(v, s) \in Int /\ SumOver(v, s \cup {x}) = SumOver(v, s) + v[x]
          /\ SumOver(w, s \cup {x}) = SumOver(w, s) + w[x]
      BY <2>1, <2>2, SumType, SumWithOneMore
    <2>4. v[x] \in Int /\ w[x] = k * v[x]
      OBVIOUS
    <2> DEFINE a == SumOver(v, s)
    <2>5. k * (a + v[x]) = k * a + k * v[x]
      BY <2>3, <2>4
    <2> QED
      BY <1>2, <2>3, <2>4, <2>5
  <1>3. S \in Good
    <2> HIDE DEF Good
    <2> QED
      BY <1>1, <1>2, AllSubsets
  <1> QED
    BY <1>3

\* One value is its own sum.
LEMMA SumOfOne ==
    ASSUME NEW x, NEW v, v[x] \in Int
    PROVE  SumOver(v, {x}) = v[x]
  <1>1. SumOver(v, {} \cup {x}) = SumOver(v, {}) + v[x]
    BY SumWithOneMore, FS_EmptySet
  <1>2. SumOver(v, {}) = 0
    BY SumOfNone
  <1>3. {} \cup {x} = {x}
    OBVIOUS
  <1> QED
    BY <1>1, <1>2, <1>3

\* The sum of as many values that are all a constant more.
LEMMA SumPlusSame ==
    ASSUME NEW S, IsFiniteSet(S), NEW v, NEW u, NEW c \in Int,
           \A x \in S : v[x] \in Int /\ u[x] = v[x] + c
    PROVE  SumOver(u, S) = SumOver(v, S) + Cardinality(S) * c
  <1> DEFINE w == [x \in S |-> c]
  <1>1. \A x \in S : v[x] \in Int /\ w[x] \in Int /\ u[x] = v[x] + w[x]
    OBVIOUS
  <1>2. \A x \in S : w[x] = c
    OBVIOUS
  <1> HIDE DEF w
  <1>3. SumOver(u, S) = SumOver(v, S) + SumOver(w, S)
    BY <1>1, SumOfBoth
  <1>4. SumOver(w, S) = Cardinality(S) * c
    BY <1>2, SumOfSame
  <1> QED
    BY <1>3, <1>4

-----------------------------------------------------------------------------
(* TwoTo *)

\* The recursive definition has a solution: those up to n, for more and more n.
LEMMA TwoToIs ==
    \A n \in Nat : TwoTo[n] = IF n = 0 THEN 1 ELSE 2 * TwoTo[n - 1]
  <1> DEFINE Is(p) == p = [n \in Nat |-> IF n = 0 THEN 1 ELSE 2 * p[n - 1]]
             Upto(p, k) == /\ p \in [Nat -> Nat]
                           /\ p[0] = 1
                           /\ \A n \in Nat : n < k => p[n + 1] = 2 * p[n]
             Good == {k \in Nat : \E p : Upto(p, k)}
             Agree == {n \in Nat : \A k, m \in Nat : \A p, q :
                          n <= k /\ n <= m /\ Upto(p, k) /\ Upto(q, m) => p[n] = q[n]}
  <1>1. 0 \in Good
    <2>1. Upto([n \in Nat |-> 1], 0)
      OBVIOUS
    <2> QED
      BY <2>1
  <1>2. ASSUME NEW k \in Nat, k \in Good
        PROVE  k + 1 \in Good
    <2>1. PICK p : Upto(p, k)
      BY <1>2
    <2> DEFINE q == [n \in Nat |-> IF n = k + 1 THEN 2 * p[k] ELSE p[n]]
    <2>2. q \in [Nat -> Nat] /\ q[0] = 1
      BY <2>1
    <2>3. ASSUME NEW n \in Nat, n < k + 1
          PROVE  q[n + 1] = 2 * q[n]
      <3>1. q[n] = p[n]
        BY <2>3
      <3>2. CASE n = k
        BY <3>1, <3>2
      <3>3. CASE n < k
        BY <2>1, <3>1, <3>3
      <3> QED
        BY <2>3, <3>2, <3>3
    <2> HIDE DEF q
    <2>4. Upto(q, k + 1)
      BY <2>2, <2>3
    <2> HIDE DEF Upto
    <2> QED
      BY <2>4
  <1>3. Nat \subseteq Good
    <2> HIDE DEF Good
    <2> QED
      BY <1>1, <1>2, AllNaturals
  <1>4. 0 \in Agree
    OBVIOUS
  <1>5. ASSUME NEW n \in Nat, n \in Agree
        PROVE  n + 1 \in Agree
    <2> HIDE DEF Upto
    <2> SUFFICES ASSUME NEW k \in Nat, NEW m \in Nat, NEW p, NEW q,
                        n + 1 <= k, n + 1 <= m, Upto(p, k), Upto(q, m)
                 PROVE  p[n + 1] = q[n + 1]
      OBVIOUS
    <2>1. p[n] = q[n]
      <3>1. n <= k /\ n <= m
        OBVIOUS
      <3> QED
        BY <1>5, <3>1
    <2> QED
      BY <2>1 DEF Upto
  <1>6. Nat \subseteq Agree
    <2> HIDE DEF Agree
    <2> QED
      BY <1>4, <1>5, AllNaturals
  <1> DEFINE part(k) == CHOOSE p : Upto(p, k)
             all == [n \in Nat |-> part(n)[n]]
  <1>7. \A k \in Nat : Upto(part(k), k)
    <2> HIDE DEF Upto
    <2> QED
      BY <1>3
  <1>8. ASSUME NEW n \in Nat
        PROVE  all[n] = IF n = 0 THEN 1 ELSE 2 * all[n - 1]
    <2>1. CASE n = 0
      <3>1. Upto(part(0), 0)
        BY <1>7
      <3> HIDE DEF part
      <3> QED
        BY <2>1, <3>1
    <2>2. CASE n # 0
      <3> DEFINE m == n - 1
                 p == part(n)
                 q == part(m)
      <3>1. m \in Nat /\ m < n /\ m + 1 = n /\ m <= n /\ m <= m
        BY <2>2
      <3>2. Upto(p, n) /\ Upto(q, m)
        BY <1>7, <3>1
      <3> HIDE DEF p, q, m
      <3>3. p[m] = q[m]
        <4> HIDE DEF Upto
        <4> QED
          BY <1>6, <3>1, <3>2
      <3>4. p[n] = 2 * p[m]
        BY <3>1, <3>2
      <3>5. all[n] = p[n] /\ all[n - 1] = q[m]
        <4> HIDE DEF part
        <4> QED
          BY <3>1 DEF p, q, m
      <3> QED
        BY <2>2, <3>3, <3>4, <3>5
    <2> QED
      BY <2>1, <2>2
  <1> HIDE DEF part
  <1>9. Is(all)
    <2>1. all = [n \in Nat |-> IF n = 0 THEN 1 ELSE 2 * all[n - 1]]
      BY <1>8, Zenon
    <2> QED
      BY <2>1
  <1>10. Is(TwoTo)
    <2> HIDE DEF Is
    <2>1. Is(CHOOSE p : Is(p))
      BY <1>9
    <2> QED
      BY <2>1 DEF TwoTo, Is
  <1> QED
    BY <1>10, Zenon

\* The powers of two are positive.
LEMMA PowersOfTwo ==
    /\ TwoTo[0] = 1
    /\ \A n \in Nat : TwoTo[n] \in Nat \ {0} /\ TwoTo[n + 1] = 2 * TwoTo[n]
  <1> DEFINE Good == {n \in Nat : TwoTo[n] \in Nat \ {0}}
  <1>1. TwoTo[0] = 1
    BY TwoToIs
  <1>2. ASSUME NEW n \in Nat
        PROVE  TwoTo[n + 1] = 2 * TwoTo[n]
    <2>1. n + 1 \in Nat /\ n + 1 # 0 /\ (n + 1) - 1 = n
      OBVIOUS
    <2> QED
      BY <2>1, TwoToIs
  <1>3. 0 \in Good
    BY <1>1
  <1>4. \A n \in Nat : n \in Good => n + 1 \in Good
    BY <1>2
  <1>5. Nat \subseteq Good
    <2> HIDE DEF Good
    <2> QED
      BY <1>3, <1>4, AllNaturals
  <1> QED
    BY <1>1, <1>2, <1>5

\* The quotient and the rest are the only ones that fit.
LEMMA OnlyQuotient ==
    ASSUME NEW x \in Nat, NEW c \in Nat \ {0}, NEW k \in Nat, NEW r \in Nat,
           x = k * c + r, r < c
    PROVE  x \div c = k /\ x % c = r
  <1> DEFINE q == x \div c
  <1>1. q \in Nat /\ x % c \in 0..(c - 1) /\ x = q * c + (x % c)
    OBVIOUS
  <1>2. q = k
    <2>1. CASE q < k
      <3>1. (q + 1) * c <= k * c
        BY <1>1, <2>1
      <3> QED
        BY <1>1, <3>1
    <2>2. CASE q > k
      <3>1. (k + 1) * c <= q * c
        BY <1>1, <2>2
      <3> QED
        BY <1>1, <3>1
    <2> QED
      BY <1>1, <2>1, <2>2
  <1> QED
    BY <1>1, <1>2

\* Halving a power doubles the quotient, and its last bit is the upper one of the rest.
LEMMA DivideByHalf ==
    ASSUME NEW p \in Nat, NEW a \in Nat \ {0}
    PROVE  /\ p \div a \in Nat /\ p % a \in 0..(a - 1)
           /\ p \div (2 * a) = (p \div a) \div 2
           /\ p % (2 * a) = IF (p \div a) % 2 = 0 THEN p % a ELSE a + (p % a)
  <1> DEFINE q == p \div a
             r == p % a
             k == q \div 2
  <1>1. q \in Nat /\ r \in 0..(a - 1) /\ p = q * a + r
    OBVIOUS
  <1>2. k \in Nat /\ ((q = 2 * k /\ q % 2 = 0) \/ (q = 2 * k + 1 /\ q % 2 = 1))
    BY <1>1
  <1> HIDE DEF q, r, k
  <1>3. CASE q = 2 * k /\ q % 2 = 0
    <2>1. p = k * (2 * a) + r
      BY <1>1, <1>2, <1>3
    <2>2. p \div (2 * a) = k /\ p % (2 * a) = r
      BY <1>1, <1>2, <2>1, OnlyQuotient
    <2> QED
      BY <1>1, <1>3, <2>2 DEF q, r, k
  <1>4. CASE q = 2 * k + 1 /\ q % 2 = 1
    <2>1. p = k * (2 * a) + (a + r)
      BY <1>1, <1>2, <1>4
    <2>2. p \div (2 * a) = k /\ p % (2 * a) = a + r
      BY <1>1, <1>2, <2>1, OnlyQuotient
    <2> QED
      BY <1>1, <1>4, <2>2 DEF q, r, k
  <1> QED
    BY <1>2, <1>3, <1>4
=============================================================================
