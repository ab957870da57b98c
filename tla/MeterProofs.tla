---------------------------- MODULE MeterProofs -----------------------------
(***************************************************************************)
(* Proofs about what chats use, for every pricing and any messages: that a *)
(* run is priced by its steps, that the summary counts the rows that were  *)
(* booked, and each once, that the meter of the context window begins      *)
(* where the model's view does, and that its categories add up.            *)
(*                                                                         *)
(* A set of numbers that has zero and with each number the next has all of *)
(* them, as every nonempty set of numbers has a least; the same for the    *)
(* subsets of a finite set.  What a fold comes to is proved by such sets.  *)
(***************************************************************************)
EXTENDS Usage, ContextWindow, SequenceTheorems, WellFoundedInduction, FiniteSetTheorems, TLAPS

(***************************************************************************)
(* Numbers, finite sets and folds.                                         *)
(***************************************************************************)
\* What a fold goes through: how it takes one element, sums and sets.
LEMMA Least ==
  ASSUME NEW T \in SUBSET Nat, T # {}
  PROVE  \E x \in T : \A y \in T : x <= y
<1> DEFINE F == {0 .. t : t \in T}
<1>1. F \subseteq FiniteSubsetsOf(Nat)
  <2>1. \A t \in T : IsFiniteSet(0 .. t)
    BY FS_Interval
  <2> QED BY <2>1 DEF FiniteSubsetsOf
<1>2. F # {}
  OBVIOUS
<1>3. PICK X \in F : \A Y \in F : ~(<<Y, X>> \in StrictSubsetOrdering(Nat))
  <2> HIDE DEF F
  <2> QED BY <1>1, <1>2, FS_StrictSubsetOrderingWellFounded, WFMin
<1>4. PICK x \in T : X = 0 .. x
  OBVIOUS
<1>5. ASSUME NEW y \in T, y < x PROVE FALSE
  <2>1. 0 .. y \subseteq 0 .. x /\ 0 .. y # 0 .. x /\ 0 .. x \in SUBSET Nat /\ 0..y \in SUBSET Nat
    <3>1. x \in 0 .. x /\ x \notin 0 .. y
      BY <1>5
    <3> QED BY <3>1, <1>5
  <2>2. <<0 .. y, X>> \in StrictSubsetOrdering(Nat)
    BY <2>1, <1>4 DEF StrictSubsetOrdering
  <2> QED BY <2>2, <1>3
<1>6. \A y \in T : x <= y
  BY <1>5
<1> QED BY <1>6

LEMMA Greatest ==
  ASSUME NEW S \in SUBSET Nat, S # {}, IsFiniteSet(S)
  PROVE  \E x \in S : \A y \in S : y <= x
<1> DEFINE From(t) == {y \in S : y >= t}
           F == {From(t) : t \in S}
<1>1. F \subseteq FiniteSubsetsOf(Nat)
  <2>1. \A t \in S : IsFiniteSet(From(t))
    BY FS_Subset
  <2> QED BY <2>1 DEF FiniteSubsetsOf
<1>2. PICK X \in F : \A Y \in F : ~(<<Y, X>> \in StrictSubsetOrdering(Nat))
  <2>1. F # {}
    OBVIOUS
  <2> HIDE DEF F
  <2> QED BY <1>1, <2>1, FS_StrictSubsetOrderingWellFounded, WFMin
<1>3. PICK x \in S : X = From(x)
  OBVIOUS
<1>4. ASSUME NEW t \in S, ~(t <= x) PROVE FALSE
  <2>1. x \in Nat /\ t \in Nat /\ t > x
    BY <1>4
  <2>2. \A y \in From(t) : y \in From(x)
    <3> TAKE y \in From(t)
    <3>1. y \in S /\ y \in Nat /\ y >= t
      OBVIOUS
    <3> QED BY <3>1, <2>1
  <2>3. x \in From(x) /\ x \notin From(t)
    BY <2>1
  <2>4. <<From(t), X>> \in StrictSubsetOrdering(Nat)
    BY <2>2, <2>3, <1>3 DEF StrictSubsetOrdering
  <2> QED BY <2>4, <1>2
<1> QED BY <1>4

LEMMA MaxIn ==
  ASSUME NEW S \in SUBSET Nat, S # {}, IsFiniteSet(S)
  PROVE  Max(S) \in S /\ \A y \in S : y <= Max(S)
<1>1. \E x \in S : \A y \in S : x >= y
  BY Greatest
<1> QED BY <1>1 DEF Max

LEMMA MinIn ==
  ASSUME NEW S \in SUBSET Nat, S # {}
  PROVE  Min(S) \in S /\ \A y \in S : Min(S) <= y
<1>1. \E x \in S : \A y \in S : x =< y
  BY Least
<1> QED BY <1>1 DEF Min

\* A set of parts of D that has none of it, and each part whose lesser ones it has, has all.
LEMMA SubsetInduction ==
  ASSUME NEW D, IsFiniteSet(D), NEW P,
         {} \in P,
         \A s \in SUBSET D : s # {} /\ (\A x \in s : s \ {x} \in P) => s \in P
  PROVE  SUBSET D \subseteq P
<1> DEFINE F == {s \in SUBSET D : s \notin P}
<1> SUFFICES ASSUME F # {} PROVE FALSE
  OBVIOUS
<1>1. F \subseteq FiniteSubsetsOf(D)
  <2>1. \A s \in SUBSET D : IsFiniteSet(s)
    BY FS_Subset
  <2> QED BY <2>1 DEF FiniteSubsetsOf
<1>2. PICK s \in F : \A t \in F : ~(<<t, s>> \in StrictSubsetOrdering(D))
  <2> HIDE DEF F
  <2> QED BY <1>1, FS_StrictSubsetOrderingWellFounded, WFMin
<1>3. s \in SUBSET D /\ s # {}
  OBVIOUS
<1>4. ASSUME NEW x \in s PROVE s \ {x} \in P
  <2>1. s \ {x} \in SUBSET D /\ s \ {x} \subseteq s /\ s \ {x} # s
    BY <1>3
  <2>2. <<s \ {x}, s>> \in StrictSubsetOrdering(D)
    BY <1>3, <2>1 DEF StrictSubsetOrdering
  <2> QED BY <1>2, <2>1, <2>2
<1> QED BY <1>3, <1>4

\* A set that has 0, and with each number the next, has them all.
LEMMA NatSetInduction ==
    ASSUME NEW P, 0 \in P, \A n \in Nat : n \in P => n + 1 \in P
    PROVE  Nat \subseteq P
<1> DEFINE T == Nat \ P
<1> SUFFICES T = {}
    OBVIOUS
<1>1. CASE T # {}
    <2>1. PICK x \in T : \A y \in T : x <= y
        <3>1. T \subseteq Nat
          OBVIOUS
        <3> HIDE DEF T
        <3> QED BY Least, <1>1, <3>1
    <2>2. x # 0 /\ x - 1 \in Nat /\ x - 1 \notin T
        BY <2>1
    <2> QED BY <2>2
<1> QED BY <1>1

\* A choice of an element from each part of D, and a fold by it.
Chooses(c, D) == \A s \in SUBSET D : s # {} => c[s] \in s

IsFold(g, D, base, c, step) ==
  \A s \in SUBSET D : g[s] = IF s = {} THEN base ELSE step[<<c[s], g[s \ {c[s]}]>>]

\* A fold that takes an element by c and goes on by step has a value for each part of D.
LEMMA FoldExists ==
  ASSUME NEW D, IsFiniteSet(D), NEW V, NEW base \in V, NEW c, Chooses(c, D),
         NEW step \in [D \X V -> V]
  PROVE  \E g \in [SUBSET D -> V] : IsFold(g, D, base, c, step)
<1> USE DEF Chooses, IsFold
<1> DEFINE Body(g, s) == IF s = {} THEN base ELSE step[<<c[s], g[s \ {c[s]}]>>]
           Good(n) == \E g \in [SUBSET D -> V] : \A s \in SUBSET D :
                        Cardinality(s) <= n => g[s] = Body(g, s)
           P == {n \in Nat : Good(n)}
<1>1. \A s \in SUBSET D : IsFiniteSet(s) /\ Cardinality(s) \in Nat /\ (Cardinality(s) = 0 <=> s = {})
  BY FS_Subset, FS_CardinalityType, FS_EmptySet
<1>2. Good(0)
  <2> DEFINE g == [s \in SUBSET D |-> base]
  <2>1. g \in [SUBSET D -> V]
    OBVIOUS
  <2>2. \A s \in SUBSET D : Cardinality(s) <= 0 => g[s] = Body(g, s)
    BY <1>1
  <2> QED BY <2>1, <2>2
<1>3. ASSUME NEW n \in Nat, Good(n) PROVE Good(n + 1)
  <2>1. PICK g \in [SUBSET D -> V] : \A s \in SUBSET D : Cardinality(s) <= n => g[s] = Body(g, s)
    BY <1>3
  <2> DEFINE h == [s \in SUBSET D |-> Body(g, s)]
  <2>2. h \in [SUBSET D -> V]
    OBVIOUS
  <2>3. ASSUME NEW s \in SUBSET D, Cardinality(s) <= n + 1 PROVE h[s] = Body(h, s)
    <3>1. CASE s = {}
      BY <3>1
    <3>2. CASE s # {}
      <4> DEFINE t == s \ {c[s]}
      <4>1. c[s] \in s /\ t \in SUBSET D
        BY <3>2
      <4>2. Cardinality(t) = Cardinality(s) - 1
        BY <1>1, <4>1, FS_RemoveElement
      <4>3. Cardinality(t) <= n
        BY <1>1, <2>3, <4>2
      <4>4. g[t] = h[t]
        BY <2>1, <4>1, <4>3
      <4> QED BY <3>2, <4>4
    <3> QED BY <3>1, <3>2
  <2> HIDE DEF h
  <2> QED BY <2>2, <2>3
<1>4. Nat \subseteq P
  <2> HIDE DEF Good
  <2>1. 0 \in P /\ \A n \in Nat : n \in P => n + 1 \in P
    BY <1>2, <1>3
  <2> HIDE DEF P
  <2> QED BY <2>1, NatSetInduction
<1>5. Good(Cardinality(D))
  BY <1>1, <1>4
<1>6. \A s \in SUBSET D : Cardinality(s) <= Cardinality(D)
  BY FS_Subset
<1> QED BY <1>5, <1>6

\* The sums of the parts of f.
Sums(f) ==
  CHOOSE g : g = [s \in SUBSET (DOMAIN f) |->
                    IF s = {} THEN 0
                    ELSE f[CHOOSE x \in s : TRUE] + g[s \ {CHOOSE x \in s : TRUE}]]

LEMMA SumIsSums == \A f : SumOf(f) = Sums(f)[DOMAIN f]
BY DEF SumOf, FoldSeq, FoldFunction, FoldFunctionOnSet, MapThenFoldSet, Sums

\* The sums are what their definition says.
LEMMA SumsExist ==
  ASSUME NEW D, IsFiniteSet(D), NEW f \in [D -> Int]
  PROVE  \A s \in SUBSET D :
           Sums(f)[s] = IF s = {} THEN 0
                        ELSE f[CHOOSE x \in s : TRUE] + Sums(f)[s \ {CHOOSE x \in s : TRUE}]
<1> DEFINE c == [s \in SUBSET D |-> CHOOSE x \in s : TRUE]
           step == [p \in D \X Int |-> f[p[1]] + p[2]]
           Is(g) == g = [s \in SUBSET (DOMAIN f) |->
                    IF s = {} THEN 0
                    ELSE f[CHOOSE x \in s : TRUE] + g[s \ {CHOOSE x \in s : TRUE}]]
<1>1. step \in [D \X Int -> Int] /\ Chooses(c, D)
  BY DEF Chooses
<1>2. PICK g \in [SUBSET D -> Int] : IsFold(g, D, 0, c, step)
  <2>1. IsFiniteSet(D) /\ 0 \in Int
    OBVIOUS
  <2> HIDE DEF step, c
  <2> QED BY ONLY <1>1, <2>1, FoldExists
<1>3. Is(g)
  <2>1. ASSUME NEW s \in SUBSET D, s # {}
        PROVE  g[s] = f[CHOOSE x \in s : TRUE] + g[s \ {CHOOSE x \in s : TRUE}]
    <3>1. c[s] = (CHOOSE x \in s : TRUE) /\ c[s] \in D /\ g[s \ {c[s]}] \in Int
      BY <1>1, <2>1 DEF Chooses
    <3>2. \A x \in D, n \in Int : step[<<x, n>>] = f[x] + n
      OBVIOUS
    <3>3. step[<<c[s], g[s \ {c[s]}]>>] = f[c[s]] + g[s \ {c[s]}]
      <4> HIDE DEF step, c
      <4> QED BY <3>1, <3>2
    <3> QED BY <1>2, <2>1, <3>1, <3>3 DEF IsFold
  <2> QED BY <1>2, <2>1 DEF IsFold
<1>4. Is(Sums(f))
  <2> HIDE DEF Is
  <2>1. \E h : Is(h)
    BY <1>3
  <2>2. Sums(f) = CHOOSE h : Is(h)
    BY DEF Sums, Is
  <2> QED BY <2>1, <2>2
<1> QED BY <1>4

LEMMA SumsOfNone ==
  ASSUME NEW D, IsFiniteSet(D), NEW f \in [D -> Int]
  PROVE  Sums(f)[{}] = 0
<1>1. {} \in SUBSET D
  OBVIOUS
<1> QED BY <1>1, SumsExist

\* Sums of integers are integers.
LEMMA SumsTyped ==
  ASSUME NEW D, IsFiniteSet(D), NEW f \in [D -> Int]
  PROVE  \A s \in SUBSET D : Sums(f)[s] \in Int
<1> DEFINE P == {s \in SUBSET D : Sums(f)[s] \in Int}
<1>1. {} \in P
  BY SumsOfNone
<1>2. ASSUME NEW s \in SUBSET D, s # {}, \A x \in s : s \ {x} \in P PROVE s \in P
  <2> DEFINE x == CHOOSE x \in s : TRUE
  <2>1. x \in s
    BY <1>2
  <2>2. Sums(f)[s] = f[x] + Sums(f)[s \ {x}]
    BY <1>2, SumsExist
  <2> HIDE DEF x
  <2>3. Sums(f)[s \ {x}] \in Int /\ f[x] \in Int
    BY <1>2, <2>1
  <2> QED BY <2>2, <2>3
<1> HIDE DEF P
<1>3. SUBSET D \subseteq P
  BY <1>1, <1>2, SubsetInduction
<1> QED BY <1>3 DEF P

SumWith(f, s, x) == Sums(f)[s] = f[x] + Sums(f)[s \ {x}]

\* Whichever part is taken first.
LEMMA SumsTake ==
  ASSUME NEW D, IsFiniteSet(D), NEW f \in [D -> Int], NEW s \in SUBSET D, NEW x \in s
  PROVE  SumWith(f, s, x)
<1> DEFINE S == Sums(f)
           P == {t \in SUBSET D : \A y \in t : S[t] = f[y] + S[t \ {y}]}
<1>1. {} \in P
  OBVIOUS
<1>2. ASSUME NEW t \in SUBSET D, t # {}, \A z \in t : t \ {z} \in P PROVE t \in P
  <2> DEFINE y == CHOOSE z \in t : TRUE
  <2>1. y \in t
    BY <1>2
  <2>2. S[t] = f[y] + S[t \ {y}]
    BY <1>2, SumsExist
  <2> HIDE DEF y
  <2>3. ASSUME NEW z \in t, z # y PROVE S[t] = f[z] + S[t \ {z}]
    <3>1. S[t \ {y}] = f[z] + S[(t \ {y}) \ {z}]
      BY <1>2, <2>1, <2>3
    <3>2. S[t \ {z}] = f[y] + S[(t \ {z}) \ {y}]
      BY <1>2, <2>1, <2>3
    <3>3. (t \ {y}) \ {z} = (t \ {z}) \ {y}
      OBVIOUS
    <3>4. S[(t \ {z}) \ {y}] \in Int /\ f[z] \in Int /\ f[y] \in Int
      BY <2>1, SumsTyped
    <3>5. S[t] = f[y] + (f[z] + S[(t \ {z}) \ {y}]) /\ S[t \ {z}] = f[y] + S[(t \ {z}) \ {y}]
      BY <2>2, <3>1, <3>2, <3>3
    <3> HIDE DEF S
    <3> QED BY <3>4, <3>5
  <2> QED BY <2>2, <2>3
<1> HIDE DEF P
<1>3. SUBSET D \subseteq P
  BY <1>1, <1>2, SubsetInduction
<1> QED BY <1>3 DEF P, SumWith

LEMMA SumTyped ==
  ASSUME NEW D, IsFiniteSet(D), NEW f \in [D -> Int]
  PROVE  SumOf(f) \in Int
BY SumIsSums, SumsTyped

\* The numbers of h are those of f and of g together; k times those of f; no less than f's.
IsSum(D, f, g, h) ==
  /\ f \in [D -> Int] /\ g \in [D -> Int] /\ h \in [D -> Int]
  /\ \A x \in D : h[x] = f[x] + g[x]

IsTimes(D, f, k, h) ==
  f \in [D -> Int] /\ h \in [D -> Int] /\ k \in Int /\ \A x \in D : h[x] = f[x] * k

IsBelow(D, f, h) == f \in [D -> Int] /\ h \in [D -> Int] /\ \A x \in D : f[x] <= h[x]

\* What is added up place by place is added up.
LEMMA SumAdds ==
  ASSUME NEW D, IsFiniteSet(D), NEW f, NEW g, NEW h, IsSum(D, f, g, h)
  PROVE  SumOf(h) = SumOf(f) + SumOf(g)
<1> USE DEF IsSum
<1> DEFINE P == {s \in SUBSET D : Sums(h)[s] = Sums(f)[s] + Sums(g)[s]}
<1>1. {} \in P
  BY SumsOfNone
<1>2. ASSUME NEW s \in SUBSET D, s # {}, \A x \in s : s \ {x} \in P PROVE s \in P
  <2>1. PICK x \in s : TRUE
    BY <1>2
  <2>2. /\ Sums(f)[s] = f[x] + Sums(f)[s \ {x}] /\ Sums(g)[s] = g[x] + Sums(g)[s \ {x}]
        /\ Sums(h)[s] = h[x] + Sums(h)[s \ {x}]
    <3>1. SumWith(f, s, x) /\ SumWith(g, s, x) /\ SumWith(h, s, x)
      BY SumsTake
    <3> QED BY <3>1 DEF SumWith
  <2>3. Sums(f)[s \ {x}] \in Int /\ Sums(g)[s \ {x}] \in Int /\ x \in D /\ f[x] \in Int /\ g[x] \in Int
    BY SumsTyped
  <2>4. Sums(h)[s \ {x}] = Sums(f)[s \ {x}] + Sums(g)[s \ {x}]
    BY <1>2
  <2> QED BY <2>2, <2>3, <2>4
<1> HIDE DEF P
<1>3. SUBSET D \subseteq P
  BY <1>1, <1>2, SubsetInduction
<1> QED BY <1>3, SumIsSums DEF P

\* What is multiplied place by place is multiplied.
LEMMA SumScales ==
  ASSUME NEW D, IsFiniteSet(D), NEW f, NEW k, NEW h, IsTimes(D, f, k, h)
  PROVE  SumOf(h) = SumOf(f) * k
<1> USE DEF IsTimes
<1> DEFINE P == {s \in SUBSET D : Sums(h)[s] = Sums(f)[s] * k}
<1>1. {} \in P
  BY SumsOfNone
<1>2. ASSUME NEW s \in SUBSET D, s # {}, \A x \in s : s \ {x} \in P PROVE s \in P
  <2>1. PICK x \in s : TRUE
    BY <1>2
  <2> DEFINE a == Sums(f)[s \ {x}]
  <2>2. Sums(f)[s] = f[x] + a /\ Sums(h)[s] = h[x] + Sums(h)[s \ {x}]
    <3>1. SumWith(f, s, x) /\ SumWith(h, s, x)
      BY SumsTake
    <3> QED BY <3>1 DEF SumWith
  <2>3. a \in Int /\ x \in D /\ f[x] \in Int
    BY SumsTyped
  <2>4. Sums(h)[s \ {x}] = a * k
    BY <1>2
  <2>5. (f[x] + a) * k = f[x] * k + a * k
    <3> HIDE DEF a
    <3> QED BY <2>3
  <2> QED BY <2>2, <2>3, <2>4, <2>5
<1> HIDE DEF P
<1>3. SUBSET D \subseteq P
  BY <1>1, <1>2, SubsetInduction
<1> QED BY <1>3, SumIsSums DEF P

\* What is no less at any place is no less together.
LEMMA SumGrows ==
  ASSUME NEW D, IsFiniteSet(D), NEW f, NEW g, IsBelow(D, f, g)
  PROVE  SumOf(f) <= SumOf(g)
<1> USE DEF IsBelow
<1> DEFINE P == {s \in SUBSET D : Sums(f)[s] <= Sums(g)[s]}
<1>1. {} \in P
  BY SumsOfNone
<1>2. ASSUME NEW s \in SUBSET D, s # {}, \A x \in s : s \ {x} \in P PROVE s \in P
  <2>1. PICK x \in s : TRUE
    BY <1>2
  <2>2. Sums(f)[s] = f[x] + Sums(f)[s \ {x}] /\ Sums(g)[s] = g[x] + Sums(g)[s \ {x}]
    <3>1. SumWith(f, s, x) /\ SumWith(g, s, x)
      BY SumsTake
    <3> QED BY <3>1 DEF SumWith
  <2>3. /\ Sums(f)[s \ {x}] \in Int /\ Sums(g)[s \ {x}] \in Int
        /\ f[x] \in Int /\ g[x] \in Int /\ f[x] <= g[x]
    BY SumsTyped
  <2>4. Sums(f)[s \ {x}] <= Sums(g)[s \ {x}]
    BY <1>2
  <2> QED BY <2>2, <2>3, <2>4
<1> HIDE DEF P
<1>3. SUBSET D \subseteq P
  BY <1>1, <1>2, SubsetInduction
<1> QED BY <1>3, SumIsSums DEF P

\* A number at the end is added.
LEMMA SumAppend ==
  ASSUME NEW f \in Seq(Int), NEW n \in Int
  PROVE  SumOf(Append(f, n)) = SumOf(f) + n
<1> DEFINE h == Append(f, n)
           D == 1..Len(f)
           E == 1..(Len(f) + 1)
           P == {s \in SUBSET D : Sums(f)[s] = Sums(h)[s]}
<1>1. Len(f) \in Nat /\ f \in [D -> Int] /\ h \in [E -> Int] /\ DOMAIN f = D /\ DOMAIN h = E
  <2>1. Len(f) \in Nat /\ DOMAIN f = D /\ h \in Seq(Int) /\ Len(h) = Len(f) + 1
    BY LenProperties, AppendProperties
  <2>2. DOMAIN h = 1..Len(h) /\ (\A i \in 1..Len(h) : h[i] \in Int) /\ \A i \in D : f[i] \in Int
    BY <2>1, LenProperties, ElementOfSeq
  <2>3. f = [i \in 1..Len(f) |-> f[i]] /\ h = [i \in 1..Len(h) |-> h[i]]
    BY <2>1, LenProperties
  <2> QED BY <2>1, <2>2, <2>3
<1>2. IsFiniteSet(D) /\ IsFiniteSet(E) /\ D \subseteq E /\ E \ {Len(f) + 1} = D /\ Len(f) + 1 \in E
  <2> DEFINE m == Len(f)
  <2>1. m \in Nat
    BY <1>1
  <2> HIDE DEF m
  <2>2. IsFiniteSet(1..m) /\ IsFiniteSet(1..(m + 1))
    BY <2>1, FS_Interval
  <2>3. 1..m \subseteq 1..(m + 1) /\ 1..(m + 1) \ {m + 1} = 1..m /\ m + 1 \in 1..(m + 1)
    BY <2>1
  <2> QED BY <2>2, <2>3 DEF m
<1>3. (\A i \in D : h[i] = f[i]) /\ h[Len(f) + 1] = n
  BY AppendProperties
<1> HIDE DEF h, D, E
<1>4. {} \in P
  <2>1. Sums(f)[{}] = 0 /\ Sums(h)[{}] = 0
    BY <1>1, <1>2, SumsOfNone
  <2> QED BY <2>1
<1>5. ASSUME NEW s \in SUBSET D, s # {}, \A x \in s : s \ {x} \in P PROVE s \in P
  <2>1. PICK x \in s : TRUE
    BY <1>5
  <2>2. Sums(f)[s] = f[x] + Sums(f)[s \ {x}] /\ Sums(h)[s] = h[x] + Sums(h)[s \ {x}]
    <3>1. SumWith(f, s, x) /\ SumWith(h, s, x)
      BY <1>1, <1>2, SumsTake
    <3> QED BY <3>1 DEF SumWith
  <2> QED BY <1>3, <1>5, <2>2
<1> HIDE DEF P
<1>6. SUBSET D \subseteq P
  <2>1. IsFiniteSet(D)
    BY <1>2
  <2> QED BY ONLY <1>4, <1>5, <2>1, SubsetInduction
<1>7. Sums(h)[E] = n + Sums(h)[D]
  <2>1. SumWith(h, E, Len(f) + 1)
    BY <1>1, <1>2, SumsTake
  <2> QED BY <1>2, <1>3, <2>1 DEF SumWith
<1>8. Sums(h)[D] = Sums(f)[D] /\ Sums(f)[D] \in Int
  BY <1>1, <1>2, <1>6, SumsTyped DEF P
<1>9. SumOf(f) = Sums(f)[D] /\ SumOf(h) = Sums(h)[E]
  BY <1>1, SumIsSums
<1>10. SumOf(h) = SumOf(f) + n
  BY <1>7, <1>8, <1>9
<1> QED BY <1>10 DEF h

\* The parts of s that are kept.
Keeps(s, A) ==
  CHOOSE g : g = [t \in SUBSET (DOMAIN s) |->
                    IF t = {} THEN <<>>
                    ELSE IF s[Max(t)] \in A THEN Append(g[t \ {Max(t)}], s[Max(t)])
                    ELSE g[t \ {Max(t)}]]

LEMMA KeptIsKeeps == \A s, A : Kept(s, A) = Keeps(s, A)[DOMAIN s]
BY DEF Kept, FoldLeft, MapThenFoldSet, Keeps

LEMMA MaxOf ==
  ASSUME NEW n \in Nat, NEW t \in SUBSET (1..n), t # {}
  PROVE  Max(t) \in t /\ \A x \in t : x <= Max(t)
<1>1. t \in SUBSET Nat
  OBVIOUS
<1>2. IsFiniteSet(t)
  <2>1. IsFiniteSet(1..n)
    BY FS_Interval
  <2> QED BY <2>1, FS_Subset
<1> QED BY <1>1, <1>2, MaxIn

\* How a nonempty part of s is kept: by its last element and the rest.
KeepsWith(s, A, t, m) ==
  Keeps(s, A)[t] = IF s[m] \in A THEN Append(Keeps(s, A)[t \ {m}], s[m]) ELSE Keeps(s, A)[t \ {m}]

\* The kept parts are what their definition says.
LEMMA KeepsExist ==
  ASSUME NEW S, NEW s \in Seq(S), NEW A
  PROVE  /\ Keeps(s, A)[{}] = <<>>
         /\ \A t \in SUBSET (1..Len(s)) : t # {} => KeepsWith(s, A, t, Max(t))
<1> DEFINE D == 1..Len(s)
           V == Seq(S)
           c == [t \in SUBSET D |-> Max(t)]
           Next1(i, q) == IF s[i] \in A THEN Append(q, s[i]) ELSE q
           step == [p \in D \X V |-> Next1(p[1], p[2])]
           Is(g) == g = [t \in SUBSET (DOMAIN s) |->
                    IF t = {} THEN <<>>
                    ELSE IF s[Max(t)] \in A THEN Append(g[t \ {Max(t)}], s[Max(t)])
                    ELSE g[t \ {Max(t)}]]
<1>1. /\ Len(s) \in Nat /\ DOMAIN s = D /\ IsFiniteSet(D)
      /\ \A i \in D : s[i] \in S
  BY LenProperties, ElementOfSeq, FS_Interval
<1>2. Chooses(c, D)
  BY <1>1, MaxOf DEF Chooses
<1>3. \A i \in D, q \in V : Next1(i, q) \in V
  BY <1>1, AppendProperties
<1>4. step \in [D \X V -> V]
  <2>1. \A p \in D \X V : Next1(p[1], p[2]) \in V
    <3> HIDE DEF Next1, V, D
    <3> QED BY <1>3
  <2> HIDE DEF Next1, V, D
  <2> QED BY <2>1
<1>5. <<>> \in V
  BY EmptySeq
<1>6. \A i \in D, q \in V : step[<<i, q>>] = Next1(i, q)
  <2> HIDE DEF Next1, V, D
  <2> QED OBVIOUS
<1> HIDE DEF step, V, D
<1>7. PICK g \in [SUBSET D -> V] : IsFold(g, D, <<>>, c, step)
  <2> HIDE DEF c
  <2> QED BY ONLY <1>1, <1>2, <1>4, <1>5, FoldExists
<1>8. ASSUME NEW t \in SUBSET D, t # {} PROVE g[t] = Next1(Max(t), g[t \ {Max(t)}])
  <2>1. Max(t) \in D /\ c[t] = Max(t)
    BY <1>2, <1>8 DEF Chooses
  <2>2. g[t \ {Max(t)}] \in V
    BY <2>1
  <2>3. g[t] = step[<<Max(t), g[t \ {Max(t)}]>>]
    BY <1>7, <1>8, <2>1 DEF IsFold
  <2> HIDE DEF Next1
  <2> QED BY <1>6, <2>1, <2>2, <2>3
<1>9. g[{}] = <<>>
  BY <1>7 DEF IsFold
<1>10. Is(g)
  <2>1. g = [t \in SUBSET D |-> g[t]]
    OBVIOUS
  <2> QED BY <1>1, <1>8, <1>9, <2>1
<1>11. Is(Keeps(s, A))
  <2> HIDE DEF Is
  <2>1. \E h : Is(h)
    BY <1>10
  <2>2. Keeps(s, A) = CHOOSE h : Is(h)
    BY DEF Keeps, Is
  <2> QED BY <2>1, <2>2
<1>12. Keeps(s, A)[{}] = <<>>
  BY <1>1, <1>11
<1>13. \A t \in SUBSET D : t # {} => KeepsWith(s, A, t, Max(t))
  <2>1. ASSUME NEW t \in SUBSET D, t # {}
        PROVE  Keeps(s, A)[t] = IF s[Max(t)] \in A THEN Append(Keeps(s, A)[t \ {Max(t)}], s[Max(t)])
                                ELSE Keeps(s, A)[t \ {Max(t)}]
    BY <1>1, <1>11, <2>1
  <2> QED BY <2>1 DEF KeepsWith
<1> QED BY <1>12, <1>13 DEF D

LEMMA KeepsSome ==
  ASSUME NEW S, NEW s \in Seq(S), NEW A, NEW t \in SUBSET (1..Len(s)), t # {}
  PROVE  Max(t) \in t /\ KeepsWith(s, A, t, Max(t)) /\ \A x \in t : x <= Max(t)
<1>1. Max(t) \in t /\ \A x \in t : x <= Max(t)
  <2>1. Len(s) \in Nat
    BY LenProperties
  <2> HIDE DEF Max
  <2> QED BY <2>1, MaxOf
<1> QED BY <1>1, KeepsExist

\* What is kept is in the set and was in the sequence.
LEMMA KeepsTyped ==
  ASSUME NEW S, NEW s \in Seq(S), NEW A
  PROVE  \A t \in SUBSET (1..Len(s)) : Keeps(s, A)[t] \in Seq(S \cap A)
<1> DEFINE D == 1..Len(s)
           P == {t \in SUBSET D : Keeps(s, A)[t] \in Seq(S \cap A)}
<1>1. {} \in P
  BY KeepsExist, EmptySeq
<1>2. ASSUME NEW t \in SUBSET D, t # {}, \A x \in t : t \ {x} \in P PROVE t \in P
  <2>1. PICK m \in t : KeepsWith(s, A, t, m)
    BY <1>2, KeepsSome
  <2>2. s[m] \in S /\ Keeps(s, A)[t \ {m}] \in Seq(S \cap A)
    BY <1>2, ElementOfSeq
  <2>3. CASE s[m] \in A
    <3>1. Keeps(s, A)[t] = Append(Keeps(s, A)[t \ {m}], s[m])
      BY <2>1, <2>3 DEF KeepsWith
    <3>2. Append(Keeps(s, A)[t \ {m}], s[m]) \in Seq(S \cap A)
      BY <2>2, <2>3, AppendProperties
    <3> QED BY <3>1, <3>2
  <2>4. CASE s[m] \notin A
    BY <2>1, <2>2, <2>4 DEF KeepsWith
  <2> QED BY <2>3, <2>4
<1>3. IsFiniteSet(D)
  BY LenProperties, FS_Interval
<1> HIDE DEF P, D
<1>4. SUBSET D \subseteq P
  BY ONLY <1>1, <1>2, <1>3, SubsetInduction
<1> QED BY <1>4 DEF P, D

LEMMA KeptTyped ==
  ASSUME NEW S, NEW s \in Seq(S), NEW A
  PROVE  Kept(s, A) \in Seq(S \cap A)
<1>1. DOMAIN s = 1..Len(s)
  BY LenProperties
<1> QED BY <1>1, KeptIsKeeps, KeepsTyped

LEMMA KeptNone ==
  ASSUME NEW A
  PROVE  Kept(<<>>, A) = <<>>
<1>1. <<>> \in Seq({}) /\ DOMAIN <<>> = {}
  BY EmptySeq
<1> QED BY <1>1, KeptIsKeeps, KeepsExist

\* Only which elements are in the set counts.
LEMMA KeepsAgree ==
  ASSUME NEW S, NEW s \in Seq(S), NEW r \in Seq(S), Len(s) <= Len(r), NEW A, NEW B,
         \A i \in 1..Len(s) : s[i] = r[i] /\ (s[i] \in A <=> s[i] \in B)
  PROVE  Keeps(s, A)[1..Len(s)] = Keeps(r, B)[1..Len(s)]
<1> DEFINE D == 1..Len(s)
           P == {t \in SUBSET D : Keeps(s, A)[t] = Keeps(r, B)[t]}
<1>1. Len(s) \in Nat /\ Len(r) \in Nat /\ SUBSET D \subseteq SUBSET (1..Len(r))
  <2>1. Len(s) \in Nat /\ Len(r) \in Nat
    BY LenProperties
  <2> QED BY <2>1
<1>2. {} \in P
  BY KeepsExist
<1>3. ASSUME NEW t \in SUBSET D, t # {}, \A x \in t : t \ {x} \in P PROVE t \in P
  <2>1. Max(t) \in t /\ KeepsWith(s, A, t, Max(t))
    BY <1>3, KeepsSome
  <2>2. KeepsWith(r, B, t, Max(t))
    <3>1. t \in SUBSET (1..Len(r))
      BY <1>1
    <3> QED BY <1>3, <3>1, KeepsSome
  <2>3. PICK m \in t : KeepsWith(s, A, t, m) /\ KeepsWith(r, B, t, m)
    BY <2>1, <2>2
  <2>4. s[m] = r[m] /\ (s[m] \in A <=> s[m] \in B) /\ Keeps(s, A)[t \ {m}] = Keeps(r, B)[t \ {m}]
    BY <1>3
  <2> QED BY <2>3, <2>4 DEF KeepsWith
<1>4. IsFiniteSet(D)
  BY <1>1, FS_Interval
<1> HIDE DEF P, D
<1>5. SUBSET D \subseteq P
  BY ONLY <1>2, <1>3, <1>4, SubsetInduction
<1> QED BY <1>5 DEF P, D

\* Sets that have the same of its elements keep the same.
LEMMA KeptSame ==
  ASSUME NEW S, NEW s \in Seq(S), NEW A, NEW B,
         \A i \in 1..Len(s) : s[i] \in A <=> s[i] \in B
  PROVE  Kept(s, A) = Kept(s, B)
<1>1. DOMAIN s = 1..Len(s) /\ Len(s) <= Len(s)
  BY LenProperties
<1>2. Keeps(s, A)[1..Len(s)] = Keeps(s, B)[1..Len(s)]
  BY <1>1, KeepsAgree
<1> QED BY <1>1, <1>2, KeptIsKeeps

\* An element at the end is kept at the end, or not at all.
LEMMA KeptAppend ==
  ASSUME NEW S, NEW s \in Seq(S), NEW x \in S, NEW A, NEW B,
         \A i \in 1..Len(s) : s[i] \in A <=> s[i] \in B
  PROVE  Kept(Append(s, x), B) = IF x \in B THEN Append(Kept(s, A), x) ELSE Kept(s, A)
<1> DEFINE n == Len(s)
           r == Append(s, x)
<1>1. /\ n \in Nat /\ r \in Seq(S) /\ Len(r) = n + 1 /\ r[n + 1] = x
      /\ \A i \in 1..n : r[i] = s[i]
  BY LenProperties, AppendProperties
<1>2. DOMAIN s = 1..n /\ DOMAIN r = 1..(n + 1)
  BY <1>1, LenProperties
<1> HIDE DEF r
<1>3. Keeps(s, A)[1..n] = Keeps(r, B)[1..n]
  BY <1>1, KeepsAgree
<1>4. KeepsWith(r, B, 1..(n + 1), n + 1)
  <2> DEFINE t == 1..(n + 1)
             m == Max(t)
  <2> HIDE DEF n
  <2>1. n + 1 \in t /\ t # {} /\ t \in SUBSET (1..Len(r))
    <3>1. n \in Nat /\ t = 1..Len(r)
      BY <1>1
    <3>2. n + 1 \in 1..(n + 1)
      BY <3>1
    <3> HIDE DEF m
    <3> QED BY <3>1, <3>2
  <2>2. m \in t /\ KeepsWith(r, B, t, m) /\ \A y \in t : y <= m
    <3> HIDE DEF t
    <3> QED BY <1>1, <2>1, KeepsSome
  <2>3. m = n + 1
    <3> HIDE DEF m
    <3> QED BY <1>1, <2>1, <2>2
  <2> QED BY <2>2, <2>3
<1>5. 1..(n + 1) \ {n + 1} = 1..n
  BY <1>1
<1>6. Kept(s, A) = Keeps(s, A)[1..n] /\ Kept(r, B) = Keeps(r, B)[1..(n + 1)]
  BY <1>2, KeptIsKeeps
<1>7. Kept(r, B) = IF x \in B THEN Append(Kept(s, A), x) ELSE Kept(s, A)
  BY <1>1, <1>3, <1>4, <1>5, <1>6 DEF KeepsWith
<1> QED BY <1>7 DEF r

(***************************************************************************)
(* Usage: what the steps of a run cost together.                           *)
(***************************************************************************)
\* Sums of numbers that are not negative are not negative.
LEMMA SumNat ==
  ASSUME NEW D, IsFiniteSet(D), NEW f \in [D -> Nat]
  PROVE  SumOf(f) \in Nat
<1> DEFINE zero == [x \in D |-> 0]
<1>1. f \in [D -> Int] /\ zero \in [D -> Int] /\ IsBelow(D, zero, f) /\ IsTimes(D, zero, 0, zero)
  BY DEF IsBelow, IsTimes
<1> HIDE DEF zero
<1>2. SumOf(f) \in Int /\ SumOf(zero) \in Int /\ SumOf(zero) <= SumOf(f)
  BY <1>1, SumTyped, SumGrows
<1>3. SumOf(zero) = SumOf(zero) * 0
  BY <1>1, SumScales
<1> QED BY <1>2, <1>3

\* The sum of one number is the number.
LEMMA SumOfOne ==
  ASSUME NEW n \in Int
  PROVE  SumOf(<<n>>) = n
<1>1. <<>> \in Seq(Int) /\ <<n>> = Append(<<>>, n) /\ DOMAIN <<>> = {}
  BY EmptySeq
<1>2. SumOf(<<>>) = 0
  <2>1. <<>> \in [{} -> Int]
    BY EmptySeq
  <2> QED BY <1>1, <2>1, FS_EmptySet, SumIsSums, SumsOfNone
<1>3. SumOf(Append(<<>>, n)) = SumOf(<<>>) + n
  BY <1>1, SumAppend
<1> QED BY <1>1, <1>2, <1>3

LEMMA SumOfNone == SumOf(<<>>) = 0
<1>1. <<>> \in [{} -> Int] /\ DOMAIN <<>> = {}
  BY EmptySeq
<1> QED BY <1>1, FS_EmptySet, SumIsSums, SumsOfNone

\* The cached part and the written part of a prompt.
Fits(u) == u.cached + u.written <= u.input

Rest(u) == u.input - u.cached - u.written

Cost(u, p) == Rest(u) * p.input + u.cached * p.cached + u.written * p.written + u.output * p.output

LEMMA MinOfTwo ==
  ASSUME NEW a \in Nat, NEW b \in Nat, a <= b
  PROVE  Min({a, b}) = a
<1>1. Min({a, b}) \in {a, b} /\ \A y \in {a, b} : Min({a, b}) <= y
  BY MinIn
<1> QED BY <1>1

\* When a prompt's parts fit into it, a price takes each at what it is.
LEMMA UsdIsCost ==
  ASSUME NEW m, NEW t, NEW u \in Usages, Fits(u)
  PROVE  Usd(m, u, t) = Cost(u, Pricing[m][t])
<1>1. u.cached \in Nat /\ u.input \in Nat /\ u.written \in Nat /\ u.input - u.cached \in Nat
  BY DEF Usages, Fits
<1>2. Min({u.cached, u.input}) = u.cached
  BY <1>1, MinOfTwo DEF Fits
<1>3. Min({u.written, u.input - u.cached}) = u.written
  BY <1>1, MinOfTwo DEF Fits
<1> QED BY <1>2, <1>3 DEF Usd, Cost, Rest

\* A cost is a number.
LEMMA CostTyped ==
  ASSUME NEW u \in Usages, NEW p \in Prices
  PROVE  Cost(u, p) \in Int
<1>1. Rest(u) \in Int
  BY DEF Rest, Usages
<1> QED BY <1>1 DEF Cost, Usages, Prices

\* No price is lower over the threshold, so no step costs less there.
LEMMA CostGrows ==
  ASSUME NEW u \in Usages, Fits(u), NEW p \in Prices, NEW q \in Prices,
         \A what \in DOMAIN p : p[what] <= q[what]
  PROVE  Cost(u, p) <= Cost(u, q)
<1>1. \A a, b, c \in Nat : b <= c => a * b \in Nat /\ a * c \in Nat /\ a * b <= a * c
  <2> TAKE a, b, c \in Nat
  <2> HAVE b <= c
  <2>1. PICK d \in Nat : c = b + d
    BY c - b \in Nat
  <2>2. a * c = a * b + a * d /\ a * d \in Nat /\ a * b \in Nat
    BY <2>1
  <2> QED BY <2>2
<1>2. Rest(u) \in Nat /\ u.cached \in Nat /\ u.written \in Nat /\ u.output \in Nat
  BY DEF Rest, Fits, Usages
<1>3. /\ p.input \in Nat /\ p.cached \in Nat /\ p.written \in Nat /\ p.output \in Nat
      /\ q.input \in Nat /\ q.cached \in Nat /\ q.written \in Nat /\ q.output \in Nat
      /\ p.input <= q.input /\ p.cached <= q.cached /\ p.written <= q.written /\ p.output <= q.output
  BY DEF Prices
<1>4. /\ Rest(u) * p.input \in Nat /\ Rest(u) * q.input \in Nat /\ Rest(u) * p.input <= Rest(u) * q.input
      /\ u.cached * p.cached \in Nat /\ u.cached * q.cached \in Nat /\ u.cached * p.cached <= u.cached * q.cached
  BY <1>1, <1>2, <1>3
<1>5. /\ u.written * p.written \in Nat /\ u.written * q.written \in Nat
      /\ u.written * p.written <= u.written * q.written
      /\ u.output * p.output \in Nat /\ u.output * q.output \in Nat /\ u.output * p.output <= u.output * q.output
  BY <1>1, <1>2, <1>3
<1> QED BY <1>4, <1>5 DEF Cost

\* What the steps of a run cost together, at one price, is what they cost one by one.
LEMMA CostOfSum ==
  ASSUME NEW steps \in Seq(Usages), \A i \in DOMAIN steps : Fits(steps[i])
  PROVE  /\ Summed(steps) \in Usages /\ Fits(Summed(steps))
         /\ \A p \in Prices :
              Cost(Summed(steps), p) = SumOf([i \in DOMAIN steps |-> Cost(steps[i], p)])
<1> DEFINE D   == DOMAIN steps
           fi  == [i \in D |-> steps[i].input]
           fc  == [i \in D |-> steps[i].cached]
           fw  == [i \in D |-> steps[i].written]
           fo  == [i \in D |-> steps[i].output]
           fk  == [i \in D |-> steps[i].cost]
           fcw == [i \in D |-> steps[i].cached + steps[i].written]
           fr  == [i \in D |-> Rest(steps[i])]
           sum == Summed(steps)
<1>1. IsFiniteSet(D) /\ \A i \in D : steps[i] \in Usages
  BY LenProperties, ElementOfSeq, FS_Interval
<1>2. /\ fi \in [D -> Nat] /\ fc \in [D -> Nat] /\ fw \in [D -> Nat] /\ fo \in [D -> Nat] /\ fk \in [D -> Nat]
      /\ fcw \in [D -> Nat] /\ fr \in [D -> Nat]
  <2>1. \A i \in D : /\ steps[i].input \in Nat /\ steps[i].cached \in Nat /\ steps[i].written \in Nat
                     /\ steps[i].output \in Nat /\ steps[i].cost \in Nat
    BY <1>1 DEF Usages
  <2>2. \A i \in D : Rest(steps[i]) \in Nat /\ steps[i].cached + steps[i].written \in Nat
    BY <2>1 DEF Rest, Fits
  <2> QED BY <2>1, <2>2
<1>3. IsSum(D, fc, fw, fcw) /\ IsSum(D, fcw, fr, fi)
  <2>1. fi \in [D -> Int] /\ fc \in [D -> Int] /\ fw \in [D -> Int] /\ fcw \in [D -> Int] /\ fr \in [D -> Int]
    <3> HIDE DEF fi, fc, fw, fcw, fr
    <3> QED BY <1>2
  <2>2. \A i \in D : fcw[i] = fc[i] + fw[i]
    OBVIOUS
  <2>3. \A i \in D : fi[i] = fcw[i] + fr[i]
    BY <1>1 DEF Rest, Usages
  <2> HIDE DEF fi, fc, fw, fcw, fr
  <2> QED BY <2>1, <2>2, <2>3 DEF IsSum
<1>4. /\ sum.input = SumOf(fi) /\ sum.cached = SumOf(fc) /\ sum.written = SumOf(fw)
      /\ sum.output = SumOf(fo) /\ sum.cost = SumOf(fk)
      /\ sum = [input |-> SumOf(fi), cached |-> SumOf(fc), written |-> SumOf(fw),
                output |-> SumOf(fo), cost |-> SumOf(fk)]
  BY DEF Summed
<1> HIDE DEF fi, fc, fw, fo, fk, fcw, fr, sum, D
<1>5. /\ SumOf(fi) \in Nat /\ SumOf(fc) \in Nat /\ SumOf(fw) \in Nat /\ SumOf(fo) \in Nat
      /\ SumOf(fk) \in Nat /\ SumOf(fcw) \in Nat /\ SumOf(fr) \in Nat
  BY <1>1, <1>2, SumNat
<1>6. \A g \in [D -> Nat] : g \in [D -> Int]
  OBVIOUS
<1>7. SumOf(fcw) = SumOf(fc) + SumOf(fw)
  BY <1>1, <1>3, SumAdds
<1>8. SumOf(fi) = SumOf(fcw) + SumOf(fr)
  BY <1>1, <1>3, SumAdds
<1>9. sum \in Usages
  BY <1>4, <1>5 DEF Usages
<1>10. Fits(sum) /\ Rest(sum) = SumOf(fr)
  BY <1>4, <1>5, <1>7, <1>8 DEF Fits, Rest
<1>11. ASSUME NEW p \in Prices
       PROVE  Cost(sum, p) = SumOf([i \in D |-> Cost(steps[i], p)])
  <2> DEFINE ga == [i \in D |-> fr[i] * p.input]
             gb == [i \in D |-> fc[i] * p.cached]
             gc == [i \in D |-> fw[i] * p.written]
             gd == [i \in D |-> fo[i] * p.output]
             gab == [i \in D |-> ga[i] + gb[i]]
             gabc == [i \in D |-> gab[i] + gc[i]]
             all == [i \in D |-> gabc[i] + gd[i]]
  <2>1. p.input \in Int /\ p.cached \in Int /\ p.written \in Int /\ p.output \in Int
    BY DEF Prices
  <2>2. \A i \in D : fr[i] \in Int /\ fc[i] \in Int /\ fw[i] \in Int /\ fo[i] \in Int
    BY <1>2
  <2>3. all = [i \in D |-> Cost(steps[i], p)]
    BY DEF fr, fc, fw, fo, Cost
  <2>4. /\ ga \in [D -> Int] /\ gb \in [D -> Int] /\ gc \in [D -> Int] /\ gd \in [D -> Int]
    BY <2>1, <2>2
  <2>5. /\ IsTimes(D, fr, p.input, ga) /\ IsTimes(D, fc, p.cached, gb)
        /\ IsTimes(D, fw, p.written, gc) /\ IsTimes(D, fo, p.output, gd)
    <3>1. fr \in [D -> Int] /\ fc \in [D -> Int] /\ fw \in [D -> Int] /\ fo \in [D -> Int]
      BY <1>2
    <3>2. IsTimes(D, fr, p.input, ga)
      BY <2>1, <2>4, <3>1 DEF IsTimes
    <3>3. IsTimes(D, fc, p.cached, gb)
      BY <2>1, <2>4, <3>1 DEF IsTimes
    <3>4. IsTimes(D, fw, p.written, gc)
      BY <2>1, <2>4, <3>1 DEF IsTimes
    <3>5. IsTimes(D, fo, p.output, gd)
      BY <2>1, <2>4, <3>1 DEF IsTimes
    <3> QED BY <3>2, <3>3, <3>4, <3>5
  <2> HIDE DEF ga, gb, gc, gd
  <2>6. IsSum(D, ga, gb, gab)
    BY <2>4 DEF IsSum
  <2> HIDE DEF gab
  <2>7. IsSum(D, gab, gc, gabc)
    BY <2>4, <2>6 DEF IsSum
  <2> HIDE DEF gabc
  <2>8. IsSum(D, gabc, gd, all)
    BY <2>4, <2>7 DEF IsSum
  <2> HIDE DEF all
  <2>9. /\ SumOf(ga) = SumOf(fr) * p.input /\ SumOf(gb) = SumOf(fc) * p.cached
    BY <1>1, <2>5, SumScales
  <2>10. /\ SumOf(gc) = SumOf(fw) * p.written /\ SumOf(gd) = SumOf(fo) * p.output
    BY <1>1, <2>5, SumScales
  <2>11. SumOf(gab) = SumOf(ga) + SumOf(gb)
    BY <1>1, <2>6, SumAdds
  <2>12. SumOf(gabc) = SumOf(gab) + SumOf(gc)
    BY <1>1, <2>7, SumAdds
  <2>13. SumOf(all) = SumOf(gabc) + SumOf(gd)
    BY <1>1, <2>8, SumAdds
  <2>14. Cost(sum, p) = SumOf(fr) * p.input + SumOf(fc) * p.cached + SumOf(fw) * p.written + SumOf(fo) * p.output
    BY <1>4, <1>10 DEF Cost
  <2>15. Cost(sum, p) = SumOf(all)
    BY <2>9, <2>10, <2>11, <2>12, <2>13, <2>14
  <2> QED BY <2>3, <2>15
<1> QED BY <1>9, <1>10, <1>11 DEF sum, D

\* The largest prompt is one of the prompts, and no prompt is larger.
LEMMA LargestIsLargest ==
  ASSUME NEW steps \in Seq(Usages), steps # <<>>
  PROVE  /\ LargestPrompt(steps) \in Nat
         /\ \E i \in DOMAIN steps : LargestPrompt(steps) = steps[i].input
         /\ \A i \in DOMAIN steps : steps[i].input <= LargestPrompt(steps)
<1> DEFINE S == {steps[i].input : i \in DOMAIN steps}
<1>1. /\ DOMAIN steps = 1..Len(steps) /\ Len(steps) \in Nat /\ Len(steps) # 0
      /\ \A i \in DOMAIN steps : steps[i] \in Usages
  BY LenProperties, EmptySeq, ElementOfSeq
<1>2. S \in SUBSET Nat
  BY <1>1 DEF Usages
<1>3. 1 \in DOMAIN steps /\ IsFiniteSet(DOMAIN steps)
  <2>1. 1 \in 1..Len(steps) /\ IsFiniteSet(1..Len(steps))
    BY <1>1, FS_Interval
  <2> QED BY <1>1, <2>1
<1>4. IsFiniteSet(S) /\ S # {}
  <2> DEFINE f == [i \in DOMAIN steps |-> steps[i].input]
  <2>1. f \in Surjection(DOMAIN steps, S)
    BY DEF Surjection
  <2>2. IsFiniteSet(S)
    <3> HIDE DEF f, S
    <3> QED BY <1>3, <2>1, FS_Surjection
  <2> QED BY <1>3, <2>2
<1>5. LargestPrompt(steps) = Max(S)
  BY DEF LargestPrompt
<1>6. Max(S) \in S /\ \A y \in S : y <= Max(S)
  <2> HIDE DEF S
  <2> QED BY <1>2, <1>4, MaxIn
<1> QED BY <1>2, <1>5, <1>6

\* What a row's steps cost one by one, and all over the threshold.
OneByOne(r) == SumOf([s \in DOMAIN r.steps |-> Credits(r.model, r.steps[s], r.steps[s].input)])

AllLong(r) == SumOf([s \in DOMAIN r.steps |-> Usd(r.model, r.steps[s], "long")])

\* Priced as a run: the sum of its steps, at the tier of the largest.
PricedAsRun(r) ==
  /\ r.steps # <<>> /\ \A i \in DOMAIN r.steps : Fits(r.steps[i])
  /\ r.credits = Credits(r.model, Summed(r.steps), LargestPrompt(r.steps))

\* A run that is priced so costs what its property says.
LEMMA RunPrice ==
  ASSUME NEW r \in UsageRows, PricedAsRun(r), r.model \in Priced
  PROVE  IF \A s \in DOMAIN r.steps : r.steps[s].input <= Pricing[r.model].threshold
         THEN r.credits = OneByOne(r)
         ELSE OneByOne(r) <= r.credits /\ r.credits <= AllLong(r)
<1> DEFINE m == r.model
           steps == r.steps
           D == DOMAIN steps
           low == Pricing[m].default
           high == Pricing[m].long
           each == [s \in D |-> Credits(m, steps[s], steps[s].input)]
           lows == [s \in D |-> Cost(steps[s], low)]
           highs == [s \in D |-> Cost(steps[s], high)]
           short == \A s \in D : steps[s].input <= Pricing[m].threshold
<1>1. /\ steps \in Seq(Usages) /\ steps # <<>> /\ \A i \in D : Fits(steps[i])
      /\ m \in Priced /\ r.credits = Credits(m, Summed(steps), LargestPrompt(steps))
  BY DEF UsageRows, PricedAsRun
<1>2. /\ low \in Prices /\ high \in Prices /\ Pricing[m].threshold \in Nat
      /\ \A what \in DOMAIN low : low[what] <= high[what]
  BY <1>1, UsageAssumption
<1>3. IsFiniteSet(D) /\ \A i \in D : steps[i] \in Usages
  BY <1>1, LenProperties, ElementOfSeq, FS_Interval
<1>4. OneByOne(r) = SumOf(each)
  BY DEF OneByOne
<1>5. AllLong(r) = SumOf(highs)
  <2>1. \A s \in D : Usd(m, steps[s], "long") = Cost(steps[s], high)
    BY <1>1, <1>3, UsdIsCost
  <2>2. highs = [s \in D |-> Usd(m, steps[s], "long")]
    BY <2>1
  <2> QED BY <2>2 DEF AllLong
<1>6. /\ Summed(steps) \in Usages /\ Fits(Summed(steps))
      /\ Cost(Summed(steps), low) = SumOf(lows) /\ Cost(Summed(steps), high) = SumOf(highs)
  BY <1>1, <1>2, CostOfSum
<1>7. /\ \A i \in D : steps[i].input <= LargestPrompt(steps)
      /\ \E i \in D : LargestPrompt(steps) = steps[i].input
      /\ LargestPrompt(steps) \in Nat /\ \A i \in D : steps[i].input \in Nat
  BY <1>1, <1>3, LargestIsLargest DEF Usages
<1>8. \A s \in D : Credits(m, steps[s], steps[s].input)
                    = IF steps[s].input > Pricing[m].threshold THEN Cost(steps[s], high) ELSE Cost(steps[s], low)
  BY <1>1, <1>3, UsdIsCost DEF Credits, Tier
<1>9. r.credits = IF LargestPrompt(steps) > Pricing[m].threshold THEN SumOf(highs) ELSE SumOf(lows)
  BY <1>1, <1>6, UsdIsCost DEF Credits, Tier
<1>10. /\ lows \in [D -> Int] /\ highs \in [D -> Int] /\ each \in [D -> Int]
       /\ \A s \in D : lows[s] <= highs[s]
  <2>1. \A s \in D : Cost(steps[s], low) \in Int /\ Cost(steps[s], high) \in Int
    BY <1>2, <1>3, CostTyped
  <2>2. \A s \in D : Cost(steps[s], low) <= Cost(steps[s], high)
    <3> HIDE DEF low, high, steps, D
    <3> QED BY <1>1, <1>2, <1>3, CostGrows
  <2>3. \A s \in D : Credits(m, steps[s], steps[s].input) \in Int
    BY <1>8, <2>1
  <2> QED BY <2>1, <2>2, <2>3
<1>11. CASE short
  <2>1. ~(LargestPrompt(steps) > Pricing[m].threshold)
    BY <1>2, <1>7, <1>11
  <2>2. \A s \in D : ~(steps[s].input > Pricing[m].threshold)
    BY <1>2, <1>7, <1>11
  <2>3. each = lows
    BY <1>8, <2>2
  <2> QED BY <1>4, <1>9, <1>11, <2>1, <2>3
<1>12. CASE ~short
  <2>1. LargestPrompt(steps) > Pricing[m].threshold
    BY <1>2, <1>7, <1>12
  <2>2. r.credits = SumOf(highs) /\ SumOf(highs) \in Int
    BY <1>3, <1>9, <1>10, <2>1, SumTyped
  <2>3. IsBelow(D, each, highs)
    <3>1. \A s \in D : each[s] = highs[s] \/ each[s] = lows[s]
      BY <1>8
    <3>2. \A s \in D : highs[s] \in Int /\ lows[s] \in Int
      <4> HIDE DEF lows, highs
      <4> QED BY <1>10
    <3> HIDE DEF each, lows, highs, D
    <3>3. \A s \in D : each[s] <= highs[s]
      BY <1>10, <3>1, <3>2
    <3> QED BY <1>10, <3>3 DEF IsBelow
  <2>4. SumOf(each) <= SumOf(highs)
    <3> HIDE DEF each, highs, D
    <3> QED BY <1>3, <2>3, SumGrows
  <2> QED BY <1>4, <1>5, <1>12, <2>2, <2>4
<1> QED BY <1>11, <1>12

-----------------------------------------------------------------------------
(* The rows that are booked *)

\* What the rows that were booked are.
UsageInv ==
  /\ day \in Nat
  /\ booked \in Seq(UsageRows) /\ \A i \in DOMAIN booked : PricedAsRun(booked[i])

\* What a run's messages book is well formed, and the cached part fits into the prompt.
LEMMA StepsAreUsages ==
  ASSUME NEW run \in Runs
  PROVE  /\ StepUsages(run) \in Seq(Usages)
         /\ \A i \in DOMAIN StepUsages(run) : Fits(StepUsages(run)[i])
<1> DEFINE booking == Kept(run, Range(run) \ {NoTokens})
<1>1. run \in Seq(MessageTokens \cup {NoTokens})
  BY UsageAssumption
<1>2. Range(run) \ {NoTokens} \subseteq MessageTokens
  BY <1>1, ElementOfSeq DEF Range
<1>3. booking \in Seq(MessageTokens)
  <2> DEFINE A == Range(run) \ {NoTokens}
  <2>1. Kept(run, A) \in Seq((MessageTokens \cup {NoTokens}) \cap A)
    <3> HIDE DEF A
    <3> QED BY <1>1, KeptTyped
  <2>2. (MessageTokens \cup {NoTokens}) \cap A \subseteq MessageTokens
    BY <1>2
  <2> QED BY <2>1, <2>2, ElementOfSeq, LenProperties, IsASeq
<1>4. StepUsages(run) = [i \in DOMAIN booking |-> FromTokens(booking[i])]
  BY DEF StepUsages
<1> HIDE DEF booking
<1>5. /\ DOMAIN booking = 1..Len(booking) /\ Len(booking) \in Nat
      /\ \A i \in DOMAIN booking : booking[i] \in MessageTokens
  BY <1>3, LenProperties, ElementOfSeq
<1>6. \A t \in MessageTokens : FromTokens(t) \in Usages /\ Fits(FromTokens(t))
  BY DEF MessageTokens, FromTokens, Usages, Fits
<1>7. [i \in 1..Len(booking) |-> FromTokens(booking[i])] \in Seq(Usages)
  BY <1>5, <1>6, IsASeq
<1> QED BY <1>4, <1>5, <1>6, <1>7

\* The sum of usages is a usage.
LEMMA SummedTyped ==
  ASSUME NEW steps \in Seq(Usages)
  PROVE  Summed(steps) \in Usages
<1>1. /\ DOMAIN steps = 1..Len(steps) /\ Len(steps) \in Nat
      /\ \A i \in DOMAIN steps : steps[i] \in Usages
  BY LenProperties, ElementOfSeq
<1>2. IsFiniteSet(DOMAIN steps)
  BY <1>1, FS_Interval
<1> DEFINE of(field) == [i \in DOMAIN steps |-> steps[i][field]]
<1>3. /\ of("input") \in [DOMAIN steps -> Nat] /\ of("cached") \in [DOMAIN steps -> Nat]
      /\ of("written") \in [DOMAIN steps -> Nat] /\ of("output") \in [DOMAIN steps -> Nat]
      /\ of("cost") \in [DOMAIN steps -> Nat]
  BY <1>1 DEF Usages
<1>4. \A f \in [DOMAIN steps -> Nat] : SumOf(f) \in Nat
  BY <1>2, SumNat
<1>5. /\ SumOf(of("input")) \in Nat /\ SumOf(of("cached")) \in Nat /\ SumOf(of("written")) \in Nat
      /\ SumOf(of("output")) \in Nat /\ SumOf(of("cost")) \in Nat
  <2> HIDE DEF of
  <2> QED BY <1>3, <1>4
<1>6. Summed(steps) = [input |-> SumOf(of("input")), cached |-> SumOf(of("cached")),
                       written |-> SumOf(of("written")), output |-> SumOf(of("output")),
                       cost |-> SumOf(of("cost"))]
  BY DEF Summed
<1> HIDE DEF of
<1> QED BY <1>5, <1>6 DEF Usages

\* One usage is its own sum.
LEMMA SummedOfOne ==
  ASSUME NEW u \in Usages
  PROVE  /\ <<u>> \in Seq(Usages) /\ <<u>> # <<>>
         /\ Summed(<<u>>) = u
         /\ LargestPrompt(<<u>>) = u.input
<1>1. <<u>> \in Seq(Usages) /\ <<u>> # <<>> /\ DOMAIN <<u>> = {1} /\ <<u>>[1] = u
  OBVIOUS
<1> DEFINE of(field) == [i \in DOMAIN <<u>> |-> <<u>>[i][field]]
<1>2. \A x \in Int : SumOf(<<x>>) = x
  BY SumOfOne
<1>3. /\ of("input") = <<u.input>> /\ of("cached") = <<u.cached>> /\ of("written") = <<u.written>>
      /\ of("output") = <<u.output>> /\ of("cost") = <<u.cost>>
  OBVIOUS
<1>4. Summed(<<u>>) = [input |-> SumOf(of("input")), cached |-> SumOf(of("cached")),
                       written |-> SumOf(of("written")), output |-> SumOf(of("output")),
                       cost |-> SumOf(of("cost"))]
  BY DEF Summed
<1>5. Summed(<<u>>) = u
  <2>1. /\ u.input \in Int /\ u.cached \in Int /\ u.written \in Int /\ u.output \in Int /\ u.cost \in Int
    BY DEF Usages
  <2> HIDE DEF of
  <2>2. Summed(<<u>>) = [input |-> u.input, cached |-> u.cached, written |-> u.written,
                         output |-> u.output, cost |-> u.cost]
    BY <1>2, <1>3, <1>4, <2>1
  <2> QED BY <2>2 DEF Usages
<1>6. \E i \in DOMAIN <<u>> : LargestPrompt(<<u>>) = <<u>>[i].input
  BY <1>1, LargestIsLargest
<1> QED BY <1>1, <1>5, <1>6

\* No usage is a usage of nothing.
LEMMA SummedOfNone ==
  /\ Summed(<<>>) \in Usages
  /\ Fits(Summed(<<>>))
<1>1. Summed(<<>>) = [input |-> SumOf(<<>>), cached |-> SumOf(<<>>), written |-> SumOf(<<>>),
                      output |-> SumOf(<<>>), cost |-> SumOf(<<>>)]
  <2>1. \A field : [i \in DOMAIN <<>> |-> <<>>[i][field]] = <<>>
    OBVIOUS
  <2> QED BY <2>1 DEF Summed
<1> QED BY <1>1, SumOfNone DEF Usages, Fits

\* So is the latest usage, or that of nothing.
LEMMA LatestFits ==
  ASSUME NEW run \in Runs
  PROVE  LatestUsage(StepUsages(run)) \in Usages /\ Fits(LatestUsage(StepUsages(run)))
<1> DEFINE steps == StepUsages(run)
<1>1. steps \in Seq(Usages) /\ \A i \in DOMAIN steps : Fits(steps[i])
  BY StepsAreUsages
<1> HIDE DEF steps
<1>2. CASE steps = <<>>
  BY <1>2, SummedOfNone DEF LatestUsage, steps
<1>3. CASE steps # <<>>
  <2>1. Len(steps) \in DOMAIN steps /\ \A i \in DOMAIN steps : steps[i] \in Usages
    BY <1>1, <1>3, LenProperties, EmptySeq, ElementOfSeq
  <2>2. LatestUsage(steps) = steps[Len(steps)]
    BY <1>3 DEF LatestUsage, Last
  <2> QED BY <1>1, <2>1, <2>2 DEF steps
<1> QED BY <1>2, <1>3

\* A row that is made of the steps of a run is priced as a run.
LEMMA RowTyped ==
  ASSUME NEW model \in Priced \cup {Unpriced}, NEW n \in Nat, NEW steps \in Seq(Usages),
         NEW prompt \in Nat, day \in Nat, steps # <<>>,
         \A i \in DOMAIN steps : Fits(steps[i]),
         NEW usage, usage = Summed(steps), prompt = LargestPrompt(steps), Fits(usage)
  PROVE  LET r == Row(model, n, steps, usage, prompt)
         IN  r \in UsageRows /\ PricedAsRun(r)
<1> DEFINE r == Row(model, n, steps, usage, prompt)
           credits == Credits(model, usage, prompt)
<1>1. usage \in Usages
  BY SummedTyped
<1>2. credits \in Int
  <2>1. CASE model \in Priced
    <3>1. Tier(model, prompt) \in {"long", "default"}
      BY DEF Tier
    <3>2. credits = Usd(model, usage, Tier(model, prompt))
      BY <2>1 DEF Credits
    <3>3. Pricing[model].long \in Prices /\ Pricing[model].default \in Prices
      BY <2>1, UsageAssumption
    <3>4. \A tier \in {"long", "default"} : Usd(model, usage, tier) \in Int
      BY <1>1, <2>1, <3>3, UsdIsCost, CostTyped
    <3> QED BY <3>1, <3>2, <3>4
  <2>2. CASE model \notin Priced
    BY <2>2 DEF Credits
  <2> QED BY <2>1, <2>2
<1> HIDE DEF credits
<1>3. Max({0, credits}) \in Nat
  <2>1. \E m \in {0, credits} : \A y \in {0, credits} : m >= y
    BY <1>2
  <2>2. Max({0, credits}) \in {0, credits} /\ \A y \in {0, credits} : Max({0, credits}) >= y
    BY <2>1 DEF Max
  <2> QED BY <1>2, <2>2
<1>4. r = [day |-> day, model |-> model, messages |-> n, steps |-> steps, usage |-> usage,
           credits |-> credits, cost |-> IF usage.cost > 0 THEN usage.cost ELSE Max({0, credits})]
  BY DEF Row, credits
<1>5. (IF usage.cost > 0 THEN usage.cost ELSE Max({0, credits})) \in Nat
  BY <1>1, <1>3 DEF Usages
<1> HIDE DEF r
<1>6. r \in UsageRows
  BY <1>1, <1>2, <1>4, <1>5 DEF UsageRows
<1>7. PricedAsRun(r)
  BY <1>4 DEF PricedAsRun, credits
<1> QED BY <1>6, <1>7 DEF r

\* Writing such a row keeps the rows.
LEMMA RowWritten ==
  ASSUME UsageInv, NEW row \in UsageRows, PricedAsRun(row), WriteRow(row)
  PROVE  UsageInv'
<1>1. day' = day /\ booked' \in {booked, Append(booked, row)}
  BY DEF WriteRow, Appended, PartlyAppended
<1>2. CASE booked' = booked
  BY <1>1, <1>2 DEF UsageInv
<1>3. CASE booked' = Append(booked, row)
  <2> DEFINE all == Append(booked, row)
  <2>1. booked \in Seq(UsageRows) /\ \A i \in DOMAIN booked : PricedAsRun(booked[i])
    BY DEF UsageInv
  <2>2. all \in Seq(UsageRows) /\ \A i \in DOMAIN all : all[i] = row \/ \E j \in DOMAIN booked : all[i] = booked[j]
    BY <2>1
  <2> HIDE DEF all
  <2>3. \A i \in DOMAIN all : PricedAsRun(all[i])
    BY <2>1, <2>2
  <2> QED BY <1>1, <1>3, <2>2, <2>3 DEF UsageInv, all
<1> QED BY <1>1, <1>2, <1>3

\* Every step but that of the date writes a row of the right form.
LEMMA WritesARow ==
  ASSUME UsageInv, UsageNext, ~NextDay
  PROVE  \E row \in UsageRows : PricedAsRun(row) /\ WriteRow(row)
<1>1. ASSUME NEW model \in Priced \cup {Unpriced}, NEW run \in Runs,
             RecordChat(model, run)
      PROVE  \E row \in UsageRows : PricedAsRun(row) /\ WriteRow(row)
  <2> DEFINE steps == StepUsages(run)
  <2>1. steps \in Seq(Usages) /\ \A i \in DOMAIN steps : Fits(steps[i])
    BY StepsAreUsages
  <2>2. /\ steps # <<>>
        /\ WriteRow(Row(model, 2, steps, Summed(steps), LargestPrompt(steps)))
    BY <1>1 DEF RecordChat
  <2> HIDE DEF steps
  <2>3. LargestPrompt(steps) \in Nat
    BY <2>1, <2>2, LargestIsLargest
  <2>4. Fits(Summed(steps))
    BY <2>1, <2>2, CostOfSum
  <2>5. /\ Row(model, 2, steps, Summed(steps), LargestPrompt(steps)) \in UsageRows
        /\ PricedAsRun(Row(model, 2, steps, Summed(steps), LargestPrompt(steps)))
    BY <2>1, <2>2, <2>3, <2>4, RowTyped DEF UsageInv
  <2> QED BY <2>2, <2>5
<1>2. ASSUME NEW model \in Priced \cup {Unpriced}, NEW run \in Runs, NEW n \in Nat,
             WriteRow(Row(model, n, <<LatestUsage(StepUsages(run))>>,
                          LatestUsage(StepUsages(run)),
                          LatestUsage(StepUsages(run)).input))
      PROVE  \E row \in UsageRows : PricedAsRun(row) /\ WriteRow(row)
  <2> DEFINE u == LatestUsage(StepUsages(run))
  <2>1. u \in Usages /\ Fits(u)
    BY LatestFits
  <2>2. WriteRow(Row(model, n, <<u>>, u, u.input))
    BY <1>2
  <2> HIDE DEF u
  <2>3. /\ <<u>> \in Seq(Usages) /\ <<u>> # <<>> /\ Summed(<<u>>) = u
        /\ LargestPrompt(<<u>>) = u.input /\ u.input \in Nat
        /\ \A i \in DOMAIN <<u>> : Fits(<<u>>[i])
    BY <2>1, SummedOfOne DEF Usages
  <2>4. /\ Row(model, n, <<u>>, u, u.input) \in UsageRows
        /\ PricedAsRun(Row(model, n, <<u>>, u, u.input))
    BY <2>1, <2>3, RowTyped DEF UsageInv
  <2> QED BY <2>2, <2>4
<1>3. ASSUME NEW model \in Priced \cup {Unpriced}, NEW run \in Runs,
             RecordReply(model, run)
      PROVE  \E row \in UsageRows : PricedAsRun(row) /\ WriteRow(row)
  BY <1>2, <1>3 DEF RecordReply
<1>4. ASSUME NEW model \in Priced \cup {Unpriced}, NEW run \in Runs,
             RecordSessionTitle(model, run)
      PROVE  \E row \in UsageRows : PricedAsRun(row) /\ WriteRow(row)
  BY <1>2, <1>4 DEF RecordSessionTitle
<1> QED BY <1>1, <1>3, <1>4 DEF UsageNext

\* Every row that UsageTracker._write_row appended is well formed and priced as a run, by the
\* sum of its steps at the tier of the largest (usage_tracker.py, copilot_pricing.py).
THEOREM UsageTypeCorrect == UsageSpec => []UsageInv
<1>1. UsageInit => UsageInv
  BY DEF UsageInit, UsageInv
<1>2. UsageInv /\ [UsageNext]_usageVars => UsageInv'
  <2> SUFFICES ASSUME UsageInv, [UsageNext]_usageVars PROVE UsageInv'
    OBVIOUS
  <2>1. CASE NextDay
    BY <2>1 DEF NextDay, UsageInv
  <2>2. CASE UsageNext /\ ~NextDay
    BY <2>2, WritesARow, RowWritten
  <2>3. CASE UNCHANGED usageVars
    BY <2>3 DEF usageVars, UsageInv
  <2> QED BY <2>1, <2>2, <2>3
<1> QED BY <1>1, <1>2, PTL DEF UsageSpec

\* A chat run is priced as its steps are, when none is over the threshold, and otherwise for
\* no less than them and no more than all of them over it (UsageTracker.record_chat,
\* estimate_usage_credits); for any messages and any prices that are no lower over it.
THEOREM StepsPriceTheRun == UsageSpec => []PricedByItsSteps
<1>1. UsageInv => PricedByItsSteps
  <2> SUFFICES ASSUME UsageInv, NEW i \in DOMAIN booked, booked[i].model \in Priced
               PROVE  LET r == booked[i]
                      IN  IF \A s \in DOMAIN r.steps : r.steps[s].input <= Pricing[r.model].threshold
                          THEN r.credits = OneByOne(r)
                          ELSE OneByOne(r) <= r.credits /\ r.credits <= AllLong(r)
    BY DEF PricedByItsSteps, OneByOne, AllLong
  <2>1. booked[i] \in UsageRows /\ PricedAsRun(booked[i])
    BY ElementOfSeq DEF UsageInv
  <2> QED BY <2>1, RunPrice
<1> QED BY <1>1, UsageTypeCorrect, PTL

LineSet == UsageRows \cup {Cut}

\* What the lines of the file are.
LineInv ==
  /\ lines \in Seq(LineSet) /\ open \in BOOLEAN
  /\ ~open => Kept(lines, UsageRows) = booked
  /\ open => \E front \in Seq(LineSet), last \in LineSet :
               lines = Append(front, last) /\ Kept(front, UsageRows) = booked

\* The end of a sequence is replaced.
LEMMA LastReplaced ==
  ASSUME NEW S, NEW s \in Seq(S), NEW x \in S, NEW y \in S
  PROVE  [Append(s, x) EXCEPT ![Len(Append(s, x))] = y] = Append(s, y)
<1> DEFINE t == Append(s, x)
           u == Append(s, y)
           v == [t EXCEPT ![Len(t)] = y]
           n == Len(s) + 1
<1>1. Len(s) \in Nat /\ DOMAIN s = 1..Len(s)
  BY LenProperties
<1>2. /\ t \in Seq(S) /\ Len(t) = n /\ t[n] = x /\ \A i \in 1..Len(s) : t[i] = s[i]
      /\ u \in Seq(S) /\ Len(u) = n /\ u[n] = y /\ \A i \in 1..Len(s) : u[i] = s[i]
  BY AppendProperties
<1>3. /\ DOMAIN t = 1..n /\ DOMAIN u = 1..n /\ u = [i \in 1..n |-> u[i]]
      /\ \A i \in 1..n : i \in 1..Len(s) \/ i = n
  <2> HIDE DEF t, u
  <2>1. \A i \in 1..n : i \in 1..Len(s) \/ i = n
    BY <1>1
  <2>2. DOMAIN t = 1..Len(t) /\ DOMAIN u = 1..Len(u) /\ u = [i \in 1..Len(u) |-> u[i]]
    BY <1>2, LenProperties
  <2> QED BY <1>2, <2>1, <2>2
<1> HIDE DEF t, u
<1>4. v = [i \in 1..n |-> IF i = n THEN y ELSE t[i]]
  BY <1>2, <1>3
<1>5. \A i \in 1..n : (IF i = n THEN y ELSE t[i]) = u[i]
  BY <1>1, <1>2, <1>3
<1> QED BY <1>3, <1>4, <1>5 DEF t, u

\* The same, for one set.
LEMMA KeptMore ==
  ASSUME NEW S, NEW s \in Seq(S), NEW x \in S, NEW A
  PROVE  Kept(Append(s, x), A) = IF x \in A THEN Append(Kept(s, A), x) ELSE Kept(s, A)
<1>1. \A i \in 1..Len(s) : s[i] \in A <=> s[i] \in A
  OBVIOUS
<1> QED BY ONLY <1>1, s \in Seq(S), x \in S, KeptAppend

\* Writing a row keeps what the readable lines are: those that were booked.
LEMMA LineWritten ==
  ASSUME UsageInv, LineInv, NEW row \in UsageRows, WriteRow(row)
  PROVE  LineInv'
<1>1. row \in LineSet /\ Cut \in LineSet /\ Cut \notin UsageRows
  BY UsageAssumption DEF LineSet
<1>2. CASE open
  <2>1. PICK front \in Seq(LineSet), last \in LineSet :
               lines = Append(front, last) /\ Kept(front, UsageRows) = booked
    BY <1>2 DEF LineInv
  <2>2. lines' = Append(front, Cut) /\ booked' = booked /\ open' \in BOOLEAN
    <3>1. /\ lines' = [lines EXCEPT ![Len(lines)] = Cut]
          /\ booked' = booked /\ open' \in BOOLEAN
      BY <1>2 DEF WriteRow, Appended, PartlyAppended
    <3> QED BY <1>1, <2>1, <3>1, LastReplaced
  <2>3. Append(front, Cut) \in Seq(LineSet)
    BY <1>1
  <2>4. Kept(Append(front, Cut), UsageRows) = Kept(front, UsageRows)
    BY <1>1, KeptMore
  <2> QED BY <1>1, <2>1, <2>2, <2>3, <2>4 DEF LineInv
<1>3. CASE ~open
  <2>1. lines \in Seq(LineSet) /\ Kept(lines, UsageRows) = booked
    BY <1>3 DEF LineInv
  <2>2. CASE Appended(row)
    <3>1. lines' = Append(lines, row) /\ booked' = Append(booked, row) /\ open' = FALSE
      BY <1>3, <2>2 DEF Appended
    <3>2. Append(lines, row) \in Seq(LineSet)
      BY <1>1, <2>1
    <3>3. Kept(Append(lines, row), UsageRows) = Append(booked, row)
      BY <1>1, <2>1, KeptMore
    <3> QED BY <3>1, <3>2, <3>3 DEF LineInv
  <2>3. CASE PartlyAppended(row)
    <3>1. PICK line \in {Cut, row} : lines' = Append(lines, line) /\ open' = TRUE /\ booked' = booked
      BY <1>3, <2>3 DEF PartlyAppended
    <3>2. line \in LineSet /\ Append(lines, line) \in Seq(LineSet)
      BY <1>1, <2>1
    <3> QED BY <2>1, <3>1, <3>2 DEF LineInv
  <2> QED BY <2>2, <2>3 DEF WriteRow
<1> QED BY <1>2, <1>3

\* The lines of the usage file that are rows are those that were booked, in their order, but
\* for a last one without its end (UsageTracker._write_row), whatever writes were cut short.
THEOREM LinesKept == UsageSpec => []LineInv
<1>1. UsageInit => LineInv
  BY KeptNone, EmptySeq DEF UsageInit, LineInv
<1>2. UsageInv /\ LineInv /\ [UsageNext]_usageVars => LineInv'
  <2> SUFFICES ASSUME UsageInv, LineInv, [UsageNext]_usageVars PROVE LineInv'
    OBVIOUS
  <2>1. CASE UNCHANGED <<lines, open, booked>>
    BY <2>1 DEF LineInv
  <2>2. CASE UsageNext /\ ~NextDay
    BY <2>2, WritesARow, LineWritten
  <2> QED BY <2>1, <2>2 DEF NextDay, usageVars
<1> QED BY <1>1, <1>2, UsageTypeCorrect, PTL DEF UsageSpec

-----------------------------------------------------------------------------
(* The summary *)

\* The rows of a period, and of a model.
Since(days) == {r \in UsageRows : r.day >= day - days}

OfModel(m) == {r \in UsageRows : r.model = m}

\* Only the elements that the sequence has count.
LEMMA KeptOfRange ==
  ASSUME NEW S, NEW s \in Seq(S), NEW A
  PROVE  Kept(s, A \cap Range(s)) = Kept(s, A)
<1>1. \A i \in 1..Len(s) : s[i] \in A \cap Range(s) <=> s[i] \in A
  BY LenProperties DEF Range
<1>2. \A B : (\A i \in 1..Len(s) : s[i] \in B <=> s[i] \in A) => Kept(s, B) = Kept(s, A)
  BY KeptSame
<1> QED BY <1>1, <1>2

\* The lines that are read are those that are rows.
LEMMA ReadableIsKept ==
  ASSUME lines \in Seq(LineSet)
  PROVE  Readable = Kept(lines, UsageRows)
<1>1. \A i \in 1..Len(lines) : lines[i] \in Range(lines) \ {Cut} <=> lines[i] \in UsageRows
  BY LenProperties, ElementOfSeq, UsageAssumption DEF Range, LineSet
<1> QED BY <1>1, KeptSame DEF Readable

\* The rows of a period are those of its days.
LEMMA InPeriodIsKept ==
  ASSUME NEW rows \in Seq(UsageRows), NEW days \in Nat
  PROVE  InPeriod(rows, days) = Kept(rows, Since(days))
<1>1. {r \in Range(rows) : r.day >= day - days} = Since(days) \cap Range(rows)
  BY LenProperties, ElementOfSeq DEF Range, Since
<1> QED BY <1>1, KeptOfRange DEF InPeriod

\* What a summary reads: the rows that were booked, and at most one whose end is missing.
LEMMA ReadsTheRows ==
  ASSUME UsageInv, LineInv, NEW days \in Nat
  PROVE  /\ Readable \in Seq(UsageRows) /\ InPeriod(Readable, days) \in Seq(UsageRows)
         /\ \/ InPeriod(Readable, days) = InPeriod(booked, days)
            \/ /\ open /\ Len(InPeriod(Readable, days)) = Len(InPeriod(booked, days)) + 1
<1> DEFINE all == Kept(lines, UsageRows)
           seen(s) == Kept(s, Since(days))
<1>1. lines \in Seq(LineSet) /\ booked \in Seq(UsageRows)
  BY DEF UsageInv, LineInv
<1>2. Readable = all
  BY <1>1, ReadableIsKept
<1>3. all = booked \/ (open /\ \E last \in UsageRows : all = Append(booked, last))
  <2>1. CASE open
    <3>1. PICK front \in Seq(LineSet), last \in LineSet :
               lines = Append(front, last) /\ Kept(front, UsageRows) = booked
      BY <2>1 DEF LineInv
    <3>2. all = IF last \in UsageRows THEN Append(booked, last) ELSE booked
      BY <3>1, KeptMore
    <3> QED BY <2>1, <3>2
  <2>2. CASE ~open
    BY <2>2 DEF LineInv
  <2> QED BY <2>1, <2>2
<1> HIDE DEF all
<1>4. all \in Seq(UsageRows)
  <2>1. \A last \in UsageRows : Append(booked, last) \in Seq(UsageRows)
    BY <1>1
  <2> QED BY <1>1, <1>3, <2>1
<1>5. \A s \in Seq(UsageRows) : /\ InPeriod(s, days) = seen(s)
                                /\ seen(s) \in Seq(UsageRows)
  <2>1. \A s \in Seq(UsageRows) : InPeriod(s, days) = Kept(s, Since(days))
    BY InPeriodIsKept
  <2>2. \A s \in Seq(UsageRows) : Kept(s, Since(days)) \in Seq(UsageRows \cap Since(days))
    BY KeptTyped
  <2>3. UsageRows \cap Since(days) \subseteq UsageRows
    OBVIOUS
  <2>4. \A s \in Seq(UsageRows \cap Since(days)) : s \in Seq(UsageRows)
    BY <2>3, LenProperties, ElementOfSeq, IsASeq
  <2> QED BY <2>1, <2>2, <2>4
<1>6. ASSUME NEW last \in UsageRows, all = Append(booked, last), open
      PROVE  seen(all) = seen(booked) \/ Len(seen(all)) = Len(seen(booked)) + 1
  <2>1. seen(all) = IF last \in Since(days) THEN Append(seen(booked), last) ELSE seen(booked)
    BY <1>1, <1>6, KeptMore
  <2>2. Len(Append(seen(booked), last)) = Len(seen(booked)) + 1
    BY <1>1, <1>5, AppendProperties
  <2> QED BY <2>1, <2>2
<1> HIDE DEF seen
<1> QED BY <1>1, <1>2, <1>3, <1>4, <1>5, <1>6

\* The credits of rows.
Worth(rows) == SumOf([i \in DOMAIN rows |-> Max({0, rows[i].credits})])

\* What a model's rows are worth.
WorthOf(rows, m) == Worth(Kept(rows, OfModel(m)))

\* What a row adds to the credits is not negative.
LEMMA MaxTyped ==
  ASSUME NEW n \in Int
  PROVE  Max({0, n}) \in Nat
<1>1. \E m \in {0, n} : \A y \in {0, n} : m >= y
  OBVIOUS
<1>2. Max({0, n}) \in {0, n} /\ \A y \in {0, n} : Max({0, n}) >= y
  BY <1>1 DEF Max
<1> QED BY <1>2

\* The credits of rows are a number.
LEMMA WorthTyped ==
  ASSUME NEW rows \in Seq(UsageRows)
  PROVE  /\ [i \in DOMAIN rows |-> Max({0, rows[i].credits})] \in Seq(Int)
         /\ Worth(rows) \in Int
<1> DEFINE f == [i \in DOMAIN rows |-> Max({0, rows[i].credits})]
<1>1. /\ DOMAIN rows = 1..Len(rows) /\ Len(rows) \in Nat
      /\ \A i \in DOMAIN rows : rows[i].credits \in Int
  <2>1. DOMAIN rows = 1..Len(rows) /\ Len(rows) \in Nat
    BY LenProperties
  <2>2. \A i \in 1..Len(rows) : rows[i] \in UsageRows
    BY ElementOfSeq
  <2>3. \A r \in UsageRows : r.credits \in Int
    BY DEF UsageRows
  <2> QED BY <2>1, <2>2, <2>3
<1>2. \A i \in DOMAIN rows : Max({0, rows[i].credits}) \in Nat
  BY <1>1, MaxTyped
<1>3. f \in Seq(Int)
  BY <1>1, <1>2, IsASeq
<1>4. f \in [DOMAIN rows -> Int] /\ IsFiniteSet(DOMAIN rows)
  BY <1>1, <1>2, FS_Interval
<1> HIDE DEF f
<1>5. SumOf(f) \in Int
  BY <1>4, SumTyped
<1> QED BY <1>3, <1>5 DEF Worth, f

\* A row at the end adds its credits.
LEMMA WorthMore ==
  ASSUME NEW rows \in Seq(UsageRows), NEW x \in UsageRows
  PROVE  Worth(Append(rows, x)) = Worth(rows) + Max({0, x.credits})
<1> DEFINE f == [i \in DOMAIN rows |-> Max({0, rows[i].credits})]
           n == Max({0, x.credits})
           all == Append(rows, x)
<1>1. f \in Seq(Int) /\ n \in Int
  <2>1. x.credits \in Int
    BY DEF UsageRows
  <2>2. n \in Nat
    BY <2>1, MaxTyped
  <2>3. f \in Seq(Int)
    BY WorthTyped
  <2> QED BY <2>2, <2>3
<1>2. /\ all \in Seq(UsageRows) /\ DOMAIN rows = 1..Len(rows) /\ Len(rows) \in Nat
      /\ DOMAIN all = 1..(Len(rows) + 1) /\ all[Len(rows) + 1] = x
      /\ \A i \in DOMAIN rows : all[i] = rows[i]
  <2>1. DOMAIN rows = 1..Len(rows) /\ Len(rows) \in Nat
    BY LenProperties
  <2>2. /\ all \in Seq(UsageRows) /\ Len(all) = Len(rows) + 1 /\ all[Len(rows) + 1] = x
        /\ \A i \in 1..Len(rows) : all[i] = rows[i]
    BY AppendProperties
  <2> HIDE DEF all
  <2>3. DOMAIN all = 1..(Len(rows) + 1)
    BY <2>2, LenProperties
  <2> QED BY <2>1, <2>2, <2>3
<1>3. DOMAIN f = 1..Len(rows) /\ Len(f) = Len(rows)
  BY <1>1, <1>2, LenProperties
<1> DEFINE g == [i \in DOMAIN all |-> Max({0, all[i].credits})]
<1>4. g = Append(f, n)
  <2>1. DOMAIN Append(f, n) = 1..(Len(rows) + 1) /\ Append(f, n)[Len(rows) + 1] = n
    BY <1>1, <1>3, AppendProperties, LenProperties
  <2>2. \A i \in 1..Len(rows) : Append(f, n)[i] = f[i]
    <3> HIDE DEF f, n
    <3> QED BY <1>1, <1>3, AppendProperties
  <2>3. \A i \in 1..Len(rows) : g[i] = f[i]
    BY <1>2
  <2>4. g[Len(rows) + 1] = n /\ DOMAIN g = 1..(Len(rows) + 1)
    <3> HIDE DEF all
    <3>1. Len(rows) + 1 \in DOMAIN all
      BY <1>2
    <3> QED BY <1>2, <3>1
  <2>5. Append(f, n) \in Seq(Int)
    BY <1>1
  <2>6. g = [i \in DOMAIN g |-> g[i]] /\ Append(f, n) = [i \in 1..(Len(rows) + 1) |-> Append(f, n)[i]]
    <3>1. g = [i \in DOMAIN g |-> g[i]]
      OBVIOUS
    <3>2. Append(f, n) = [i \in 1..Len(Append(f, n)) |-> Append(f, n)[i]]
      <4> HIDE DEF f, n
      <4> QED BY <2>5, LenProperties
    <3>3. Len(Append(f, n)) = Len(rows) + 1
      <4> HIDE DEF f, n
      <4> QED BY <1>1, <1>3, AppendProperties
    <3> QED BY <3>1, <3>2, <3>3
  <2> HIDE DEF f, n, g
  <2>7. \A i \in 1..(Len(rows) + 1) : i \in 1..Len(rows) \/ i = Len(rows) + 1
    BY <1>2
  <2> QED BY <2>1, <2>2, <2>3, <2>4, <2>6, <2>7
<1> HIDE DEF f, n
<1>5. SumOf(Append(f, n)) = SumOf(f) + n
  BY <1>1, SumAppend
<1> QED BY <1>4, <1>5 DEF Worth, f, n

\* A number at one place and nothing anywhere else.
LEMMA SumAtOne ==
  ASSUME NEW D, IsFiniteSet(D), NEW x \in D, NEW n \in Int
  PROVE  SumOf([y \in D |-> IF y = x THEN n ELSE 0]) = n
<1> DEFINE f == [y \in D |-> IF y = x THEN n ELSE 0]
           P == {t \in SUBSET D : Sums(f)[t] = IF x \in t THEN n ELSE 0}
<1>1. f \in [D -> Int] /\ \A y \in D : f[y] = IF y = x THEN n ELSE 0
  OBVIOUS
<1>2. DOMAIN f = D
  OBVIOUS
<1> HIDE DEF f
<1>3. {} \in P
  BY <1>1, SumsOfNone
<1>4. ASSUME NEW s \in SUBSET D, s # {}, \A y \in s : s \ {y} \in P PROVE s \in P
  <2>1. PICK y \in s : TRUE
    BY <1>4
  <2>2. SumWith(f, s, y)
    BY <1>1, SumsTake
  <2>3. Sums(f)[s \ {y}] = IF x \in s \ {y} THEN n ELSE 0
    BY <1>4
  <2>4. Sums(f)[s] = f[y] + Sums(f)[s \ {y}] /\ f[y] = IF y = x THEN n ELSE 0
    BY <1>1, <2>2 DEF SumWith
  <2> QED BY <2>3, <2>4
<1> HIDE DEF P
<1>5. SUBSET D \subseteq P
  BY ONLY <1>3, <1>4, IsFiniteSet(D), SubsetInduction
<1>6. Sums(f)[D] = n
  BY <1>5 DEF P
<1> QED BY <1>2, <1>6, SumIsSums DEF f

\* It adds them to its model's and to no other's.
LEMMA WorthOfMore ==
  ASSUME NEW rows \in Seq(UsageRows), NEW x \in UsageRows, NEW m
  PROVE  /\ Kept(rows, OfModel(m)) \in Seq(UsageRows)
         /\ WorthOf(rows, m) \in Int
         /\ WorthOf(Append(rows, x), m)
              = WorthOf(rows, m) + (IF m = x.model THEN Max({0, x.credits}) ELSE 0)
<1> DEFINE own == Kept(rows, OfModel(m))
<1>1. own \in Seq(UsageRows)
  <2>1. own \in Seq(UsageRows \cap OfModel(m))
    BY KeptTyped
  <2> HIDE DEF own
  <2>2. UsageRows \cap OfModel(m) \subseteq UsageRows
    OBVIOUS
  <2> QED BY <2>1, <2>2, LenProperties, ElementOfSeq, IsASeq
<1>2. Kept(Append(rows, x), OfModel(m)) = IF x \in OfModel(m) THEN Append(own, x) ELSE own
  BY KeptMore
<1> HIDE DEF own
<1>3. x \in OfModel(m) <=> m = x.model
  BY DEF OfModel
<1>4. Worth(own) \in Int /\ Worth(Append(own, x)) = Worth(own) + Max({0, x.credits})
  BY <1>1, WorthTyped, WorthMore
<1> QED BY <1>1, <1>2, <1>3, <1>4 DEF WorthOf, own

\* The models' parts are the whole.
LEMMA ModelsAddUp ==
  ASSUME NEW M, IsFiniteSet(M), NEW rows \in Seq(UsageRows), \A i \in DOMAIN rows : rows[i].model \in M
  PROVE  SumOf([m \in M |-> WorthOf(rows, m)]) = Worth(rows)
<1> DEFINE own(s) == [m \in M |-> WorthOf(s, m)]
           U == {r \in UsageRows : r.model \in M}
           Good(s) == SumOf(own(s)) = Worth(s)
           P == {n \in Nat : \A s \in Seq(U) : Len(s) = n => Good(s)}
<1>1. \A s \in Seq(U) : s \in Seq(UsageRows)
  BY LenProperties, ElementOfSeq, IsASeq
<1>2. 0 \in P
  <2>1. \A s \in Seq(U) : Len(s) = 0 => s = <<>>
    BY EmptySeq
  <2>2. \A m \in M : WorthOf(<<>>, m) = 0
    BY KeptNone, SumOfNone DEF WorthOf, Worth
  <2>3. Worth(<<>>) = 0
    BY SumOfNone DEF Worth
  <2>4. SumOf(own(<<>>)) = 0
    <3> DEFINE zero == [m \in M |-> 0]
    <3>1. own(<<>>) = zero
      BY <2>2
    <3>2. zero \in [M -> Int] /\ IsTimes(M, zero, 0, zero)
      BY DEF IsTimes
    <3> HIDE DEF zero
    <3>3. SumOf(zero) \in Int /\ SumOf(zero) = SumOf(zero) * 0
      BY <3>2, SumTyped, SumScales
    <3> QED BY <3>1, <3>3
  <2>5. Good(<<>>)
    BY <2>3, <2>4
  <2> HIDE DEF Good
  <2> QED BY <2>1, <2>5
<1>3. ASSUME NEW n \in Nat, n \in P PROVE n + 1 \in P
  <2> SUFFICES ASSUME NEW t \in Seq(U), Len(t) = n + 1 PROVE Good(t)
    OBVIOUS
  <2>1. PICK s \in Seq(U), x \in U : t = Append(s, x) /\ Len(s) = n
    <3> DEFINE s == SubSeq(t, 1, n)
    <3>1. t \in Seq(U) /\ t # <<>> /\ n = Len(t) - 1
      BY EmptySeq
    <3>2. s \in Seq(U) /\ Len(s) = n /\ \A i \in 1..n : s[i] = t[i]
      BY SubSeqProperties
    <3>3. t[n + 1] \in U
      BY ElementOfSeq
    <3>4. t = Append(s, t[n + 1])
      <4> HIDE DEF s, U
      <4> QED BY <3>2, <3>3, LenProperties, AppendProperties
    <3> QED BY <3>2, <3>3, <3>4
  <2> DEFINE worth == Max({0, x.credits})
             more == [m \in M |-> IF m = x.model THEN worth ELSE 0]
             before == own(s)
             after == own(t)
  <2>2. s \in Seq(UsageRows) /\ x \in UsageRows /\ x.model \in M
    BY <1>1
  <2>3. worth \in Int
    <3>1. x.credits \in Int
      BY <2>2 DEF UsageRows
    <3> QED BY <3>1, MaxTyped
  <2>4. Worth(t) = Worth(s) + worth /\ Worth(s) \in Int
    BY <2>1, <2>2, WorthMore, WorthTyped
  <2>5. \A m \in M : /\ WorthOf(s, m) \in Int
                     /\ WorthOf(t, m) = WorthOf(s, m) + (IF m = x.model THEN worth ELSE 0)
    BY <2>1, <2>2, WorthOfMore
  <2> HIDE DEF worth
  <2>6. IsSum(M, before, more, after)
    <3>1. \A m \in M : more[m] \in Int
      BY <2>3
    <3>2. \A m \in M : WorthOf(t, m) \in Int
      BY <2>3, <2>5
    <3>3. \A m \in M : after[m] = before[m] + more[m]
      BY <2>5
    <3>4. before \in [M -> Int] /\ after \in [M -> Int]
      BY <2>5, <3>2
    <3> HIDE DEF before, after
    <3> QED BY <3>1, <3>3, <3>4 DEF IsSum
  <2>7. SumOf(more) = worth
    BY <2>2, <2>3, SumAtOne
  <2>8. SumOf(before) = Worth(s)
    <3>1. Good(s)
      BY <1>3, <2>1
    <3> QED BY <3>1
  <2> HIDE DEF before, more, after
  <2>9. SumOf(after) = SumOf(before) + SumOf(more)
    BY <2>6, SumAdds
  <2> QED BY <2>4, <2>7, <2>8, <2>9 DEF after
<1> HIDE DEF P
<1>4. Nat \subseteq P
  BY ONLY <1>2, <1>3, NatSetInduction
<1>5. rows \in Seq(U) /\ Len(rows) \in Nat
  BY LenProperties, ElementOfSeq, IsASeq
<1> QED BY <1>4, <1>5 DEF P

\* UsageTracker.summarize counts each row that was written whole, once, and its models' credits
\* add up to the whole, after any number of writes that were cut short.
THEOREM RowsAreCounted == UsageSpec => []EachRowCounted
<1>1. UsageInv /\ LineInv => EachRowCounted
  <2> SUFFICES ASSUME UsageInv, LineInv, NEW days \in 0..MaxDay
               PROVE  LET rows == InPeriod(booked, days)
                          sum == Summarize(days)
                          more == sum.global.requests - Len(rows)
                      IN  /\ more \in {0, IF open THEN 1 ELSE 0}
                          /\ more = 0 => sum.global = Totals(rows)
                          /\ sum.global.credits =
                               SumOf([m \in DOMAIN sum.byModel |-> sum.byModel[m].credits])
    BY DEF EachRowCounted
  <2> DEFINE rows == InPeriod(booked, days)
             read == InPeriod(Readable, days)
             sum == Summarize(days)
             M == {r.model : r \in Range(read)}
  <2>1. days \in Nat
    BY UsageAssumption
  <2>2. /\ Readable \in Seq(UsageRows) /\ read \in Seq(UsageRows)
        /\ read = rows \/ (open /\ Len(read) = Len(rows) + 1)
    BY <2>1, ReadsTheRows
  <2>3. Len(rows) \in Nat /\ rows \in Seq(UsageRows)
    <3>1. booked \in Seq(UsageRows)
      BY DEF UsageInv
    <3>2. rows = Kept(booked, Since(days))
      BY <2>1, <3>1, InPeriodIsKept
    <3>3. rows \in Seq(UsageRows \cap Since(days))
      BY <3>1, <3>2, KeptTyped
    <3>4. UsageRows \cap Since(days) \subseteq UsageRows
      OBVIOUS
    <3> HIDE DEF rows
    <3> QED BY <3>3, <3>4, LenProperties, ElementOfSeq, IsASeq
  <2>4. /\ sum.global = Totals(read) /\ DOMAIN sum.byModel = M
        /\ \A m \in M : sum.byModel[m] = Totals(Kept(read, {r \in Range(read) : r.model = m}))
    BY DEF Summarize
  <2>5. \A s : Totals(s).requests = Len(s) /\ Totals(s).credits = Worth(s)
    BY DEF Totals, Worth
  <2> HIDE DEF read, rows, sum
  <2>6. \A m \in M : sum.byModel[m].credits = WorthOf(read, m)
    <3> SUFFICES ASSUME NEW m \in M PROVE sum.byModel[m].credits = WorthOf(read, m)
      OBVIOUS
    <3>1. {r \in Range(read) : r.model = m} = OfModel(m) \cap Range(read)
      BY <2>2, LenProperties, ElementOfSeq DEF Range, OfModel
    <3>2. Kept(read, OfModel(m) \cap Range(read)) = Kept(read, OfModel(m))
      BY <2>2, KeptOfRange
    <3> QED BY <2>4, <2>5, <3>1, <3>2 DEF WorthOf
  <2>7. IsFiniteSet(M) /\ \A i \in DOMAIN read : read[i].model \in M
    <3> DEFINE f == [i \in DOMAIN read |-> read[i].model]
    <3>1. f \in Surjection(DOMAIN read, M)
      BY DEF Surjection, Range
    <3>2. IsFiniteSet(DOMAIN read)
      BY <2>2, LenProperties, FS_Interval
    <3>3. \A i \in DOMAIN read : read[i].model \in M
      BY DEF Range
    <3> HIDE DEF f, M
    <3> QED BY <3>1, <3>2, <3>3, FS_Surjection
  <2>8. SumOf([m \in M |-> WorthOf(read, m)]) = Worth(read)
    <3> HIDE DEF M
    <3> QED BY <2>2, <2>7, ModelsAddUp
  <2>9. [m \in DOMAIN sum.byModel |-> sum.byModel[m].credits] = [m \in M |-> WorthOf(read, m)]
    BY <2>4, <2>6
  <2>10. sum.global.requests - Len(rows) \in {0, IF open THEN 1 ELSE 0}
    BY <2>2, <2>3, <2>4, <2>5
  <2>11. sum.global.requests - Len(rows) = 0 => sum.global = Totals(rows)
    BY <2>2, <2>3, <2>4, <2>5
  <2>12. sum.global.credits = SumOf([m \in DOMAIN sum.byModel |-> sum.byModel[m].credits])
    BY <2>4, <2>5, <2>8, <2>9
  <2> QED BY <2>10, <2>11, <2>12 DEF rows, sum
<1> QED BY <1>1, UsageTypeCorrect, LinesKept, PTL

(***************************************************************************)
(* ContextWindow: the walk back through the messages, and the categories.  *)
(***************************************************************************)
\* What OpenCode's messages are to the meter.
ContextMessages ==
  [kind : {"said", "reply", "mark", "summary"}, parent : Nat, tail : Nat, done : BOOLEAN,
   input : Nat, text : Nat, tools : Nat]

\* What a compaction keeps besides lies before it, and only summaries are ever done.
ContextInv ==
  /\ messages \in Seq(ContextMessages)
  /\ \A i \in DOMAIN messages : /\ messages[i].tail < i
                                /\ messages[i].done => messages[i].kind = "summary"

\* A message that is added keeps what the messages are.
LEMMA MessageAdded ==
  ASSUME ContextInv, NEW m \in ContextMessages, messages' = Append(messages, m),
         m.tail <= Len(messages), m.done => m.kind = "summary"
  PROVE  ContextInv'
<1> DEFINE all == Append(messages, m)
<1>1. /\ messages \in Seq(ContextMessages) /\ Len(messages) \in Nat
      /\ \A i \in 1..Len(messages) : /\ messages[i].tail < i
                                     /\ messages[i].done => messages[i].kind = "summary"
  BY LenProperties DEF ContextInv
<1>2. /\ all \in Seq(ContextMessages) /\ Len(all) = Len(messages) + 1 /\ all[Len(messages) + 1] = m
      /\ \A i \in 1..Len(messages) : all[i] = messages[i]
  BY <1>1, AppendProperties
<1>3. m.tail \in Nat
  BY DEF ContextMessages
<1> HIDE DEF all
<1>4. DOMAIN all = 1..(Len(messages) + 1)
  BY <1>2, LenProperties
<1>5. \A i \in DOMAIN all : all[i].tail < i /\ (all[i].done => all[i].kind = "summary")
  <2> SUFFICES ASSUME NEW i \in 1..(Len(messages) + 1)
               PROVE  all[i].tail < i /\ (all[i].done => all[i].kind = "summary")
    BY <1>4
  <2>1. CASE i \in 1..Len(messages)
    BY <1>1, <1>2, <2>1
  <2>2. CASE i = Len(messages) + 1
    <3>1. all[i] = m
      BY <1>2, <2>2
    <3> QED BY <1>1, <1>3, <2>2, <3>1
  <2> QED BY <1>1, <2>1, <2>2
<1> QED BY <1>2, <1>5 DEF ContextInv, all

\* The messages of a session are well formed, what a compaction keeps lies before it, and only
\* summaries are done, in every state (context_api.py).
THEOREM ContextTypeCorrect == ContextSpec => []ContextInv
<1>1. ContextInit => ContextInv
  BY EmptySeq DEF ContextInit, ContextInv
<1>2. ContextInv /\ [ContextNext]_contextVars => ContextInv'
  <2> SUFFICES ASSUME ContextInv, [ContextNext]_contextVars PROVE ContextInv'
    OBVIOUS
  <2> USE ContextAssumption
  <2>1. messages \in Seq(ContextMessages) /\ Len(messages) \in Nat /\ DOMAIN messages = 1..Len(messages)
    BY LenProperties DEF ContextInv
  <2>2. CASE Says
    <3>1. PICK text \in TokenSizes : messages' = Append(messages, [Blank EXCEPT !.text = text])
      BY <2>2 DEF Says, Append1
    <3> DEFINE m == [Blank EXCEPT !.text = text]
    <3>2. m \in ContextMessages /\ m.tail = 0 /\ ~m.done
      BY DEF Blank, ContextMessages
    <3>3. messages' = Append(messages, m)
      BY <3>1
    <3> HIDE DEF m
    <3>4. m.tail <= Len(messages) /\ (m.done => m.kind = "summary")
      BY <2>1, <3>2
    <3> QED BY <3>2, <3>3, <3>4, MessageAdded
  <2>3. CASE Responds
    <3>1. PICK text \in TokenSizes, tools \in TokenSizes, input \in TokenSizes :
               messages' = Append(messages, [Blank EXCEPT !.kind = "reply", !.text = text,
                                                          !.tools = tools, !.input = input])
      BY <2>3 DEF Responds, Append1
    <3> DEFINE m == [Blank EXCEPT !.kind = "reply", !.text = text, !.tools = tools, !.input = input]
    <3>2. m \in ContextMessages /\ m.tail = 0 /\ ~m.done
      BY DEF Blank, ContextMessages
    <3>3. messages' = Append(messages, m)
      BY <3>1
    <3> HIDE DEF m
    <3>4. m.tail <= Len(messages) /\ (m.done => m.kind = "summary")
      BY <2>1, <3>2
    <3> QED BY <3>2, <3>3, <3>4, MessageAdded
  <2>4. CASE Marks
    <3>1. PICK tail \in {0} \cup DOMAIN messages :
               messages' = Append(messages, [Blank EXCEPT !.kind = "mark", !.tail = tail])
      BY <2>4 DEF Marks, Append1
    <3> DEFINE m == [Blank EXCEPT !.kind = "mark", !.tail = tail]
    <3>2. m \in ContextMessages /\ m.tail <= Len(messages) /\ ~m.done
      <4>1. tail \in Nat /\ tail <= Len(messages)
        BY <2>1
      <4>2. \A t \in Nat : /\ [Blank EXCEPT !.kind = "mark", !.tail = t] \in ContextMessages
                           /\ [Blank EXCEPT !.kind = "mark", !.tail = t].tail = t
                           /\ ~[Blank EXCEPT !.kind = "mark", !.tail = t].done
        BY DEF Blank, ContextMessages
      <4> QED BY <4>1, <4>2
    <3>3. messages' = Append(messages, m)
      BY <3>1
    <3> HIDE DEF m
    <3>4. m.tail <= Len(messages) /\ (m.done => m.kind = "summary")
      BY <2>1, <3>2
    <3> QED BY <3>2, <3>3, <3>4, MessageAdded
  <2>5. CASE Summarizes
    <3>1. PICK done \in BOOLEAN, text \in TokenSizes :
               messages' = Append(messages, [Blank EXCEPT !.kind = "summary", !.parent = Len(messages),
                                                          !.done = done, !.text = text])
      BY <2>5 DEF Summarizes, Append1
    <3> DEFINE m == [Blank EXCEPT !.kind = "summary", !.parent = Len(messages), !.done = done,
                                  !.text = text]
    <3>2. m \in ContextMessages /\ m.tail = 0 /\ m.kind = "summary"
      BY <2>1 DEF Blank, ContextMessages
    <3>3. messages' = Append(messages, m)
      BY <3>1
    <3> HIDE DEF m
    <3>4. m.tail <= Len(messages) /\ (m.done => m.kind = "summary")
      BY <2>1, <3>2
    <3> QED BY <3>2, <3>3, <3>4, MessageAdded
  <2>6. CASE Reverts
    <3>1. PICK n \in 0..Len(messages) - 1 : messages' = SubSeq(messages, 1, n)
      BY <2>6 DEF Reverts
    <3> DEFINE s == SubSeq(messages, 1, n)
    <3>2. s \in Seq(ContextMessages) /\ Len(s) = n /\ \A i \in 1..n : s[i] = messages[i]
      BY <2>1, SubSeqProperties
    <3> HIDE DEF s
    <3>3. DOMAIN s = 1..n /\ 1..n \subseteq DOMAIN messages
      BY <2>1, <3>2, LenProperties
    <3>4. \A i \in DOMAIN s : s[i].tail < i /\ (s[i].done => s[i].kind = "summary")
      BY <3>2, <3>3 DEF ContextInv
    <3> QED BY <3>1, <3>2, <3>4 DEF ContextInv, s
  <2>7. CASE UNCHANGED messages
    BY <2>7 DEF ContextInv
  <2>8. ASSUME NEW k \in Compactions,
               ListsHistory(k) \/ ChecksIdle(k) \/ AsksSummary(k) \/ CallFails(k) \/ RepliesWithBoth(k)
        PROVE  UNCHANGED messages
    BY <2>8 DEF ListsHistory, ChecksIdle, AsksSummary, CallFails, RepliesWithBoth
  <2> QED BY <2>2, <2>3, <2>4, <2>5, <2>6, <2>7, <2>8 DEF ContextNext, contextVars
<1> QED BY <1>1, <1>2, PTL DEF ContextSpec

-----------------------------------------------------------------------------
(* The walk *)

\* What the walk carries, and what it begins with.
WalkStates == [from : Nat, until : Nat, completed : SUBSET Nat, stopped : BOOLEAN]

WalkStart == [from |-> 1, until |-> 0, completed |-> {}, stopped |-> FALSE]

\* The walks over the parts of the messages.
Walks ==
  CHOOSE g : g = [s \in SUBSET (DOMAIN [i \in DOMAIN messages |-> i]) |->
                    IF s = {} THEN WalkStart
                    ELSE Walk([i \in DOMAIN messages |-> i][Min(s)], g[s \ {Min(s)}])]

\* Where the context begins is where the walk over all messages ended.
LEMMA ActiveFromIsWalks == ActiveFrom = Walks[DOMAIN [i \in DOMAIN messages |-> i]].from
BY DEF ActiveFrom, FoldRight, MapThenFoldSet, Walks, WalkStart

\* A step of the walk is well formed.
LEMMA WalkTyped ==
  ASSUME ContextInv, NEW i \in DOMAIN messages, NEW w \in WalkStates
  PROVE  Walk(i, w) \in WalkStates
<1>1. messages[i] \in ContextMessages /\ i \in Nat
  BY LenProperties, ElementOfSeq DEF ContextInv
<1>2. messages[i].tail \in Nat /\ messages[i].parent \in Nat
  BY <1>1 DEF ContextMessages
<1> DEFINE m == messages[i]
           met == w.completed \cup (IF CompletedSummary(m) THEN {m.parent} ELSE {})
<1>3. met \in SUBSET Nat
  BY <1>2 DEF WalkStates
<1>4. \/ Walk(i, w) = w
      \/ Walk(i, w) = [w EXCEPT !.from = i, !.stopped = (i = w.until)]
      \/ Walk(i, w) = [w EXCEPT !.from = i, !.until = m.tail, !.stopped = m.tail \in {0, i}]
      \/ Walk(i, w) = [w EXCEPT !.from = i, !.completed = met]
  BY DEF Walk
<1> HIDE DEF m, met, ContextInv
<1>5. m.tail \in Nat
  BY <1>2 DEF m
<1>6. \A b \in BOOLEAN, u \in Nat :
        /\ [w EXCEPT !.from = i, !.stopped = b] \in WalkStates
        /\ [w EXCEPT !.from = i, !.until = u, !.stopped = b] \in WalkStates
  BY <1>1 DEF WalkStates
<1>7. [w EXCEPT !.from = i, !.completed = met] \in WalkStates
  BY <1>1, <1>3 DEF WalkStates
<1>8. (i = w.until) \in BOOLEAN /\ (m.tail \in {0, i}) \in BOOLEAN
  OBVIOUS
<1>9. /\ [w EXCEPT !.from = i, !.stopped = (i = w.until)] \in WalkStates
      /\ [w EXCEPT !.from = i, !.until = m.tail, !.stopped = m.tail \in {0, i}] \in WalkStates
  BY <1>5, <1>6, <1>8
<1> QED BY <1>4, <1>7, <1>9

\* The walk over a part begins with all but its first message.
WalksOver(s) == Walks[s] = IF s = {} THEN WalkStart ELSE Walk(Min(s), Walks[s \ {Min(s)}])

\* The walks over the parts of the messages are what their definition says.
LEMMA WalksExist ==
  ASSUME ContextInv, NEW s \in SUBSET (DOMAIN messages)
  PROVE  WalksOver(s) /\ Walks[s] \in WalkStates
<1> DEFINE D == DOMAIN messages
           seq == [i \in D |-> i]
           c == [t \in SUBSET D |-> Min(t)]
           step == [p \in D \X WalkStates |-> Walk(p[1], p[2])]
           Is(g) == g = [t \in SUBSET (DOMAIN [i \in DOMAIN messages |-> i]) |->
                    IF t = {} THEN WalkStart
                    ELSE Walk([i \in DOMAIN messages |-> i][Min(t)], g[t \ {Min(t)}])]
<1>1. D = 1..Len(messages) /\ Len(messages) \in Nat /\ IsFiniteSet(D)
  BY LenProperties, FS_Interval DEF ContextInv
<1>2. \A t \in SUBSET D : t # {} => Min(t) \in t
  <2>1. \A t \in SUBSET D : t \in SUBSET Nat
    BY <1>1
  <2> QED BY <2>1, MinIn
<1>3. Chooses(c, D)
  BY <1>2 DEF Chooses
<1>4. step \in [D \X WalkStates -> WalkStates]
  BY WalkTyped
<1>5. WalkStart \in WalkStates
  BY DEF WalkStart, WalkStates
<1>6. PICK g \in [SUBSET D -> WalkStates] : IsFold(g, D, WalkStart, c, step)
  <2> HIDE DEF step, c, D
  <2> QED BY ONLY <1>1, <1>3, <1>4, <1>5, FoldExists
<1>7. Is(g)
  <2>1. ASSUME NEW t \in SUBSET D, t # {}
        PROVE  g[t] = Walk([i \in DOMAIN messages |-> i][Min(t)], g[t \ {Min(t)}])
    <3>1. c[t] = Min(t) /\ Min(t) \in D /\ g[t \ {Min(t)}] \in WalkStates
      BY <1>2, <2>1
    <3>2. \A x \in D, w \in WalkStates : step[<<x, w>>] = Walk(x, w)
      OBVIOUS
    <3>3. g[t] = step[<<c[t], g[t \ {c[t]}]>>]
      BY <1>6, <2>1 DEF IsFold
    <3>4. [i \in DOMAIN messages |-> i][Min(t)] = Min(t)
      BY <3>1
    <3> HIDE DEF step, c
    <3>5. step[<<Min(t), g[t \ {Min(t)}]>>] = Walk(Min(t), g[t \ {Min(t)}])
      BY <3>1, <3>2
    <3> QED BY <3>1, <3>3, <3>4, <3>5
  <2>2. g[{}] = WalkStart
    BY <1>6 DEF IsFold
  <2>3. g = [t \in SUBSET D |-> g[t]] /\ DOMAIN [i \in DOMAIN messages |-> i] = D
    BY <1>6
  <2>4. \A t \in SUBSET D : g[t] = IF t = {} THEN WalkStart
                    ELSE Walk([i \in DOMAIN messages |-> i][Min(t)], g[t \ {Min(t)}])
    BY <2>1, <2>2
  <2> QED BY <2>3, <2>4
<1>8. Is(Walks)
  <2> HIDE DEF Is
  <2>1. \E h : Is(h)
    BY <1>7
  <2>2. Walks = CHOOSE h : Is(h)
    BY DEF Walks, Is
  <2> QED BY <2>1, <2>2
<1>9. \A t \in SUBSET D : WalksOver(t)
  <2> SUFFICES ASSUME NEW t \in SUBSET D PROVE WalksOver(t)
    OBVIOUS
  <2>1. DOMAIN [i \in DOMAIN messages |-> i] = D
    OBVIOUS
  <2>2. CASE t = {}
    BY <1>8, <2>1, <2>2 DEF WalksOver
  <2>3. CASE t # {}
    <3>1. [i \in DOMAIN messages |-> i][Min(t)] = Min(t)
      BY <1>2, <2>3
    <3>2. Walks[t] = Walk([i \in DOMAIN messages |-> i][Min(t)], Walks[t \ {Min(t)}])
      BY <1>8, <2>1, <2>3
    <3> QED BY <2>3, <3>1, <3>2 DEF WalksOver
  <2> QED BY <2>2, <2>3
<1>10. SUBSET D \subseteq {t \in SUBSET D : Walks[t] \in WalkStates}
  <2> DEFINE P == {t \in SUBSET D : Walks[t] \in WalkStates}
  <2>1. {} \in P
    <3>1. WalksOver({})
      BY <1>9
    <3> QED BY <1>5, <3>1 DEF WalksOver
  <2>2. ASSUME NEW t \in SUBSET D, t # {}, \A x \in t : t \ {x} \in P PROVE t \in P
    <3>1. Min(t) \in t /\ WalksOver(t)
      BY <1>2, <1>9, <2>2
    <3>2. Walks[t \ {Min(t)}] \in WalkStates /\ Min(t) \in D
      BY <2>2, <3>1
    <3>3. Walk(Min(t), Walks[t \ {Min(t)}]) \in WalkStates
      BY <3>2, WalkTyped
    <3> QED BY <2>2, <3>1, <3>3 DEF WalksOver
  <2> HIDE DEF P, D
  <2>3. SUBSET D \subseteq P
    BY ONLY <1>1, <2>1, <2>2, SubsetInduction
  <2> QED BY <2>3 DEF P
<1> QED BY <1>9, <1>10

\* The walk as far back as the i-th message.
BackTo(i) == Walks[i..Len(messages)]

\* A walk that goes back to a message is a step from the walk to the next.
LEMMA WalksBack ==
  ASSUME ContextInv
  PROVE  /\ BackTo(Len(messages) + 1) = WalkStart
         /\ \A i \in DOMAIN messages : BackTo(i) = Walk(i, BackTo(i + 1)) /\ BackTo(i + 1) \in WalkStates
         /\ ActiveFrom = BackTo(1).from
<1> DEFINE n == Len(messages)
<1>1. DOMAIN messages = 1..n /\ n \in Nat
  BY LenProperties DEF ContextInv
<1>2. BackTo(n + 1) = WalkStart
  <2>1. (n + 1)..n = {} /\ {} \in SUBSET (DOMAIN messages)
    BY <1>1
  <2>2. WalksOver({})
    BY <2>1, WalksExist
  <2> QED BY <2>1, <2>2 DEF BackTo, WalksOver
<1>3. ASSUME NEW i \in DOMAIN messages
      PROVE  BackTo(i) = Walk(i, BackTo(i + 1)) /\ BackTo(i + 1) \in WalkStates
  <2>1. i..n \in SUBSET (1..n) /\ i \in i..n /\ (i..n) \ {i} = (i + 1)..n /\ (i + 1)..n \in SUBSET (1..n)
    BY <1>1
  <2>2. i..n \in SUBSET Nat /\ i..n # {} /\ \A y \in i..n : i <= y
    BY <1>1, <2>1
  <2>3. Min(i..n) = i
    <3>1. Min(i..n) \in i..n /\ \A y \in i..n : Min(i..n) <= y
      BY <2>2, MinIn
    <3> QED BY <1>1, <2>1, <2>2, <3>1
  <2>4. WalksOver(i..n) /\ Walks[(i + 1)..n] \in WalkStates
    BY <1>1, <2>1, WalksExist
  <2> QED BY <2>1, <2>2, <2>3, <2>4 DEF BackTo, WalksOver
<1>4. ActiveFrom = BackTo(1).from
  BY <1>1, ActiveFromIsWalks DEF BackTo
<1> QED BY <1>2, <1>3, <1>4

\* The marks of the compactions that were completed.
Completed ==
  {i \in DOMAIN messages : /\ messages[i].kind = "mark"
                           /\ \E j \in DOMAIN messages : /\ j > i /\ messages[j].parent = i
                                                         /\ messages[j].done}

Latest == CHOOSE i \in Completed : \A j \in Completed : j <= i

\* Those that the walk has met the summaries of.
Met(i) == {messages[j].parent : j \in {k \in i..Len(messages) : messages[k].done}}

\* What the walk has found when it is back at i: no completed compaction yet, or the latest.
WalkedTo(i) ==
  /\ (\A c \in Completed : c < i)
       => BackTo(i) = [from |-> IF i = Len(messages) + 1 THEN 1 ELSE i, until |-> 0,
                       completed |-> Met(i), stopped |-> FALSE]
  /\ (\E c \in Completed : c >= i) =>
       LET tail == messages[Latest].tail
       IN  IF tail = 0 THEN BackTo(i).stopped /\ BackTo(i).from = Latest
           ELSE IF i > tail THEN ~BackTo(i).stopped /\ BackTo(i).until = tail /\ BackTo(i).from = i
           ELSE BackTo(i).stopped /\ BackTo(i).from = tail

\* The latest completed compaction is one, and none is later.
LEMMA LatestIs ==
  ASSUME ContextInv, Completed # {}
  PROVE  Latest \in Completed /\ \A j \in Completed : j <= Latest
<1>1. DOMAIN messages = 1..Len(messages) /\ Len(messages) \in Nat
  BY LenProperties DEF ContextInv
<1>2. Completed \in SUBSET Nat /\ IsFiniteSet(Completed)
  <2>1. Completed \subseteq 1..Len(messages)
    BY <1>1 DEF Completed
  <2>2. IsFiniteSet(1..Len(messages)) /\ 1..Len(messages) \subseteq Nat
    BY <1>1, FS_Interval
  <2>3. IsFiniteSet(Completed)
    BY <2>1, <2>2, FS_Subset
  <2> QED BY <2>1, <2>2, <2>3
<1>3. \E x \in Completed : \A y \in Completed : x >= y
  BY <1>2, Greatest
<1>4. \E x \in Completed : \A y \in Completed : y <= x
  BY <1>2, <1>3
<1> QED BY <1>4 DEF Latest

\* A step back keeps what the walk has found.
LEMMA WalkedBack ==
  ASSUME ContextInv, NEW i \in DOMAIN messages, WalkedTo(i + 1)
  PROVE  WalkedTo(i)
<1> DEFINE n == Len(messages)
           m == messages[i]
           w == BackTo(i + 1)
<1>1. DOMAIN messages = 1..n /\ n \in Nat /\ i \in 1..n
  BY LenProperties DEF ContextInv
<1>2. /\ m \in ContextMessages /\ m.tail < i /\ m.tail \in Nat /\ m.parent \in Nat
      /\ m.done \in BOOLEAN /\ (m.done => m.kind = "summary")
  <2>1. messages[i] \in ContextMessages
    BY <1>1, ElementOfSeq DEF ContextInv
  <2>2. messages[i].tail < i /\ (messages[i].done => messages[i].kind = "summary")
    BY DEF ContextInv
  <2>3. messages[i].tail \in Nat /\ messages[i].parent \in Nat /\ messages[i].done \in BOOLEAN
    BY <2>1 DEF ContextMessages
  <2> QED BY <2>1, <2>2, <2>3
<1>3. BackTo(i) = Walk(i, w) /\ w \in WalkStates
  BY WalksBack
<1>4. Met(i) = Met(i + 1) \cup (IF m.done THEN {m.parent} ELSE {})
  <2>1. i..n = {i} \cup (i + 1)..n
    BY <1>1
  <2> QED BY <2>1 DEF Met
<1>5. i \in Completed <=> m.kind = "mark" /\ i \in Met(i + 1)
  <2>1. \A j : j \in 1..n /\ j > i <=> j \in (i + 1)..n
    BY <1>1
  <2> QED BY <1>1, <2>1 DEF Completed, Met
<1>6. Completed \subseteq 1..n
  BY <1>1 DEF Completed
<1>7. CASE \A c \in Completed : c < i + 1
  <2>1. w = [from |-> IF i + 1 = n + 1 THEN 1 ELSE i + 1, until |-> 0,
             completed |-> Met(i + 1), stopped |-> FALSE]
    BY <1>7 DEF WalkedTo
  <2>2. CASE i \in Completed
    <3>1. Latest = i
      BY <1>1, <1>6, <1>7, <2>2, LatestIs
    <3>2. Walk(i, w) = [w EXCEPT !.from = i, !.until = m.tail, !.stopped = m.tail \in {0, i}]
      <4> HIDE DEF w
      <4> QED BY <1>5, <2>1, <2>2 DEF Walk
    <3>3. /\ BackTo(i).from = i /\ BackTo(i).until = m.tail
          /\ BackTo(i).stopped = (m.tail = 0)
      <4> HIDE DEF w
      <4> QED BY <1>1, <1>2, <1>3, <3>2 DEF WalkStates
    <3>4. messages[Latest].tail = m.tail /\ i > m.tail /\ i \in Nat
      BY <1>1, <1>2, <3>1
    <3>5. CASE m.tail = 0
      <4>1. BackTo(i).stopped
        BY <3>3, <3>5
      <4> QED BY <2>2, <3>1, <3>3, <3>4, <3>5, <4>1 DEF WalkedTo
    <3>6. CASE m.tail # 0
      <4>1. ~BackTo(i).stopped
        BY <3>3, <3>6
      <4> QED BY <2>2, <3>1, <3>3, <3>4, <3>6, <4>1 DEF WalkedTo
    <3> QED BY <3>5, <3>6
  <2>3. CASE i \notin Completed
    <3>1. \A c \in Completed : c < i
      BY <1>1, <1>6, <1>7, <2>3
    <3>2. Walk(i, w) = [w EXCEPT !.from = i,
                                 !.completed = @ \cup IF CompletedSummary(m) THEN {m.parent} ELSE {}]
      <4> HIDE DEF w
      <4> QED BY <1>5, <2>1, <2>3 DEF Walk
    <3>3. CompletedSummary(m) <=> m.done
      BY <1>2 DEF CompletedSummary
    <3>4. BackTo(i) = [from |-> i, until |-> 0, completed |-> Met(i), stopped |-> FALSE]
      <4> HIDE DEF w, m
      <4> QED BY <1>3, <1>4, <2>1, <3>2, <3>3
    <3>5. i # n + 1 /\ ~\E c \in Completed : c >= i
      BY <1>1, <1>6, <3>1
    <3> QED BY <3>4, <3>5 DEF WalkedTo
  <2> QED BY <2>2, <2>3
<1>8. CASE \E c \in Completed : c >= i + 1
  <2> DEFINE tail == messages[Latest].tail
  <2>1. Latest \in Completed /\ tail \in Nat /\ tail < Latest
    <3>1. Latest \in Completed /\ Latest \in DOMAIN messages
      BY <1>8, LatestIs DEF Completed
    <3>2. messages[Latest] \in ContextMessages /\ messages[Latest].tail < Latest
      BY <1>1, <3>1, ElementOfSeq DEF ContextInv
    <3> QED BY <3>1, <3>2 DEF ContextMessages
  <2>2. (\E c \in Completed : c >= i) /\ ~\A c \in Completed : c < i
    BY <1>1, <1>6, <1>8
  <2> HIDE DEF tail
  <2>3. IF tail = 0 THEN w.stopped /\ w.from = Latest
        ELSE IF i + 1 > tail THEN ~w.stopped /\ w.until = tail /\ w.from = i + 1
        ELSE w.stopped /\ w.from = tail
    BY <1>8 DEF WalkedTo, tail
  <2>4. w.stopped => BackTo(i) = w
    BY <1>3 DEF Walk
  <2>5. ~w.stopped /\ w.until # 0
          => /\ BackTo(i).from = i /\ BackTo(i).until = w.until /\ BackTo(i).stopped = (i = w.until)
    <3> HIDE DEF w
    <3> QED BY <1>3 DEF Walk, WalkStates
  <2> HIDE DEF w, n
  <2>6. i \in Nat
    BY <1>1
  <2>7. IF tail = 0 THEN BackTo(i).stopped /\ BackTo(i).from = Latest
        ELSE IF i > tail THEN ~BackTo(i).stopped /\ BackTo(i).until = tail /\ BackTo(i).from = i
        ELSE BackTo(i).stopped /\ BackTo(i).from = tail
    <3>1. CASE tail = 0
      BY <2>3, <2>4, <3>1
    <3>2. CASE tail # 0 /\ i > tail
      <4>1. i + 1 > tail /\ i > tail /\ i # tail
        BY <2>1, <2>6, <3>2
      <4>2. ~w.stopped /\ w.until = tail
        BY <2>3, <3>2, <4>1
      <4>3. BackTo(i).from = i /\ BackTo(i).until = tail /\ BackTo(i).stopped = (i = tail)
        BY <2>5, <3>2, <4>2
      <4>4. ~BackTo(i).stopped
        BY <4>1, <4>3
      <4> QED BY <3>2, <4>1, <4>3, <4>4
    <3>3. CASE tail # 0 /\ i = tail
      <4>1. i + 1 > tail /\ ~(i > tail)
        BY <2>1, <2>6, <3>3
      <4>2. ~w.stopped /\ w.until = tail
        BY <2>3, <3>3, <4>1
      <4>3. BackTo(i).from = i /\ BackTo(i).until = tail /\ BackTo(i).stopped = (i = tail)
        BY <2>5, <3>3, <4>2
      <4>4. BackTo(i).stopped
        BY <3>3, <4>3
      <4> QED BY <3>3, <4>1, <4>3, <4>4
    <3>4. CASE tail # 0 /\ i < tail
      BY <2>1, <2>3, <2>4, <2>6, <3>4
    <3> QED BY <2>1, <2>6, <3>1, <3>2, <3>3, <3>4
  <2> QED BY <2>2, <2>7 DEF WalkedTo, tail
<1> QED BY <1>1, <1>6, <1>7, <1>8

\* The walk ends where the description says.
LEMMA WalkedAll ==
  ASSUME ContextInv
  PROVE  WalkedTo(1)
<1> DEFINE n == Len(messages)
           P == {k \in Nat : k <= n => WalkedTo(n + 1 - k)}
<1>1. DOMAIN messages = 1..n /\ n \in Nat
  BY LenProperties DEF ContextInv
<1>2. 0 \in P
  <2>1. BackTo(n + 1) = WalkStart
    BY WalksBack
  <2>2. Met(n + 1) = {}
    <3>1. (n + 1)..n = {}
      BY <1>1
    <3> QED BY <3>1 DEF Met
  <2>3. Completed \subseteq 1..n
    BY <1>1 DEF Completed
  <2>4. ~\E c \in Completed : c >= n + 1
    BY <1>1, <2>3
  <2>5. BackTo(n + 1) = [from |-> 1, until |-> 0, completed |-> Met(n + 1), stopped |-> FALSE]
    BY <2>1, <2>2 DEF WalkStart
  <2>6. WalkedTo(n + 1)
    BY <2>4, <2>5 DEF WalkedTo
  <2> QED BY <1>1, <2>6
<1>3. ASSUME NEW k \in Nat, k \in P PROVE k + 1 \in P
  <2> SUFFICES ASSUME k + 1 <= n PROVE WalkedTo(n + 1 - (k + 1))
    OBVIOUS
  <2>1. n - k \in 1..n /\ n + 1 - (k + 1) = n - k /\ n + 1 - k = (n - k) + 1 /\ k <= n
    <3> HIDE DEF n
    <3> QED BY <1>1
  <2>2. WalkedTo(n + 1 - k)
    BY <1>3, <2>1
  <2>3. WalkedTo((n - k) + 1)
    BY <2>1, <2>2
  <2>4. WalkedTo(n - k)
    <3> DEFINE i == n - k
    <3>1. i \in DOMAIN messages /\ WalkedTo(i + 1)
      BY <1>1, <2>1, <2>3
    <3> HIDE DEF i, n
    <3>2. WalkedTo(i)
      BY <3>1, WalkedBack
    <3> QED BY <3>2 DEF i, n
  <2> QED BY <2>1, <2>4
<1> HIDE DEF P
<1>4. Nat \subseteq P
  BY ONLY <1>2, <1>3, NatSetInduction
<1>5. n \in P
  BY <1>1, <1>4
<1>6. n + 1 - n = 1
  BY <1>1
<1> QED BY <1>1, <1>5, <1>6 DEF P

\* _active_context_messages begins where what the model sees begins, at the last compaction
\* that was completed or at the messages it keeps, however the session went before.
THEOREM MeterSeesTheContext == ContextSpec => []ActiveIsVisible
<1>1. ContextInv => ActiveIsVisible
  <2> SUFFICES ASSUME ContextInv PROVE ActiveIsVisible
    OBVIOUS
  <2>1. ActiveFrom = BackTo(1).from /\ WalkedTo(1)
    BY WalksBack, WalkedAll
  <2>2. Len(messages) \in Nat /\ DOMAIN messages = 1..Len(messages) /\ Completed \subseteq 1..Len(messages)
    BY LenProperties DEF ContextInv, Completed
  <2>3. CASE Completed = {}
    <3>1. BackTo(1).from = 1
      BY <2>1, <2>2, <2>3 DEF WalkedTo
    <3> QED BY <2>1, <2>3, <3>1 DEF ActiveIsVisible, Completed
  <2>4. CASE Completed # {}
    <3> DEFINE tail == messages[Latest].tail
    <3>1. Latest \in DOMAIN messages
      BY <2>4, LatestIs DEF Completed
    <3>2. tail \in Nat
      <4>1. messages[Latest] \in ContextMessages
        BY <2>2, <3>1, ElementOfSeq DEF ContextInv
      <4> QED BY <4>1 DEF ContextMessages
    <3>3. \E c \in Completed : c >= 1
      <4>1. \A c \in 1..Len(messages) : c >= 1
        BY <2>2
      <4> QED BY <2>2, <2>4, <4>1
    <3> HIDE DEF tail
    <3>4. ActiveFrom = IF tail = 0 THEN Latest ELSE tail
      BY <2>1, <3>2, <3>3 DEF WalkedTo, tail
    <3>5. ActiveIsVisible <=> ActiveFrom = IF Completed = {} THEN 1
                                           ELSE IF messages[Latest].tail = 0 THEN Latest
                                           ELSE messages[Latest].tail
      BY DEF ActiveIsVisible, Completed, Latest
    <3> QED BY <2>4, <3>4, <3>5 DEF tail
  <2> QED BY <2>3, <2>4
<1> QED BY <1>1, ContextTypeCorrect, PTL

\* Dividing leaves a rest.
LEMMA Division ==
  ASSUME NEW x \in Nat, NEW d \in Nat, d > 0
  PROVE  /\ x \div d \in Nat /\ x % d \in Nat /\ x % d < d
         /\ x = d * (x \div d) + (x % d)
OBVIOUS

\* Rounding adds no more than a half.
LEMMA RoundIsClose ==
  ASSUME NEW x \in Nat, NEW d \in Nat, d > 0
  PROVE  /\ Round(x, d) \in Nat
         /\ 2 * (d * Round(x, d)) <= 2 * x + d
<1> DEFINE q == x \div d
           r == x % d
           p == d * q
<1>1. q \in Nat /\ r \in Nat /\ r < d /\ x = p + r /\ p \in Nat
  BY Division
<1>2. Round(x, d) = q \/ (Round(x, d) = q + 1 /\ 2 * r >= d)
  BY <1>1 DEF Round
<1>3. d * (q + 1) = p + d
  <2> HIDE DEF q
  <2> QED BY <1>1
<1>4. CASE Round(x, d) = q
  <2>1. d * Round(x, d) = p
    BY <1>4
  <2> HIDE DEF p, q, r
  <2> QED BY <1>1, <1>4, <2>1
<1>5. CASE Round(x, d) = q + 1 /\ 2 * r >= d
  <2>1. d * Round(x, d) = p + d
    BY <1>3, <1>5
  <2> HIDE DEF p, q, r
  <2> QED BY <1>1, <1>5, <2>1
<1> QED BY <1>2, <1>4, <1>5

\* What is no larger after multiplication is no larger.
LEMMA Cancels ==
  ASSUME NEW k \in Nat, NEW m \in Int, NEW a \in Nat, k > 0, 2 * (k * m) <= 2 * (k * a) + 2 * k
  PROVE  m <= a + 1
<1>1. k * (a + 1) = k * a + k /\ k * m \in Int /\ k * a \in Int
  OBVIOUS
<1>2. k * m <= k * (a + 1)
  BY <1>1
<1>3. SUFFICES ASSUME m >= a + 2 PROVE FALSE
  OBVIOUS
<1>4. k * m >= k * (a + 2)
  BY <1>3
<1>5. k * (a + 2) = k * (a + 1) + k /\ k * (a + 1) \in Int
  OBVIOUS
<1> QED BY <1>1, <1>2, <1>4, <1>5

\* Two parts of a request that are rounded each are at most one too many.
LEMMA RoundedParts ==
  ASSUME NEW x \in Nat, NEW y \in Nat, NEW known \in Nat, NEW actual \in Nat,
         known > 0, x + y <= known
  PROVE  Round(x * actual, known) + Round(y * actual, known) <= actual + 1
<1> DEFINE s == Round(x * actual, known)
           t == Round(y * actual, known)
<1>1. x * actual \in Nat /\ y * actual \in Nat /\ x * actual + y * actual = (x + y) * actual
  OBVIOUS
<1>2. /\ s \in Nat /\ 2 * (known * s) <= 2 * (x * actual) + known
      /\ t \in Nat /\ 2 * (known * t) <= 2 * (y * actual) + known
  BY <1>1, RoundIsClose
<1>3. (x + y) * actual <= known * actual
  OBVIOUS
<1> HIDE DEF s, t
<1>4. known * (s + t) = known * s + known * t /\ known * s \in Nat /\ known * t \in Nat
  BY <1>2
<1>5. 2 * (known * (s + t)) <= 2 * (known * actual) + 2 * known
  <2> DEFINE a == x * actual
             b == y * actual
             c == (x + y) * actual
             e == known * actual
             f == known * s
             g == known * t
             h == known * (s + t)
  <2>1. /\ a \in Nat /\ b \in Nat /\ a + b = c /\ c <= e /\ e \in Nat /\ f \in Nat /\ g \in Nat
        /\ h = f + g /\ 2 * f <= 2 * a + known /\ 2 * g <= 2 * b + known
    BY <1>1, <1>2, <1>3, <1>4
  <2> HIDE DEF a, b, c, e, f, g, h
  <2>2. 2 * h <= 2 * e + 2 * known
    BY <2>1
  <2> QED BY <2>2 DEF e, h
<1>6. s + t <= actual + 1
  BY <1>2, <1>5, Cancels
<1> QED BY <1>6 DEF s, t

\* The categories add up, whatever was estimated and whatever the request cost.
LEMMA ScaledAddsUp ==
  ASSUME NEW actual \in Nat, NEW text \in Nat, NEW tools \in Nat, NEW definitions \in Nat
  PROVE  LET c == Scaled(actual, text, tools, definitions)
             used == IF actual > 0 THEN actual ELSE Total(c)
         IN  /\ DOMAIN c = {"instructions", "definitions", "text", "tools"}
             /\ \A k \in DOMAIN c : c[k] >= 0
             /\ Total(c) - used \in {0, 1}
             /\ c.text > 0 => Total(c) = used
<1> DEFINE c == Scaled(actual, text, tools, definitions)
           used == IF actual > 0 THEN actual ELSE Total(c)
           known == text + tools + definitions
<1>1. CASE actual = 0 \/ known <= actual
  <2>1. c = [instructions |-> IF actual = 0 THEN 0 ELSE actual - known,
             definitions |-> definitions, text |-> text, tools |-> tools]
    BY <1>1 DEF Scaled
  <2> HIDE DEF c
  <2>2. /\ DOMAIN c = {"instructions", "definitions", "text", "tools"}
        /\ c.instructions = (IF actual = 0 THEN 0 ELSE actual - known)
        /\ c.definitions = definitions /\ c.text = text /\ c.tools = tools
    BY <2>1
  <2>3. \A k \in DOMAIN c : c[k] >= 0
    BY <1>1, <2>2
  <2>4. Total(c) = used
    BY <1>1, <2>2 DEF Total
  <2>5. Total(c) \in Int
    BY <1>1, <2>2 DEF Total
  <2> HIDE DEF used
  <2> QED BY <2>2, <2>3, <2>4, <2>5 DEF c, used
<1>2. CASE ~(actual = 0 \/ known <= actual)
  <2> DEFINE d == Round(definitions * actual, known)
             x == Round(text * actual, known)
             t == Round(tools * actual, known)
             rest == Larger(0, x + (actual - (d + x + t)))
  <2>1. c = [instructions |-> 0, definitions |-> d, text |-> rest, tools |-> t]
    BY <1>2 DEF Scaled
  <2>2. known > 0 /\ definitions + tools <= known /\ known \in Nat
    BY <1>2
  <2> HIDE DEF known
  <2>3. d \in Nat /\ x \in Nat /\ t \in Nat
    <3>1. definitions * actual \in Nat /\ text * actual \in Nat /\ tools * actual \in Nat
      OBVIOUS
    <3> QED BY <2>2, <3>1, RoundIsClose
  <2>4. d + t <= actual + 1
    BY <2>2, RoundedParts
  <2> HIDE DEF d, x, t
  <2>5. rest \in Nat /\ rest = IF d + t > actual THEN 0 ELSE actual - (d + t)
    BY <2>3 DEF Larger
  <2> HIDE DEF c, rest
  <2>6. /\ DOMAIN c = {"instructions", "definitions", "text", "tools"}
        /\ c.instructions = 0 /\ c.definitions = d /\ c.text = rest /\ c.tools = t
    BY <2>1
  <2>7. \A k \in DOMAIN c : c[k] >= 0
    BY <2>3, <2>5, <2>6
  <2>8. used = actual
    BY <1>2
  <2>9. Total(c) = d + rest + t
    BY <2>3, <2>5, <2>6 DEF Total
  <2>10. Total(c) - actual \in {0, 1} /\ (rest > 0 => Total(c) = actual)
    BY <2>3, <2>4, <2>5, <2>9
  <2> HIDE DEF used
  <2> QED BY <2>6, <2>7, <2>8, <2>10 DEF c, used
<1> QED BY <1>1, <1>2

-----------------------------------------------------------------------------
(* What the meter measures *)

\* The active context is made of messages.
LEMMA ActiveTyped ==
  ASSUME ContextInv, ActiveIsVisible
  PROVE  ActiveContext \in Seq(ContextMessages)
<1>1. Len(messages) \in Nat /\ DOMAIN messages = 1..Len(messages) /\ messages \in Seq(ContextMessages)
  BY LenProperties DEF ContextInv
<1>2. ActiveFrom = IF Completed = {} THEN 1
                   ELSE IF messages[Latest].tail = 0 THEN Latest ELSE messages[Latest].tail
  BY DEF ActiveIsVisible, Completed, Latest
<1>3. Completed # {} => /\ Latest \in 1..Len(messages)
                        /\ messages[Latest].tail \in Nat /\ messages[Latest].tail < Latest
  <2> SUFFICES ASSUME Completed # {}
               PROVE  /\ Latest \in 1..Len(messages)
                      /\ messages[Latest].tail \in Nat /\ messages[Latest].tail < Latest
    OBVIOUS
  <2>1. Latest \in 1..Len(messages)
    BY <1>1, LatestIs DEF Completed
  <2>2. messages[Latest] \in ContextMessages /\ messages[Latest].tail < Latest
    BY <1>1, <2>1, ElementOfSeq DEF ContextInv
  <2> QED BY <2>1, <2>2 DEF ContextMessages
<1>4. ActiveFrom \in 1..Len(messages) + 1
  BY <1>1, <1>2, <1>3
<1>5. Len(messages) \in ActiveFrom - 1..Len(messages)
  BY <1>1, <1>4
<1> QED BY <1>1, <1>4, <1>5, SubSeqProperties DEF ActiveContext

\* What is measured in it are numbers.
LEMMA MeasuredTyped ==
  ASSUME ActiveContext \in Seq(ContextMessages)
  PROVE  ActualInput \in Nat /\ Conversation \in Nat /\ ToolActivity \in Nat
<1> DEFINE D == DOMAIN ActiveContext
           told == {i \in D : ActiveContext[i].kind = "summary" \/ ActiveContext[i].input > 0}
           said == [i \in D |-> IF ActiveContext[i].kind = "mark" THEN 0 ELSE 1 + ActiveContext[i].text]
           tools == [i \in D |-> ActiveContext[i].tools]
<1>1. D = 1..Len(ActiveContext) /\ Len(ActiveContext) \in Nat /\ IsFiniteSet(D)
  BY LenProperties, FS_Interval
<1>2. \A i \in D : /\ ActiveContext[i].input \in Nat /\ ActiveContext[i].text \in Nat
                   /\ ActiveContext[i].tools \in Nat
  <2>1. \A i \in D : ActiveContext[i] \in ContextMessages
    BY <1>1, ElementOfSeq
  <2>2. \A m \in ContextMessages : m.input \in Nat /\ m.text \in Nat /\ m.tools \in Nat
    BY DEF ContextMessages
  <2> QED BY <2>1, <2>2
<1>3. said \in [D -> Nat] /\ tools \in [D -> Nat]
  BY <1>2
<1>4. SumOf(said) \in Nat /\ SumOf(tools) \in Nat
  <2> HIDE DEF said, tools, D
  <2> QED BY <1>1, <1>3, SumNat
<1>5. ActualInput = IF told = {} THEN 0 ELSE ActiveContext[Max(told)].input
  BY DEF ActualInput
<1>6. told # {} => Max(told) \in D
  <2>1. told \in SUBSET D
    OBVIOUS
  <2> HIDE DEF told
  <2>2. told \in SUBSET Nat /\ IsFiniteSet(told)
    BY <1>1, <2>1, FS_Subset
  <2>3. told # {} => Max(told) \in told
    BY <2>2, MaxIn
  <2> QED BY <2>1, <2>3
<1>7. ActualInput \in Nat
  BY <1>2, <1>5, <1>6
<1> QED BY <1>4, <1>7 DEF Conversation, ToolActivity

\* The categories of _scaled_categories are not negative and add up to what was used, or to one
\* more where no text is left to take it from, for any sizes and limits.
THEOREM MeterAddsUp == ContextSpec => []CategoriesAddUp
<1>1. ContextInv /\ ActiveIsVisible => CategoriesAddUp
  <2> SUFFICES ASSUME ContextInv, ActiveIsVisible, NEW definitions \in TokenSizes, NEW w \in Windows
               PROVE  LET s == Snapshot(definitions, w)
                      IN  /\ \A c \in DOMAIN s.categories : s.categories[c] >= 0
                          /\ Total(s.categories) - s.used \in {0, 1}
                          /\ s.categories.text > 0 => Total(s.categories) = s.used
                          /\ s.budget <= w.window
    BY DEF CategoriesAddUp
  <2> DEFINE c == Scaled(ActualInput, Conversation, ToolActivity, definitions)
             used == IF ActualInput > 0 THEN ActualInput ELSE Total(c)
             s == Snapshot(definitions, w)
  <2>1. ActualInput \in Nat /\ Conversation \in Nat /\ ToolActivity \in Nat
    BY ActiveTyped, MeasuredTyped
  <2>2. definitions \in Nat /\ w \in [window : Nat, output : Nat]
    BY ContextAssumption
  <2>3. s.categories = c /\ s.used = used /\ s.budget = Budget(w)
    BY DEF Snapshot
  <2>4. /\ \A k \in DOMAIN c : c[k] >= 0
        /\ Total(c) - used \in {0, 1}
        /\ c.text > 0 => Total(c) = used
    BY <2>1, <2>2, ScaledAddsUp
  <2>5. Budget(w) <= w.window
    BY <2>2 DEF Budget
  <2> HIDE DEF s, c, used
  <2> QED BY <2>3, <2>4, <2>5 DEF s
<1> QED BY <1>1, ContextTypeCorrect, MeterSeesTheContext, PTL

=============================================================================
