----------------------------- MODULE LedgerSums -----------------------------
(***************************************************************************)
(* Proofs about the sums that Ledger's properties speak of: what the       *)
(* entries of an account row add up to, what the active reservations of a  *)
(* row hold back, and what all accounts own together.                      *)
(*                                                                         *)
(* The first part is about sums over any finite set.  Sum(f, S) is the     *)
(* community modules' sum of f[x] over the x in S.  What is proved is that *)
(* it does not depend on the order in which the elements are chosen, and   *)
(* what follows from that.  Induction over finite sets is used in the form *)
(* that a set of subsets of a finite set has a minimal element: the        *)
(* smallest set for which a claim fails.                                   *)
(***************************************************************************)
EXTENDS LedgerProofs, FiniteSetTheorems

Sum(f, S) == MapThenSumSet(LAMBDA x : f[x], S)

IntegerOn(f, S) == \A x \in S : f[x] \in Int

\* The element a fold takes next, and the function that it computes.
Chosen(s) == CHOOSE x \in s : TRUE

IsSum(iter, f, S) ==
    iter = [s \in SUBSET S |->
              IF s = {} THEN 0 ELSE f[Chosen(s)] + iter[s \ {Chosen(s)}]]

-----------------------------------------------------------------------------
\* A nonempty set of subsets of a finite set has a minimal element.
LEMMA MinimalSubset ==
  ASSUME NEW S, IsFiniteSet(S), NEW Bad, Bad \subseteq SUBSET S, Bad # {}
  PROVE  \E m \in Bad : \A y \in Bad : y \subseteq m => y = m
<1>1. IsWellFoundedOn(StrictSubsetOrdering(S), SUBSET S)
  BY FS_StrictSubsetOrderingWellFounded, FS_FiniteSubsetsOfFinite, Zenon
<1>2. PICK m \in Bad : \A y \in Bad : ~ (<<y, m>> \in StrictSubsetOrdering(S))
  BY <1>1, WFMin, Zenon
<1> QED  BY <1>2, Zenon DEF StrictSubsetOrdering

\* A nonempty set of natural numbers has a least element.
LEMMA LeastNumber ==
  ASSUME NEW Bad, Bad \subseteq Nat, Bad # {}
  PROVE  \E m \in Bad : \A n \in Bad : m <= n
<1> DEFINE R == OpToRel(<, Nat)
<1>1. IsWellFoundedOn(R, Nat)
  BY NatLessThanWellFounded
<1>2. \A m, n \in Nat : m < n => <<m, n>> \in R
  BY DEF OpToRel
<1> HIDE DEF R
<1>3. PICK m \in Bad : \A n \in Bad : ~ (<<n, m>> \in R)
  BY <1>1, WFMin, Zenon
<1>4. ASSUME NEW n \in Bad  PROVE m <= n
  <2>1. m \in Nat /\ n \in Nat
    OBVIOUS
  <2>2. ~ (n < m)
    BY <1>2, <1>3, <2>1, Zenon
  <2> QED  BY <2>1, <2>2
<1> QED  BY <1>4

\* The element chosen is one of the set.
LEMMA ChosenIn ==
  ASSUME NEW s, s # {}  PROVE Chosen(s) \in s
<1>1. \E x \in s : TRUE
  OBVIOUS
<1> QED  BY <1>1, Zenon DEF Chosen

-----------------------------------------------------------------------------
(***************************************************************************)
(* The function that a fold computes exists and is unique.                 *)
(***************************************************************************)
Small(S, n) == {s \in SUBSET S : Cardinality(s) <= n}

\* The equation, up to sets of n elements.
IsSumUpTo(iter, f, S, n) ==
    iter = [s \in Small(S, n) |->
              IF s = {} THEN 0 ELSE f[Chosen(s)] + iter[s \ {Chosen(s)}]]

\* Removing the chosen element leaves a smaller set.
LEMMA SmallerWithout ==
  ASSUME NEW S, IsFiniteSet(S), NEW s \in SUBSET S, s # {}
  PROVE  /\ s \ {Chosen(s)} \in SUBSET S
         /\ Cardinality(s) \in Nat /\ Cardinality(s \ {Chosen(s)}) \in Nat
         /\ Cardinality(s \ {Chosen(s)}) = Cardinality(s) - 1
         /\ Cardinality(s) <= Cardinality(S)
<1>1. IsFiniteSet(s) /\ Cardinality(s) <= Cardinality(S)
  BY FS_Subset
<1>2. Chosen(s) \in s
  BY ChosenIn, Zenon
<1>3. IsFiniteSet(s \ {Chosen(s)}) /\ Cardinality(s \ {Chosen(s)}) = Cardinality(s) - 1
  BY <1>1, <1>2, FS_RemoveElement, Zenon
<1>4. Cardinality(s) \in Nat /\ Cardinality(s \ {Chosen(s)}) \in Nat
  BY <1>1, <1>3, FS_CardinalityType, Zenon
<1> QED  BY <1>1, <1>3, <1>4, Zenon

\* It exists up to n for every n.
LEMMA SumUpToExists ==
  ASSUME NEW S, IsFiniteSet(S), NEW f, NEW n \in Nat
  PROVE  \E iter : IsSumUpTo(iter, f, S, n)
<1> DEFINE Bad == {m \in Nat : ~ \E iter : IsSumUpTo(iter, f, S, m)}
<1> SUFFICES ASSUME Bad # {}  PROVE FALSE
  OBVIOUS
<1>1. PICK m \in Bad : \A k \in Bad : m <= k
  <2> HIDE DEF Bad
  <2>1. Bad \subseteq Nat
    BY DEF Bad
  <2> QED  BY <2>1, LeastNumber, Zenon
<1>2. m \in Nat /\ \A iter : ~ IsSumUpTo(iter, f, S, m)
  BY <1>1
<1>3. \A s \in SUBSET S : s # {} => /\ s \ {Chosen(s)} \in SUBSET S
                                    /\ Cardinality(s) \in Nat
                                    /\ Cardinality(s \ {Chosen(s)}) \in Nat
                                    /\ Cardinality(s \ {Chosen(s)}) = Cardinality(s) - 1
  BY SmallerWithout
<1>4. CASE m = 0
  <2> DEFINE it == [s \in Small(S, 0) |-> 0]
  <2>1. ASSUME NEW s \in Small(S, 0), s # {}  PROVE FALSE
    <3>1. s \in SUBSET S /\ Cardinality(s) <= 0
      BY DEF Small
    <3>2. Cardinality(s) \in Nat /\ Cardinality(s) - 1 \in Nat
      BY <1>3, <2>1, <3>1, Zenon
    <3> QED  BY <3>1, <3>2
  <2>2. IsSumUpTo(it, f, S, 0)
    BY <2>1 DEF IsSumUpTo
  <2> QED  BY <1>2, <1>4, <2>2
<1>5. CASE m # 0
  <2>1. m - 1 \in Nat /\ m - 1 \notin Bad
    BY <1>1, <1>2, <1>5
  <2>2. PICK prev : IsSumUpTo(prev, f, S, m - 1)
    BY <2>1
  <2> DEFINE it == [s \in Small(S, m) |->
                      IF s = {} THEN 0 ELSE f[Chosen(s)] + prev[s \ {Chosen(s)}]]
  <2>3. ASSUME NEW s \in Small(S, m), s # {}
        PROVE  it[s \ {Chosen(s)}] = prev[s \ {Chosen(s)}]
    <3> DEFINE u == s \ {Chosen(s)}
    <3>1. u \in Small(S, m - 1) /\ u \in Small(S, m)
      BY <1>2, <1>3, <2>1, <2>3 DEF Small
    <3>2. it[u] = IF u = {} THEN 0 ELSE f[Chosen(u)] + prev[u \ {Chosen(u)}]
      BY <3>1
    <3>3. prev[u] = IF u = {} THEN 0 ELSE f[Chosen(u)] + prev[u \ {Chosen(u)}]
      BY <2>2, <3>1, Zenon DEF IsSumUpTo
    <3> QED  BY <3>2, <3>3
  <2>4. it = [s \in Small(S, m) |->
                IF s = {} THEN 0 ELSE f[Chosen(s)] + it[s \ {Chosen(s)}]]
    BY <2>3, Zenon
  <2> QED  BY <1>2, <2>4, Zenon DEF IsSumUpTo
<1> QED  BY <1>4, <1>5, Zenon

\* So it exists.
LEMMA SumExists ==
  ASSUME NEW S, IsFiniteSet(S), NEW f
  PROVE  \E iter : IsSum(iter, f, S)
<1>1. Cardinality(S) \in Nat
  BY FS_CardinalityType
<1>2. Small(S, Cardinality(S)) = SUBSET S
  BY FS_Subset, Zenon DEF Small
<1>3. PICK iter : IsSumUpTo(iter, f, S, Cardinality(S))
  BY <1>1, SumUpToExists, Zenon
<1> QED  BY <1>2, <1>3, Zenon DEF IsSumUpTo, IsSum

\* Two such functions agree where both are defined, if f and g do.
LEMMA SumsAgree ==
  ASSUME NEW S, IsFiniteSet(S), NEW T, IsFiniteSet(T), NEW f, NEW g, NEW it, NEW jt,
         IsSum(it, f, S), IsSum(jt, g, T), S \subseteq T, \A x \in S : f[x] = g[x]
  PROVE  \A s \in SUBSET S : it[s] = jt[s]
<1> DEFINE Bad == {s \in SUBSET S : it[s] # jt[s]}
<1> SUFFICES ASSUME Bad # {}  PROVE FALSE
  OBVIOUS
<1>1. PICK m \in Bad : \A y \in Bad : y \subseteq m => y = m
  <2> HIDE DEF Bad
  <2>1. Bad \subseteq SUBSET S
    BY Zenon DEF Bad
  <2> QED  BY <2>1, MinimalSubset
<1>2. m \in SUBSET S /\ m \in SUBSET T /\ it[m] # jt[m]
  BY <1>1, Zenon
<1>3. m # {}
  BY <1>2, Zenon DEF IsSum
<1>4. Chosen(m) \in m
  BY <1>3, ChosenIn, Zenon
<1>5. it[m \ {Chosen(m)}] = jt[m \ {Chosen(m)}]
  <2>1. m \ {Chosen(m)} # m /\ m \ {Chosen(m)} \subseteq m /\ m \ {Chosen(m)} \in SUBSET S
    BY <1>2, <1>4, Zenon
  <2> QED  BY <1>1, <2>1, Zenon
<1>6. it[m] = f[Chosen(m)] + it[m \ {Chosen(m)}]
  BY <1>2, <1>3, Zenon DEF IsSum
<1>7. jt[m] = g[Chosen(m)] + jt[m \ {Chosen(m)}]
  BY <1>2, <1>3, Zenon DEF IsSum
<1>8. f[Chosen(m)] = g[Chosen(m)]
  BY <1>2, <1>4
<1> QED  BY <1>2, <1>5, <1>6, <1>7, <1>8, Zenon

\* What Sum stands for.
LEMMA SumIsIter ==
  ASSUME NEW S, IsFiniteSet(S), NEW f
  PROVE  \E it : IsSum(it, f, S) /\ Sum(f, S) = it[S]
<1> DEFINE it == CHOOSE iter : iter = [s \in SUBSET S |->
              IF s = {} THEN 0
              ELSE f[CHOOSE x \in s : TRUE] + iter[s \ {CHOOSE x \in s : TRUE}]]
<1>1. \E iter : iter = [s \in SUBSET S |->
              IF s = {} THEN 0
              ELSE f[CHOOSE x \in s : TRUE] + iter[s \ {CHOOSE x \in s : TRUE}]]
  <2>1. \E iter : IsSum(iter, f, S)
    BY SumExists, Zenon
  <2> QED  BY <2>1, Zenon DEF IsSum, Chosen
<1>2. it = [s \in SUBSET S |->
              IF s = {} THEN 0
              ELSE f[CHOOSE x \in s : TRUE] + it[s \ {CHOOSE x \in s : TRUE}]]
  BY <1>1, Zenon
<1>3. Sum(f, S) = it[S]
  BY Zenon DEF Sum, MapThenSumSet, MapThenFoldSet
<1> HIDE DEF it
<1>4. IsSum(it, f, S)
  BY <1>2, Zenon DEF IsSum, Chosen
<1> QED  BY <1>3, <1>4, Zenon

-----------------------------------------------------------------------------
(***************************************************************************)
(* The sum itself.                                                         *)
(***************************************************************************)

\* Only the values on S count.
LEMMA SumEqual ==
  ASSUME NEW S, IsFiniteSet(S), NEW f, NEW g, \A x \in S : f[x] = g[x]
  PROVE  Sum(f, S) = Sum(g, S)
<1>1. PICK it : IsSum(it, f, S) /\ Sum(f, S) = it[S]
  BY SumIsIter, Zenon
<1>2. PICK jt : IsSum(jt, g, S) /\ Sum(g, S) = jt[S]
  BY SumIsIter, Zenon
<1>3. it[S] = jt[S]
  BY <1>1, <1>2, SumsAgree
<1> QED  BY <1>1, <1>2, <1>3, Zenon

\* The empty sum, and the equation of the fold.
LEMMA SumEmpty ==
  ASSUME NEW f  PROVE Sum(f, {}) = 0
<1>1. IsFiniteSet({})
  BY FS_EmptySet, Zenon
<1>2. PICK it : IsSum(it, f, {}) /\ Sum(f, {}) = it[{}]
  BY <1>1, SumIsIter, Zenon
<1> QED  BY <1>2 DEF IsSum

LEMMA SumStep ==
  ASSUME NEW S, IsFiniteSet(S), NEW f, S # {}
  PROVE  Sum(f, S) = f[Chosen(S)] + Sum(f, S \ {Chosen(S)})
<1> DEFINE U == S \ {Chosen(S)}
<1>1. IsFiniteSet(U) /\ U \subseteq S
  BY FS_RemoveElement, Zenon
<1>2. PICK it : IsSum(it, f, S) /\ Sum(f, S) = it[S]
  BY SumIsIter, Zenon
<1>3. PICK jt : IsSum(jt, f, U) /\ Sum(f, U) = jt[U]
  BY <1>1, SumIsIter, Zenon
<1>4. jt[U] = it[U]
  BY <1>1, <1>2, <1>3, SumsAgree
<1>5. it[S] = f[Chosen(S)] + it[U]
  BY <1>2, Zenon DEF IsSum
<1> QED  BY <1>2, <1>3, <1>4, <1>5, Zenon

\* A sum of integers is an integer.
LEMMA SumType ==
  ASSUME NEW S, IsFiniteSet(S), NEW f, IntegerOn(f, S)
  PROVE  Sum(f, S) \in Int
<1> DEFINE Bad == {s \in SUBSET S : Sum(f, s) \notin Int}
<1> SUFFICES ASSUME Bad # {}  PROVE FALSE
  OBVIOUS
<1>1. PICK m \in Bad : \A y \in Bad : y \subseteq m => y = m
  <2> HIDE DEF Bad
  <2>1. Bad \subseteq SUBSET S
    BY DEF Bad
  <2> QED  BY <2>1, MinimalSubset
<1>2. m \in SUBSET S /\ Sum(f, m) \notin Int /\ IsFiniteSet(m)
  BY <1>1, FS_Subset
<1>3. m # {}
  BY <1>2, SumEmpty
<1>4. Chosen(m) \in m
  BY <1>3, ChosenIn
<1>5. Sum(f, m \ {Chosen(m)}) \in Int
  <2>1. m \ {Chosen(m)} # m /\ m \ {Chosen(m)} \subseteq m /\ m \ {Chosen(m)} \in SUBSET S
    BY <1>2, <1>4
  <2> QED  BY <1>1, <2>1
<1>6. f[Chosen(m)] \in Int
  BY <1>2, <1>4 DEF IntegerOn
<1>7. Sum(f, m) = f[Chosen(m)] + Sum(f, m \ {Chosen(m)})
  BY <1>2, <1>3, SumStep, Zenon
<1> QED  BY <1>2, <1>5, <1>6, <1>7

\* Any element may be taken out first.
LEMMA SumRemove ==
  ASSUME NEW S, IsFiniteSet(S), NEW f, IntegerOn(f, S), NEW x \in S
  PROVE  Sum(f, S) = f[x] + Sum(f, S \ {x})
<1> DEFINE Bad == {s \in SUBSET S : \E y \in s : Sum(f, s) # f[y] + Sum(f, s \ {y})}
<1> SUFFICES ASSUME Bad # {}  PROVE FALSE
  BY Zenon
<1>1. PICK m \in Bad : \A y \in Bad : y \subseteq m => y = m
  <2> HIDE DEF Bad
  <2>1. Bad \subseteq SUBSET S
    BY DEF Bad
  <2> QED  BY <2>1, MinimalSubset
<1>2. m \in SUBSET S /\ IsFiniteSet(m)
  BY <1>1, FS_Subset, Zenon
<1>3. PICK y \in m : Sum(f, m) # f[y] + Sum(f, m \ {y})
  BY <1>1, Zenon
<1> DEFINE p == Chosen(m)
<1>4. p \in m
  BY <1>3, ChosenIn, Zenon
<1>5. Sum(f, m) = f[p] + Sum(f, m \ {p})
  BY <1>2, <1>3, SumStep, Zenon
<1>6. p # y
  BY <1>3, <1>5
<1> HIDE DEF p
<1>7. \A z \in m : \A w \in m \ {z} :
        Sum(f, m \ {z}) = f[w] + Sum(f, (m \ {z}) \ {w})
  <2> TAKE z \in m
  <2>1. m \ {z} # m /\ m \ {z} \subseteq m /\ m \ {z} \in SUBSET S
    BY <1>2
  <2> QED  BY <1>1, <2>1, Zenon
<1>8. Sum(f, m \ {p}) = f[y] + Sum(f, (m \ {p}) \ {y})
  BY <1>4, <1>6, <1>7
<1>9. Sum(f, m \ {y}) = f[p] + Sum(f, (m \ {y}) \ {p})
  BY <1>4, <1>6, <1>7
<1>10. (m \ {p}) \ {y} = (m \ {y}) \ {p}
  OBVIOUS
<1>11. f[p] \in Int /\ f[y] \in Int /\ Sum(f, (m \ {p}) \ {y}) \in Int
  <2>1. IsFiniteSet((m \ {p}) \ {y})
    BY <1>2, FS_RemoveElement, Zenon
  <2>2. IntegerOn(f, (m \ {p}) \ {y})
    BY <1>2 DEF IntegerOn
  <2> QED  BY <1>2, <1>4, <2>1, <2>2, SumType DEF IntegerOn
<1> DEFINE a == Sum(f, m)
           b == Sum(f, m \ {p})
           c == Sum(f, m \ {y})
           d == Sum(f, (m \ {p}) \ {y})
<1>12. /\ a # f[y] + c /\ a = f[p] + b /\ b = f[y] + d /\ c = f[p] + d
       /\ f[p] \in Int /\ f[y] \in Int /\ d \in Int
  BY <1>3, <1>5, <1>8, <1>9, <1>10, <1>11, Zenon
<1> HIDE DEF Bad, a, b, c, d
<1> QED  BY <1>12

\* A sum over one more element.
LEMMA SumAdd ==
  ASSUME NEW S, IsFiniteSet(S), NEW f, NEW x, x \notin S, IntegerOn(f, S \cup {x})
  PROVE  Sum(f, S \cup {x}) = f[x] + Sum(f, S)
<1>1. IsFiniteSet(S \cup {x})
  BY FS_AddElement, Zenon
<1>2. (S \cup {x}) \ {x} = S
  BY Zenon
<1> QED  BY <1>1, <1>2, SumRemove

\* What a change of one summand does.
LEMMA SumChange ==
  ASSUME NEW S, IsFiniteSet(S), NEW f, NEW g, IntegerOn(f, S), IntegerOn(g, S),
         NEW x \in S, \A y \in S \ {x} : f[y] = g[y]
  PROVE  Sum(g, S) = Sum(f, S) + (g[x] - f[x])
<1> DEFINE U == S \ {x}
<1>1. IsFiniteSet(U) /\ IntegerOn(f, U)
  BY FS_RemoveElement, Zenon DEF IntegerOn
<1>2. Sum(f, U) = Sum(g, U) /\ Sum(f, U) \in Int
  BY <1>1, SumEqual, SumType, Zenon
<1>3. Sum(f, S) = f[x] + Sum(f, U) /\ Sum(g, S) = g[x] + Sum(g, U)
  BY SumRemove, Zenon
<1>4. f[x] \in Int /\ g[x] \in Int
  BY Zenon DEF IntegerOn
<1> QED  BY <1>2, <1>3, <1>4

\* A sum of sums.
LEMMA SumPlus ==
  ASSUME NEW S, IsFiniteSet(S), NEW f, NEW g, NEW h, IntegerOn(f, S), IntegerOn(g, S),
         \A x \in S : h[x] = f[x] + g[x]
  PROVE  Sum(h, S) = Sum(f, S) + Sum(g, S)
<1> DEFINE Bad == {s \in SUBSET S : Sum(h, s) # Sum(f, s) + Sum(g, s)}
<1> SUFFICES ASSUME Bad # {}  PROVE FALSE
  BY Zenon
<1>1. PICK m \in Bad : \A y \in Bad : y \subseteq m => y = m
  <2> HIDE DEF Bad
  <2>1. Bad \subseteq SUBSET S
    BY Zenon DEF Bad
  <2> QED  BY <2>1, MinimalSubset
<1>2. m \in SUBSET S /\ Sum(h, m) # Sum(f, m) + Sum(g, m) /\ IsFiniteSet(m)
  BY <1>1, FS_Subset, Zenon
<1>3. m # {}
  BY <1>2, SumEmpty
<1> DEFINE p == Chosen(m)
           U == m \ {p}
<1>4. p \in m
  BY <1>3, ChosenIn, Zenon
<1>5. /\ Sum(h, m) = h[p] + Sum(h, U) /\ Sum(f, m) = f[p] + Sum(f, U)
      /\ Sum(g, m) = g[p] + Sum(g, U)
  BY <1>2, <1>3, SumStep, Zenon
<1> HIDE DEF p
<1>6. Sum(h, U) = Sum(f, U) + Sum(g, U)
  <2>1. U # m /\ U \subseteq m /\ U \in SUBSET S
    BY <1>2, <1>4
  <2> QED  BY <1>1, <2>1
<1>7. h[p] = f[p] + g[p] /\ f[p] \in Int /\ g[p] \in Int
  BY <1>2, <1>4 DEF IntegerOn
<1>8. Sum(f, U) \in Int /\ Sum(g, U) \in Int
  <2>1. IsFiniteSet(U) /\ IntegerOn(f, U) /\ IntegerOn(g, U)
    BY <1>2, FS_RemoveElement DEF IntegerOn
  <2> QED  BY <2>1, SumType
<1> QED  BY <1>2, <1>5, <1>6, <1>7, <1>8

\* Smaller summands, smaller sum.
LEMMA SumAtMost ==
  ASSUME NEW S, IsFiniteSet(S), NEW f, NEW g, IntegerOn(f, S), IntegerOn(g, S),
         \A x \in S : f[x] <= g[x]
  PROVE  Sum(f, S) <= Sum(g, S)
<1> DEFINE Bad == {s \in SUBSET S : ~ (Sum(f, s) <= Sum(g, s))}
<1> SUFFICES ASSUME Bad # {}  PROVE FALSE
  OBVIOUS
<1>1. PICK m \in Bad : \A y \in Bad : y \subseteq m => y = m
  <2> HIDE DEF Bad
  <2>1. Bad \subseteq SUBSET S
    BY Zenon DEF Bad
  <2> QED  BY <2>1, MinimalSubset
<1>2. m \in SUBSET S /\ ~ (Sum(f, m) <= Sum(g, m)) /\ IsFiniteSet(m)
  BY <1>1, FS_Subset, Zenon
<1>3. m # {}
  BY <1>2, SumEmpty
<1> DEFINE p == Chosen(m)
           U == m \ {p}
<1>4. p \in m
  BY <1>3, ChosenIn, Zenon
<1>5. Sum(f, m) = f[p] + Sum(f, U) /\ Sum(g, m) = g[p] + Sum(g, U)
  BY <1>2, <1>3, SumStep, Zenon
<1> HIDE DEF p
<1>6. Sum(f, U) <= Sum(g, U)
  <2>1. U # m /\ U \subseteq m /\ U \in SUBSET S
    BY <1>2, <1>4, Zenon
  <2> QED  BY <1>1, <2>1, Zenon
<1>7. f[p] <= g[p] /\ f[p] \in Int /\ g[p] \in Int
  BY <1>2, <1>4, Zenon DEF IntegerOn
<1>8. Sum(f, U) \in Int /\ Sum(g, U) \in Int
  <2>1. IsFiniteSet(U) /\ IntegerOn(f, U) /\ IntegerOn(g, U)
    BY <1>2, FS_RemoveElement, Zenon DEF IntegerOn
  <2> QED  BY <2>1, SumType, Zenon
<1> QED  BY <1>2, <1>5, <1>6, <1>7, <1>8

\* Elements whose summand is zero do not count.
LEMMA SumIgnoresZero ==
  ASSUME NEW S, IsFiniteSet(S), NEW f, NEW T \in SUBSET S, IntegerOn(f, S),
         \A x \in S \ T : f[x] = 0
  PROVE  Sum(f, S) = Sum(f, T)
<1> DEFINE R == S \ T
           Bad == {s \in SUBSET R : Sum(f, T \cup s) # Sum(f, T)}
<1>0. IsFiniteSet(R) /\ IsFiniteSet(T) /\ S = T \cup R
  BY FS_Subset, Zenon
<1> SUFFICES ASSUME Bad # {}  PROVE FALSE
  <2>1. R \notin Bad => Sum(f, T \cup R) = Sum(f, T)
    BY Zenon
  <2> HIDE DEF Bad, R
  <2> QED  BY <1>0, <2>1, Zenon
<1>1. PICK m \in Bad : \A y \in Bad : y \subseteq m => y = m
  <2> HIDE DEF Bad, R
  <2>1. Bad \subseteq SUBSET R
    BY Zenon DEF Bad
  <2> QED  BY <1>0, <2>1, MinimalSubset
<1>2. m \in SUBSET R /\ Sum(f, T \cup m) # Sum(f, T) /\ IsFiniteSet(m)
  BY <1>0, <1>1, FS_Subset, Zenon
<1>3. PICK x : x \in m
  <2>1. m = {} => T \cup m = T
    BY Zenon
  <2> QED  BY <1>2, <2>1, Zenon
<1> DEFINE U == T \cup (m \ {x})
<1>4. x \notin U /\ U \cup {x} = T \cup m /\ T \cup m \subseteq S /\ U \subseteq S
  BY <1>2, <1>3, Zenon
<1>5. Sum(f, U) = Sum(f, T)
  <2>1. m \ {x} # m /\ m \ {x} \subseteq m /\ m \ {x} \in SUBSET R
    BY <1>2, <1>3
  <2> QED  BY <1>1, <2>1, Zenon
<1>6. IsFiniteSet(U) /\ IntegerOn(f, U) /\ IntegerOn(f, U \cup {x})
  BY <1>4, FS_Subset DEF IntegerOn
<1>7. Sum(f, T \cup m) = f[x] + Sum(f, U) /\ Sum(f, U) \in Int
  <2> HIDE DEF U
  <2> QED  BY <1>4, <1>6, SumAdd, SumType, Zenon
<1>8. f[x] = 0
  BY <1>2, <1>3
<1> QED  BY <1>2, <1>5, <1>7, <1>8

\* Nonnegative summands: the sum is nonnegative, and at least each of them.
LEMMA SumNonnegative ==
  ASSUME NEW S, IsFiniteSet(S), NEW f, \A x \in S : f[x] \in Nat
  PROVE  Sum(f, S) \in Nat /\ \A x \in S : f[x] <= Sum(f, S)
<1> DEFINE z == [x \in S |-> 0]
<1>1. IntegerOn(f, S) /\ IntegerOn(z, S) /\ \A x \in S : z[x] <= f[x]
  BY DEF IntegerOn
<1>2. Sum(z, S) = 0
  <2>1. {} \in SUBSET S /\ \A x \in S \ {} : z[x] = 0
    BY Zenon
  <2> HIDE DEF z
  <2> QED  BY <1>1, <2>1, SumIgnoresZero, SumEmpty
<1>3. Sum(f, S) \in Int /\ Sum(z, S) <= Sum(f, S)
  <2> HIDE DEF z
  <2> QED  BY <1>1, SumAtMost, SumType, Zenon
<1>4. ASSUME NEW x \in S  PROVE f[x] <= Sum(f, S)
  <2> DEFINE U == S \ {x}
             y == [u \in U |-> 0]
  <2>1. IsFiniteSet(U) /\ IntegerOn(f, U) /\ IntegerOn(y, U) /\ \A u \in U : y[u] <= f[u]
    BY FS_RemoveElement DEF IntegerOn
  <2>2. Sum(y, U) = 0
    <3>1. {} \in SUBSET U /\ \A u \in U \ {} : y[u] = 0
      BY Zenon
    <3> HIDE DEF y
    <3> QED  BY <2>1, <3>1, SumIgnoresZero, SumEmpty, Zenon
  <2>3. Sum(f, U) \in Int /\ Sum(y, U) <= Sum(f, U)
    <3> HIDE DEF y
    <3> QED  BY <2>1, SumAtMost, SumType, Zenon
  <2>4. Sum(f, S) = f[x] + Sum(f, U)
    BY <1>1, SumRemove, Zenon
  <2> DEFINE a == Sum(f, U)
             b == Sum(f, S)
  <2>5. b = f[x] + a /\ a \in Int /\ a >= 0 /\ f[x] \in Nat
    BY <2>2, <2>3, <2>4, Zenon
  <2> HIDE DEF a, b
  <2>6. f[x] <= b
    BY <2>5
  <2> QED  BY <2>6, Zenon DEF b
<1>5. Sum(f, S) \in Int /\ 0 <= Sum(f, S)
  BY <1>2, <1>3, Zenon
<1> QED  BY <1>4, <1>5

-----------------------------------------------------------------------------
(***************************************************************************)
(* The books add up.                                                       *)
(***************************************************************************)
EntriesOf(k) == [t \in Trade |-> journal[t][k]]

Explained ==
    \A k \in Key : Total(k) = Opening[k] + Sum(EntriesOf(k), Trade)

\* The sum over the journal is one of SumTheorems.
LEMMA JournalSum ==
  ASSUME Explained  PROVE JournalExplainsBalances
<1> SUFFICES ASSUME NEW k \in Key
             PROVE  Total(k) = Opening[k]
                               + MapThenSumSet(LAMBDA t : journal[t][k], Trade)
  BY Zenon DEF JournalExplainsBalances
<1> DEFINE f == EntriesOf(k)
           it == CHOOSE iter : iter = [s \in SUBSET Trade |->
              IF s = {} THEN 0
              ELSE journal[CHOOSE x \in s : TRUE][k] + iter[s \ {CHOOSE x \in s : TRUE}]]
<1>0. IsFiniteSet(Trade)
  BY LedgerAssumption, Zenon
<1>1. \A s \in SUBSET Trade : s # {} => f[Chosen(s)] = journal[Chosen(s)][k]
  BY ChosenIn, Zenon DEF EntriesOf
<1> HIDE DEF f
<1>2. PICK jt : IsSum(jt, f, Trade) /\ Sum(f, Trade) = jt[Trade]
  BY <1>0, SumIsIter, Zenon
<1>3. jt = [s \in SUBSET Trade |->
              IF s = {} THEN 0 ELSE journal[Chosen(s)][k] + jt[s \ {Chosen(s)}]]
  BY <1>1, <1>2, Zenon DEF IsSum
<1>4. \E iter : iter = [s \in SUBSET Trade |->
              IF s = {} THEN 0
              ELSE journal[CHOOSE x \in s : TRUE][k] + iter[s \ {CHOOSE x \in s : TRUE}]]
  BY <1>3, Zenon DEF Chosen
<1>5. it = [s \in SUBSET Trade |->
              IF s = {} THEN 0
              ELSE journal[CHOOSE x \in s : TRUE][k] + it[s \ {CHOOSE x \in s : TRUE}]]
  BY <1>4, Zenon
<1>6. MapThenSumSet(LAMBDA t : journal[t][k], Trade) = it[Trade]
  BY Zenon DEF MapThenSumSet, MapThenFoldSet
<1> HIDE DEF it
<1>7. IsSum(it, f, Trade)
  BY <1>1, <1>5 DEF IsSum, Chosen
<1>8. it[Trade] = jt[Trade]
  BY <1>0, <1>2, <1>7, SumsAgree
<1>9. Total(k) = Opening[k] + jt[Trade]
  BY <1>2, Zenon DEF f, Explained
<1> QED  BY <1>6, <1>8, <1>9, Zenon

\* A step that posts a trade adds its entries to both sides, every other step
\* leaves both as they are.
LEMMA ExplainedStep ==
  ASSUME LedgerInv, Explained, [Next]_vars  PROVE Explained'
<1> SUFFICES ASSUME NEW k \in Key
             PROVE  available'[k] + locked'[k] = Opening[k] + Sum(EntriesOf(k)', Trade)
  BY Zenon DEF Explained, Total
<1> DEFINE f == EntriesOf(k)
           g == EntriesOf(k)'
<1>1. IsFiniteSet(Trade) /\ IntegerOn(f, Trade)
  BY LedgerAssumption, Zenon DEF IntegerOn, EntriesOf, LedgerInv, TypeOK
<1>2. Total(k) = Opening[k] + Sum(f, Trade) /\ Opening[k] \in Int /\ Sum(f, Trade) \in Int
  BY <1>1, SumType, LedgerAssumption DEF Explained
<1>3. CASE journal' = journal /\ available'[k] + locked'[k] = Total(k)
  <2>1. g = f
    BY <1>3, Zenon DEF EntriesOf
  <2> HIDE DEF f, g
  <2> QED  BY <1>2, <1>3, <2>1, Zenon DEF g
<1>4. ASSUME NEW t \in Trade, SettlementStep(t)
      PROVE  available'[k] + locked'[k] = Opening[k] + Sum(EntriesOf(k)', Trade)
  <2>1. LedgerInv'
    BY NextInv, Zenon
  <2>2. IntegerOn(g, Trade)
    BY <2>1, Zenon DEF IntegerOn, EntriesOf, LedgerInv, TypeOK
  <2>3. \A u \in Trade \ {t} : f[u] = g[u]
    BY <1>4, Zenon DEF SettlementStep, EntriesOf
  <2>4. f[t] = 0
    BY <1>4, Zenon DEF SettlementStep, AlreadySettled, NoEntries, EntriesOf
  <2>5. available'[k] + locked'[k] = Total(k) + g[t] /\ g[t] \in Int
    BY <1>4, <2>2, Zenon DEF SettlementStep, EntriesOf, IntegerOn
  <2> HIDE DEF f, g
  <2>6. Sum(g, Trade) = Sum(f, Trade) + (g[t] - f[t])
    BY <1>1, <2>2, <2>3, SumChange
  <2>7. available'[k] + locked'[k] = Opening[k] + Sum(g, Trade)
    BY <1>2, <2>4, <2>5, <2>6
  <2> QED  BY <2>7, Zenon DEF g
<1>5. CASE UNCHANGED vars
  BY <1>3, <1>5, Zenon DEF vars, Total
<1> QED  BY <1>3, <1>4, <1>5, SettledOnceStep, Zenon

\* What an account owns is its opening balance plus its ledger entries, for
\* any number of trades and any order of reserves, releases, settlements and
\* redeliveries.
THEOREM BooksAddUp == Spec => []JournalExplainsBalances
<1>1. Init => Explained
  <2> SUFFICES ASSUME Init, NEW k \in Key
               PROVE  Total(k) = Opening[k] + Sum(EntriesOf(k), Trade)
    BY Zenon DEF Explained
  <2>1. IsFiniteSet(Trade) /\ \A t \in Trade : EntriesOf(k)[t] = 0
    BY LedgerAssumption, Zenon DEF Init, NoEntries, EntriesOf
  <2>2. Sum(EntriesOf(k), Trade) = 0
    <3>1. IntegerOn(EntriesOf(k), Trade) /\ {} \in SUBSET Trade
      BY <2>1 DEF IntegerOn
    <3>2. Sum(EntriesOf(k), Trade) = Sum(EntriesOf(k), {})
      BY <2>1, <3>1, SumIgnoresZero, Zenon
    <3> QED  BY <3>2, SumEmpty, Zenon
  <2>3. Total(k) = Opening[k] /\ Opening[k] \in Int
    BY LedgerAssumption DEF Init, Total
  <2> QED  BY <2>2, <2>3
<1>2. LedgerInv /\ Explained /\ [Next]_vars => Explained'
  BY ExplainedStep, Zenon
<1>3. Explained => JournalExplainsBalances
  BY JournalSum, Zenon
<1> QED  BY <1>1, <1>2, <1>3, InitInv, NextInv, PTL DEF Spec

-----------------------------------------------------------------------------
(***************************************************************************)
(* The locked balances and the reservations they back.                     *)
(***************************************************************************)

\* What each order's reservation holds back in an account row.
Held(k) ==
    [o \in Order |-> IF Active(o) /\ RowOf(o) = k THEN Remaining(o) ELSE 0]

LocksBack == \A k \in Key : locked[k] >= Sum(Held(k), Order)

\* A reservation never holds back a negative amount.
LEMMA HeldType ==
  ASSUME LedgerInv, NEW k, NEW o \in Order  PROVE Held(k)[o] \in Nat
<1>1. CASE Active(o)
  <2>1. Reserved(o)
    BY <1>1 DEF Active, Reserved, NoReservation
  <2>2. Remaining(o) \in Nat
    BY <2>1, ReservedRow, Zenon
  <2> QED  BY <2>2, Zenon DEF Held
<1> QED  BY <1>1, Zenon DEF Held

\* The sum over the active reservations is one of SumTheorems.
LEMMA HeldBackSum ==
  ASSUME LedgerInv, NEW k  PROVE HeldBack(k) = Sum(Held(k), Order)
<1> DEFINE f == Held(k)
           S == {o \in Order : Active(o) /\ RowOf(o) = k}
           it == CHOOSE iter : iter = [s \in SUBSET S |->
              IF s = {} THEN 0
              ELSE Remaining(CHOOSE x \in s : TRUE) + iter[s \ {CHOOSE x \in s : TRUE}]]
<1>1. IsFiniteSet(Order) /\ IsFiniteSet(S) /\ S \in SUBSET Order
  BY LedgerAssumption, FS_Subset, Zenon
<1>2. \A s \in SUBSET S : s # {} => f[Chosen(s)] = Remaining(Chosen(s))
  BY ChosenIn, Zenon DEF Held
<1>3. IntegerOn(f, Order) /\ \A o \in Order \ S : f[o] = 0
  BY HeldType DEF IntegerOn, Held
<1>4. HeldBack(k) = it[S]
  BY Zenon DEF HeldBack, MapThenSumSet, MapThenFoldSet
<1> HIDE DEF f, S
<1>5. PICK jt : IsSum(jt, f, S) /\ Sum(f, S) = jt[S]
  BY <1>1, SumIsIter, Zenon
<1>6. jt = [s \in SUBSET S |->
              IF s = {} THEN 0 ELSE Remaining(Chosen(s)) + jt[s \ {Chosen(s)}]]
  BY <1>2, <1>5, Zenon DEF IsSum
<1>7. \E iter : iter = [s \in SUBSET S |->
              IF s = {} THEN 0
              ELSE Remaining(CHOOSE x \in s : TRUE) + iter[s \ {CHOOSE x \in s : TRUE}]]
  BY <1>6, Zenon DEF Chosen
<1>8. it = [s \in SUBSET S |->
              IF s = {} THEN 0
              ELSE Remaining(CHOOSE x \in s : TRUE) + it[s \ {CHOOSE x \in s : TRUE}]]
  BY <1>7, Zenon
<1> HIDE DEF it
<1>9. IsSum(it, f, S)
  BY <1>2, <1>8, Zenon DEF IsSum, Chosen
<1>10. it[S] = jt[S]
  BY <1>1, <1>5, <1>9, SumsAgree
<1>11. Sum(f, Order) = Sum(f, S)
  BY <1>1, <1>3, SumIgnoresZero
<1> QED  BY <1>4, <1>5, <1>10, <1>11, Zenon DEF f

LEMMA BackedSum == LedgerInv => (Backed <=> LocksBack)
  BY HeldBackSum DEF Backed, LocksBack

\* Under the invariant the sum is a natural number.
LEMMA HeldSumType ==
  ASSUME LedgerInv, NEW k  PROVE Sum(Held(k), Order) \in Nat
<1>1. IsFiniteSet(Order) /\ \A o \in Order : Held(k)[o] \in Nat
  BY LedgerAssumption, HeldType, Zenon
<1> QED  BY <1>1, SumNonnegative, Zenon

\* A step that changes one reservation only, and the locked balances by no
\* less than what the reservation holds back.
LEMMA OneRowBacked ==
  ASSUME LedgerInv, LedgerInv', LocksBack, NEW o \in Order,
         \A p \in Order \ {o} : reservation'[p] = reservation[p],
         \A k \in Key : locked'[k] - locked[k] >= Held(k)'[o] - Held(k)[o]
  PROVE  LocksBack'
<1> SUFFICES ASSUME NEW k \in Key  PROVE locked'[k] >= Sum(Held(k)', Order)
  BY Zenon DEF LocksBack
<1> DEFINE f == Held(k)
           g == Held(k)'
<1>1. IsFiniteSet(Order) /\ IntegerOn(f, Order) /\ f[o] \in Int
  BY LedgerAssumption, HeldType DEF IntegerOn
<1>2. \A p \in Order : g[p] \in Nat
  <2>1. ASSUME LedgerInv', NEW p \in Order  PROVE Held(k)'[p] \in Nat
    <3>1. CASE Active(p)'
      <4>1. Reserved(p)'
        BY <3>1 DEF Active, Reserved, NoReservation
      <4>2. reservation'[p] \in Reservation /\ reservation'[p].consumed <= reservation'[p].amount
        BY <4>1, Zenon DEF LedgerInv, TypeOK, ReservationsWithinAmount, Reserved
      <4>3. Remaining(p)' \in Nat
        BY <4>2 DEF Remaining, Reservation
      <4> QED  BY <4>3, Zenon DEF Held
    <3> QED  BY <3>1, Zenon DEF Held
  <2> QED  BY <2>1, Zenon
<1>3. IntegerOn(g, Order) /\ g[o] \in Int
  BY <1>2 DEF IntegerOn
<1>4. \A p \in Order \ {o} : f[p] = g[p]
  BY Zenon DEF Held, Active, RowOf, Remaining
<1>5. locked'[k] - locked[k] >= g[o] - f[o] /\ locked[k] >= Sum(f, Order)
      /\ locked[k] \in Int /\ locked'[k] \in Int
  BY DEF LocksBack, LedgerInv, TypeOK
<1> HIDE DEF f, g
<1>6. Sum(g, Order) = Sum(f, Order) + (g[o] - f[o]) /\ Sum(f, Order) \in Int
  BY <1>1, <1>3, <1>4, SumChange, SumType
<1>7. locked'[k] >= Sum(g, Order)
  BY <1>1, <1>3, <1>5, <1>6
<1> QED  BY <1>7, Zenon DEF g

\* ReserveBalance locks what the new reservation holds back.
LEMMA ReserveBacked ==
  ASSUME LedgerInv, LocksBack, NEW req \in ReserveRequests, ReserveBalance(req)
  PROVE  LocksBack'
<1> DEFINE o == req.order
           row == <<req.account, req.asset>>
           new == [account |-> req.account, asset |-> req.asset,
                   amount |-> req.amount, consumed |-> 0, status |-> "active"]
<1>1. o \in Order /\ row \in Key /\ req.amount \in Nat
  BY LedgerAssumption, Zenon DEF ReserveRequest, Key
<1>2. LedgerInv'
  BY ReserveInv, Zenon
<1>3. /\ ~ Reserved(o) /\ locked' = [locked EXCEPT ![row] = @ + req.amount]
      /\ reservation' = [reservation EXCEPT ![o] = new]
  BY Zenon DEF ReserveBalance, CanReserve
<1>4. /\ \A p \in Order \ {o} : reservation'[p] = reservation[p]
      /\ reservation'[o] = new /\ locked \in [Key -> Nat]
  BY <1>1, <1>3, Zenon DEF LedgerInv, TypeOK
<1>5. ASSUME NEW k \in Key
      PROVE  locked'[k] - locked[k] >= Held(k)'[o] - Held(k)[o]
  <2>1. Held(k)[o] = 0
    BY <1>1, <1>3 DEF Held, Active, Reserved, NoReservation
  <2>2. Held(k)'[o] = IF row = k THEN req.amount ELSE 0
    BY <1>1, <1>4 DEF Held, Active, RowOf, Remaining
  <2>3. locked'[k] = IF row = k THEN locked[k] + req.amount ELSE locked[k]
    BY <1>1, <1>3, <1>4, Zenon
  <2>4. locked[k] \in Nat
    BY <1>4, Zenon
  <2> QED  BY <1>1, <2>1, <2>2, <2>3, <2>4
<1> HIDE DEF o
<1> QED  BY <1>1, <1>2, <1>4, <1>5, OneRowBacked, Zenon

\* ReleaseReservation unlocks no more than the reservation held back, unless
\* it was released before.
LEMMA ReleaseBacked ==
  ASSUME LedgerInv, LocksBack, NEW o \in Order, ReleaseReservation(o),
         ~ ReleasesAgain(o)
  PROVE  LocksBack'
<1>1. LedgerInv' /\ Reserved(o)
  BY ReleaseInv, Zenon DEF ReleaseReservation
<1>2. /\ reservation[o] \in Reservation /\ RowOf(o) \in Key
      /\ Remaining(o) \in Nat
      /\ Remaining(o) = 0 <=> reservation[o].status = "consumed"
  BY <1>1, ReservedRow, Zenon
<1>3. locked \in [Key -> Nat] /\ reservation \in [Order -> Reservation \cup {NoReservation}]
  BY Zenon DEF LedgerInv, TypeOK
<1>4. CASE Remaining(o) > 0 /\ Release(o)
  <2> DEFINE given == ReleaseAmount(o)
             c == reservation[o].amount - given
             st == StatusAfter(c, reservation[o].amount, "released")
             new == [reservation[o] EXCEPT !.consumed = c, !.status = st]
  <2>1. Active(o)
    BY <1>2, <1>4 DEF ReleasesAgain, Active, Reservation
  <2>2. given \in Nat /\ given <= Remaining(o)
    BY <1>2, <1>3 DEF ReleaseAmount, Smaller
  <2>3. locked' = [locked EXCEPT ![RowOf(o)] = @ - given]
    BY <1>4, Zenon DEF Release
  <2>4. reservation' = [reservation EXCEPT ![o] = new]
    BY <1>2, <1>3, <1>4, Zenon DEF Release, Reservation
  <2>5. new.status # "active"
    BY <1>2 DEF StatusAfter, Reservation
  <2> HIDE DEF new, given
  <2>6. ~ Active(o)' /\ \A p \in Order \ {o} : reservation'[p] = reservation[p]
    BY <1>3, <2>4, <2>5 DEF Active
  <2>7. ASSUME NEW k \in Key
        PROVE  locked'[k] - locked[k] >= Held(k)'[o] - Held(k)[o]
    <3>1. Held(k)'[o] = 0 /\ Held(k)[o] = IF RowOf(o) = k THEN Remaining(o) ELSE 0
      BY <2>1, <2>6 DEF Held
    <3>2. locked'[k] = IF RowOf(o) = k THEN locked[k] - given ELSE locked[k]
      BY <1>2, <1>3, <2>3, Zenon
    <3>3. locked[k] \in Nat
      BY <1>3, Zenon
    <3> QED  BY <1>2, <2>2, <3>1, <3>2, <3>3
  <2> QED  BY <1>1, <2>6, <2>7, OneRowBacked, Zenon
<1>5. CASE /\ Remaining(o) <= 0
           /\ reservation' = [reservation EXCEPT ![o].status = "consumed"]
           /\ UNCHANGED <<available, locked>>
  <2>1. reservation' = reservation /\ locked' = locked
    BY <1>2, <1>3, <1>5 DEF Reservation
  <2> QED  BY <2>1, Zenon DEF LocksBack, Held, Active, RowOf, Remaining
<1> QED  BY <1>4, <1>5, Zenon DEF ReleaseReservation

\* Settlements name the account that reserved for the order: a trade carries
\* the accounts of its two orders.
SettlesForOwners ==
    \A s \in Settlements, r \in ReserveRequests :
        /\ r.order = s.makerOrder => r.account = s.maker
        /\ r.order = s.takerOrder => r.account = s.taker

\* Every reservation was asked for.
AsRequested ==
    \A o \in Order : Reserved(o) =>
        \E r \in ReserveRequests : r.order = o /\ r.account = reservation[o].account

LEMMA AsRequestedInv == LedgerInv /\ AsRequested /\ [Next]_vars => AsRequested'
<1> SUFFICES ASSUME LedgerInv, AsRequested, [Next]_vars, NEW o \in Order, Reserved(o)'
             PROVE  \E r \in ReserveRequests :
                       r.order = o /\ r.account = reservation'[o].account
  BY Zenon DEF AsRequested
<1>1. CASE Reserved(o)
  <2>1. reservation'[o].account = reservation[o].account
    BY <1>1, ShrinkStep, Zenon DEF Shrinks, vars
  <2> QED  BY <1>1, <2>1, Zenon DEF AsRequested
<1>2. CASE ~ Reserved(o)
  <2>1. PICK req \in ReserveRequests : ReserveBalance(req)
    <3>1. ASSUME NEW p \in Order, ReleaseReservation(p)  PROVE reservation'[o] = reservation[o]
      <4>1. p # o
        BY <1>2, <3>1, Zenon DEF ReleaseReservation
      <4> QED  BY <3>1, <4>1, Zenon DEF ReleaseReservation, Release, LedgerInv, TypeOK
    <3>2. ASSUME NEW s \in Settlements, NEW mf \in FeeAmounts,
                 NEW tf \in FeeAmounts, ApplySettlement(s, mf, tf)
          PROVE  reservation'[o] = reservation[o]
      <4>1. CASE Post(s, mf, tf)
        BY <1>2, <4>1, PostRow, Zenon DEF Covers
      <4> QED  BY <3>2, <4>1, Zenon DEF ApplySettlement
    <3> QED  BY <1>2, <3>1, <3>2, Zenon DEF Next, vars, Reserved
  <2>2. req.order \in Order
    BY LedgerAssumption, Zenon DEF ReserveRequest
  <2>3. /\ \A p \in Order \ {req.order} : reservation'[p] = reservation[p]
        /\ reservation'[req.order].account = req.account
    BY <2>1, <2>2, Zenon DEF ReserveBalance, LedgerInv, TypeOK
  <2> QED  BY <1>2, <2>3, Zenon DEF Reserved
<1> QED  BY <1>1, <1>2, Zenon

\* What a posting consumes of a reservation is no longer held back.
LEMMA PostHeld ==
  ASSUME LedgerInv, NEW s \in Settlements, NEW mf \in FeeAmounts,
         NEW tf \in FeeAmounts, Post(s, mf, tf), NEW o \in Order, NEW k
  PROVE  LET u == Used(o, s, mf, tf)
         IN  /\ u \in Nat
             /\ Held(k)'[o] = Held(k)[o] - IF u > 0 /\ RowOf(o) = k THEN u ELSE 0
<1> DEFINE u == Used(o, s, mf, tf)
<1>1. u \in Nat /\ (u > 0 => Covers(o) /\ u <= Remaining(o))
  BY UsedBound, Zenon
<1>2. reservation'[o] = IF u > 0 THEN Consume(reservation[o], u) ELSE reservation[o]
  BY Zenon DEF Post, Used
<1>3. Held(k)[o] \in Nat
  BY HeldType, Zenon
<1> HIDE DEF u
<1>4. CASE u > 0
  <2> DEFINE r == reservation[o]
             c == Consume(r, u)
  <2>1. r \in Reservation /\ r.status = "active" /\ Remaining(o) \in Nat
    BY <1>1, <1>4, ReservedRow, Zenon DEF Covers, Active
  <2>2. r.consumed < r.amount /\ u <= r.amount - r.consumed
    BY <1>1, <1>4, <2>1 DEF Remaining, Reservation
  <2>3. /\ c.account = r.account /\ c.asset = r.asset /\ c.amount = r.amount
        /\ c.consumed = r.consumed + u
        /\ c.status = IF c.consumed = c.amount THEN "consumed" ELSE "active"
    BY <1>1, <2>1, <2>2, ConsumeRow, Zenon
  <2>4. reservation'[o] = c
    BY <1>2, <1>4, Zenon
  <2> HIDE DEF c
  <2>5. RowOf(o)' = RowOf(o) /\ Remaining(o)' = Remaining(o) - u
        /\ Active(o)' = (Remaining(o) - u # 0) /\ Active(o)
    BY <1>1, <2>1, <2>2, <2>3, <2>4 DEF RowOf, Remaining, Active, Reservation
  <2>6. Held(k)'[o] = IF (Remaining(o) - u # 0) /\ RowOf(o) = k THEN Remaining(o) - u ELSE 0
    BY <2>5, Zenon DEF Held
  <2>7. Held(k)[o] = IF RowOf(o) = k THEN Remaining(o) ELSE 0
    BY <2>5 DEF Held
  <2> QED  BY <1>1, <1>4, <2>1, <2>6, <2>7 DEF u
<1>5. CASE ~ (u > 0)
  <2>1. reservation'[o] = reservation[o]
    BY <1>2, <1>5
  <2>2. Held(k)'[o] = Held(k)[o]
    BY <2>1, Zenon DEF Held, Active, RowOf, Remaining
  <2> QED  BY <1>1, <1>3, <1>5, <2>2 DEF u
<1> QED  BY <1>4, <1>5, Zenon

\* A posting that debits an account row's locked balance within the cover of
\* an order consumes that order's reservation by as much.
LEMMA DebitIsUsed ==
  ASSUME LedgerInv, AsRequested, SettlesForOwners, NEW s \in Settlements,
         NEW mf \in FeeAmounts, NEW tf \in FeeAmounts, Post(s, mf, tf),
         NEW k \in Key, NEW a, NEW o, NEW side \in Side,
         \/ a = s.maker /\ o = s.makerOrder /\ side = s.makerSide
         \/ a = s.taker /\ o = s.takerOrder /\ side = Opposite(s.makerSide),
         k = <<a, ReservedAsset(side)>>,
         FromLocked(k, Net(s, mf, tf)[k], s) > 0,
         FromLocked(k, Net(s, mf, tf)[k], s) <= Cover(o, side, s)
  PROVE  /\ o \in Order /\ RowOf(o) = k
         /\ Used(o, s, mf, tf) >= FromLocked(k, Net(s, mf, tf)[k], s)
<1> DEFINE net == Net(s, mf, tf)
           d == FromLocked(k, net[k], s)
           cm == Consumption(s.maker, o, s.makerSide, net, s)
           ct == Consumption(s.taker, o, Opposite(s.makerSide), net, s)
<1>1. net[k] \in Int /\ d \in Nat /\ d <= Debit(net[k]) /\ Debit(net[k]) \in Nat
  <2>1. net[k] \in Int
    BY NetType, Zenon
  <2>2. d \in Nat /\ d <= Debit(net[k])
    BY <2>1, LockedPart, Zenon
  <2>3. Debit(net[k]) \in Nat
    <3>1. \A n \in Int : Debit(n) \in Nat
      BY DEF Debit
    <3> QED  BY <2>1, <3>1, Zenon
  <2> QED  BY <2>1, <2>2, <2>3, Zenon
<1>2. Cover(o, side, s) \in Nat /\ Covers(o)
  <2>1. Cover(o, side, s) \in Nat /\ (~ Covers(o) => Cover(o, side, s) = 0)
    BY CoverBound, Zenon
  <2> QED  BY <1>1, <2>1
<1>3. o \in Order /\ Reserved(o)
  BY <1>2, Zenon DEF Covers
<1>4. RowOf(o) = k
  <2>1. reservation[o].asset = ReservedAsset(side)
    BY <1>2, Zenon DEF Post, AssetMatches
  <2>2. PICK r \in ReserveRequests : r.order = o /\ r.account = reservation[o].account
    BY <1>3, Zenon DEF AsRequested
  <2>3. r.account = a
    BY <2>2, Zenon DEF SettlesForOwners
  <2> QED  BY <2>1, <2>2, <2>3, Zenon DEF RowOf
<1>5. /\ s.maker \in Account /\ s.taker \in Account /\ s.makerSide \in Side
      /\ Opposite(s.makerSide) \in Side
  BY LedgerAssumption, LegAssets, Zenon DEF SettlementRequest
<1>6. cm \in Nat /\ ct \in Nat
  BY <1>5, ConsumptionBound, Zenon
<1>7. Consumption(a, o, side, net, s) >= d
  BY <1>1, <1>2, Zenon DEF Consumption, Smaller
<1>8. Used(o, s, mf, tf) = (IF o = s.makerOrder THEN cm ELSE 0)
                           + (IF o = s.takerOrder THEN ct ELSE 0)
  BY Zenon DEF Used
<1> HIDE DEF cm, ct, d
<1>9. (o = s.makerOrder /\ cm >= d) \/ (o = s.takerOrder /\ ct >= d)
  BY <1>7, Zenon DEF cm, ct
<1>10. Used(o, s, mf, tf) >= d
  BY <1>1, <1>6, <1>8, <1>9
<1> QED  BY <1>3, <1>4, <1>10, Zenon DEF d

\* The cover a posting must stay within, account row by account row.
CoverOf(k, s) ==
    IF k = <<s.maker, ReservedAsset(s.makerSide)>>
    THEN Cover(s.makerOrder, s.makerSide, s)
    ELSE IF k = <<s.taker, ReservedAsset(Opposite(s.makerSide))>>
         THEN Cover(s.takerOrder, Opposite(s.makerSide), s) ELSE 0

LEMMA PostBacked ==
  ASSUME LedgerInv, LocksBack, AsRequested, SettlesForOwners,
         NEW s \in Settlements, NEW mf \in FeeAmounts, NEW tf \in FeeAmounts,
         Post(s, mf, tf), NEW k \in Key,
         FromLocked(k, Net(s, mf, tf)[k], s) <= CoverOf(k, s)
  PROVE  locked'[k] >= Sum(Held(k)', Order)
<1> DEFINE f == Held(k)
           g == Held(k)'
           d == FromLocked(k, Net(s, mf, tf)[k], s)
<1>1. d \in Nat /\ locked[k] \in Nat /\ locked'[k] = locked[k] - d
  <2>1. Net(s, mf, tf)[k] \in Int
    BY NetType, Zenon
  <2> QED  BY <2>1, LockedPart, Zenon DEF Post, LedgerInv, TypeOK
<1>2. IsFiniteSet(Order) /\ \A o \in Order : f[o] \in Nat
  BY LedgerAssumption, HeldType, Zenon
<1>3. ASSUME NEW o \in Order
      PROVE  /\ Used(o, s, mf, tf) \in Nat
             /\ g[o] = f[o] - IF Used(o, s, mf, tf) > 0 /\ RowOf(o) = k
                              THEN Used(o, s, mf, tf) ELSE 0
  BY PostHeld
<1>4. locked[k] >= Sum(f, Order) /\ Sum(f, Order) \in Nat
  BY HeldSumType, Zenon DEF LocksBack
<1>5. d <= CoverOf(k, s)
  BY Zenon
<1>6. d > 0 => \E o \in Order : RowOf(o) = k /\ Used(o, s, mf, tf) >= d
  <2> SUFFICES ASSUME d > 0
               PROVE  \E o \in Order : RowOf(o) = k /\ Used(o, s, mf, tf) >= d
    BY Zenon
  <2>1. s.makerSide \in Side /\ Opposite(s.makerSide) \in Side
    BY LedgerAssumption, LegAssets, Zenon DEF SettlementRequest
  <2>2. CASE k = <<s.maker, ReservedAsset(s.makerSide)>>
    <3>1. d <= Cover(s.makerOrder, s.makerSide, s)
      BY <1>5, <2>2, Zenon DEF CoverOf
    <3> QED  BY <2>1, <2>2, <3>1, DebitIsUsed, Zenon
  <2>3. CASE /\ k # <<s.maker, ReservedAsset(s.makerSide)>>
             /\ k = <<s.taker, ReservedAsset(Opposite(s.makerSide))>>
    <3>1. d <= Cover(s.takerOrder, Opposite(s.makerSide), s)
      BY <1>5, <2>3, Zenon DEF CoverOf
    <3> QED  BY <2>1, <2>3, <3>1, DebitIsUsed, Zenon
  <2> QED  BY <1>1, <1>5, <2>2, <2>3 DEF CoverOf
<1> HIDE DEF d, f, g
<1>7. \A o \in Order : g[o] \in Int /\ g[o] <= f[o]
  BY <1>2, <1>3
<1>8. IntegerOn(f, Order) /\ IntegerOn(g, Order)
  BY <1>2, <1>7 DEF IntegerOn
<1>9. CASE d = 0
  <2>1. Sum(g, Order) <= Sum(f, Order) /\ Sum(g, Order) \in Int
    BY <1>2, <1>7, <1>8, SumAtMost, SumType, Zenon
  <2>2. locked'[k] >= Sum(g, Order)
    BY <1>1, <1>4, <1>9, <2>1
  <2> QED  BY <2>2, Zenon DEF g
<1>10. CASE d > 0
  <2>1. PICK o \in Order : RowOf(o) = k /\ Used(o, s, mf, tf) >= d
    BY <1>6, <1>10, Zenon
  <2> DEFINE m == [p \in Order |-> IF p = o THEN f[o] - d ELSE f[p]]
  <2>2. IntegerOn(m, Order) /\ m[o] = f[o] - d /\ \A p \in Order \ {o} : f[p] = m[p]
    BY <1>1, <1>2 DEF IntegerOn
  <2>3. \A p \in Order : g[p] <= m[p]
    <3>1. g[o] <= f[o] - d
      BY <1>1, <1>2, <1>3, <1>10, <2>1
    <3> QED  BY <1>7, <3>1, Zenon
  <2> HIDE DEF m
  <2>4. Sum(m, Order) = Sum(f, Order) + (m[o] - f[o]) /\ Sum(m, Order) \in Int
    BY <1>2, <1>8, <2>2, SumChange, SumType
  <2>5. Sum(g, Order) <= Sum(m, Order) /\ Sum(g, Order) \in Int
    BY <1>2, <1>8, <2>2, <2>3, SumAtMost, SumType, Zenon
  <2>6. f[o] \in Int
    BY <1>8, Zenon DEF IntegerOn
  <2>7. locked'[k] >= Sum(g, Order)
    BY <1>1, <1>4, <2>2, <2>4, <2>5, <2>6
  <2> QED  BY <2>7, Zenon DEF g
<1> QED  BY <1>1, <1>9, <1>10

LEMMA BackedStep ==
  ASSUME LedgerInv, LocksBack, AsRequested, SettlesForOwners, Next
  PROVE  \/ LocksBack'
         \/ \E o \in Order : ReleasesAgain(o)
         \/ \E s \in Settlements, mf, tf \in FeeAmounts : DebitsBeyondCover(s, mf, tf)
<1>1. CASE \E req \in ReserveRequests : ReserveBalance(req)
  BY <1>1, ReserveBacked, Zenon
<1>2. CASE \E o \in Order : ReleaseReservation(o)
  BY <1>2, ReleaseBacked, Zenon
<1>3. ASSUME NEW s \in Settlements, NEW mf \in FeeAmounts,
             NEW tf \in FeeAmounts, ApplySettlement(s, mf, tf),
             ~ DebitsBeyondCover(s, mf, tf)
      PROVE  LocksBack'
  <2>1. CASE UNCHANGED <<available, locked, reservation, journal>>
    BY <2>1, Zenon DEF LocksBack, Held, Active, RowOf, Remaining
  <2>2. CASE Post(s, mf, tf)
    <3>1. ASSUME NEW k \in Key
          PROVE  FromLocked(k, Net(s, mf, tf)[k], s) <= CoverOf(k, s)
      <4>1. ~ (FromLocked(k, Net(s, mf, tf)[k], s) > CoverOf(k, s))
        BY <1>3, Zenon DEF DebitsBeyondCover, CoverOf
      <4>2. FromLocked(k, Net(s, mf, tf)[k], s) \in Nat
        BY NetType, LockedPart, Zenon
      <4>3. CoverOf(k, s) \in Nat
        BY LedgerAssumption, LegAssets, CoverBound, Zenon DEF CoverOf, SettlementRequest
      <4> QED  BY <4>1, <4>2, <4>3
    <3> QED  BY <2>2, <3>1, PostBacked, Zenon DEF LocksBack
  <2> QED  BY <1>3, <2>1, <2>2, Zenon DEF ApplySettlement
<1> QED  BY <1>1, <1>2, <1>3, Zenon DEF Next

\* As long as nothing is released twice and no settlement debits a locked
\* balance beyond its order's cover, what is locked covers every active
\* reservation.  That a trade names the accounts that reserved for its orders
\* is assumed: the ledger does not compare them.
THEOREM ReservationsBacked ==
  ASSUME SettlesForOwners  PROVE Spec => LockedBacksReservations
<1>1. Init => AsRequested
  BY Zenon DEF Init, AsRequested, Reserved
<1>2. LedgerInv /\ LedgerInv' /\ AsRequested /\ [Next]_vars =>
        [\/ Backed => Backed'
         \/ \E o \in Order : ReleasesAgain(o)
         \/ \E s \in Settlements, mf, tf \in FeeAmounts :
               DebitsBeyondCover(s, mf, tf)]_vars
  <2>1. (LedgerInv => (Backed <=> LocksBack))'
    BY BackedSum, PTL
  <2>2. LedgerInv => (Backed <=> LocksBack)
    BY BackedSum, Zenon
  <2> QED  BY <2>1, <2>2, BackedStep, Zenon
<1> QED  BY <1>1, <1>2, InitInv, NextInv, AsRequestedInv, PTL
         DEF Spec, LockedBacksReservations

-----------------------------------------------------------------------------
(***************************************************************************)
(* Conservation.  The entries of a trade cancel out over all accounts,     *)
(* also where an account trades with itself or is the fee account.         *)
(***************************************************************************)
Owned(x) == [a \in Account |-> Total(<<a, x>>)]
Opened(x) == [a \in Account |-> Opening[<<a, x>>]]

Conserved == \A x \in Asset : Sum(Owned(x), Account) = Sum(Opened(x), Account)

\* A sum with one summand that may differ from zero.
LEMMA SumOfOne ==
  ASSUME NEW S, IsFiniteSet(S), NEW f, IntegerOn(f, S), NEW x \in S,
         \A y \in S \ {x} : f[y] = 0
  PROVE  Sum(f, S) = f[x]
<1>1. {x} \in SUBSET S /\ \A y \in S \ {x} : f[y] = 0
  BY Zenon
<1>2. Sum(f, S) = Sum(f, {x})
  BY <1>1, SumIgnoresZero, Zenon
<1>3. IsFiniteSet({x}) /\ IntegerOn(f, {x}) /\ {x} \ {x} = {}
  BY FS_Singleton, Zenon DEF IntegerOn
<1>4. Sum(f, {x}) = f[x] + Sum(f, {})
  BY <1>3, SumRemove
<1>5. f[x] \in Int
  BY DEF IntegerOn
<1> QED  BY <1>2, <1>4, <1>5, SumEmpty

\* buildSettlementEntries debits what it credits, fees included.
LEMMA EntriesCancel ==
  ASSUME NEW s \in Settlements, NEW mf \in FeeAmounts, NEW tf \in FeeAmounts, NEW x \in Asset
  PROVE  Sum([a \in Account |-> Net(s, mf, tf)[<<a, x>>]], Account) = 0
<1>1. /\ s.maker \in Account /\ s.taker \in Account /\ FeeAccount \in Account
      /\ s.makerSide \in Side /\ Base # Quote /\ mf \in Nat /\ tf \in Nat
      /\ IsFiniteSet(Account)
  BY LedgerAssumption DEF SettlementRequest
<1>2. Notional(s) \in Nat /\ s.quantity \in Nat
  BY NotionalType
<1> DEFINE M == [a \in Account |-> Leg(<<a, x>>, s.maker, s.makerSide, s, mf)]
           T == [a \in Account |-> Leg(<<a, x>>, s.taker, Opposite(s.makerSide), s, tf)]
           F == [a \in Account |-> FeeIncome(<<a, x>>, mf + tf)]
           N == [a \in Account |-> Net(s, mf, tf)[<<a, x>>]]
           MT == [a \in Account |-> M[a] + T[a]]
<1>3. \A side, fee, acct : fee \in Nat =>
        \A a \in Account : Leg(<<a, x>>, acct, side, s, fee) \in Int
  BY <1>2 DEF Leg
<1>4. IntegerOn(M, Account) /\ IntegerOn(T, Account) /\ IntegerOn(F, Account)
  BY <1>1, <1>3 DEF IntegerOn, FeeIncome
<1>5. Sum(M, Account) = M[s.maker]
  <2>1. \A a \in Account \ {s.maker} : M[a] = 0
    BY Zenon DEF Leg
  <2> HIDE DEF M
  <2> QED  BY <1>1, <1>4, <2>1, SumOfOne, ZenonT(40)
<1>6. Sum(T, Account) = T[s.taker]
  <2>1. \A a \in Account \ {s.taker} : T[a] = 0
    BY Zenon DEF Leg
  <2> HIDE DEF T
  <2> QED  BY <1>1, <1>4, <2>1, SumOfOne, ZenonT(40)
<1>7. Sum(F, Account) = F[FeeAccount]
  <2>1. \A a \in Account \ {FeeAccount} : F[a] = 0
    BY Zenon DEF FeeIncome
  <2> HIDE DEF F
  <2> QED  BY <1>1, <1>4, <2>1, SumOfOne, Zenon
<1>8. M[s.maker] + T[s.taker] + F[FeeAccount] = 0
  <2>1. M[s.maker] = Leg(<<s.maker, x>>, s.maker, s.makerSide, s, mf)
    BY <1>1, Zenon
  <2>2. T[s.taker] = Leg(<<s.taker, x>>, s.taker, Opposite(s.makerSide), s, tf)
    BY <1>1, Zenon
  <2>3. F[FeeAccount] = IF x = Quote THEN mf + tf ELSE 0
    BY <1>1, Zenon DEF FeeIncome
  <2>4. CASE x = Base
    BY <1>1, <1>2, <2>1, <2>2, <2>3, <2>4 DEF Leg, Opposite
  <2>5. CASE x = Quote
    BY <1>1, <1>2, <2>1, <2>2, <2>3, <2>5 DEF Leg, Opposite, Side
  <2> QED  BY <2>4, <2>5, Zenon DEF Asset
<1>9. \A a \in Account : N[a] = MT[a] + F[a]
  BY Zenon DEF Net, Key
<1>10. \A a \in Account : MT[a] = M[a] + T[a]
  BY Zenon
<1>11. M[s.maker] \in Int /\ T[s.taker] \in Int /\ F[FeeAccount] \in Int /\ IntegerOn(MT, Account)
  BY <1>1, <1>4 DEF IntegerOn
<1> HIDE DEF M, T, F, N, MT
<1>12. Sum(MT, Account) = Sum(M, Account) + Sum(T, Account)
  BY <1>1, <1>4, <1>10, SumPlus, Zenon
<1>13. Sum(N, Account) = Sum(MT, Account) + Sum(F, Account)
  BY <1>1, <1>4, <1>9, <1>11, SumPlus, Zenon
<1>14. Sum(N, Account) = 0
  BY <1>5, <1>6, <1>7, <1>8, <1>11, <1>12, <1>13, Zenon
<1> QED  BY <1>14 DEF N

\* A posting moves funds between accounts and never changes how much there is.
LEMMA ConservedStep ==
  ASSUME LedgerInv, Conserved, [Next]_vars  PROVE Conserved'
<1> SUFFICES ASSUME NEW x \in Asset
             PROVE  Sum(Owned(x)', Account) = Sum(Opened(x), Account)
  BY Zenon DEF Conserved, Opened
<1> DEFINE f == Owned(x)
           g == Owned(x)'
<1>1. Sum(f, Account) = Sum(Opened(x), Account) /\ IsFiniteSet(Account)
  BY LedgerAssumption, Zenon DEF Conserved
<1>2. \A a \in Account : <<a, x>> \in Key /\ f[a] = Total(<<a, x>>)
                           /\ g[a] = available'[<<a, x>>] + locked'[<<a, x>>]
  BY Zenon DEF Owned, Key, Total
<1>3. IntegerOn(f, Account)
  <2>1. \A k \in Key : Total(k) \in Int
    BY DEF LedgerInv, TypeOK, Total
  <2> HIDE DEF f
  <2> QED  BY <1>2, <2>1, Zenon DEF IntegerOn
<1>4. CASE \A k \in Key : available'[k] + locked'[k] = Total(k)
  <2>1. \A a \in Account : g[a] = f[a]
    BY <1>2, <1>4, Zenon
  <2> HIDE DEF f, g
  <2>2. Sum(g, Account) = Sum(f, Account)
    BY <1>1, <2>1, SumEqual
  <2> QED  BY <1>1, <2>2 DEF g
<1>5. ASSUME NEW s \in Settlements, NEW mf \in FeeAmounts,
             NEW tf \in FeeAmounts, Post(s, mf, tf)
      PROVE  Sum(Owned(x)', Account) = Sum(Opened(x), Account)
  <2> DEFINE n == [a \in Account |-> Net(s, mf, tf)[<<a, x>>]]
  <2>1. Sum(n, Account) = 0
    BY EntriesCancel, Zenon
  <2>2. \A a \in Account : n[a] \in Int /\ g[a] = f[a] + n[a]
    BY <1>2, <1>5, NetType, PostBalances
  <2> HIDE DEF f, g, n
  <2>3. IntegerOn(n, Account) /\ Sum(f, Account) \in Int
    BY <1>1, <1>3, <2>2, SumType, Zenon DEF IntegerOn
  <2>4. Sum(g, Account) = Sum(f, Account) + Sum(n, Account)
    BY <1>1, <1>3, <2>2, <2>3, SumPlus, Zenon
  <2>5. Sum(g, Account) = Sum(f, Account)
    BY <2>1, <2>3, <2>4
  <2> QED  BY <1>1, <2>5 DEF g
<1>6. CASE UNCHANGED <<available, locked>>
  BY <1>4, <1>6, Zenon DEF Total
<1>7. CASE \E req \in ReserveRequests : ReserveBalance(req)
  BY <1>4, <1>7, ReserveKeepsTotals, Zenon
<1>8. CASE \E o \in Order : ReleaseReservation(o)
  BY <1>4, <1>8, ReleaseKeepsTotals, Zenon
<1>9. CASE \E s \in Settlements, mf, tf \in FeeAmounts : ApplySettlement(s, mf, tf)
  BY <1>5, <1>6, <1>9, Zenon DEF ApplySettlement
<1> QED  BY <1>6, <1>7, <1>8, <1>9, Zenon DEF Next, vars

\* No transaction of the ledger creates or destroys money: over all accounts,
\* the fee account included, what is available and locked of an asset is what
\* there was at the start.
THEOREM MoneyConserved == Spec => []Conserved
<1>1. Init => Conserved
  <2> SUFFICES ASSUME Init, NEW x \in Asset
               PROVE  Sum(Owned(x), Account) = Sum(Opened(x), Account)
    BY Zenon DEF Conserved
  <2>1. IsFiniteSet(Account)
    BY LedgerAssumption, Zenon
  <2>2. ASSUME NEW a \in Account  PROVE Owned(x)[a] = Opened(x)[a]
    <3>1. <<a, x>> \in Key /\ Opening[<<a, x>>] \in Nat
      BY LedgerAssumption, Zenon DEF Key
    <3> QED  BY <3>1 DEF Init, Owned, Opened, Total
  <2> QED  BY <2>1, <2>2, SumEqual, Zenon
<1>2. LedgerInv /\ Conserved /\ [Next]_vars => Conserved'
  BY ConservedStep
<1> QED  BY <1>1, <1>2, InitInv, NextInv, PTL DEF Spec
=============================================================================
