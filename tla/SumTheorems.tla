----------------------------- MODULE SumTheorems -----------------------------
(***************************************************************************)
(* Facts about SumFunctionOnSet(f, S), the sum of f[x] for x in a finite   *)
(* set S: it does not depend on the order of summation, so it is changed   *)
(* by one summand when one element, or the value of one element, changes.  *)
(* Each fact about all finite sets is shown of a least counterexample.     *)
(***************************************************************************)
EXTENDS Functions, FiniteSetTheorems, TLAPS

-----------------------------------------------------------------------------
(* The recursive function behind the sum. *)

Pick(s) == CHOOSE x \in s : TRUE

\* One step of the summation, from the sums g of smaller sets.
SumStepOf(f, g, s) == IF s = {} THEN 0 ELSE f[Pick(s)] + g[s \ {Pick(s)}]

\* g holds the sums of all subsets of S.
SumsUpTo(f, g, S) == g = [s \in SUBSET S |-> SumStepOf(f, g, s)]

LEMMA PickIn == ASSUME NEW s, s # {} PROVE Pick(s) \in s
BY DEF Pick

LEMMA SumIsRecursion ==
  ASSUME NEW f, NEW S
  PROVE  SumFunctionOnSet(f, S) = (CHOOSE g : SumsUpTo(f, g, S))[S]
BY DEF SumFunctionOnSet, FoldFunctionOnSet, MapThenFoldSet, SumsUpTo, SumStepOf, Pick

\* A set of subsets of a finite set has a least element, as an induction
\* over finite sets needs.
LEMMA LeastSubset ==
  ASSUME NEW S, IsFiniteSet(S), NEW C, C \subseteq SUBSET S, C # {}
  PROVE  \E T \in C : \A U \in C : U \subseteq T => U = T
<1>1. IsWellFoundedOn(StrictSubsetOrdering(S), SUBSET S)
  BY FS_StrictSubsetOrderingWellFounded, FS_FiniteSubsetsOfFinite
<1>2. PICK T \in C : \A U \in C : <<U, T>> \notin StrictSubsetOrdering(S)
  BY <1>1, WFMin
<1> QED
  BY <1>2 DEF StrictSubsetOrdering

-----------------------------------------------------------------------------
(* The recursion has exactly one solution. *)

LEMMA SumsAgree ==
  ASSUME NEW f, NEW g, NEW h, NEW S, NEW U, IsFiniteSet(S),
         SumsUpTo(f, g, S), SumsUpTo(f, h, U)
  PROVE  \A s \in SUBSET (S \cap U) : g[s] = h[s]
<1> DEFINE Bad == {s \in SUBSET (S \cap U) : g[s] # h[s]}
<1>1. SUFFICES ASSUME Bad # {} PROVE FALSE
  OBVIOUS
<1>2. IsFiniteSet(S \cap U)
  BY FS_Intersection
<1>3. PICK T \in Bad : \A V \in Bad : V \subseteq T => V = T
  <2>1. Bad \subseteq SUBSET (S \cap U)
    OBVIOUS
  <2> HIDE DEF Bad
  <2> QED
    BY <1>1, <1>2, <2>1, LeastSubset
<1>4. g[T] = SumStepOf(f, g, T) /\ h[T] = SumStepOf(f, h, T)
  BY DEF SumsUpTo
<1>5. CASE T = {}
  BY <1>4, <1>5 DEF SumStepOf
<1>6. CASE T # {}
  <2>1. Pick(T) \in T
    BY <1>6, PickIn
  <2>2. T \ {Pick(T)} \notin Bad
    BY <1>3, <2>1
  <2>3. g[T \ {Pick(T)}] = h[T \ {Pick(T)}]
    BY <2>2
  <2> QED
    BY <1>4, <1>6, <2>3 DEF SumStepOf
<1> QED
  BY <1>5, <1>6

LEMMA SumsExist ==
  ASSUME NEW f, NEW S, IsFiniteSet(S)
  PROVE  \E g : SumsUpTo(f, g, S)
<1> DEFINE Bad == {T \in SUBSET S : ~ \E g : SumsUpTo(f, g, T)}
           sum(T) == SumFunctionOnSet(f, T)
<1>1. SUFFICES ASSUME Bad # {} PROVE FALSE
  OBVIOUS
<1>2. PICK T \in Bad : \A V \in Bad : V \subseteq T => V = T
  <2>1. Bad \subseteq SUBSET S
    OBVIOUS
  <2> HIDE DEF Bad
  <2> QED
    BY <1>1, <2>1, LeastSubset
<1> DEFINE g0 == [s \in SUBSET T |-> IF s = {} THEN 0 ELSE f[Pick(s)] + sum(s \ {Pick(s)})]
           upto(s) == CHOOSE g : SumsUpTo(f, g, s)
<1>3. ASSUME NEW s \in SUBSET T, s # T
      PROVE  /\ SumsUpTo(f, upto(s), s)
             /\ sum(s) = upto(s)[s]
  <2>1. s \notin Bad /\ s \in SUBSET S
    BY <1>2, <1>3
  <2>2. \E g : SumsUpTo(f, g, s)
    BY <2>1
  <2> QED
    BY <2>2, SumIsRecursion
<1>4. ASSUME NEW s \in SUBSET T, s # T
      PROVE  sum(s) = g0[s]
  <2>1. sum(s) = SumStepOf(f, upto(s), s)
    <3> HIDE DEF sum, upto
    <3> QED
      BY <1>3, <1>4 DEF SumsUpTo
  <2>2. CASE s = {}
    <3> HIDE DEF sum, upto
    <3> QED
      BY <2>1, <2>2 DEF SumStepOf
  <2>3. CASE s # {}
    <3> DEFINE r == s \ {Pick(s)}
    <3>1. Pick(s) \in s
      BY <2>3, PickIn
    <3>2. r \in SUBSET T /\ r # T /\ r \in SUBSET (s \cap r)
      BY <3>1, <1>4
    <3>3. SumsUpTo(f, upto(s), s) /\ SumsUpTo(f, upto(r), r) /\ sum(r) = upto(r)[r]
      <4> HIDE DEF sum, upto, r
      <4> QED
        BY <1>3, <1>4, <3>2
    <3>4. IsFiniteSet(s)
      BY <1>2, <1>4, FS_Subset
    <3>5. upto(s)[r] = upto(r)[r]
      <4> HIDE DEF sum, upto, r
      <4> QED
        BY <3>2, <3>3, <3>4, SumsAgree
    <3> HIDE DEF sum, upto
    <3> QED
      BY <2>1, <2>3, <3>3, <3>5 DEF SumStepOf
  <2> QED
    BY <2>2, <2>3
<1>5. SumsUpTo(f, g0, T)
  <2>1. ASSUME NEW s \in SUBSET T
        PROVE  g0[s] = SumStepOf(f, g0, s)
    <3>1. CASE s = {}
      BY <3>1 DEF SumStepOf
    <3>2. CASE s # {}
      <4>1. Pick(s) \in s
        BY <3>2, PickIn
      <4>2. g0[s \ {Pick(s)}] = sum(s \ {Pick(s)})
        <5>1. s \ {Pick(s)} \in SUBSET T /\ s \ {Pick(s)} # T
          BY <4>1
        <5> HIDE DEF sum, g0
        <5> QED
          BY <5>1, <1>4
      <4>3. g0[s] = f[Pick(s)] + sum(s \ {Pick(s)})
        BY <3>2
      <4> HIDE DEF sum, g0
      <4> QED
        BY <3>2, <4>2, <4>3 DEF SumStepOf
    <3> QED
      BY <3>1, <3>2
  <2>2. g0 = [s \in SUBSET T |-> g0[s]]
    OBVIOUS
  <2> HIDE DEF g0
  <2> QED
    BY <2>1, <2>2 DEF SumsUpTo
<1> HIDE DEF g0, sum
<1> QED
  BY <1>5, <1>2

-----------------------------------------------------------------------------
(* The sum, as the recursion on the picked element has it. *)

LEMMA SumEmpty ==
  ASSUME NEW f
  PROVE  SumFunctionOnSet(f, {}) = 0
<1>1. PICK g : SumsUpTo(f, g, {})
  BY SumsExist, FS_EmptySet
<1>2. SumsUpTo(f, CHOOSE h : SumsUpTo(f, h, {}), {})
  BY <1>1
<1> DEFINE G == CHOOSE h : SumsUpTo(f, h, {})
<1>3. G[{}] = SumStepOf(f, G, {})
  <2> HIDE DEF G
  <2>1. SumsUpTo(f, G, {})
    BY <1>2 DEF G
  <2> QED
    BY <2>1 DEF SumsUpTo
<1>4. SumFunctionOnSet(f, {}) = G[{}]
  BY SumIsRecursion
<1> HIDE DEF G
<1> QED
  BY <1>3, <1>4 DEF SumStepOf

LEMMA SumPick ==
  ASSUME NEW f, NEW S, IsFiniteSet(S), S # {}
  PROVE  SumFunctionOnSet(f, S) = f[Pick(S)] + SumFunctionOnSet(f, S \ {Pick(S)})
<1> DEFINE R == S \ {Pick(S)}
           G(s) == CHOOSE h : SumsUpTo(f, h, s)
<1>1. IsFiniteSet(R)
  BY FS_Subset
<1>2. SumsUpTo(f, G(S), S) /\ SumsUpTo(f, G(R), R)
  <2>1. \E h : SumsUpTo(f, h, S)
    BY SumsExist
  <2>2. \E h : SumsUpTo(f, h, R)
    BY <1>1, SumsExist
  <2> QED
    BY <2>1, <2>2
<1>3. SumFunctionOnSet(f, S) = G(S)[S] /\ SumFunctionOnSet(f, R) = G(R)[R]
  BY SumIsRecursion
<1>4. R \in SUBSET (S \cap R)
  OBVIOUS
<1>5. G(S)[R] = G(R)[R]
  <2> HIDE DEF G, R
  <2> QED
    BY <1>2, <1>4, SumsAgree
<1>6. G(S)[S] = SumStepOf(f, G(S), S)
  <2> HIDE DEF G
  <2> QED
    BY <1>2 DEF SumsUpTo
<1> HIDE DEF G
<1> QED
  BY <1>3, <1>5, <1>6 DEF SumStepOf

-----------------------------------------------------------------------------
(* What every user of a sum needs: f maps the finite set S to integers. *)

Summable(f, S) == IsFiniteSet(S) /\ \A x \in S : f[x] \in Int

LEMMA SumInt ==
  ASSUME NEW f, NEW S, Summable(f, S)
  PROVE  SumFunctionOnSet(f, S) \in Int
<1> DEFINE Bad == {T \in SUBSET S : SumFunctionOnSet(f, T) \notin Int}
<1>1. SUFFICES ASSUME Bad # {} PROVE FALSE
  OBVIOUS
<1>2. PICK T \in Bad : \A V \in Bad : V \subseteq T => V = T
  <2>1. Bad \subseteq SUBSET S
    OBVIOUS
  <2> HIDE DEF Bad
  <2> QED
    BY <1>1, <2>1, LeastSubset DEF Summable
<1>3. T # {}
  BY SumEmpty
<1>4. Pick(T) \in T /\ IsFiniteSet(T)
  BY <1>3, PickIn, FS_Subset DEF Summable
<1>5. T \ {Pick(T)} \notin Bad
  BY <1>2, <1>4
<1>6. SumFunctionOnSet(f, T \ {Pick(T)}) \in Int /\ f[Pick(T)] \in Int
  BY <1>4, <1>5 DEF Summable
<1>7. SumFunctionOnSet(f, T) = f[Pick(T)] + SumFunctionOnSet(f, T \ {Pick(T)})
  BY <1>3, <1>4, SumPick
<1>8. SumFunctionOnSet(f, T) \in Int
  BY <1>6, <1>7
<1> QED
  BY <1>8

\* The order of summation does not matter: any element may be taken out.
THEOREM SumTakeOut ==
  ASSUME NEW f, NEW S, Summable(f, S), NEW x \in S
  PROVE  SumFunctionOnSet(f, S) = f[x] + SumFunctionOnSet(f, S \ {x})
<1> DEFINE sum(T) == SumFunctionOnSet(f, T)
           Bad == {T \in SUBSET S : \E y \in T : sum(T) # f[y] + sum(T \ {y})}
<1>1. SUFFICES ASSUME Bad # {} PROVE FALSE
  OBVIOUS
<1>2. PICK T \in Bad : \A V \in Bad : V \subseteq T => V = T
  <2>1. Bad \subseteq SUBSET S
    OBVIOUS
  <2> HIDE DEF Bad
  <2> QED
    BY <1>1, <2>1, LeastSubset DEF Summable
<1>3. PICK y \in T : sum(T) # f[y] + sum(T \ {y})
  BY <1>2
<1> DEFINE p == Pick(T)
<1>4. p \in T
  BY PickIn
<1>5. \A V \in SUBSET T : IsFiniteSet(V) /\ sum(V) \in Int
  <2> SUFFICES ASSUME NEW V \in SUBSET T PROVE IsFiniteSet(V) /\ sum(V) \in Int
    OBVIOUS
  <2>1. V \subseteq S
    OBVIOUS
  <2>2. IsFiniteSet(V)
    BY <2>1, FS_Subset DEF Summable
  <2>3. Summable(f, V)
    BY <2>1, <2>2 DEF Summable
  <2> QED
    BY <2>2, <2>3, SumInt
<1>6. sum(T) = f[p] + sum(T \ {p})
  BY <1>4, <1>5, SumPick
<1>7. y # p
  BY <1>3, <1>6
<1>8. sum(T \ {p}) = f[y] + sum((T \ {p}) \ {y})
  <2>1. T \ {p} \notin Bad
    <3> HIDE DEF Bad, p
    <3> QED
      BY <1>2, <1>4
  <2>2. y \in T \ {p} /\ T \ {p} \in SUBSET S
    BY <1>7
  <2> HIDE DEF p, sum
  <2> QED
    BY <2>1, <2>2
<1>9. sum(T \ {y}) = f[p] + sum((T \ {y}) \ {p})
  <2>1. T \ {y} \notin Bad
    <3> HIDE DEF Bad, p
    <3> QED
      BY <1>2
  <2>2. p \in T \ {y} /\ T \ {y} \in SUBSET S
    BY <1>4, <1>7
  <2> HIDE DEF p, sum
  <2> QED
    BY <2>1, <2>2
<1>10. (T \ {p}) \ {y} = (T \ {y}) \ {p}
  OBVIOUS
<1>11. sum((T \ {y}) \ {p}) \in Int /\ f[p] \in Int /\ f[y] \in Int
  BY <1>4, <1>5 DEF Summable
<1>12. sum(T) = f[y] + sum(T \ {y})
  <2> DEFINE r == sum((T \ {y}) \ {p})
  <2>1. sum(T) = f[p] + (f[y] + r) /\ sum(T \ {y}) = f[p] + r
    BY <1>6, <1>8, <1>9, <1>10
  <2>2. r \in Int
    BY <1>11
  <2> HIDE DEF sum, p, r
  <2> QED
    BY <1>11, <2>1, <2>2
<1> QED
  BY <1>3, <1>12

LEMMA SumAdd ==
  ASSUME NEW f, NEW S, Summable(f, S), NEW x, x \notin S, f[x] \in Int
  PROVE  SumFunctionOnSet(f, S \cup {x}) = f[x] + SumFunctionOnSet(f, S)
<1>1. IsFiniteSet(S \cup {x})
  BY FS_AddElement DEF Summable
<1>2. Summable(f, S \cup {x})
  BY <1>1 DEF Summable
<1>3. (S \cup {x}) \ {x} = S
  OBVIOUS
<1> QED
  BY <1>2, <1>3, SumTakeOut

\* The sum depends only on the values in the set.
LEMMA SumEqual ==
  ASSUME NEW f, NEW h, NEW S, IsFiniteSet(S), \A x \in S : f[x] = h[x]
  PROVE  SumFunctionOnSet(f, S) = SumFunctionOnSet(h, S)
<1> DEFINE Bad == {T \in SUBSET S : SumFunctionOnSet(f, T) # SumFunctionOnSet(h, T)}
<1>1. SUFFICES ASSUME Bad # {} PROVE FALSE
  OBVIOUS
<1>2. PICK T \in Bad : \A V \in Bad : V \subseteq T => V = T
  <2>1. Bad \subseteq SUBSET S
    OBVIOUS
  <2> HIDE DEF Bad
  <2> QED
    BY <1>1, <2>1, LeastSubset
<1>3. T # {}
  BY SumEmpty
<1>4. Pick(T) \in T /\ IsFiniteSet(T)
  BY <1>3, PickIn, FS_Subset
<1>5. T \ {Pick(T)} \notin Bad
  BY <1>2, <1>4
<1>6. /\ SumFunctionOnSet(f, T) = f[Pick(T)] + SumFunctionOnSet(f, T \ {Pick(T)})
      /\ SumFunctionOnSet(h, T) = h[Pick(T)] + SumFunctionOnSet(h, T \ {Pick(T)})
  BY <1>3, <1>4, SumPick
<1>7. /\ f[Pick(T)] = h[Pick(T)]
      /\ SumFunctionOnSet(f, T \ {Pick(T)}) = SumFunctionOnSet(h, T \ {Pick(T)})
  BY <1>4, <1>5
<1> QED
  BY <1>6, <1>7

\* A change of the value of one element changes the sum by as much.
LEMMA SumChange ==
  ASSUME NEW f, NEW h, NEW S, Summable(f, S), NEW x \in S, h[x] \in Int,
         \A y \in S \ {x} : h[y] = f[y]
  PROVE  SumFunctionOnSet(h, S) = SumFunctionOnSet(f, S) - f[x] + h[x]
<1> DEFINE sum(g, T) == SumFunctionOnSet(g, T)
<1>1. Summable(h, S) /\ IsFiniteSet(S \ {x}) /\ Summable(f, S \ {x})
  BY FS_Subset DEF Summable
<1>2. sum(f, S) = f[x] + sum(f, S \ {x}) /\ sum(h, S) = h[x] + sum(h, S \ {x})
  BY <1>1, SumTakeOut
<1>3. sum(f, S \ {x}) = sum(h, S \ {x})
  BY <1>1, SumEqual
<1>4. sum(f, S \ {x}) \in Int /\ f[x] \in Int
  BY <1>1, SumInt DEF Summable
<1> HIDE DEF sum
<1>5. sum(h, S) = sum(f, S) - f[x] + h[x]
  BY <1>2, <1>3, <1>4
<1> QED
  BY <1>1, <1>5 DEF sum

\* A sum grows with its summands.
LEMMA SumMonotone ==
  ASSUME NEW f, NEW h, NEW S, Summable(f, S), Summable(h, S),
         \A x \in S : f[x] <= h[x]
  PROVE  SumFunctionOnSet(f, S) <= SumFunctionOnSet(h, S)
<1> DEFINE Bad == {T \in SUBSET S : ~(SumFunctionOnSet(f, T) <= SumFunctionOnSet(h, T))}
<1>1. SUFFICES ASSUME Bad # {} PROVE FALSE
  OBVIOUS
<1>2. PICK T \in Bad : \A V \in Bad : V \subseteq T => V = T
  <2>1. Bad \subseteq SUBSET S
    OBVIOUS
  <2> HIDE DEF Bad
  <2> QED
    BY <1>1, <2>1, LeastSubset DEF Summable
<1>3. T # {}
  BY SumEmpty
<1> DEFINE p == Pick(T)
           R == T \ {p}
<1>4. p \in T /\ IsFiniteSet(T) /\ IsFiniteSet(R) /\ T \subseteq S
  BY <1>3, PickIn, FS_Subset DEF Summable
<1>5. SumFunctionOnSet(f, R) <= SumFunctionOnSet(h, R)
  <2>1. R \notin Bad
    <3> HIDE DEF Bad
    <3> QED
      BY <1>2, <1>4
  <2> QED
    BY <2>1
<1>6. SumFunctionOnSet(f, R) \in Int /\ SumFunctionOnSet(h, R) \in Int
  BY <1>4, SumInt DEF Summable
<1>7. /\ SumFunctionOnSet(f, T) = f[p] + SumFunctionOnSet(f, R)
      /\ SumFunctionOnSet(h, T) = h[p] + SumFunctionOnSet(h, R)
  BY <1>3, <1>4, SumPick
<1>8. f[p] \in Int /\ h[p] \in Int /\ f[p] <= h[p]
  BY <1>4 DEF Summable
<1>9. SumFunctionOnSet(f, T) <= SumFunctionOnSet(h, T)
  <2> HIDE DEF p, R
  <2> QED
    BY <1>5, <1>6, <1>7, <1>8
<1> QED
  BY <1>9

LEMMA SumZero ==
  ASSUME NEW f, NEW S, IsFiniteSet(S), \A x \in S : f[x] = 0
  PROVE  SumFunctionOnSet(f, S) = 0
<1> DEFINE Bad == {T \in SUBSET S : SumFunctionOnSet(f, T) # 0}
<1>1. SUFFICES ASSUME Bad # {} PROVE FALSE
  OBVIOUS
<1>2. PICK T \in Bad : \A V \in Bad : V \subseteq T => V = T
  <2>1. Bad \subseteq SUBSET S
    OBVIOUS
  <2> HIDE DEF Bad
  <2> QED
    BY <1>1, <2>1, LeastSubset
<1>3. T # {}
  BY SumEmpty
<1>4. Pick(T) \in T /\ IsFiniteSet(T)
  BY <1>3, PickIn, FS_Subset
<1>5. T \ {Pick(T)} \notin Bad
  BY <1>2, <1>4
<1>6. SumFunctionOnSet(f, T) = f[Pick(T)] + SumFunctionOnSet(f, T \ {Pick(T)})
  BY <1>3, <1>4, SumPick
<1> QED
  BY <1>4, <1>5, <1>6

\* A sum of natural numbers is one, and no less than any of its summands.
LEMMA SumNat ==
  ASSUME NEW f, NEW S, IsFiniteSet(S), \A x \in S : f[x] \in Nat
  PROVE  /\ SumFunctionOnSet(f, S) \in Nat
         /\ \A x \in S : f[x] <= SumFunctionOnSet(f, S)
<1> DEFINE zero == [x \in S |-> 0]
<1>1. ASSUME NEW T \in SUBSET S
      PROVE  SumFunctionOnSet(f, T) \in Nat
  <2>1. IsFiniteSet(T)
    BY FS_Subset
  <2>2. Summable(f, T) /\ Summable(zero, T) /\ \A x \in T : zero[x] <= f[x]
    BY <2>1 DEF Summable
  <2>3. SumFunctionOnSet(zero, T) = 0
    BY <2>1, SumZero
  <2>4. SumFunctionOnSet(f, T) \in Int
    BY <2>2, SumInt
  <2>5. SumFunctionOnSet(zero, T) <= SumFunctionOnSet(f, T)
    <3> HIDE DEF zero
    <3> QED
      BY <2>2, SumMonotone
  <2> QED
    BY <2>3, <2>4, <2>5
<1>2. ASSUME NEW x \in S
      PROVE  f[x] <= SumFunctionOnSet(f, S)
  <2>1. Summable(f, S)
    BY DEF Summable
  <2>2. SumFunctionOnSet(f, S) = f[x] + SumFunctionOnSet(f, S \ {x})
    BY <2>1, SumTakeOut
  <2>3. SumFunctionOnSet(f, S \ {x}) \in Nat
    BY <1>1
  <2> QED
    BY <2>2, <2>3
<1> QED
  BY <1>1, <1>2

-----------------------------------------------------------------------------
(* The same of SumFunction(f), the sum over the whole domain.               *)

LEMMA SumFunctionInt ==
  ASSUME NEW S, IsFiniteSet(S), NEW f, f \in [S -> Int]
  PROVE  SumFunction(f) \in Int
<1>1. DOMAIN f = S /\ Summable(f, S)
  BY DEF Summable
<1> QED
  BY <1>1, SumInt DEF SumFunction

LEMMA SumFunctionNat ==
  ASSUME NEW S, IsFiniteSet(S), NEW f, f \in [S -> Nat]
  PROVE  SumFunction(f) \in Nat
<1>1. DOMAIN f = S
  OBVIOUS
<1>2. SumFunctionOnSet(f, S) \in Nat
  BY SumNat
<1> QED
  BY <1>1, <1>2 DEF SumFunction

LEMMA SumFunctionPart ==
  ASSUME NEW S, IsFiniteSet(S), NEW f, f \in [S -> Nat], NEW x \in S
  PROVE  f[x] <= SumFunction(f)
<1>1. DOMAIN f = S
  OBVIOUS
<1>2. f[x] <= SumFunctionOnSet(f, S)
  BY SumNat
<1> QED
  BY <1>1, <1>2 DEF SumFunction

\* One value changes from f to h.
LEMMA SumFunctionChange ==
  ASSUME NEW S, IsFiniteSet(S), NEW f, NEW h, f \in [S -> Int], h \in [S -> Int],
         NEW x \in S, \A y \in S \ {x} : h[y] = f[y]
  PROVE  SumFunction(h) = SumFunction(f) - f[x] + h[x]
<1>1. SumFunction(f) = SumFunctionOnSet(f, S) /\ SumFunction(h) = SumFunctionOnSet(h, S)
  BY DEF SumFunction
<1>2. Summable(f, S) /\ h[x] \in Int
  BY DEF Summable
<1>3. \A y \in S \ {x} : h[y] = f[y]
  OBVIOUS
<1>4. SumFunctionOnSet(h, S) = SumFunctionOnSet(f, S) - f[x] + h[x]
  BY <1>2, <1>3, SumChange
<1> QED
  BY <1>1, <1>4

LEMMA SumFunctionZero ==
  ASSUME NEW S, IsFiniteSet(S), NEW f, DOMAIN f = S, \A x \in S : f[x] = 0
  PROVE  SumFunction(f) = 0
BY SumZero DEF SumFunction

-----------------------------------------------------------------------------
(* Sums of sums *)

\* The sum of two functions.
LEMMA SumPlus ==
  ASSUME NEW f, NEW g, NEW h, NEW S, Summable(f, S), Summable(g, S), \A x \in S : h[x] = f[x] + g[x]
  PROVE  SumFunctionOnSet(h, S) = SumFunctionOnSet(f, S) + SumFunctionOnSet(g, S)
<1> DEFINE sum(e, T) == SumFunctionOnSet(e, T)
           Bad == {T \in SUBSET S : sum(h, T) # sum(f, T) + sum(g, T)}
<1>1. SUFFICES ASSUME Bad # {} PROVE FALSE
  OBVIOUS
<1>2. PICK T \in Bad : \A V \in Bad : V \subseteq T => V = T
  <2>1. Bad \subseteq SUBSET S
    OBVIOUS
  <2> HIDE DEF Bad
  <2> QED
    BY <1>1, <2>1, LeastSubset DEF Summable
<1>3. T # {}
  BY SumEmpty
<1> DEFINE p == Pick(T)
           R == T \ {p}
<1>4. p \in T /\ IsFiniteSet(T) /\ IsFiniteSet(R) /\ T \subseteq S
  BY <1>3, PickIn, FS_Subset DEF Summable
<1>5. sum(h, R) = sum(f, R) + sum(g, R)
  <2>1. R \notin Bad
    <3> HIDE DEF Bad
    <3> QED
      BY <1>2, <1>4
  <2> QED
    BY <1>4, <2>1
<1>6. sum(f, R) \in Int /\ sum(g, R) \in Int
  BY <1>4, SumInt DEF Summable
<1>7. /\ sum(f, T) = f[p] + sum(f, R) /\ sum(g, T) = g[p] + sum(g, R)
      /\ sum(h, T) = h[p] + sum(h, R)
  BY <1>3, <1>4, SumPick
<1>8. f[p] \in Int /\ g[p] \in Int /\ h[p] = f[p] + g[p]
  BY <1>4 DEF Summable
<1>9. sum(h, T) = sum(f, T) + sum(g, T)
  <2> HIDE DEF p, R, sum
  <2> QED
    BY <1>5, <1>6, <1>7, <1>8
<1> QED
  BY <1>9

\* Zeros may be left out of a sum.
LEMMA SumWithin ==
  ASSUME NEW f, NEW S, Summable(f, S), NEW U \in SUBSET S, \A x \in S \ U : f[x] = 0
  PROVE  SumFunctionOnSet(f, S) = SumFunctionOnSet(f, U)
<1> DEFINE sum(T) == SumFunctionOnSet(f, T)
           Bad == {T \in SUBSET S : sum(T) # sum(T \cap U)}
<1>1. SUFFICES ASSUME Bad # {} PROVE FALSE
  <2>1. S \cap U = U
    OBVIOUS
  <2> QED
    BY <2>1
<1>2. PICK T \in Bad : \A V \in Bad : V \subseteq T => V = T
  <2>1. Bad \subseteq SUBSET S
    OBVIOUS
  <2> HIDE DEF Bad
  <2> QED
    BY <1>1, <2>1, LeastSubset DEF Summable
<1>3. ~(T \subseteq U)
  <2>1. T \subseteq U => T \cap U = T
    OBVIOUS
  <2> QED
    BY <2>1
<1>4. PICK p \in T \ U : TRUE
  BY <1>3
<1> DEFINE R == T \ {p}
<1>5. IsFiniteSet(T) /\ IsFiniteSet(R) /\ T \subseteq S /\ Summable(f, T) /\ Summable(f, R)
  BY FS_Subset DEF Summable
<1>6. sum(R) = sum(R \cap U)
  <2>1. R \notin Bad
    <3> HIDE DEF Bad
    <3> QED
      BY <1>2, <1>4
  <2> QED
    BY <1>5, <2>1
<1>7. sum(T) = f[p] + sum(R) /\ f[p] = 0 /\ sum(R) \in Int
  BY <1>4, <1>5, SumTakeOut, SumInt
<1>8. sum(R \cap U) = sum(T \cap U)
  <2>1. R \cap U = T \cap U
    BY <1>4
  <2> QED
    BY <2>1
<1>9. sum(T) = sum(T \cap U)
  <2> HIDE DEF R, sum
  <2> QED
    BY <1>6, <1>7, <1>8
<1> QED
  BY <1>9

\* What is added up group by group is added up.
LEMMA SumByGroup ==
  ASSUME NEW f, NEW group, NEW N, NEW K, Summable(f, N), IsFiniteSet(K), \A n \in N : group[n] \in K
  PROVE  SumFunctionOnSet([k \in K |-> SumFunctionOnSet(f, {n \in N : group[n] = k})], K) = SumFunctionOnSet(f, N)
<1> DEFINE sum(T) == SumFunctionOnSet(f, T)
           part(T, k) == {n \in T : group[n] = k}
           parts(T) == [k \in K |-> sum(part(T, k))]
           all(T) == SumFunctionOnSet(parts(T), K)
           Bad == {T \in SUBSET N : all(T) # sum(T)}
<1>1. SUFFICES ASSUME Bad # {} PROVE FALSE
  OBVIOUS
<1>2. PICK T \in Bad : \A V \in Bad : V \subseteq T => V = T
  <2>1. Bad \subseteq SUBSET N
    OBVIOUS
  <2> HIDE DEF Bad
  <2> QED
    BY <1>1, <2>1, LeastSubset DEF Summable
<1>3. T # {}
  <2>1. \A k \in K : part({}, k) = {}
    OBVIOUS
  <2>2. \A k \in K : parts({})[k] = 0
    BY <2>1, SumEmpty
  <2>3. all({}) = 0
    <3> HIDE DEF parts
    <3> QED
      BY <2>2, SumZero
  <2> QED
    BY <2>3, SumEmpty
<1>4. PICK p \in T : TRUE
  BY <1>3
<1> DEFINE R == T \ {p}
<1>5. IsFiniteSet(T) /\ IsFiniteSet(R) /\ T \subseteq N /\ Summable(f, T) /\ Summable(f, R) /\ group[p] \in K /\ f[p] \in Int
  BY FS_Subset DEF Summable
<1>6. all(R) = sum(R)
  <2>1. R \notin Bad
    <3> HIDE DEF Bad
    <3> QED
      BY <1>2, <1>4
  <2> QED
    BY <1>5, <2>1
<1>7. sum(T) = f[p] + sum(R) /\ sum(R) \in Int
  BY <1>4, <1>5, SumTakeOut, SumInt
<1>8. \A k \in K : Summable(f, part(R, k))
  BY <1>5, FS_Subset DEF Summable
<1>9. \A k \in K \ {group[p]} : parts(T)[k] = parts(R)[k]
  <2>1. \A k \in K \ {group[p]} : part(T, k) = part(R, k)
    OBVIOUS
  <2> QED
    BY <2>1
<1>10. parts(T)[group[p]] = f[p] + parts(R)[group[p]]
  <2>1. part(T, group[p]) = part(R, group[p]) \cup {p} /\ p \notin part(R, group[p])
    OBVIOUS
  <2>2. Summable(f, part(R, group[p]))
    BY <1>5, <1>8
  <2>3. sum(part(R, group[p]) \cup {p}) = f[p] + sum(part(R, group[p]))
    <3> HIDE DEF part
    <3> QED
      BY <1>5, <2>1, <2>2, SumAdd
  <2> HIDE DEF part, sum
  <2> QED
    BY <1>5, <2>1, <2>3
<1>11. Summable(parts(R), K)
  <2>1. \A k \in K : sum(part(R, k)) \in Int
    BY <1>8, SumInt
  <2> HIDE DEF part, sum
  <2> QED
    BY <2>1 DEF Summable
<1>12. parts(R)[group[p]] \in Int
  BY <1>5, <1>11 DEF Summable
<1>13. all(T) = all(R) - parts(R)[group[p]] + parts(T)[group[p]] /\ all(R) \in Int
  <2>1. PICK before, after, x : before = parts(R) /\ after = parts(T) /\ x = group[p]
    OBVIOUS
  <2>2. x \in K /\ Summable(before, K) /\ \A y \in K \ {x} : after[y] = before[y]
    BY <1>5, <1>9, <1>11, <2>1
  <2>3. after[x] \in Int
    BY <1>5, <1>10, <1>12, <2>1
  <2>4. SumFunctionOnSet(after, K) = SumFunctionOnSet(before, K) - before[x] + after[x]
    BY <2>2, <2>3, SumChange
  <2>5. SumFunctionOnSet(before, K) \in Int
    BY <2>2, SumInt
  <2> QED
    BY <2>1, <2>4, <2>5
<1>14. all(T) = sum(T)
  <2> HIDE DEF all, sum, parts, R
  <2> QED
    BY <1>5, <1>6, <1>7, <1>10, <1>12, <1>13
<1> QED
  BY <1>14

\* What changing some terms does to a sum.
LEMMA SumAfter ==
  ASSUME NEW f, NEW g, NEW S, Summable(f, S), Summable(g, S), NEW U \in SUBSET S, \A x \in S \ U : g[x] = f[x]
  PROVE  SumFunctionOnSet(g, S) = SumFunctionOnSet(f, S) + SumFunctionOnSet([x \in U |-> g[x] - f[x]], U)
<1> DEFINE gain == [x \in S |-> g[x] - f[x]]
           part == [x \in U |-> g[x] - f[x]]
<1>1. \A x \in S : f[x] \in Int /\ g[x] \in Int
  BY DEF Summable
<1>2. \A x \in S : gain[x] \in Int /\ g[x] = f[x] + gain[x]
  BY <1>1
<1>3. Summable(gain, S) /\ IsFiniteSet(U)
  BY <1>2, FS_Subset DEF Summable
<1>4. SumFunctionOnSet(g, S) = SumFunctionOnSet(f, S) + SumFunctionOnSet(gain, S)
  <2> HIDE DEF gain
  <2> QED
    BY <1>2, <1>3, SumPlus
<1>5. SumFunctionOnSet(gain, S) = SumFunctionOnSet(gain, U)
  <2>1. \A x \in S \ U : gain[x] = 0
    BY <1>1
  <2> HIDE DEF gain
  <2> QED
    BY <1>3, <2>1, SumWithin
<1>6. SumFunctionOnSet(gain, U) = SumFunctionOnSet(part, U)
  <2>1. \A x \in U : gain[x] = part[x]
    OBVIOUS
  <2> HIDE DEF gain, part
  <2> QED
    BY <1>3, <2>1, SumEqual
<1> QED
  BY <1>4, <1>5, <1>6

LEMMA SumOne ==
  ASSUME NEW f, NEW x, f[x] \in Int
  PROVE  SumFunctionOnSet(f, {x}) = f[x]
<1>1. Summable(f, {}) /\ SumFunctionOnSet(f, {}) = 0
  BY FS_EmptySet, SumEmpty DEF Summable
<1>2. SumFunctionOnSet(f, {} \cup {x}) = f[x] + SumFunctionOnSet(f, {})
  BY <1>1, SumAdd
<1>3. {} \cup {x} = {x}
  OBVIOUS
<1> QED
  BY <1>1, <1>2, <1>3
=============================================================================
