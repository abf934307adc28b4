------------------------------- MODULE SumFacts -------------------------------
(***************************************************************************)
(* Facts that the proofs about the caches share: the least element of a    *)
(* set of numbers, a minimal one of a collection of finite sets, and sums. *)
(* Nothing here is about the program.  Induction over finite sets is by a  *)
(* minimal counterexample, which needs no operator as a parameter.  The    *)
(* last part is about recursion with any operation FoldOp; a module with   *)
(* such a recursion instantiates this one with its operation.              *)
(***************************************************************************)
EXTENDS Integers, Sequences, FiniteSets, FiniteSetsExt, FiniteSetTheorems,
        WellFoundedInduction, TLAPS

CONSTANT FoldOp(_, _, _)  \* what is known so far, the next index or element, parameters

\* A set of natural numbers that is not empty has a least element.
LEMMA LeastNat ==
  ASSUME NEW T \in SUBSET Nat, T # {}
  PROVE  \E x \in T : \A y \in T : x <= y
<1>1. PICK x \in T : \A y \in T : ~(<<y, x>> \in OpToRel(<, Nat))
  BY NatLessThanWellFounded, WFMin
<1>2. \A y \in T : ~(y < x) BY <1>1 DEF OpToRel
<1> QED BY <1>2

\* Min of such a set is that element.
LEMMA MinIsLeast ==
  ASSUME NEW T \in SUBSET Nat, T # {}
  PROVE  Min(T) \in T /\ \A y \in T : Min(T) <= y
<1>1. \E x \in T : \A y \in T : x <= y BY LeastNat
<1> QED BY <1>1, Zenon DEF Min

\* A collection of finite sets has one that contains no other of them.
LEMMA MinimalSet ==
  ASSUME NEW B, B # {}, \A T \in B : IsFiniteSet(T)
  PROVE  \E T \in B : \A U \in B : U \subseteq T => U = T
<1> DEFINE N == {Cardinality(T) : T \in B}
<1>1. N \in SUBSET Nat /\ N # {} BY FS_CardinalityType
<1>2. PICK n \in N : \A m \in N : n <= m BY <1>1, LeastNat
<1>3. PICK T \in B : Cardinality(T) = n BY <1>2
<1>4. ASSUME NEW U \in B, U \subseteq T, U # T PROVE FALSE
  <2>1. IsFiniteSet(T) OBVIOUS
  <2>2. Cardinality(U) <= Cardinality(T) /\ Cardinality(U) # Cardinality(T)
    BY <1>4, <2>1, FS_Subset
  <2>3. Cardinality(U) \in N /\ Cardinality(U) \in Nat /\ n \in Nat BY <1>1, <1>2, <1>4
  <2> QED BY <1>2, <1>3, <2>2, <2>3
<1> QED BY <1>4

-----------------------------------------------------------------------------
(* The recursion of SumFunctionOnSet.                                      *)

Pick(s) == CHOOSE x \in s : TRUE
SumsBy(f, S, g) ==
  g = [s \in SUBSET S |-> IF s = {} THEN 0 ELSE f[Pick(s)] + g[s \ {Pick(s)}]]
SumsOf(f, S) == CHOOSE g : SumsBy(f, S, g)

\* The element the recursion takes next is one of the set.
LEMMA PickIn == \A s : s # {} => Pick(s) \in s
BY DEF Pick

\* SumFunctionOnSet is the last value of the recursion over the subsets.
LEMMA SumIs ==
  ASSUME NEW f, NEW S
  PROVE  SumFunctionOnSet(f, S) = SumsOf(f, S)[S]
BY DEF SumFunctionOnSet, FoldFunctionOnSet, MapThenFoldSet, SumsOf, SumsBy, Pick

\* The recursions over a set and over a part of it agree on the part.
LEMMA Coherent ==
  ASSUME NEW f, NEW S, IsFiniteSet(S), NEW U \in SUBSET S, NEW g, SumsBy(f, S, g),
         NEW h, SumsBy(f, U, h)
  PROVE  \A T \in SUBSET U : g[T] = h[T]
<1> DEFINE B == {T \in SUBSET U : g[T] # h[T]}
<1>1. SUFFICES ASSUME B # {} PROVE FALSE OBVIOUS
<1>2. \A T \in B : IsFiniteSet(T) BY FS_Subset
<1>3. PICK T \in B : \A V \in B : V \subseteq T => V = T
  <2> HIDE DEF B
  <2> QED BY <1>1, <1>2, MinimalSet, SMT
<1>4. T # {} BY <1>3 DEF SumsBy
<1>5. Pick(T) \in T BY <1>4, PickIn
<1>6. g[T \ {Pick(T)}] = h[T \ {Pick(T)}] BY <1>3, <1>5
<1>7. g[T] = f[Pick(T)] + g[T \ {Pick(T)}] BY <1>4 DEF SumsBy
<1>8. h[T] = f[Pick(T)] + h[T \ {Pick(T)}] BY <1>4 DEF SumsBy
<1> QED BY <1>3, <1>6, <1>7, <1>8

\* There is a function that solves the recursion over a finite set.
LEMMA SumsExist ==
  ASSUME NEW f, NEW S, IsFiniteSet(S)
  PROVE  SumsBy(f, S, SumsOf(f, S))
<1> DEFINE OK(T) == SumsBy(f, T, SumsOf(f, T))
           B == {T \in SUBSET S : ~OK(T)}
<1>1. SUFFICES ASSUME B # {} PROVE FALSE OBVIOUS
<1>2. \A T \in B : IsFiniteSet(T) BY FS_Subset
<1>3. PICK T \in B : \A V \in B : V \subseteq T => V = T
  <2> HIDE DEF B
  <2> QED BY <1>1, <1>2, MinimalSet, SMT
<1>4. \A V \in SUBSET T : V # T => OK(V) BY <1>3
<1> HIDE DEF OK
<1> DEFINE rest(s) == s \ {Pick(s)}
           g == [s \in SUBSET T |-> IF s = {} THEN 0
                                    ELSE f[Pick(s)] + SumsOf(f, rest(s))[rest(s)]]
<1>5. ASSUME NEW s \in SUBSET T, s # {} PROVE g[rest(s)] = SumsOf(f, rest(s))[rest(s)]
  <2> DEFINE u == rest(s)
  <2>1. u \in SUBSET T /\ u # T BY <1>5, PickIn
  <2>2. SumsBy(f, u, SumsOf(f, u)) BY <1>4, <2>1 DEF OK
  <2>3. CASE u = {}
    <3>1. SumsOf(f, u)[u] = 0 BY <2>2, <2>3 DEF SumsBy
    <3>2. g[u] = 0 BY <2>1, <2>3
    <3> QED BY <3>1, <3>2
  <2>4. CASE u # {}
    <3>1. rest(u) \in SUBSET u /\ rest(u) # T /\ rest(u) \in SUBSET T BY <2>1
    <3>2. SumsBy(f, rest(u), SumsOf(f, rest(u))) BY <1>4, <3>1 DEF OK
    <3>3. IsFiniteSet(u) BY <1>2, <2>1, FS_Subset
    <3>4. SumsOf(f, u)[rest(u)] = SumsOf(f, rest(u))[rest(u)]
      <4> HIDE DEF u, rest
      <4>1. rest(u) \in SUBSET rest(u) OBVIOUS
      <4> QED BY <2>2, <3>1, <3>2, <3>3, <4>1, Coherent, SMT
    <3>5. SumsOf(f, u)[u] = f[Pick(u)] + SumsOf(f, u)[rest(u)] BY <2>2, <2>4 DEF SumsBy
    <3>6. g[u] = f[Pick(u)] + SumsOf(f, rest(u))[rest(u)] BY <2>1, <2>4
    <3> QED BY <3>4, <3>5, <3>6
  <2> QED BY <2>3, <2>4
<1>6. g = [s \in SUBSET T |-> IF s = {} THEN 0 ELSE f[Pick(s)] + g[s \ {Pick(s)}]]
  BY <1>5
<1>7. SumsBy(f, T, g) BY <1>6 DEF SumsBy
<1>8. OK(T) BY <1>7 DEF OK, SumsOf
<1> QED BY <1>3, <1>8

\* A sum, and the sum without the element it is taken apart at.
LEMMA SumApart ==
  ASSUME NEW f, NEW T, IsFiniteSet(T)
  PROVE  SumFunctionOnSet(f, T) =
           IF T = {} THEN 0 ELSE f[Pick(T)] + SumFunctionOnSet(f, T \ {Pick(T)})
<1> DEFINE u == T \ {Pick(T)}
<1>1. SumsBy(f, T, SumsOf(f, T)) BY SumsExist
<1>2. IsFiniteSet(u) /\ u \in SUBSET T BY FS_Subset
<1>3. SumsBy(f, u, SumsOf(f, u)) BY <1>2, SumsExist
<1>4. SumsOf(f, T)[u] = SumsOf(f, u)[u]
  <2> HIDE DEF u
  <2>1. u \in SUBSET u OBVIOUS
  <2> QED BY <1>1, <1>2, <1>3, <2>1, Coherent, SMT
<1>5. SumsOf(f, T)[T] = IF T = {} THEN 0 ELSE f[Pick(T)] + SumsOf(f, T)[u]
  BY <1>1 DEF SumsBy
<1> HIDE DEF u
<1>6. SumFunctionOnSet(f, T) = SumsOf(f, T)[T] /\ SumFunctionOnSet(f, u) = SumsOf(f, u)[u]
  BY SumIs
<1> QED BY <1>4, <1>5, <1>6 DEF u

-----------------------------------------------------------------------------
(* Sums of integers.                                                       *)

\* An empty sum.
LEMMA SumEmpty == ASSUME NEW f PROVE SumFunctionOnSet(f, {}) = 0
<1>1. IsFiniteSet({}) BY FS_EmptySet
<1> QED BY <1>1, SumApart

\* A sum of integers is one.
LEMMA SumInt ==
  ASSUME NEW f, NEW S, IsFiniteSet(S), \A x \in S : f[x] \in Int
  PROVE  SumFunctionOnSet(f, S) \in Int
<1> DEFINE B == {T \in SUBSET S : SumFunctionOnSet(f, T) \notin Int}
<1>1. SUFFICES ASSUME B # {} PROVE FALSE OBVIOUS
<1>2. \A T \in B : IsFiniteSet(T) BY FS_Subset
<1>3. PICK T \in B : \A V \in B : V \subseteq T => V = T
  <2> HIDE DEF B
  <2> QED BY <1>1, <1>2, MinimalSet, SMT
<1>4. T # {} /\ IsFiniteSet(T) BY <1>2, <1>3, SumEmpty
<1>5. Pick(T) \in T BY <1>4, PickIn
<1>6. SumFunctionOnSet(f, T \ {Pick(T)}) \in Int BY <1>3, <1>5
<1>7. f[Pick(T)] \in Int BY <1>5
<1>8. SumFunctionOnSet(f, T) = f[Pick(T)] + SumFunctionOnSet(f, T \ {Pick(T)})
  BY <1>4, SumApart
<1> QED BY <1>3, <1>6, <1>7, <1>8

\* Any element can be taken out.
LEMMA SumRemove ==
  ASSUME NEW f, NEW S, IsFiniteSet(S), \A x \in S : f[x] \in Int, NEW z \in S
  PROVE  SumFunctionOnSet(f, S) = f[z] + SumFunctionOnSet(f, S \ {z})
<1> DEFINE Sum(T) == SumFunctionOnSet(f, T)
           B == {T \in SUBSET S : \E x \in T : Sum(T) # f[x] + Sum(T \ {x})}
<1>1. SUFFICES ASSUME B # {} PROVE FALSE OBVIOUS
<1>2. \A T \in B : IsFiniteSet(T) BY FS_Subset
<1>3. PICK T \in B : \A V \in B : V \subseteq T => V = T
  <2> HIDE DEF B
  <2> QED BY <1>1, <1>2, MinimalSet, SMT
<1>4. PICK x \in T : Sum(T) # f[x] + Sum(T \ {x}) BY <1>3
<1> DEFINE y == Pick(T)
<1>5. y \in T BY <1>4, PickIn
<1>6. IsFiniteSet(T) BY <1>2, <1>3
<1>7. Sum(T) = f[y] + Sum(T \ {y}) BY <1>5, <1>6, SumApart
<1>8. y # x BY <1>4, <1>7
<1> HIDE DEF y
<1>9. T \ {y} \notin B /\ T \ {x} \notin B BY <1>3, <1>4, <1>5
<1>10. Sum(T \ {y}) = f[x] + Sum((T \ {y}) \ {x}) BY <1>4, <1>8, <1>9
<1>11. Sum(T \ {x}) = f[y] + Sum((T \ {x}) \ {y}) BY <1>5, <1>8, <1>9
<1>12. (T \ {y}) \ {x} = (T \ {x}) \ {y} OBVIOUS
<1>13. f[x] \in Int /\ f[y] \in Int BY <1>4, <1>5
<1>14. Sum((T \ {x}) \ {y}) \in Int
  <2>1. IsFiniteSet((T \ {x}) \ {y}) BY <1>6, FS_Subset
  <2> QED BY <2>1, SumInt
<1> DEFINE s == Sum((T \ {x}) \ {y})
<1>15. Sum(T \ {y}) = f[x] + s /\ Sum(T \ {x}) = f[y] + s /\ s \in Int
  BY <1>10, <1>11, <1>12, <1>14
<1>16. Sum(T) = f[y] + (f[x] + s) BY <1>7, <1>15
<1>17. Sum(T) # f[x] + (f[y] + s) BY <1>4, <1>15
<1> HIDE DEF Sum, s
<1> QED BY <1>13, <1>15, <1>16, <1>17

\* ... or added.
LEMMA SumAdd ==
  ASSUME NEW f, NEW S, IsFiniteSet(S), NEW z, z \notin S, \A x \in S \cup {z} : f[x] \in Int
  PROVE  SumFunctionOnSet(f, S \cup {z}) = f[z] + SumFunctionOnSet(f, S)
<1>1. IsFiniteSet(S \cup {z}) BY FS_AddElement
<1>2. (S \cup {z}) \ {z} = S OBVIOUS
<1>3. z \in S \cup {z} OBVIOUS
<1> QED BY <1>1, <1>2, <1>3, SumRemove

\* A sum depends on what is summed.
LEMMA SumSame ==
  ASSUME NEW f, NEW g, NEW S, IsFiniteSet(S), \A x \in S : f[x] = g[x]
  PROVE  SumFunctionOnSet(f, S) = SumFunctionOnSet(g, S)
<1> DEFINE B == {T \in SUBSET S : SumFunctionOnSet(f, T) # SumFunctionOnSet(g, T)}
<1>1. SUFFICES ASSUME B # {} PROVE FALSE OBVIOUS
<1>2. \A T \in B : IsFiniteSet(T) BY FS_Subset
<1>3. PICK T \in B : \A V \in B : V \subseteq T => V = T
  <2> HIDE DEF B
  <2> QED BY <1>1, <1>2, MinimalSet, SMT
<1>4. T # {} /\ IsFiniteSet(T) BY <1>2, <1>3, SumEmpty
<1>5. Pick(T) \in T BY <1>4, PickIn
<1> DEFINE U == T \ {Pick(T)}
<1>6. SumFunctionOnSet(f, U) = SumFunctionOnSet(g, U) BY <1>3, <1>5
<1>7. f[Pick(T)] = g[Pick(T)] BY <1>5
<1>8. SumFunctionOnSet(f, T) = f[Pick(T)] + SumFunctionOnSet(f, U) BY <1>4, SumApart
<1>9. SumFunctionOnSet(g, T) = g[Pick(T)] + SumFunctionOnSet(g, U) BY <1>4, SumApart
<1> QED BY <1>3, <1>6, <1>7, <1>8, <1>9

\* A part of the elements is taken out.
LEMMA SumWithout ==
  ASSUME NEW f, NEW S, IsFiniteSet(S), \A x \in S : f[x] \in Int, NEW U \in SUBSET S
  PROVE  SumFunctionOnSet(f, S) = SumFunctionOnSet(f, U) + SumFunctionOnSet(f, S \ U)
<1> DEFINE Sum(T) == SumFunctionOnSet(f, T)
           B == {T \in SUBSET S : Sum(S) # Sum(T) + Sum(S \ T)}
<1>1. SUFFICES ASSUME B # {} PROVE FALSE OBVIOUS
<1>2. \A T \in SUBSET S : IsFiniteSet(T) /\ Sum(T) \in Int BY FS_Subset, SumInt
<1>3. PICK T \in B : \A V \in B : V \subseteq T => V = T
  <2>1. \A T \in B : IsFiniteSet(T) BY <1>2
  <2> HIDE DEF B
  <2> QED BY <1>1, <2>1, MinimalSet, SMT
<1>4. T # {}
  <2>1. S \ {} = S /\ Sum({}) = 0 BY SumEmpty
  <2>2. Sum(S) \in Int BY <1>2
  <2>3. Sum(S) # Sum(T) + Sum(S \ T) BY <1>3
  <2> HIDE DEF Sum
  <2> QED BY <2>1, <2>2, <2>3
<1>5. PICK x \in T : TRUE BY <1>4
<1> DEFINE R == T \ {x}
<1>6. R \in SUBSET S /\ S \ T \in SUBSET S /\ T \in SUBSET S /\ x \in S BY <1>3
<1>7. Sum(S) = Sum(R) + Sum(S \ R) BY <1>3, <1>5
<1>8. Sum(T) = f[x] + Sum(R) BY <1>2, <1>6, SumRemove
<1>9. Sum(S \ R) = f[x] + Sum(S \ T)
  <2>1. S \ R = (S \ T) \cup {x} /\ x \notin S \ T BY <1>5, <1>6
  <2>2. IsFiniteSet(S \ T) BY <1>2, <1>6
  <2>3. \A y \in (S \ T) \cup {x} : f[y] \in Int BY <1>6
  <2> QED BY <2>1, <2>2, <2>3, SumAdd
<1>10. f[x] \in Int /\ Sum(R) \in Int /\ Sum(S \ T) \in Int BY <1>2, <1>6
<1> HIDE DEF R, Sum
<1> QED BY <1>3, <1>7, <1>8, <1>9, <1>10 DEF Sum

\* A sum of numbers that are not negative.
LEMMA SumNat ==
  ASSUME NEW f, NEW S, IsFiniteSet(S), \A x \in S : f[x] \in Nat
  PROVE  SumFunctionOnSet(f, S) \in Nat
<1> DEFINE B == {T \in SUBSET S : SumFunctionOnSet(f, T) \notin Nat}
<1>1. SUFFICES ASSUME B # {} PROVE FALSE OBVIOUS
<1>2. \A T \in B : IsFiniteSet(T) BY FS_Subset
<1>3. PICK T \in B : \A V \in B : V \subseteq T => V = T
  <2> HIDE DEF B
  <2> QED BY <1>1, <1>2, MinimalSet, SMT
<1>4. T # {} /\ IsFiniteSet(T)
  <2>1. SumFunctionOnSet(f, {}) \in Nat BY SumEmpty
  <2>2. SumFunctionOnSet(f, T) \notin Nat BY <1>3
  <2> QED BY <1>2, <1>3, <2>1, <2>2
<1>5. Pick(T) \in T BY <1>4, PickIn
<1>6. SumFunctionOnSet(f, T \ {Pick(T)}) \in Nat BY <1>3, <1>5
<1>7. f[Pick(T)] \in Nat BY <1>5
<1>8. SumFunctionOnSet(f, T) = f[Pick(T)] + SumFunctionOnSet(f, T \ {Pick(T)})
  BY <1>4, SumApart
<1> QED BY <1>3, <1>6, <1>7, <1>8

-----------------------------------------------------------------------------
(* Recursion over the numbers up to n, and folds of sequences.             *)

RecBy(base, c, n, f) ==
  f = [k \in 0 .. n |-> IF k = 0 THEN base ELSE FoldOp(f[k - 1], k, c)]
RecOf(base, c, n) == CHOOSE f : RecBy(base, c, n, f)

\* A recursive function has the values its definition says.
LEMMA RecExists ==
  ASSUME NEW base, NEW c, NEW n \in Nat
  PROVE  RecBy(base, c, n, RecOf(base, c, n))
<1> DEFINE B == {b \in Nat : ~ \E f : RecBy(base, c, b, f)}
<1>1. B = {}
  <2>1. SUFFICES ASSUME B # {} PROVE FALSE OBVIOUS
  <2>2. PICK b \in B : \A a \in B : b <= a
    <3> HIDE DEF B
    <3>1. B \in SUBSET Nat BY DEF B
    <3> QED BY <2>1, <3>1, LeastNat
  <2>3. b # 0
    <3>1. RecBy(base, c, 0, [k \in 0 .. 0 |-> base]) BY DEF RecBy
    <3> QED BY <2>2, <3>1
  <2>4. b - 1 \in Nat /\ ~(b - 1 \in B) BY <2>2, <2>3
  <2>5. PICK f : RecBy(base, c, b - 1, f) BY <2>4
  <2> DEFINE g == [k \in 0 .. b |-> IF k = b THEN FoldOp(f[b - 1], b, c) ELSE f[k]]
  <2>6. \A k \in 0 .. b : g[k] = IF k = 0 THEN base ELSE FoldOp(g[k - 1], k, c)
    BY <2>3, <2>4, <2>5 DEF RecBy
  <2>7. RecBy(base, c, b, g) BY <2>6 DEF RecBy
  <2> QED BY <2>2, <2>7
<1>2. \E f : RecBy(base, c, n, f) BY <1>1
<1> QED BY <1>2 DEF RecOf

\* FoldLeft(LAMBDA a, x : FoldOp(a, x, c), base, s), as SequencesExt defines it.
Folded(base, s, c) ==
  MapThenFoldSet(LAMBDA x, y : FoldOp(y, x, c), base, LAMBDA i : s[i], LAMBDA S : Max(S), DOMAIN s)

FoldsBy(base, s, c, D, g) ==
  g = [u \in SUBSET D |-> IF u = {} THEN base ELSE FoldOp(g[u \ {Max(u)}], s[Max(u)], c)]
FoldsOf(base, s, c, D) == CHOOSE g : FoldsBy(base, s, c, D, g)

\* Max of a set of numbers that are at most n.
LEMMA MaxIsLargest ==
  ASSUME NEW u, NEW n \in u, u \subseteq Int, \A x \in u : x <= n
  PROVE  Max(u) = n
<1>1. \E x \in u : \A y \in u : x >= y OBVIOUS
<1>2. Max(u) \in u /\ \A y \in u : Max(u) >= y BY <1>1, Zenon DEF Max
<1>3. Max(u) >= n /\ Max(u) <= n BY <1>2
<1>4. Max(u) \in Int /\ n \in Int BY <1>2
<1> HIDE DEF Max
<1> QED BY <1>3, <1>4

\* The recursion over subsets has a solution.
LEMMA FoldsExist ==
  ASSUME NEW base, NEW c, NEW s, NEW n \in Nat
  PROVE  FoldsBy(base, s, c, 1 .. n, FoldsOf(base, s, c, 1 .. n))
<1> DEFINE B == {b \in Nat : ~ \E g : FoldsBy(base, s, c, 1 .. b, g)}
<1>1. B = {}
  <2>1. SUFFICES ASSUME B # {} PROVE FALSE OBVIOUS
  <2>2. PICK b \in B : \A a \in B : b <= a
    <3> HIDE DEF B
    <3>1. B \in SUBSET Nat BY DEF B
    <3> QED BY <2>1, <3>1, LeastNat
  <2>3. b # 0
    <3>1. 1 .. 0 = {} OBVIOUS
    <3>2. FoldsBy(base, s, c, 1 .. 0, [u \in SUBSET (1 .. 0) |-> base]) BY <3>1 DEF FoldsBy
    <3> QED BY <2>2, <3>2
  <2>4. b - 1 \in Nat /\ ~(b - 1 \in B) BY <2>2, <2>3
  <2>5. PICK f : FoldsBy(base, s, c, 1 .. b - 1, f) BY <2>4
  <2> DEFINE g == [u \in SUBSET (1 .. b) |->
                     IF b \in u THEN FoldOp(f[u \ {b}], s[b], c) ELSE f[u]]
  <2>6. ASSUME NEW u \in SUBSET (1 .. b)
        PROVE  g[u] = IF u = {} THEN base ELSE FoldOp(g[u \ {Max(u)}], s[Max(u)], c)
    <3>1. CASE b \in u
      <4>1. Max(u) = b
        <5>1. b \in u /\ u \subseteq Int /\ \A x \in u : x <= b BY <3>1
        <5> QED BY <5>1, MaxIsLargest
      <4>2. u \ {b} \in SUBSET (1 .. b - 1) /\ u \ {b} \in SUBSET (1 .. b) BY <2>4
      <4>3. g[u \ {b}] = f[u \ {b}] BY <4>2
      <4> QED BY <3>1, <4>1, <4>3
    <3>2. CASE b \notin u
      <4>1. u \in SUBSET (1 .. b - 1) /\ g[u] = f[u] BY <3>2, <2>4
      <4>2. f[u] = IF u = {} THEN base ELSE FoldOp(f[u \ {Max(u)}], s[Max(u)], c)
        BY <2>5, <4>1 DEF FoldsBy
      <4>3. g[u \ {Max(u)}] = f[u \ {Max(u)}]
        <5>1. u \ {Max(u)} \in SUBSET (1 .. b) /\ b \notin u \ {Max(u)} BY <3>2
        <5> QED BY <5>1
      <4> HIDE DEF g
      <4> QED BY <4>1, <4>2, <4>3
    <3> QED BY <3>1, <3>2
  <2>7. FoldsBy(base, s, c, 1 .. b, g) BY <2>6 DEF FoldsBy
  <2> QED BY <2>2, <2>7
<1>2. \E g : FoldsBy(base, s, c, 1 .. n, g) BY <1>1
<1> QED BY <1>2 DEF FoldsOf

\* The values that a fold goes through.
IsRun(f, base, s, c) ==
  f[0] = base /\ \A k \in 1 .. Len(s) : f[k] = FoldOp(f[k - 1], s[k], c)

\* A fold takes one element after the other, and is the last value.
LEMMA FoldRuns ==
  ASSUME NEW base, NEW c, NEW s, Len(s) \in Nat, DOMAIN s = 1 .. Len(s)
  PROVE  \E f : IsRun(f, base, s, c) /\ Folded(base, s, c) = f[Len(s)]
<1> DEFINE n == Len(s)
           g == FoldsOf(base, s, c, 1 .. n)
           f == [k \in 0 .. n |-> g[1 .. k]]
<1>1. Folded(base, s, c) = g[1 .. n]
  BY DEF Folded, MapThenFoldSet, FoldsOf, FoldsBy
<1>2. FoldsBy(base, s, c, 1 .. n, g) BY FoldsExist
<1> HIDE DEF g
<1>3. f[0] = base
  <2>1. 1 .. 0 = {} /\ {} \in SUBSET (1 .. n) OBVIOUS
  <2>2. g[{}] = base BY <1>2, <2>1 DEF FoldsBy
  <2> QED BY <2>1, <2>2
<1>4. ASSUME NEW k \in 1 .. n PROVE f[k] = FoldOp(f[k - 1], s[k], c)
  <2>1. 1 .. k \in SUBSET (1 .. n) /\ 1 .. k # {} /\ (1 .. k) \ {k} = 1 .. k - 1 OBVIOUS
  <2>2. Max(1 .. k) = k
    <3>1. k \in 1 .. k /\ 1 .. k \subseteq Int /\ \A x \in 1 .. k : x <= k OBVIOUS
    <3> QED BY <3>1, MaxIsLargest
  <2>3. g[1 .. k] = FoldOp(g[(1 .. k) \ {k}], s[k], c) BY <1>2, <2>1, <2>2 DEF FoldsBy
  <2>4. g[1 .. k] = FoldOp(g[1 .. k - 1], s[k], c) BY <2>1, <2>3
  <2>5. f[k] = g[1 .. k] /\ f[k - 1] = g[1 .. k - 1] OBVIOUS
  <2> QED BY <2>4, <2>5
<1>5. f[n] = g[1 .. n] OBVIOUS
<1> HIDE DEF f
<1> QED BY <1>1, <1>3, <1>4, <1>5 DEF IsRun

=============================================================================
