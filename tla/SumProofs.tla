------------------------------ MODULE SumProofs ------------------------------
(***************************************************************************)
(* Sums over finite sets, which the balances of the ledger, the reports    *)
(* and the drafts of receipts are made of.                                 *)
(*                                                                         *)
(* The folds of the library are recursive functions over the subsets of a  *)
(* set.  What they compute is shown by the smallest set for which it would *)
(* not be so; the family of the sets for which it is so stands for the     *)
(* predicate of an induction.                                              *)
(***************************************************************************)
EXTENDS Integers, FiniteSets, Functions, FiniteSetsExt, FiniteSetTheorems, WellFoundedInduction, TLAPS

(* A set of numbers that is not empty has a least one. *)
LEMMA LeastNumber ==
    ASSUME NEW S \in SUBSET Nat, S # {}
    PROVE  \E n \in S : \A m \in S : n <= m
  <1>1. PICK n \in S : \A m \in S : ~ (<<m, n>> \in OpToRel(<, Nat))
    BY NatLessThanWellFounded, WFMin
  <1>2. \A m \in S : ~ (m < n)
    BY <1>1 DEF OpToRel
  <1>3. QED
    BY <1>2

(* A family of subsets of a finite set that has every set of which it has  *)
(* the smaller ones has them all.                                          *)
LEMMA SubsetInduction ==
    ASSUME NEW T, IsFiniteSet(T), NEW P,
           \A s \in SUBSET T : (\A r \in SUBSET s : r # s => r \in P) => s \in P
    PROVE  \A s \in SUBSET T : s \in P
  <1> DEFINE Bad == {n \in Nat : \E s \in SUBSET T : s \notin P /\ Cardinality(s) = n}
  <1>1. \A s \in SUBSET T : IsFiniteSet(s) /\ Cardinality(s) \in Nat
    BY FS_Subset, FS_CardinalityType
  <1>2. Bad = {}
    <2> SUFFICES ASSUME Bad # {} PROVE FALSE
      OBVIOUS
    <2>1. PICK n \in Bad : \A m \in Bad : n <= m
      <3>1. Bad \in SUBSET Nat
        OBVIOUS
      <3> HIDE DEF Bad
      <3>2. QED
        BY <3>1, LeastNumber
    <2>2. PICK s \in SUBSET T : s \notin P /\ Cardinality(s) = n
      OBVIOUS
    <2>3. PICK r \in SUBSET s : r # s /\ r \notin P
      BY <2>2
    <2>4. Cardinality(r) < Cardinality(s)
      BY <1>1, <2>3, FS_Subset
    <2>5. r \in SUBSET T /\ Cardinality(r) \in Nat
      BY <1>1, <2>3
    <2>6. Cardinality(r) \in Bad
      BY <2>3, <2>5
    <2>7. n \in Nat
      OBVIOUS
    <2>8. QED
      BY <2>1, <2>2, <2>4, <2>5, <2>6, <2>7
  <1>3. QED
    BY <1>1, <1>2

(***************************************************************************)
(* What a sum is: the value at T of the recursive function of the library. *)
(***************************************************************************)
(* The value of a sum over s, if sum has those of the smaller sets.        *)
OneOf(s) == CHOOSE x \in s : TRUE
Adds(f, sum, s) == IF s = {} THEN 0 ELSE f[OneOf(s)] + sum[s \ {OneOf(s)}]

Numbers(f, T) == \A x \in T : f[x] \in Int
IsSum(f, sum, T) ==
    sum \in [SUBSET T -> Int] /\ sum = [s \in SUBSET T |-> Adds(f, sum, s)]

(* There are sums of a finite number of terms. *)
LEMMA SumsExist ==
    ASSUME NEW T, IsFiniteSet(T), NEW f, Numbers(f, T)
    PROVE  \E sum : IsSum(f, sum, T)
  <1>1. ASSUME NEW sum \in [SUBSET T -> Int], NEW s \in SUBSET T
        PROVE  Adds(f, sum, s) \in Int
    <2>1. CASE s = {}
      BY <2>1 DEF Adds
    <2>2. CASE s # {}
      <3>1. OneOf(s) \in T /\ s \ {OneOf(s)} \in SUBSET T
        BY <2>2 DEF OneOf
      <3>2. f[OneOf(s)] \in Int /\ sum[s \ {OneOf(s)}] \in Int
        BY <3>1 DEF Numbers
      <3>3. QED
        BY <2>2, <3>2 DEF Adds
    <2>3. QED
      BY <2>1, <2>2
  <1> DEFINE Has(n) == \E sum \in [SUBSET T -> Int] :
                           \A s \in SUBSET T : Cardinality(s) <= n => sum[s] = Adds(f, sum, s)
             Bad == {n \in Nat : ~Has(n)}
  <1>2. \A s \in SUBSET T : /\ IsFiniteSet(s) /\ Cardinality(s) \in Nat
                            /\ Cardinality(s) <= Cardinality(T)
    BY FS_Subset, FS_CardinalityType
  <1>3. \A s \in SUBSET T : s # {} =>
            /\ OneOf(s) \in s /\ s \ {OneOf(s)} \in SUBSET T
            /\ Cardinality(s) # 0
            /\ Cardinality(s \ {OneOf(s)}) = Cardinality(s) - 1
    BY <1>2, FS_RemoveElement, FS_EmptySet DEF OneOf
  <1>4. Bad = {}
    <2> SUFFICES ASSUME Bad # {} PROVE FALSE
      OBVIOUS
    <2>1. PICK n \in Bad : \A m \in Bad : n <= m
      <3>1. Bad \in SUBSET Nat
        OBVIOUS
      <3> HIDE DEF Bad
      <3>2. QED
        BY <3>1, LeastNumber
    <2>2. n \in Nat /\ ~Has(n)
      OBVIOUS
    <2>3. n # 0
      <3> SUFFICES ASSUME n = 0 PROVE FALSE
        OBVIOUS
      <3> DEFINE sum == [s \in SUBSET T |-> 0]
      <3>1. sum \in [SUBSET T -> Int]
        OBVIOUS
      <3>2. ASSUME NEW s \in SUBSET T, Cardinality(s) <= 0 PROVE s = {}
        BY <1>2, <3>2, FS_EmptySet
      <3>3. \A s \in SUBSET T : Cardinality(s) <= 0 => sum[s] = Adds(f, sum, s)
        BY <3>2 DEF Adds
      <3>4. QED
        BY <2>2, <3>1, <3>3
    <2>4. n - 1 \in Nat /\ Has(n - 1)
      <3>1. n - 1 \in Nat /\ ~(n <= n - 1)
        BY <2>2, <2>3
      <3>2. n - 1 \notin Bad
        <4> HIDE DEF Bad
        <4>1. QED
          BY <2>1, <3>1
      <3>3. QED
        BY <3>1, <3>2
    <2>5. PICK less \in [SUBSET T -> Int] :
              \A s \in SUBSET T : Cardinality(s) <= n - 1 => less[s] = Adds(f, less, s)
      BY <2>4
    <2> DEFINE sum == [s \in SUBSET T |-> IF Cardinality(s) = n THEN Adds(f, less, s) ELSE less[s]]
    <2>6. sum \in [SUBSET T -> Int]
      BY <1>1
    <2>7. ASSUME NEW s \in SUBSET T, Cardinality(s) <= n PROVE sum[s] = Adds(f, sum, s)
      <3>1. sum[s] = Adds(f, less, s)
        BY <1>2, <2>2, <2>5, <2>7
      <3>2. CASE s = {}
        BY <3>1, <3>2 DEF Adds
      <3>3. CASE s # {}
        <4>1. s \ {OneOf(s)} \in SUBSET T /\ Cardinality(s \ {OneOf(s)}) # n
          BY <1>2, <1>3, <2>2, <2>7, <3>3
        <4>2. sum[s \ {OneOf(s)}] = less[s \ {OneOf(s)}]
          BY <4>1
        <4>3. QED
          BY <3>1, <3>3, <4>2 DEF Adds
      <3>4. QED
        BY <3>2, <3>3
    <2> HIDE DEF sum
    <2>8. QED
      BY <2>2, <2>6, <2>7
  <1>5. Cardinality(T) \in Nat
    BY FS_CardinalityType
  <1>6. Has(Cardinality(T))
    BY <1>4, <1>5
  <1>7. PICK sum \in [SUBSET T -> Int] :
            \A s \in SUBSET T : Cardinality(s) <= Cardinality(T) => sum[s] = Adds(f, sum, s)
    BY <1>6
  <1>8. sum = [s \in SUBSET T |-> Adds(f, sum, s)]
    BY <1>2, <1>7
  <1>9. QED
    BY <1>8 DEF IsSum

(* Two sums of the same terms are the same. *)
LEMMA SumsAgree ==
    ASSUME NEW T, IsFiniteSet(T), NEW A, NEW B, T \subseteq A, T \subseteq B,
           NEW f, NEW g, \A x \in T : f[x] = g[x],
           NEW sum, IsSum(f, sum, A), NEW all, IsSum(g, all, B)
    PROVE  sum[T] = all[T]
  <1> DEFINE P == {s \in SUBSET T : sum[s] = all[s]}
  <1>1. ASSUME NEW s \in SUBSET T, \A r \in SUBSET s : r # s => r \in P
        PROVE  s \in P
    <2>1. sum[s] = Adds(f, sum, s) /\ all[s] = Adds(g, all, s)
      <3>1. s \in SUBSET A /\ s \in SUBSET B
        OBVIOUS
      <3>2. QED
        BY <3>1 DEF IsSum
    <2>2. CASE s = {}
      BY <2>1, <2>2 DEF Adds
    <2>3. CASE s # {}
      <3>1. OneOf(s) \in s
        BY <2>3 DEF OneOf
      <3>2. s \ {OneOf(s)} \in P
        BY <1>1, <3>1
      <3>3. f[OneOf(s)] = g[OneOf(s)]
        BY <3>1
      <3>4. QED
        BY <2>1, <2>3, <3>2, <3>3 DEF Adds
    <2>4. QED
      BY <2>2, <2>3
  <1> HIDE DEF P
  <1>2. \A s \in SUBSET T : s \in P
    BY <1>1, SubsetInduction
  <1>3. QED
    BY <1>2 DEF P

(* The sum of the library is one. *)
LEMMA SumIs ==
    ASSUME NEW T, IsFiniteSet(T), NEW f, Numbers(f, T)
    PROVE  \E sum : IsSum(f, sum, T) /\ SumFunctionOnSet(f, T) = sum[T]
  <1> DEFINE sum == CHOOSE g : g = [s \in SUBSET T |-> Adds(f, g, s)]
  <1>1. PICK all : IsSum(f, all, T)
    BY SumsExist
  <1>2. sum = [s \in SUBSET T |-> Adds(f, sum, s)]
    <2>1. all = [s \in SUBSET T |-> Adds(f, all, s)]
      BY <1>1 DEF IsSum
    <2>2. QED
      BY <2>1
  <1>3. SumFunctionOnSet(f, T) = sum[T]
    BY DEF SumFunctionOnSet, FoldFunctionOnSet, MapThenFoldSet, Adds, OneOf
  <1> HIDE DEF sum
  <1> DEFINE P == {s \in SUBSET T : sum[s] = all[s]}
  <1>4. ASSUME NEW s \in SUBSET T, \A r \in SUBSET s : r # s => r \in P
        PROVE  s \in P
    <2>1. sum[s] = Adds(f, sum, s) /\ all[s] = Adds(f, all, s)
      BY <1>1, <1>2 DEF IsSum
    <2>2. s # {} => s \ {OneOf(s)} \in P
      BY <1>4 DEF OneOf
    <2>3. QED
      BY <2>1, <2>2 DEF Adds
  <1> HIDE DEF P
  <1>5. \A s \in SUBSET T : s \in P
    BY <1>4, SubsetInduction
  <1>6. SumFunctionOnSet(f, T) = all[T]
    BY <1>3, <1>5 DEF P
  <1>7. QED
    BY <1>1, <1>6

(* A sum is a number, and that of no terms is zero. *)
LEMMA SumType ==
    ASSUME NEW T, IsFiniteSet(T), NEW f, Numbers(f, T)
    PROVE  SumFunctionOnSet(f, T) \in Int
  <1>1. PICK sum : IsSum(f, sum, T) /\ SumFunctionOnSet(f, T) = sum[T]
    BY SumIs
  <1>2. QED
    BY <1>1 DEF IsSum

LEMMA SumOfNone ==
    ASSUME NEW f
    PROVE  SumFunctionOnSet(f, {}) = 0
  <1>1. IsFiniteSet({}) /\ Numbers(f, {})
    BY FS_EmptySet DEF Numbers
  <1>2. PICK sum : IsSum(f, sum, {}) /\ SumFunctionOnSet(f, {}) = sum[{}]
    BY <1>1, SumIs
  <1>3. sum[{}] = Adds(f, sum, {})
    BY <1>2 DEF IsSum
  <1>4. QED
    BY <1>2, <1>3 DEF Adds

(* Equal terms have equal sums. *)
LEMMA SumOfEquals ==
    ASSUME NEW T, IsFiniteSet(T), NEW f, NEW g, Numbers(f, T), \A x \in T : f[x] = g[x]
    PROVE  SumFunctionOnSet(f, T) = SumFunctionOnSet(g, T)
  <1>1. Numbers(g, T)
    BY DEF Numbers
  <1>2. PICK sum : IsSum(f, sum, T) /\ SumFunctionOnSet(f, T) = sum[T]
    BY SumIs
  <1>3. PICK all : IsSum(g, all, T) /\ SumFunctionOnSet(g, T) = all[T]
    BY <1>1, SumIs
  <1>4. sum[T] = all[T]
    BY <1>2, <1>3, SumsAgree
  <1>5. QED
    BY <1>2, <1>3, <1>4

(* A sum is any one of its terms and the sum of the others. *)
LEMMA SumTakes ==
    ASSUME NEW T, IsFiniteSet(T), NEW f, Numbers(f, T)
    PROVE  \A x \in T : SumFunctionOnSet(f, T) = f[x] + SumFunctionOnSet(f, T \ {x})
  <1> DEFINE P == {s \in SUBSET T :
                     \A x \in s : SumFunctionOnSet(f, s) = f[x] + SumFunctionOnSet(f, s \ {x})}
  <1>1. \A s \in SUBSET T : IsFiniteSet(s) /\ Numbers(f, s) /\ SumFunctionOnSet(f, s) \in Int
    <2>1. \A s \in SUBSET T : IsFiniteSet(s) /\ Numbers(f, s)
      BY FS_Subset DEF Numbers
    <2>2. QED
      BY <2>1, SumType
  <1>2. ASSUME NEW s \in SUBSET T, s # {}
        PROVE  /\ OneOf(s) \in s
               /\ SumFunctionOnSet(f, s) = f[OneOf(s)] + SumFunctionOnSet(f, s \ {OneOf(s)})
    <2>1. OneOf(s) \in s
      BY <1>2 DEF OneOf
    <2> DEFINE rest == s \ {OneOf(s)}
    <2>2. /\ IsFiniteSet(s) /\ IsFiniteSet(rest)
          /\ Numbers(f, s) /\ Numbers(f, rest)
      BY <1>1
    <2>3. PICK sum : IsSum(f, sum, s) /\ SumFunctionOnSet(f, s) = sum[s]
      BY <2>2, SumIs
    <2>4. PICK all : IsSum(f, all, rest) /\ SumFunctionOnSet(f, rest) = all[rest]
      BY <2>2, SumIs
    <2>5. sum[rest] = all[rest]
      <3>1. rest \subseteq s /\ rest \subseteq rest /\ \A x \in rest : f[x] = f[x]
        OBVIOUS
      <3> HIDE DEF rest
      <3>2. QED
        BY <2>2, <2>3, <2>4, <3>1, SumsAgree
    <2>6. sum[s] = Adds(f, sum, s)
      BY <2>3 DEF IsSum
    <2>7. sum[s] = f[OneOf(s)] + sum[rest]
      BY <1>2, <2>6 DEF Adds
    <2>8. QED
      BY <2>1, <2>3, <2>4, <2>5, <2>7
  <1>3. ASSUME NEW s \in SUBSET T, \A r \in SUBSET s : r # s => r \in P
        PROVE  s \in P
    <2> SUFFICES ASSUME NEW x \in s
                 PROVE  SumFunctionOnSet(f, s) = f[x] + SumFunctionOnSet(f, s \ {x})
      OBVIOUS
    <2> DEFINE c == OneOf(s)
    <2>1. c \in s /\ SumFunctionOnSet(f, s) = f[c] + SumFunctionOnSet(f, s \ {c})
      BY <1>2
    <2>2. CASE x = c
      BY <2>1, <2>2
    <2>3. CASE x # c
      <3>1. s \ {c} \in P /\ s \ {x} \in P
        BY <1>3, <2>1
      <3>2. SumFunctionOnSet(f, s \ {c}) = f[x] + SumFunctionOnSet(f, (s \ {c}) \ {x})
        BY <2>3, <3>1
      <3>3. SumFunctionOnSet(f, s \ {x}) = f[c] + SumFunctionOnSet(f, (s \ {x}) \ {c})
        BY <2>1, <2>3, <3>1
      <3>4. (s \ {x}) \ {c} = (s \ {c}) \ {x}
        OBVIOUS
      <3>5. f[x] \in Int /\ f[c] \in Int
        BY <2>1 DEF Numbers
      <3>6. SumFunctionOnSet(f, (s \ {c}) \ {x}) \in Int
        <4>1. (s \ {c}) \ {x} \in SUBSET T
          OBVIOUS
        <4>2. QED
          BY <1>1, <4>1
      <3>7. PICK rest \in Int : rest = SumFunctionOnSet(f, (s \ {c}) \ {x})
        BY <3>6
      <3>8. SumFunctionOnSet(f, s \ {c}) = f[x] + rest /\ SumFunctionOnSet(f, s \ {x}) = f[c] + rest
        BY <3>2, <3>3, <3>4, <3>7
      <3> HIDE DEF c
      <3>9. QED
        BY <2>1, <3>5, <3>8
    <2>4. QED
      BY <2>2, <2>3
  <1> HIDE DEF P
  <1>4. \A s \in SUBSET T : s \in P
    BY <1>3, SubsetInduction
  <1>5. QED
    BY <1>4 DEF P

(* Sums over sets that share nothing add up. *)
LEMMA SumJoins ==
    ASSUME NEW A, NEW B, IsFiniteSet(A), IsFiniteSet(B), A \cap B = {},
           NEW f, Numbers(f, A), Numbers(f, B)
    PROVE  SumFunctionOnSet(f, A \cup B) = SumFunctionOnSet(f, A) + SumFunctionOnSet(f, B)
  <1> DEFINE P == {s \in SUBSET B :
                     SumFunctionOnSet(f, A \cup s) = SumFunctionOnSet(f, A) + SumFunctionOnSet(f, s)}
  <1>1. \A s \in SUBSET B : /\ IsFiniteSet(s) /\ IsFiniteSet(A \cup s)
                            /\ Numbers(f, s) /\ Numbers(f, A \cup s)
                            /\ SumFunctionOnSet(f, s) \in Int
    <2>1. \A s \in SUBSET B : /\ IsFiniteSet(s) /\ IsFiniteSet(A \cup s)
                              /\ Numbers(f, s) /\ Numbers(f, A \cup s)
      BY FS_Subset, FS_Union DEF Numbers
    <2>2. QED
      BY <2>1, SumType
  <1>2. SumFunctionOnSet(f, A) \in Int
    BY SumType
  <1>3. ASSUME NEW s \in SUBSET B, \A r \in SUBSET s : r # s => r \in P
        PROVE  s \in P
    <2>1. CASE s = {}
      <3>1. A \cup s = A
        BY <2>1
      <3>2. SumFunctionOnSet(f, A \cup s) = SumFunctionOnSet(f, A)
        BY <3>1, Zenon
      <3>3. SumFunctionOnSet(f, s) = 0
        BY <2>1, SumOfNone
      <3>4. SumFunctionOnSet(f, A \cup s) = SumFunctionOnSet(f, A) + SumFunctionOnSet(f, s)
        BY <1>2, <3>2, <3>3
      <3>5. QED
        BY <3>4
    <2>2. CASE s # {}
      <3>1. PICK x \in s : TRUE
        BY <2>2
      <3>2. s \ {x} \in SUBSET B /\ s \ {x} # s
        BY <3>1
      <3>3. s \ {x} \in P
        BY <1>3, <3>1
      <3>4. SumFunctionOnSet(f, s) = f[x] + SumFunctionOnSet(f, s \ {x})
        BY <1>1, <3>1, SumTakes
      <3>5. SumFunctionOnSet(f, A \cup s) = f[x] + SumFunctionOnSet(f, (A \cup s) \ {x})
        BY <1>1, <3>1, SumTakes
      <3>6. (A \cup s) \ {x} = A \cup (s \ {x})
        BY <3>1
      <3>7. f[x] \in Int
        BY <3>1 DEF Numbers
      <3>8. PICK rest \in Int : rest = SumFunctionOnSet(f, s \ {x})
        BY <1>1, <3>2
      <3>9. SumFunctionOnSet(f, A \cup (s \ {x})) = SumFunctionOnSet(f, A) + rest
        BY <3>3, <3>8
      <3>10. /\ SumFunctionOnSet(f, s) = f[x] + rest
             /\ SumFunctionOnSet(f, A \cup s) = f[x] + (SumFunctionOnSet(f, A) + rest)
        BY <3>4, <3>5, <3>6, <3>8, <3>9
      <3>11. SumFunctionOnSet(f, A \cup s) = SumFunctionOnSet(f, A) + SumFunctionOnSet(f, s)
        BY <1>2, <3>7, <3>10
      <3>12. QED
        BY <3>11
    <2>3. QED
      BY <2>1, <2>2
  <1> HIDE DEF P
  <1>4. \A s \in SUBSET B : s \in P
    BY <1>3, SubsetInduction
  <1>5. QED
    BY <1>4 DEF P

(* Larger terms have a larger sum. *)
LEMMA SumOfLarger ==
    ASSUME NEW T, IsFiniteSet(T), NEW f, NEW g, Numbers(f, T), Numbers(g, T),
           \A x \in T : f[x] <= g[x]
    PROVE  /\ SumFunctionOnSet(f, T) <= SumFunctionOnSet(g, T)
           /\ (\E x \in T : f[x] < g[x]) => SumFunctionOnSet(f, T) < SumFunctionOnSet(g, T)
  <1> DEFINE Larger(s) == /\ SumFunctionOnSet(f, s) <= SumFunctionOnSet(g, s)
                          /\ (\E x \in s : f[x] < g[x])
                               => SumFunctionOnSet(f, s) < SumFunctionOnSet(g, s)
             P == {s \in SUBSET T : Larger(s)}
  <1>1. \A s \in SUBSET T : /\ IsFiniteSet(s) /\ Numbers(f, s) /\ Numbers(g, s)
                            /\ SumFunctionOnSet(f, s) \in Int /\ SumFunctionOnSet(g, s) \in Int
    <2>1. \A s \in SUBSET T : IsFiniteSet(s) /\ Numbers(f, s) /\ Numbers(g, s)
      BY FS_Subset DEF Numbers
    <2>2. QED
      BY <2>1, SumType
  <1>2. ASSUME NEW s \in SUBSET T, \A r \in SUBSET s : r # s => r \in P
        PROVE  s \in P
    <2>1. CASE s = {}
      <3>1. SumFunctionOnSet(f, s) = 0 /\ SumFunctionOnSet(g, s) = 0
        BY <2>1, SumOfNone
      <3>2. Larger(s)
        BY <2>1, <3>1
      <3>3. QED
        BY <3>2
    <2>2. CASE s # {}
      <3>1. PICK x \in s : (\E y \in s : f[y] < g[y]) => f[x] < g[x]
        BY <2>2
      <3>2. s \ {x} \in P /\ s \ {x} \in SUBSET T
        BY <1>2, <3>1
      <3>3. /\ SumFunctionOnSet(f, s) = f[x] + SumFunctionOnSet(f, s \ {x})
            /\ SumFunctionOnSet(g, s) = g[x] + SumFunctionOnSet(g, s \ {x})
        BY <1>1, <3>1, SumTakes
      <3>4. SumFunctionOnSet(f, s \ {x}) <= SumFunctionOnSet(g, s \ {x})
        BY <3>2
      <3>5. f[x] \in Int /\ g[x] \in Int /\ f[x] <= g[x]
        BY <3>1 DEF Numbers
      <3>6. SumFunctionOnSet(f, s \ {x}) \in Int /\ SumFunctionOnSet(g, s \ {x}) \in Int
        BY <1>1, <3>2
      <3>7. Larger(s)
        BY <3>1, <3>3, <3>4, <3>5, <3>6
      <3>8. QED
        BY <3>7
    <2>3. QED
      BY <2>1, <2>2
  <1> HIDE DEF P
  <1>3. \A s \in SUBSET T : s \in P
    BY <1>2, SubsetInduction
  <1>4. Larger(T)
    BY <1>3 DEF P
  <1>5. QED
    BY <1>4

(* The sum of differences is the difference of the sums. *)
LEMMA SumOfDifferences ==
    ASSUME NEW T, IsFiniteSet(T), NEW f, NEW g, NEW d, Numbers(f, T), Numbers(g, T),
           \A x \in T : d[x] = f[x] - g[x]
    PROVE  SumFunctionOnSet(d, T) = SumFunctionOnSet(f, T) - SumFunctionOnSet(g, T)
  <1> DEFINE P == {s \in SUBSET T :
                     SumFunctionOnSet(d, s) = SumFunctionOnSet(f, s) - SumFunctionOnSet(g, s)}
  <1>1. \A s \in SUBSET T : /\ IsFiniteSet(s) /\ Numbers(f, s) /\ Numbers(g, s) /\ Numbers(d, s)
                            /\ SumFunctionOnSet(f, s) \in Int /\ SumFunctionOnSet(g, s) \in Int
    <2>1. \A s \in SUBSET T : IsFiniteSet(s) /\ Numbers(f, s) /\ Numbers(g, s) /\ Numbers(d, s)
      BY FS_Subset DEF Numbers
    <2>2. QED
      BY <2>1, SumType
  <1>2. ASSUME NEW s \in SUBSET T, \A r \in SUBSET s : r # s => r \in P
        PROVE  s \in P
    <2>1. CASE s = {}
      <3>1. SumFunctionOnSet(f, s) = 0 /\ SumFunctionOnSet(g, s) = 0 /\ SumFunctionOnSet(d, s) = 0
        BY <2>1, SumOfNone
      <3>2. QED
        BY <3>1
    <2>2. CASE s # {}
      <3>1. PICK x \in s : TRUE
        BY <2>2
      <3>2. s \ {x} \in P /\ s \ {x} \in SUBSET T
        BY <1>2, <3>1
      <3>3. /\ SumFunctionOnSet(f, s) = f[x] + SumFunctionOnSet(f, s \ {x})
            /\ SumFunctionOnSet(g, s) = g[x] + SumFunctionOnSet(g, s \ {x})
            /\ SumFunctionOnSet(d, s) = d[x] + SumFunctionOnSet(d, s \ {x})
        BY <1>1, <3>1, SumTakes
      <3>4. SumFunctionOnSet(d, s \ {x})
              = SumFunctionOnSet(f, s \ {x}) - SumFunctionOnSet(g, s \ {x})
        BY <3>2
      <3>5. f[x] \in Int /\ g[x] \in Int /\ d[x] = f[x] - g[x]
        BY <3>1 DEF Numbers
      <3>6. SumFunctionOnSet(f, s \ {x}) \in Int /\ SumFunctionOnSet(g, s \ {x}) \in Int
        BY <1>1, <3>2
      <3>7. SumFunctionOnSet(d, s) = SumFunctionOnSet(f, s) - SumFunctionOnSet(g, s)
        BY <3>3, <3>4, <3>5, <3>6
      <3>8. QED
        BY <3>7
    <2>3. QED
      BY <2>1, <2>2
  <1> HIDE DEF P
  <1>3. \A s \in SUBSET T : s \in P
    BY <1>2, SubsetInduction
  <1>4. QED
    BY <1>3 DEF P

(* The sum of equal terms is as many times the term. *)
LEMMA SumOfSame ==
    ASSUME NEW T, IsFiniteSet(T), NEW f, NEW n \in Int, \A x \in T : f[x] = n
    PROVE  SumFunctionOnSet(f, T) = Cardinality(T) * n
  <1> DEFINE P == {s \in SUBSET T : SumFunctionOnSet(f, s) = Cardinality(s) * n}
  <1>1. \A s \in SUBSET T : /\ IsFiniteSet(s) /\ Numbers(f, s) /\ Cardinality(s) \in Nat
    BY FS_Subset, FS_CardinalityType DEF Numbers
  <1>2. ASSUME NEW s \in SUBSET T, \A r \in SUBSET s : r # s => r \in P
        PROVE  s \in P
    <2>1. CASE s = {}
      BY <2>1, SumOfNone, FS_EmptySet
    <2>2. CASE s # {}
      <3>1. PICK x \in s : TRUE
        BY <2>2
      <3>2. s \ {x} \in P /\ s \ {x} \in SUBSET T
        BY <1>2, <3>1
      <3>3. SumFunctionOnSet(f, s) = f[x] + SumFunctionOnSet(f, s \ {x})
        BY <1>1, <3>1, SumTakes
      <3>4. Cardinality(s \ {x}) = Cardinality(s) - 1
        BY <1>1, <3>1, FS_RemoveElement
      <3>5. SumFunctionOnSet(f, s) = n + (Cardinality(s) - 1) * n
        BY <3>1, <3>2, <3>3, <3>4
      <3>6. PICK k \in Nat : k = Cardinality(s)
        BY <1>1
      <3>7. n + (k - 1) * n = k * n
        OBVIOUS
      <3>8. QED
        BY <3>5, <3>6, <3>7
    <2>3. QED
      BY <2>1, <2>2
  <1> HIDE DEF P
  <1>3. \A s \in SUBSET T : s \in P
    BY <1>2, SubsetInduction
  <1>4. QED
    BY <1>3 DEF P

(* The sum of so many times each term is so many times the sum.            *)
LEMMA SumOfMultiples ==
    ASSUME NEW T, IsFiniteSet(T), NEW f, Numbers(f, T), NEW n \in Nat, NEW g,
           \A x \in T : g[x] = f[x] * n
    PROVE  SumFunctionOnSet(g, T) = SumFunctionOnSet(f, T) * n
  <1> DEFINE P == {s \in SUBSET T : SumFunctionOnSet(g, s) = SumFunctionOnSet(f, s) * n}
  <1>1. \A s \in SUBSET T : /\ IsFiniteSet(s) /\ Numbers(f, s) /\ Numbers(g, s)
                            /\ SumFunctionOnSet(f, s) \in Int
    <2>1. \A s \in SUBSET T : IsFiniteSet(s) /\ Numbers(f, s) /\ Numbers(g, s)
      BY FS_Subset DEF Numbers
    <2>2. QED
      BY <2>1, SumType
  <1>2. ASSUME NEW s \in SUBSET T, \A r \in SUBSET s : r # s => r \in P
        PROVE  s \in P
    <2>1. CASE s = {}
      BY <2>1, SumOfNone
    <2>2. CASE s # {}
      <3>1. PICK x \in s : TRUE
        BY <2>2
      <3>2. s \ {x} \in P /\ s \ {x} \in SUBSET T
        BY <1>2, <3>1
      <3>3. /\ SumFunctionOnSet(f, s) = f[x] + SumFunctionOnSet(f, s \ {x})
            /\ SumFunctionOnSet(g, s) = g[x] + SumFunctionOnSet(g, s \ {x})
        BY <1>1, <3>1, SumTakes
      <3>4. SumFunctionOnSet(g, s \ {x}) = SumFunctionOnSet(f, s \ {x}) * n
        BY <3>2
      <3>5. PICK rest \in Int : rest = SumFunctionOnSet(f, s \ {x})
        BY <1>1, <3>2
      <3>6. f[x] \in Int /\ g[x] = f[x] * n
        BY <3>1 DEF Numbers
      <3>7. f[x] * n + rest * n = (f[x] + rest) * n
        BY <3>6
      <3>8. SumFunctionOnSet(g, s) = SumFunctionOnSet(f, s) * n
        BY <3>3, <3>4, <3>5, <3>6, <3>7
      <3>9. QED
        BY <3>8
    <2>3. QED
      BY <2>1, <2>2
  <1> HIDE DEF P
  <1>3. \A s \in SUBSET T : s \in P
    BY <1>2, SubsetInduction
  <1>4. QED
    BY <1>3 DEF P

(* The sum of natural numbers is one.                                      *)
LEMMA SumOfNaturals ==
    ASSUME NEW T, IsFiniteSet(T), NEW f, \A x \in T : f[x] \in Nat
    PROVE  SumFunctionOnSet(f, T) \in Nat
  <1> DEFINE zero == [x \in T |-> 0]
  <1>1. Numbers(f, T) /\ Numbers(zero, T) /\ \A x \in T : zero[x] = 0 /\ zero[x] <= f[x]
    BY DEF Numbers
  <1> HIDE DEF zero
  <1>2. SumFunctionOnSet(zero, T) = Cardinality(T) * 0
    BY <1>1, SumOfSame
  <1>3. SumFunctionOnSet(zero, T) <= SumFunctionOnSet(f, T)
    BY <1>1, SumOfLarger
  <1>4. SumFunctionOnSet(f, T) \in Int /\ Cardinality(T) \in Nat
    BY <1>1, SumType, FS_CardinalityType
  <1>5. QED
    BY <1>2, <1>3, <1>4

(* The sum of terms all but one of which are zero is that one.             *)
LEMMA SumOfOne ==
    ASSUME NEW T, IsFiniteSet(T), NEW f, Numbers(f, T), NEW r \in T,
           \A x \in T : x # r => f[x] = 0
    PROVE  SumFunctionOnSet(f, T) = f[r]
  <1>1. SumFunctionOnSet(f, T) = f[r] + SumFunctionOnSet(f, T \ {r})
    BY SumTakes
  <1>2. IsFiniteSet(T \ {r}) /\ Cardinality(T \ {r}) \in Nat
    BY FS_Subset, FS_CardinalityType
  <1>3. SumFunctionOnSet(f, T \ {r}) = Cardinality(T \ {r}) * 0
    BY <1>2, SumOfSame
  <1>4. f[r] \in Int
    BY DEF Numbers
  <1>5. QED
    BY <1>1, <1>2, <1>3, <1>4

(* Terms put into groups: the sums of the groups add up to the sum.        *)
AreGroupSums(sums, f, T, classOf, G) ==
    \A c \in G : sums[c] = SumFunctionOnSet(f, {x \in T : classOf[x] = c})

LEMMA SumOfGroups ==
    ASSUME NEW T, IsFiniteSet(T), NEW f, Numbers(f, T), NEW G, IsFiniteSet(G), NEW classOf, NEW sums,
           AreGroupSums(sums, f, T, classOf, G)
    PROVE  SumFunctionOnSet(sums, G) = SumFunctionOnSet(f, {x \in T : classOf[x] \in G})
  <1> DEFINE In(s) == {x \in T : classOf[x] \in s}
             P == {s \in SUBSET G : SumFunctionOnSet(sums, s) = SumFunctionOnSet(f, In(s))}
  <1>1. \A r \in SUBSET T : IsFiniteSet(r) /\ Numbers(f, r) /\ SumFunctionOnSet(f, r) \in Int
    <2>1. \A r \in SUBSET T : IsFiniteSet(r) /\ Numbers(f, r)
      BY FS_Subset DEF Numbers
    <2>2. QED
      BY <2>1, SumType
  <1>2. \A s \in SUBSET G : IsFiniteSet(s) /\ Numbers(sums, s)
    <2>1. \A c \in G : {x \in T : classOf[x] = c} \in SUBSET T
      OBVIOUS
    <2>2. Numbers(sums, G)
      BY <1>1, <2>1 DEF Numbers, AreGroupSums
    <2>3. QED
      BY <2>2, FS_Subset DEF Numbers
  <1>3. ASSUME NEW s \in SUBSET G, \A r \in SUBSET s : r # s => r \in P
        PROVE  s \in P
    <2>1. CASE s = {}
      <3>1. In(s) = {}
        BY <2>1
      <3>2. QED
        BY <2>1, <3>1, SumOfNone
    <2>2. CASE s # {}
      <3>1. PICK c \in s : TRUE
        BY <2>2
      <3>2. s \ {c} \in P
        BY <1>3, <3>1
      <3>3. SumFunctionOnSet(sums, s) = sums[c] + SumFunctionOnSet(sums, s \ {c})
        BY <1>2, <3>1, SumTakes
      <3> DEFINE one == {x \in T : classOf[x] = c}
                 others == In(s \ {c})
      <3>4. /\ one \cap others = {} /\ one \cup others = In(s)
            /\ one \in SUBSET T /\ others \in SUBSET T
        BY <3>1
      <3>5. sums[c] = SumFunctionOnSet(f, one)
        BY <3>1 DEF AreGroupSums
      <3>6. SumFunctionOnSet(sums, s \ {c}) = SumFunctionOnSet(f, others)
        BY <3>2
      <3> HIDE DEF one, others, In
      <3>7. SumFunctionOnSet(f, one \cup others)
              = SumFunctionOnSet(f, one) + SumFunctionOnSet(f, others)
        BY <1>1, <3>4, SumJoins
      <3>8. SumFunctionOnSet(sums, s) = SumFunctionOnSet(f, In(s))
        BY <3>3, <3>4, <3>5, <3>6, <3>7
      <3>9. QED
        BY <3>8
    <2>3. QED
      BY <2>1, <2>2
  <1> HIDE DEF P
  <1>4. \A s \in SUBSET G : s \in P
    BY <1>3, SubsetInduction
  <1>5. QED
    BY <1>4 DEF P

(* Of any number of things in a finite set some are largest. *)
LEMMA SomeAreLargest ==
    ASSUME NEW T, IsFiniteSet(T), NEW f, Numbers(f, T), NEW n \in Nat, n <= Cardinality(T)
    PROVE  \E s \in SUBSET T : Cardinality(s) = n /\ \A x \in s, y \in T \ s : f[x] >= f[y]
  <1> DEFINE Has(r, k) == \E s \in SUBSET r :
                             Cardinality(s) = k /\ \A x \in s, y \in r \ s : f[x] >= f[y]
             P == {r \in SUBSET T : \A k \in 0..Cardinality(r) : Has(r, k)}
  <1>1. \A r \in SUBSET T : IsFiniteSet(r) /\ Cardinality(r) \in Nat
    BY FS_Subset, FS_CardinalityType
  <1>2. ASSUME NEW r \in SUBSET T, \A s \in SUBSET r : s # r => s \in P
        PROVE  r \in P
    <2> SUFFICES ASSUME NEW k \in 0..Cardinality(r) PROVE Has(r, k)
      OBVIOUS
    <2>1. CASE k = Cardinality(r)
      BY <2>1
    <2>2. CASE k < Cardinality(r)
      <3>1. r # {}
        BY <1>1, <2>2, FS_EmptySet
      <3>2. PICK z \in r : \A x \in r : f[x] >= f[z]
        <4> DEFINE Q == {s \in SUBSET r : s # {} => \E z \in s : \A x \in s : f[x] >= f[z]}
        <4>1. ASSUME NEW s \in SUBSET r, \A q \in SUBSET s : q # s => q \in Q
              PROVE  s \in Q
          <5> SUFFICES ASSUME s # {} PROVE \E z \in s : \A x \in s : f[x] >= f[z]
            OBVIOUS
          <5>1. PICK a \in s : TRUE
            OBVIOUS
          <5>2. s \ {a} \in Q /\ \A x \in s : f[x] \in Int
            BY <4>1, <5>1 DEF Numbers
          <5>3. CASE s \ {a} = {}
            BY <5>1, <5>2, <5>3
          <5>4. CASE s \ {a} # {}
            <6>1. PICK b \in s \ {a} : \A x \in s \ {a} : f[x] >= f[b]
              BY <5>2, <5>4
            <6>2. CASE f[a] <= f[b]
              <7>1. \A x \in s : f[x] >= f[a]
                BY <5>1, <5>2, <6>1, <6>2
              <7>2. QED
                BY <5>1, <7>1
            <6>3. CASE ~(f[a] <= f[b])
              <7>1. \A x \in s : f[x] >= f[b]
                BY <5>1, <5>2, <6>1, <6>3
              <7>2. QED
                BY <6>1, <7>1
            <6>4. QED
              BY <6>2, <6>3
          <5>5. QED
            BY <5>3, <5>4
        <4> HIDE DEF Q
        <4>2. IsFiniteSet(r)
          BY <1>1
        <4>3. \A s \in SUBSET r : s \in Q
          BY <4>1, <4>2, SubsetInduction
        <4>4. QED
          BY <3>1, <4>3 DEF Q
      <3>3. Cardinality(r \ {z}) = Cardinality(r) - 1
        BY <1>1, <3>2, FS_RemoveElement
      <3>4. r \ {z} \in P /\ k \in 0..Cardinality(r \ {z})
        BY <1>1, <1>2, <2>2, <3>2, <3>3
      <3>5. PICK s \in SUBSET (r \ {z}) :
                Cardinality(s) = k /\ \A x \in s, y \in (r \ {z}) \ s : f[x] >= f[y]
        BY <3>4
      <3>6. \A x \in s, y \in r \ s : f[x] >= f[y]
        BY <3>2, <3>5
      <3>7. s \in SUBSET r
        BY <3>5
      <3>8. QED
        BY <3>5, <3>6, <3>7
    <2>3. QED
      BY <1>1, <2>1, <2>2
  <1> HIDE DEF P
  <1>3. \A r \in SUBSET T : r \in P
    BY <1>2, SubsetInduction
  <1>4. QED
    BY <1>1, <1>3 DEF P

(* The largest of a finite set of numbers is the one that is as large as   *)
(* the others.                                                             *)
LEMMA MaxIs ==
    ASSUME NEW S \in SUBSET Int, NEW x \in S, \A y \in S : x >= y
    PROVE  Max(S) = x
  <1>1. \E z \in S : \A y \in S : z >= y
    OBVIOUS
  <1>2. Max(S) \in S /\ \A y \in S : Max(S) >= y
    BY <1>1 DEF Max
  <1>3. Max(S) \in Int /\ Max(S) >= x /\ x >= Max(S)
    BY <1>2
  <1>4. QED
    BY <1>3

(* The least and the largest of a set of numbers that is finite.           *)
Image(f, T) == {f[x] : x \in T}

LEMMA BoundsOf ==
    ASSUME NEW T, IsFiniteSet(T), T # {}, NEW f, Numbers(f, T), NEW S, S = Image(f, T)
    PROVE  /\ Min(S) \in Int /\ Max(S) \in Int
           /\ \A x \in T : f[x] \in Min(S)..Max(S)
<1> DEFINE Least(s) == \E z \in s : \A x \in s : f[z] <= f[x]
           Most(s) == \E z \in s : \A x \in s : f[x] <= f[z]
           P == {s \in SUBSET T : s = {} \/ (Least(s) /\ Most(s))}
<1>1. ASSUME NEW s \in SUBSET T, \A r \in SUBSET s : r # s => r \in P
      PROVE  s \in P
  <2> SUFFICES ASSUME s # {} PROVE Least(s) /\ Most(s) OBVIOUS
  <2>1. PICK a \in s : TRUE OBVIOUS
  <2>2. s \ {a} \in P BY <1>1, <2>1
  <2>3. \A x \in s : f[x] \in Int BY DEF Numbers
  <2>4. CASE s \ {a} = {}
    <3>1. s = {a} BY <2>1, <2>4
    <3>2. QED BY <2>3, <3>1
  <2>5. CASE s \ {a} # {}
    <3>1. PICK b \in s \ {a} : \A x \in s \ {a} : f[b] <= f[x] BY <2>2, <2>5
    <3>2. PICK c \in s \ {a} : \A x \in s \ {a} : f[x] <= f[c] BY <2>2, <2>5
    <3>3. Least(s)
      <4>1. CASE f[a] <= f[b]
        <5>1. \A x \in s : f[a] <= f[x] BY <2>1, <2>3, <3>1, <4>1
        <5>2. QED BY <2>1, <5>1
      <4>2. CASE ~(f[a] <= f[b])
        <5>1. \A x \in s : f[b] <= f[x] BY <2>1, <2>3, <3>1, <4>2
        <5>2. QED BY <3>1, <5>1
      <4>3. QED BY <4>1, <4>2
    <3>4. Most(s)
      <4>1. CASE f[c] <= f[a]
        <5>1. \A x \in s : f[x] <= f[a] BY <2>1, <2>3, <3>2, <4>1
        <5>2. QED BY <2>1, <5>1
      <4>2. CASE ~(f[c] <= f[a])
        <5>1. \A x \in s : f[x] <= f[c] BY <2>1, <2>3, <3>2, <4>2
        <5>2. QED BY <3>2, <5>1
      <4>3. QED BY <4>1, <4>2
    <3>5. QED BY <3>3, <3>4
  <2>6. QED BY <2>4, <2>5
<1> HIDE DEF P
<1>2. T \in P BY <1>1, SubsetInduction
<1> USE DEF P
<1>3. PICK z \in T : \A x \in T : f[z] <= f[x] BY <1>2
<1>4. PICK y \in T : \A x \in T : f[x] <= f[y] BY <1>2
<1>5. S = {f[x] : x \in T} /\ \A x \in T : f[x] \in Int BY DEF Numbers, Image
<1>6. Min(S) \in S /\ \A v \in S : Min(S) <= v
  <2>1. f[z] \in S /\ \A v \in S : f[z] <= v BY <1>3, <1>5
  <2>2. QED BY <2>1 DEF Min
<1>7. Max(S) \in S /\ \A v \in S : Max(S) >= v
  <2>1. f[y] \in S /\ \A v \in S : f[y] >= v BY <1>4, <1>5
  <2>2. QED BY <2>1 DEF Max
<1>8. QED BY <1>5, <1>6, <1>7
=============================================================================
