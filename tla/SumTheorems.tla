---------------------------- MODULE SumTheorems ----------------------------
(***************************************************************************)
(* What SumFunctionOnSet, with which the modules sum amounts over rows,    *)
(* satisfies on finite sets, and that sets of naturals have a minimum.     *)
(*                                                                         *)
(* The facts need induction over finite sets.  The library's induction     *)
(* theorems take an operator as a parameter, which no prover at hand can   *)
(* instantiate; here the property is a set instead (SubsetInduction), and  *)
(* the argument rests on the well-foundedness of the subset order, which   *)
(* the library states without such a parameter.                            *)
(***************************************************************************)
EXTENDS Integers, FiniteSetsExt, Functions, FiniteSetTheorems, TLAPS

(* Among finite sets there is a least one.  This is how the proofs below   *)
(* argue by induction: a least counterexample does not exist.              *)
LEMMA LeastSet ==
  ASSUME NEW T, \A s \in T : IsFiniteSet(s), T # {}
  PROVE  \E s \in T : \A r \in T : r \subseteq s => r = s
<1> DEFINE U == UNION T
<1>1. IsWellFoundedOn(StrictSubsetOrdering(U), FiniteSubsetsOf(U))
  BY FS_StrictSubsetOrderingWellFounded
<1>2. T \subseteq FiniteSubsetsOf(U)
  BY DEF FiniteSubsetsOf
<1>3. \E x \in T : \A y \in T : ~(<<y, x>> \in StrictSubsetOrdering(U))
  <2> HIDE DEF U
  <2> QED
    BY <1>1, <1>2, WFMin
<1> QED
  BY <1>2, <1>3 DEF StrictSubsetOrdering, FiniteSubsetsOf

(* Induction over the subsets of a finite set, with the property given as  *)
(* the set P of subsets that have it.                                      *)
LEMMA SubsetInduction ==
  ASSUME NEW F, IsFiniteSet(F), NEW P,
         \A s \in SUBSET F : (\A r \in SUBSET s : r # s => r \in P) => s \in P
  PROVE  \A s \in SUBSET F : s \in P
<1> DEFINE T == {s \in SUBSET F : s \notin P}
<1>1. \A s \in T : IsFiniteSet(s)
  BY FS_Subset
<1>2. ASSUME T # {}
      PROVE  FALSE
  <2>1. PICK s \in T : \A r \in T : r \subseteq s => r = s
    <3> HIDE DEF T
    <3> QED
      BY <1>1, <1>2, LeastSet
  <2>2. \A r \in SUBSET s : r # s => r \in P
    BY <2>1
  <2> QED
    BY <2>1, <2>2
<1> QED
  BY <1>2

(* A set of natural numbers has a least one, and Min is it.                *)
LEMMA MinNat ==
  ASSUME NEW S \in SUBSET Nat, S # {}
  PROVE  Min(S) \in S /\ \A m \in S : Min(S) <= m
<1> DEFINE T == {0..n : n \in S}
<1>1. \A s \in T : IsFiniteSet(s)
  BY FS_Interval
<1>2. T # {}
  OBVIOUS
<1>3. PICK s \in T : \A r \in T : r \subseteq s => r = s
  <2> HIDE DEF T
  <2> QED
    BY <1>1, <1>2, LeastSet
<1>4. PICK n \in S : s = 0..n
  BY <1>3
<1>5. ASSUME NEW m \in S
      PROVE  n <= m
  <2>1. 0..m \subseteq 0..n => 0..m = 0..n
    BY <1>3, <1>4
  <2>2. m < n => n \in 0..n /\ n \notin 0..m /\ 0..m \subseteq 0..n
    OBVIOUS
  <2> QED
    BY <2>1, <2>2
<1> QED
  BY <1>5 DEF Min

-----------------------------------------------------------------------------
(* SumFunctionOnSet folds with a recursive function on the subsets of the  *)
(* set: it removes a chosen member until none is left.                     *)
Chosen(s) == CHOOSE x \in s : TRUE
IsPartialSums(g, f, S) ==
  g = [s \in SUBSET S |-> IF s = {} THEN 0 ELSE f[Chosen(s)] + g[s \ {Chosen(s)}]]
PartialSums(f, S) == CHOOSE g : IsPartialSums(g, f, S)

(* The library's sum is the partial sum of the whole set.                  *)
LEMMA SumIsPartialSum ==
  ASSUME NEW f, NEW S
  PROVE  SumFunctionOnSet(f, S) = PartialSums(f, S)[S]
BY DEF SumFunctionOnSet, FoldFunctionOnSet, MapThenFoldSet, PartialSums,
       IsPartialSums, Chosen

(* The member a sum takes off first is a member.                           *)
LEMMA ChosenMember ==
  ASSUME NEW S, S # {}
  PROVE  Chosen(S) \in S
BY DEF Chosen

(* The partial sums of two sets agree on a subset of both.                 *)
LEMMA PartialSumsAgree ==
  ASSUME NEW f, NEW S, NEW g, IsPartialSums(g, f, S),
         NEW T, NEW h, IsPartialSums(h, f, T),
         NEW F \in SUBSET (S \cap T), IsFiniteSet(F)
  PROVE  g[F] = h[F]
<1> DEFINE P == {s \in SUBSET F : g[s] = h[s]}
<1>1. ASSUME NEW s \in SUBSET F, \A r \in SUBSET s : r # s => r \in P
      PROVE  s \in P
  <2>1. s \in SUBSET S /\ s \in SUBSET T
    OBVIOUS
  <2>2. CASE s = {}
    BY <2>1, <2>2 DEF IsPartialSums
  <2>3. CASE s # {}
    <3> DEFINE r == s \ {Chosen(s)}
    <3>1. r \in SUBSET s /\ r # s
      BY <2>3, ChosenMember
    <3>2. g[r] = h[r]
      BY <3>1, <1>1
    <3>3. g[s] = f[Chosen(s)] + g[r]
      BY <2>1, <2>3 DEF IsPartialSums
    <3>4. h[s] = f[Chosen(s)] + h[r]
      BY <2>1, <2>3 DEF IsPartialSums
    <3> QED
      BY <3>2, <3>3, <3>4
  <2> QED
    BY <2>2, <2>3
<1> HIDE DEF P
<1>2. F \in P
  BY <1>1, SubsetInduction
<1> QED
  BY <1>2 DEF P

(* They exist for every finite set.                                        *)
LEMMA PartialSumsExist ==
  ASSUME NEW f, NEW F, IsFiniteSet(F)
  PROVE  IsPartialSums(PartialSums(f, F), f, F)
<1> DEFINE P == {s \in SUBSET F : \E g : IsPartialSums(g, f, s)}
<1>1. ASSUME NEW s \in SUBSET F, \A r \in SUBSET s : r # s => r \in P
      PROVE  s \in P
  <2> DEFINE c == Chosen(s)
             Below(r) == PartialSums(f, r)[r]
             g == [r \in SUBSET s |->
                     IF r = {} THEN 0 ELSE f[Chosen(r)] + Below(r \ {Chosen(r)})]
  <2>1. ASSUME NEW r \in SUBSET s, r # s
        PROVE  IsPartialSums(PartialSums(f, r), f, r)
    <3>1. \E h : IsPartialSums(h, f, r)
      BY <1>1, <2>1
    <3> QED
      BY <3>1 DEF PartialSums
  <2>2. ASSUME NEW r \in SUBSET s, r # s
        PROVE  Below(r) = g[r]
    <3>1. IsPartialSums(PartialSums(f, r), f, r)
      BY <2>1, <2>2
    <3>2. CASE r = {}
      BY <3>1, <3>2 DEF IsPartialSums
    <3>3. CASE r # {}
      <4> DEFINE q == r \ {Chosen(r)}
      <4>1. q \in SUBSET r /\ q # s /\ q \in SUBSET s
        BY <3>3, <2>2, ChosenMember
      <4>2. IsPartialSums(PartialSums(f, q), f, q)
        BY <4>1, <2>1
      <4>3. IsFiniteSet(q) /\ q \in SUBSET (r \cap q)
        BY <4>1, FS_Subset
      <4>4. PartialSums(f, r)[q] = PartialSums(f, q)[q]
        <5> HIDE DEF q
        <5> QED
          BY <3>1, <4>2, <4>3, PartialSumsAgree
      <4>5. PartialSums(f, r)[r] = f[Chosen(r)] + PartialSums(f, r)[q]
        BY <3>1, <3>3 DEF IsPartialSums
      <4>6. g[r] = f[Chosen(r)] + Below(q)
        BY <3>3
      <4> QED
        BY <4>4, <4>5, <4>6
    <3> QED
      BY <3>2, <3>3
  <2>3. IsPartialSums(g, f, s)
    <3>1. ASSUME NEW r \in SUBSET s, r # {}
          PROVE  Below(r \ {Chosen(r)}) = g[r \ {Chosen(r)}]
      <4>1. r \ {Chosen(r)} \in SUBSET s /\ r \ {Chosen(r)} # s
        BY <3>1, ChosenMember
      <4> QED
        BY <4>1, <2>2
    <3> HIDE DEF Below
    <3>2. g = [r \in SUBSET s |->
                 IF r = {} THEN 0 ELSE f[Chosen(r)] + g[r \ {Chosen(r)}]]
      BY <3>1
    <3> HIDE DEF g
    <3> QED
      BY <3>2 DEF IsPartialSums
  <2> QED
    BY <2>3
<1> HIDE DEF P
<1>2. F \in P
  BY <1>1, SubsetInduction
<1> QED
  BY <1>2 DEF P, PartialSums

(* The empty sum.                                                          *)
LEMMA SumEmpty ==
  ASSUME NEW f
  PROVE  SumFunctionOnSet(f, {}) = 0
<1>1. IsPartialSums(PartialSums(f, {}), f, {})
  BY PartialSumsExist, FS_EmptySet
<1> QED
  BY <1>1, SumIsPartialSum DEF IsPartialSums

(* A sum is its first member and the sum of the others.                    *)
LEMMA SumChosen ==
  ASSUME NEW f, NEW S, IsFiniteSet(S), S # {}
  PROVE  SumFunctionOnSet(f, S) = f[Chosen(S)] + SumFunctionOnSet(f, S \ {Chosen(S)})
<1> DEFINE R == S \ {Chosen(S)}
<1>1. IsFiniteSet(R) /\ R \in SUBSET (S \cap R)
  BY FS_Subset
<1>2. /\ IsPartialSums(PartialSums(f, S), f, S)
      /\ IsPartialSums(PartialSums(f, R), f, R)
  <2> HIDE DEF R
  <2> QED
    BY <1>1, PartialSumsExist
<1>3. PartialSums(f, S)[R] = PartialSums(f, R)[R]
  <2> HIDE DEF R
  <2> QED
    BY <1>1, <1>2, PartialSumsAgree
<1>4. PartialSums(f, S)[S] = f[Chosen(S)] + PartialSums(f, S)[R]
  BY <1>2 DEF IsPartialSums
<1> QED
  BY <1>3, <1>4, SumIsPartialSum

(* A sum of integers is an integer.                                        *)
LEMMA SumInt ==
  ASSUME NEW f, NEW S, IsFiniteSet(S), \A x \in S : f[x] \in Int
  PROVE  SumFunctionOnSet(f, S) \in Int
<1> DEFINE P == {s \in SUBSET S : SumFunctionOnSet(f, s) \in Int}
<1>1. ASSUME NEW s \in SUBSET S, \A r \in SUBSET s : r # s => r \in P
      PROVE  s \in P
  <2>1. CASE s = {}
    BY <2>1, SumEmpty
  <2>2. CASE s # {}
    <3>1. Chosen(s) \in s /\ IsFiniteSet(s)
      BY <2>2, ChosenMember, FS_Subset
    <3>2. SumFunctionOnSet(f, s \ {Chosen(s)}) \in Int
      BY <1>1, <3>1
    <3>3. SumFunctionOnSet(f, s) = f[Chosen(s)] + SumFunctionOnSet(f, s \ {Chosen(s)})
      BY <2>2, <3>1, SumChosen
    <3> QED
      BY <3>1, <3>2, <3>3
  <2> QED
    BY <2>1, <2>2
<1> HIDE DEF P
<1>2. S \in P
  BY <1>1, SubsetInduction
<1> QED
  BY <1>2 DEF P

(* Any member may be taken out of a sum, not only the chosen one.          *)
LEMMA SumRemove ==
  ASSUME NEW f, NEW S, IsFiniteSet(S), \A x \in S : f[x] \in Int, NEW x \in S
  PROVE  SumFunctionOnSet(f, S) = f[x] + SumFunctionOnSet(f, S \ {x})
<1> DEFINE Sum(s) == SumFunctionOnSet(f, s)
           P == {s \in SUBSET S : \A y \in s : Sum(s) = f[y] + Sum(s \ {y})}
<1>0. \A s \in SUBSET S : IsFiniteSet(s) /\ Sum(s) \in Int
  <2> TAKE s \in SUBSET S
  <2>1. IsFiniteSet(s) /\ \A y \in s : f[y] \in Int
    BY FS_Subset
  <2> QED
    BY <2>1, SumInt
<1>1. ASSUME NEW s \in SUBSET S, \A r \in SUBSET s : r # s => r \in P
      PROVE  s \in P
  <2> SUFFICES ASSUME NEW y \in s
               PROVE  Sum(s) = f[y] + Sum(s \ {y})
    OBVIOUS
  <2> DEFINE c == Chosen(s)
  <2>1. c \in s /\ IsFiniteSet(s)
    BY <1>0, ChosenMember
  <2>2. Sum(s) = f[c] + Sum(s \ {c})
    BY <2>1, SumChosen
  <2> HIDE DEF c, Sum
  <2>3. CASE y = c
    BY <2>2, <2>3
  <2>4. CASE y # c
    <3>1. Sum(s \ {c}) = f[y] + Sum((s \ {c}) \ {y})
      BY <2>1, <2>4, <1>1
    <3>2. Sum(s \ {y}) = f[c] + Sum((s \ {y}) \ {c})
      BY <2>1, <2>4, <1>1
    <3>3. Sum((s \ {c}) \ {y}) = Sum((s \ {y}) \ {c})
      <4>1. (s \ {c}) \ {y} = (s \ {y}) \ {c}
        OBVIOUS
      <4> QED
        BY <4>1
    <3>4. /\ Sum(s \ {c}) \in Int /\ Sum(s \ {y}) \in Int
          /\ Sum((s \ {y}) \ {c}) \in Int /\ f[y] \in Int /\ f[c] \in Int
      BY <1>0, <2>1
    <3> QED
      BY <2>2, <3>1, <3>2, <3>3, <3>4
  <2> QED
    BY <2>3, <2>4
<1> HIDE DEF P
<1>2. S \in P
  BY <1>1, SubsetInduction
<1> QED
  BY <1>2 DEF P

(* Tables that agree on the rows of a sum have the same sum.               *)
LEMMA SumAgree ==
  ASSUME NEW f, NEW g, NEW S, IsFiniteSet(S), \A x \in S : f[x] = g[x]
  PROVE  SumFunctionOnSet(f, S) = SumFunctionOnSet(g, S)
<1> DEFINE P == {s \in SUBSET S : SumFunctionOnSet(f, s) = SumFunctionOnSet(g, s)}
<1>1. ASSUME NEW s \in SUBSET S, \A r \in SUBSET s : r # s => r \in P
      PROVE  s \in P
  <2>1. CASE s = {}
    BY <2>1, SumEmpty
  <2>2. CASE s # {}
    <3>1. Chosen(s) \in s /\ IsFiniteSet(s)
      BY <2>2, ChosenMember, FS_Subset
    <3>2. SumFunctionOnSet(f, s \ {Chosen(s)}) = SumFunctionOnSet(g, s \ {Chosen(s)})
      BY <1>1, <3>1
    <3>3. /\ SumFunctionOnSet(f, s) = f[Chosen(s)] + SumFunctionOnSet(f, s \ {Chosen(s)})
          /\ SumFunctionOnSet(g, s) = g[Chosen(s)] + SumFunctionOnSet(g, s \ {Chosen(s)})
      BY <2>2, <3>1, SumChosen
    <3> QED
      BY <3>1, <3>2, <3>3
  <2> QED
    BY <2>1, <2>2
<1> HIDE DEF P
<1>2. S \in P
  BY <1>1, SubsetInduction
<1> QED
  BY <1>2 DEF P

(* A sum over two tables' worth of rows is the sum of the sums, when no    *)
(* row is in both.                                                         *)
LEMMA SumDisjointUnion ==
  ASSUME NEW f, NEW S, IsFiniteSet(S), NEW T, IsFiniteSet(T), S \cap T = {},
         \A x \in S \cup T : f[x] \in Int
  PROVE  SumFunctionOnSet(f, S \cup T) = SumFunctionOnSet(f, S) + SumFunctionOnSet(f, T)
<1> DEFINE Sum(s) == SumFunctionOnSet(f, s)
           P == {s \in SUBSET T : Sum(S \cup s) = Sum(S) + Sum(s)}
<1>0. \A s \in SUBSET (S \cup T) : IsFiniteSet(s) /\ Sum(s) \in Int
  <2> TAKE s \in SUBSET (S \cup T)
  <2>1. IsFiniteSet(S \cup T)
    BY FS_Union
  <2>2. IsFiniteSet(s) /\ \A y \in s : f[y] \in Int
    BY <2>1, FS_Subset
  <2> QED
    BY <2>2, SumInt
<1>1. ASSUME NEW s \in SUBSET T, \A r \in SUBSET s : r # s => r \in P
      PROVE  s \in P
  <2>1. CASE s = {}
    <3>1. Sum(s) = 0 /\ Sum(S) \in Int
      BY <2>1, SumEmpty, <1>0
    <3>2. Sum(S \cup s) = Sum(S)
      <4>1. S \cup s = S
        BY <2>1
      <4> QED
        BY <4>1
    <3> HIDE DEF Sum
    <3> QED
      BY <3>1, <3>2
  <2>2. CASE s # {}
    <3>1. PICK y \in s : TRUE
      BY <2>2
    <3>2. /\ IsFiniteSet(s) /\ \A x \in s : f[x] \in Int
          /\ IsFiniteSet(S \cup s) /\ \A x \in S \cup s : f[x] \in Int
      BY <1>0
    <3>3. Sum(s) = f[y] + Sum(s \ {y})
      BY <3>1, <3>2, SumRemove
    <3>4. Sum(S \cup s) = f[y] + Sum((S \cup s) \ {y})
      <4>1. y \in S \cup s
        BY <3>1
      <4> QED
        BY <4>1, <3>2, SumRemove
    <3> HIDE DEF Sum
    <3>5. Sum((S \cup s) \ {y}) = Sum(S \cup (s \ {y}))
      <4>1. (S \cup s) \ {y} = S \cup (s \ {y})
        BY <3>1
      <4> QED
        BY <4>1
    <3>6. Sum(S \cup (s \ {y})) = Sum(S) + Sum(s \ {y})
      BY <1>1, <3>1
    <3>7. f[y] \in Int /\ Sum(S) \in Int /\ Sum(s \ {y}) \in Int
      BY <1>0, <3>1
    <3>8. Sum(S \cup s) = Sum(S) + Sum(s)
      BY <3>3, <3>4, <3>5, <3>6, <3>7
    <3> QED
      BY <3>8 DEF Sum
  <2> QED
    BY <2>1, <2>2
<1> HIDE DEF P
<1>2. T \in P
  BY <1>1, SubsetInduction
<1> QED
  BY <1>2 DEF P

(* A sum of natural numbers is one.                                        *)
LEMMA SumNat ==
  ASSUME NEW f, NEW S, IsFiniteSet(S), \A x \in S : f[x] \in Nat
  PROVE  SumFunctionOnSet(f, S) \in Nat
<1> DEFINE P == {s \in SUBSET S : SumFunctionOnSet(f, s) \in Nat}
<1>1. ASSUME NEW s \in SUBSET S, \A r \in SUBSET s : r # s => r \in P
      PROVE  s \in P
  <2>1. CASE s = {}
    BY <2>1, SumEmpty
  <2>2. CASE s # {}
    <3>1. Chosen(s) \in s /\ IsFiniteSet(s) /\ f[Chosen(s)] \in Nat
      BY <2>2, ChosenMember, FS_Subset
    <3>2. SumFunctionOnSet(f, s \ {Chosen(s)}) \in Nat
      BY <1>1, <3>1
    <3>3. SumFunctionOnSet(f, s) = f[Chosen(s)] + SumFunctionOnSet(f, s \ {Chosen(s)})
      BY <2>2, <3>1, SumChosen
    <3>4. SumFunctionOnSet(f, s) \in Nat
      BY <3>1, <3>2, <3>3
    <3> QED
      BY <3>4
  <2> QED
    BY <2>1, <2>2
<1> HIDE DEF P
<1>2. S \in P
  BY <1>1, SubsetInduction
<1> QED
  BY <1>2 DEF P

(* A sum of natural numbers over fewer rows is no larger.                  *)
LEMMA SumMonotone ==
  ASSUME NEW f, NEW T, IsFiniteSet(T), \A x \in T : f[x] \in Nat, NEW S \in SUBSET T
  PROVE  SumFunctionOnSet(f, S) <= SumFunctionOnSet(f, T)
<1>1. IsFiniteSet(S) /\ IsFiniteSet(T \ S) /\ S \cup (T \ S) = T /\ S \cap (T \ S) = {}
  BY FS_Subset
<1>2. SumFunctionOnSet(f, S) \in Nat /\ SumFunctionOnSet(f, T \ S) \in Nat
  BY <1>1, SumNat
<1>3. SumFunctionOnSet(f, S \cup (T \ S))
        = SumFunctionOnSet(f, S) + SumFunctionOnSet(f, T \ S)
  <2>1. \A x \in S \cup (T \ S) : f[x] \in Int
    OBVIOUS
  <2> QED
    BY <1>1, <2>1, SumDisjointUnion
<1>4. SumFunctionOnSet(f, T) = SumFunctionOnSet(f, S) + SumFunctionOnSet(f, T \ S)
  BY <1>1, <1>3, Zenon
<1> QED
  BY <1>2, <1>4

(* Changing the amount of one row changes a sum by the difference.         *)
LEMMA SumChange ==
  ASSUME NEW f, NEW g, NEW S, IsFiniteSet(S),
         \A y \in S : f[y] \in Int /\ g[y] \in Int,
         NEW x \in S, \A y \in S \ {x} : f[y] = g[y]
  PROVE  SumFunctionOnSet(g, S) = SumFunctionOnSet(f, S) + (g[x] - f[x])
<1>1. IsFiniteSet(S \ {x})
  BY FS_Subset
<1>2. SumFunctionOnSet(f, S \ {x}) = SumFunctionOnSet(g, S \ {x})
  BY <1>1, SumAgree
<1>3. SumFunctionOnSet(f, S \ {x}) \in Int
  BY <1>1, SumInt
<1>4. SumFunctionOnSet(f, S) = f[x] + SumFunctionOnSet(f, S \ {x})
  BY SumRemove
<1>5. SumFunctionOnSet(g, S) = g[x] + SumFunctionOnSet(g, S \ {x})
  BY SumRemove
<1> QED
  BY <1>2, <1>3, <1>4, <1>5

(* A sum of amounts none of which is larger is no larger.                  *)
LEMMA SumLess ==
  ASSUME NEW f, NEW g, NEW S, IsFiniteSet(S),
         \A x \in S : f[x] \in Int /\ g[x] \in Int /\ g[x] <= f[x]
  PROVE  SumFunctionOnSet(g, S) <= SumFunctionOnSet(f, S)
<1> DEFINE P == {s \in SUBSET S : SumFunctionOnSet(g, s) <= SumFunctionOnSet(f, s)}
<1>1. ASSUME NEW s \in SUBSET S, \A r \in SUBSET s : r # s => r \in P
      PROVE  s \in P
  <2>1. CASE s = {}
    <3>1. SumFunctionOnSet(g, s) = 0 /\ SumFunctionOnSet(f, s) = 0
      BY <2>1, SumEmpty
    <3> QED
      BY <3>1
  <2>2. CASE s # {}
    <3> DEFINE c == Chosen(s)
               r == s \ {c}
    <3>1. c \in s /\ IsFiniteSet(s) /\ IsFiniteSet(r)
      BY <2>2, ChosenMember, FS_Subset
    <3>2. SumFunctionOnSet(g, r) <= SumFunctionOnSet(f, r)
      BY <1>1, <3>1
    <3>3. SumFunctionOnSet(f, r) \in Int /\ SumFunctionOnSet(g, r) \in Int
      BY <3>1, SumInt
    <3>4. /\ SumFunctionOnSet(f, s) = f[c] + SumFunctionOnSet(f, r)
          /\ SumFunctionOnSet(g, s) = g[c] + SumFunctionOnSet(g, r)
      BY <2>2, <3>1, SumChosen
    <3>5. f[c] \in Int /\ g[c] \in Int /\ g[c] <= f[c]
      BY <3>1
    <3> HIDE DEF r, c
    <3>6. SumFunctionOnSet(g, s) <= SumFunctionOnSet(f, s)
      BY <3>2, <3>3, <3>4, <3>5
    <3> QED
      BY <3>6
  <2> QED
    BY <2>1, <2>2
<1> HIDE DEF P
<1>2. S \in P
  BY <1>1, SubsetInduction
<1> QED
  BY <1>2 DEF P

(* Rows of no amount add nothing to a sum.                                 *)
LEMMA SumSupport ==
  ASSUME NEW f, NEW T, IsFiniteSet(T), \A x \in T : f[x] \in Nat, NEW S \in SUBSET T,
         \A x \in T \ S : f[x] = 0
  PROVE  SumFunctionOnSet(f, T) = SumFunctionOnSet(f, S)
<1> DEFINE P == {s \in SUBSET (T \ S) : SumFunctionOnSet(f, s) = 0}
<1>0. IsFiniteSet(S) /\ IsFiniteSet(T \ S) /\ S \cup (T \ S) = T /\ S \cap (T \ S) = {}
  BY FS_Subset
<1>1. ASSUME NEW s \in SUBSET (T \ S), \A r \in SUBSET s : r # s => r \in P
      PROVE  s \in P
  <2>1. CASE s = {}
    BY <2>1, SumEmpty
  <2>2. CASE s # {}
    <3>1. Chosen(s) \in s /\ IsFiniteSet(s) /\ f[Chosen(s)] = 0
      BY <1>0, <2>2, ChosenMember, FS_Subset
    <3>2. SumFunctionOnSet(f, s \ {Chosen(s)}) = 0
      BY <1>1, <3>1
    <3>3. SumFunctionOnSet(f, s) = f[Chosen(s)] + SumFunctionOnSet(f, s \ {Chosen(s)})
      BY <2>2, <3>1, SumChosen
    <3>4. SumFunctionOnSet(f, s) = 0
      BY <3>1, <3>2, <3>3
    <3> QED
      BY <3>4
  <2> QED
    BY <2>1, <2>2
<1>2. SumFunctionOnSet(f, T \ S) = 0
  <2> HIDE DEF P
  <2>1. \A s \in SUBSET (T \ S) : s \in P
    <3> DEFINE F == T \ S
    <3> HIDE DEF F
    <3>1. IsFiniteSet(F) /\ \A s \in SUBSET F : (\A r \in SUBSET s : r # s => r \in P) => s \in P
      BY <1>0, <1>1 DEF F
    <3>2. \A s \in SUBSET F : s \in P
      BY <3>1, SubsetInduction
    <3> QED
      BY <3>2 DEF F
  <2> QED
    BY <2>1 DEF P
<1>3. SumFunctionOnSet(f, S \cup (T \ S))
        = SumFunctionOnSet(f, S) + SumFunctionOnSet(f, T \ S)
  <2>1. \A x \in S \cup (T \ S) : f[x] \in Int
    OBVIOUS
  <2> QED
    BY <1>0, <2>1, SumDisjointUnion
<1>4. SumFunctionOnSet(f, T) = SumFunctionOnSet(f, S) + SumFunctionOnSet(f, T \ S)
  BY <1>0, <1>3, Zenon
<1>5. SumFunctionOnSet(f, S) \in Nat
  BY <1>0, SumNat
<1> QED
  BY <1>2, <1>4, <1>5

-----------------------------------------------------------------------------
(* Sums of squares.                                                        *)

(* A square is not negative, and that of a difference multiplies out.      *)
LEMMA SquareFacts ==
  ASSUME NEW a \in Int, NEW b \in Int
  PROVE  /\ a * a \in Nat
         /\ 2 * (a * b) <= b * b + a * a
<1>1. a * a >= 0
  <2>1. CASE a >= 0
    BY <2>1
  <2>2. CASE a < 0
    BY <2>2
  <2> QED
    BY <2>1, <2>2
<1>2. (a - b) * (a - b) >= 0
  <2>1. \A d \in Int : d * d >= 0
    OBVIOUS
  <2> QED
    BY <2>1
<1>3. (a - b) * (a - b) = a * a - 2 * (a * b) + b * b
  OBVIOUS
<1> QED
  BY <1>1, <1>2, <1>3

(* The squares of the distances of some numbers from another one add up to *)
(* something not negative.                                                 *)
LEMMA DeviationNotNegative ==
  ASSUME NEW f, NEW g, NEW S, IsFiniteSet(S), NEW a \in Int,
         \A x \in S : f[x] \in Int /\ g[x] = f[x] * f[x]
  PROVE  2 * (a * SumFunctionOnSet(f, S)) <= SumFunctionOnSet(g, S) + Cardinality(S) * (a * a)
<1> DEFINE Holds(s) == 2 * (a * SumFunctionOnSet(f, s))
                         <= SumFunctionOnSet(g, s) + Cardinality(s) * (a * a)
           P == {s \in SUBSET S : Holds(s)}
<1>1. ASSUME NEW s \in SUBSET S, \A r \in SUBSET s : r # s => r \in P
      PROVE  s \in P
  <2>1. CASE s = {}
    <3>1. SumFunctionOnSet(f, s) = 0 /\ SumFunctionOnSet(g, s) = 0 /\ Cardinality(s) = 0
      BY <2>1, SumEmpty, FS_EmptySet
    <3>2. Holds(s)
      <4>1. a * a \in Int
        OBVIOUS
      <4> QED
        BY <3>1, <4>1
    <3> QED
      BY <3>2
  <2>2. CASE s # {}
    <3> DEFINE c == Chosen(s)
               r == s \ {c}
               m == SumFunctionOnSet(f, r)
               q == SumFunctionOnSet(g, r)
               n == Cardinality(r)
               b == f[c]
    <3>1. c \in s /\ IsFiniteSet(s) /\ IsFiniteSet(r)
      BY <2>2, ChosenMember, FS_Subset
    <3>2. b \in Int /\ g[c] = b * b
      BY <3>1
    <3>3. m \in Int /\ q \in Int /\ n \in Int
      <4>1. \A x \in r : f[x] \in Int /\ g[x] \in Int
        BY <3>1
      <4> HIDE DEF r
      <4> QED
        BY <3>1, <4>1, SumInt, FS_CardinalityType
    <3>4. SumFunctionOnSet(f, s) = b + m /\ SumFunctionOnSet(g, s) = b * b + q
      BY <2>2, <3>1, <3>2, SumChosen
    <3>5. Cardinality(s) = n + 1
      <4>1. Cardinality(s) \in Nat
        BY <3>1, FS_CardinalityType
      <4>2. n = Cardinality(s) - 1
        BY <3>1, FS_RemoveElement
      <4> QED
        BY <4>1, <4>2
    <3>6. 2 * (a * m) <= q + n * (a * a)
      BY <1>1, <3>1
    <3> HIDE DEF c, r, m, q, n, b
    <3>7. 2 * (a * b) <= b * b + a * a
      BY <3>2, SquareFacts
    <3>8. a * (b + m) = a * b + a * m /\ (n + 1) * (a * a) = n * (a * a) + a * a
      BY <3>2, <3>3
    <3>9. /\ a * b \in Int /\ a * m \in Int /\ b * b \in Int /\ a * a \in Int
          /\ n * (a * a) \in Int
      BY <3>2, <3>3
    <3>10. 2 * (a * (b + m)) <= (b * b + q) + (n + 1) * (a * a)
      BY <3>3, <3>6, <3>7, <3>8, <3>9
    <3>11. Holds(s)
      BY <3>4, <3>5, <3>10
    <3> QED
      BY <3>11
  <2> QED
    BY <2>1, <2>2
<1> HIDE DEF P
<1>2. S \in P
  BY <1>1, SubsetInduction
<1> QED
  BY <1>2 DEF P

(* The square of a sum is at most the sum of the squares, times their      *)
(* number: a variance is not negative.                                     *)
LEMMA SpreadNotNegative ==
  ASSUME NEW f, NEW g, NEW S, IsFiniteSet(S),
         \A x \in S : f[x] \in Int /\ g[x] = f[x] * f[x]
  PROVE  SumFunctionOnSet(f, S) * SumFunctionOnSet(f, S)
           <= Cardinality(S) * SumFunctionOnSet(g, S)
<1> DEFINE Holds(s) == SumFunctionOnSet(f, s) * SumFunctionOnSet(f, s)
                         <= Cardinality(s) * SumFunctionOnSet(g, s)
           P == {s \in SUBSET S : Holds(s)}
<1>1. ASSUME NEW s \in SUBSET S, \A r \in SUBSET s : r # s => r \in P
      PROVE  s \in P
  <2>1. CASE s = {}
    <3>1. SumFunctionOnSet(f, s) = 0 /\ SumFunctionOnSet(g, s) = 0 /\ Cardinality(s) = 0
      BY <2>1, SumEmpty, FS_EmptySet
    <3>2. Holds(s)
      BY <3>1
    <3> QED
      BY <3>2
  <2>2. CASE s # {}
    <3> DEFINE c == Chosen(s)
               r == s \ {c}
               m == SumFunctionOnSet(f, r)
               q == SumFunctionOnSet(g, r)
               n == Cardinality(r)
               b == f[c]
    <3>1. c \in s /\ IsFiniteSet(s) /\ IsFiniteSet(r)
      BY <2>2, ChosenMember, FS_Subset
    <3>2. b \in Int /\ g[c] = b * b
      BY <3>1
    <3>a. \A x \in r : f[x] \in Int /\ g[x] = f[x] * f[x]
      BY <3>1
    <3>3. m \in Int /\ q \in Int /\ n \in Int
      <4>1. \A x \in r : f[x] \in Int /\ g[x] \in Int
        BY <3>a
      <4> HIDE DEF r
      <4> QED
        BY <3>1, <4>1, SumInt, FS_CardinalityType
    <3>4. SumFunctionOnSet(f, s) = b + m /\ SumFunctionOnSet(g, s) = b * b + q
      BY <2>2, <3>1, <3>2, SumChosen
    <3>5. Cardinality(s) = n + 1
      <4>1. Cardinality(s) \in Nat
        BY <3>1, FS_CardinalityType
      <4>2. n = Cardinality(s) - 1
        BY <3>1, FS_RemoveElement
      <4> QED
        BY <4>1, <4>2
    <3>6. m * m <= n * q
      BY <1>1, <3>1
    <3>7. 2 * (b * m) <= q + n * (b * b)
      <4> HIDE DEF r, b
      <4> QED
        BY <3>1, <3>2, <3>a, DeviationNotNegative
    <3> HIDE DEF c, r, m, q, n, b
    <3>8. /\ (b + m) * (b + m) = b * b + 2 * (b * m) + m * m
          /\ (n + 1) * (b * b + q) = n * (b * b) + n * q + b * b + q
      BY <3>2, <3>3
    <3>9. /\ b * b \in Int /\ b * m \in Int /\ m * m \in Int /\ n * q \in Int
          /\ n * (b * b) \in Int
      BY <3>2, <3>3
    <3>10. (b + m) * (b + m) <= (n + 1) * (b * b + q)
      BY <3>3, <3>6, <3>7, <3>8, <3>9
    <3>11. Holds(s)
      BY <3>4, <3>5, <3>10
    <3> QED
      BY <3>11
  <2> QED
    BY <2>1, <2>2
<1> HIDE DEF P
<1>2. S \in P
  BY <1>1, SubsetInduction
<1> QED
  BY <1>2 DEF P

=============================================================================
