--------------------------- MODULE MultisigProofs ---------------------------
(* What the account contract guarantees for every set of keys, every bound *)
(* on weights and list length, and every set of transactions and           *)
(* signatures; and what it guarantees together with the signature server.  *)
EXTENDS MultisigSystem, FiniteSetTheorems, TLAPS

---------------------------------------------------------------------------
(* Induction, over the subsets of a finite set and over the naturals.      *)

(* Of the subsets of a finite set, some one is minimal.                    *)
LEMMA SomeMinimal ==
    ASSUME NEW A, IsFiniteSet(A), NEW Bad \in SUBSET (SUBSET A), Bad # {}
    PROVE  \E s \in Bad : \A x \in s : s \ {x} \notin Bad
<1>1. IsWellFoundedOn(StrictSubsetOrdering(A), SUBSET A)
  BY FS_FiniteSubsetsOfFinite, FS_StrictSubsetOrderingWellFounded
<1>2. PICK s \in Bad : \A r \in Bad : ~ (<<r, s>> \in StrictSubsetOrdering(A))
  BY <1>1, WFMin
<1>3. ASSUME NEW x \in s PROVE <<s \ {x}, s>> \in StrictSubsetOrdering(A)
  BY DEF StrictSubsetOrdering
<1> QED BY <1>2, <1>3

(* Induction over the naturals, for a set of them.                         *)
LEMMA NaturalsBySuccessor ==
    ASSUME NEW T, 0 \in T, \A n \in Nat : n \in T => n + 1 \in T
    PROVE  Nat \subseteq T
<1> DEFINE less == OpToRel(<, Nat)
<1>1. SUFFICES ASSUME NEW bad \in Nat \ T PROVE FALSE
  OBVIOUS
<1>2. IsWellFoundedOn(less, Nat)
  BY NatLessThanWellFounded, Zenon
<1>3. \A m, n \in Nat : m < n => <<m, n>> \in less
  BY DEF OpToRel
<1> HIDE DEF less
<1>4. PICK n \in Nat \ T : \A m \in Nat \ T : ~ (<<m, n>> \in less)
  BY <1>2, WFMin
<1>5. n # 0 /\ n - 1 \in Nat /\ n - 1 < n /\ (n - 1) + 1 = n
  OBVIOUS
<1> QED BY <1>3, <1>4, <1>5

---------------------------------------------------------------------------
(* Sums over sets.  Rest is what Power adds up: a recursion on the subsets.*)
First(s) == CHOOSE x \in s : TRUE
SumOf(w, g, s) == IF s = {} THEN 0 ELSE w[First(s)] + g[s \ {First(s)}]
IsSum(w, g, A) == g = [s \in SUBSET A |-> SumOf(w, g, s)]

LEMMA SumsExist ==
    ASSUME NEW A, IsFiniteSet(A), NEW w
    PROVE  \E g : IsSum(w, g, A)
<1> DEFINE Level(n) == {s \in SUBSET A : Cardinality(s) <= n}
           T == {n \in Nat : \E g : g = [s \in Level(n) |-> SumOf(w, g, s)]}
<1>0. \A s \in SUBSET A : IsFiniteSet(s) /\ Cardinality(s) \in Nat /\ (Cardinality(s) = 0 <=> s = {})
  BY FS_Subset, FS_CardinalityType, FS_EmptySet
<1>1. 0 \in T
  <2>1. \A s \in Level(0) : s = {}
    BY <1>0
  <2> DEFINE g == [s \in Level(0) |-> 0]
  <2>2. g = [s \in Level(0) |-> SumOf(w, g, s)]
    BY <2>1 DEF SumOf
  <2> QED BY <2>2
<1>2. ASSUME NEW n \in Nat, n \in T PROVE n + 1 \in T
  <2>1. PICK g : g = [s \in Level(n) |-> SumOf(w, g, s)]
    BY <1>2
  <2> DEFINE h == [s \in Level(n + 1) |-> SumOf(w, g, s)]
  <2>2. ASSUME NEW s \in Level(n + 1) PROVE SumOf(w, g, s) = SumOf(w, h, s)
    <3>1. CASE s = {}
      BY <3>1 DEF SumOf
    <3>2. CASE s # {}
      <4>1. First(s) \in s
        BY <3>2 DEF First
      <4> DEFINE r == s \ {First(s)}
      <4>2. Cardinality(r) = Cardinality(s) - 1 /\ r \in SUBSET A
        BY <1>0, <4>1, FS_RemoveElement
      <4>3. r \in Level(n) /\ r \in Level(n + 1)
        BY <1>0, <4>2
      <4> HIDE DEF r, Level
      <4>4. g[r] = h[r]
        BY <2>1, <4>3
      <4> QED BY <4>4, <3>2 DEF SumOf, r
    <3> QED BY <3>1, <3>2
  <2> HIDE DEF Level
  <2>3. h = [s \in Level(n + 1) |-> SumOf(w, h, s)]
    BY <2>2
  <2>4. \E f : f = [s \in Level(n + 1) |-> SumOf(w, f, s)]
    <3> HIDE DEF h
    <3> QED BY <2>3
  <2> QED BY <2>4
<1>3. Cardinality(A) \in T
  <2>1. Cardinality(A) \in Nat
    BY <1>0
  <2> HIDE DEF T
  <2> QED BY <1>1, <1>2, <2>1, NaturalsBySuccessor
<1>4. Level(Cardinality(A)) = SUBSET A
  BY FS_Subset
<1> QED BY <1>3, <1>4 DEF IsSum

(* The sum of w over a set.                                                *)
Total(w, S) == MapThenSumSet(LAMBDA k : w[k], S)

LEMMA TotalIsSum ==
    ASSUME NEW A, IsFiniteSet(A), NEW w
    PROVE  \E g : IsSum(w, g, A) /\ Total(w, A) = g[A]
<1> DEFINE g == CHOOSE g : IsSum(w, g, A)
<1>1. IsSum(w, g, A)
  BY SumsExist
<1>2. Total(w, A) = g[A]
  BY DEF Total, MapThenSumSet, MapThenFoldSet, IsSum, SumOf, First
<1> QED BY <1>1, <1>2

(* Two such recursions agree where both are defined.                       *)
LEMMA SumsAgree ==
    ASSUME NEW A, IsFiniteSet(A), NEW B \in SUBSET A, NEW w, NEW g, NEW h,
           IsSum(w, g, A), IsSum(w, h, B)
    PROVE  g[B] = h[B]
<1>0. IsFiniteSet(B)
  BY FS_Subset
<1> DEFINE Bad == {s \in SUBSET B : g[s] # h[s]}
<1>1. SUFFICES ASSUME Bad # {} PROVE FALSE
  BY SMT
<1>2. PICK s \in Bad : \A x \in s : s \ {x} \notin Bad
  <2>1. Bad \subseteq SUBSET B
    OBVIOUS
  <2> HIDE DEF Bad
  <2> QED BY <1>0, <1>1, <2>1, SomeMinimal
<1>3. g[s] = SumOf(w, g, s) /\ h[s] = SumOf(w, h, s)
  BY DEF IsSum
<1>4. s # {}
  BY <1>3, <1>2 DEF SumOf
<1>5. First(s) \in s
  BY <1>4 DEF First
<1>6. s \ {First(s)} \notin Bad
  BY <1>2, <1>5
<1>7. g[s \ {First(s)}] = h[s \ {First(s)}]
  BY <1>6
<1> QED BY <1>2, <1>3, <1>4, <1>7 DEF SumOf

(* A sum is what the first element weighs and the sum of the others.       *)
LEMMA TotalOfFirst ==
    ASSUME NEW A, IsFiniteSet(A), NEW w
    PROVE  Total(w, A) = IF A = {} THEN 0 ELSE w[First(A)] + Total(w, A \ {First(A)})
<1> DEFINE B == A \ {First(A)}
<1>1. PICK g : IsSum(w, g, A) /\ Total(w, A) = g[A]
  BY TotalIsSum
<1>2. PICK h : IsSum(w, h, B) /\ Total(w, B) = h[B]
  <2>1. IsFiniteSet(B)
    BY FS_Subset
  <2> QED BY <2>1, TotalIsSum
<1>3. g[B] = h[B]
  BY <1>1, <1>2, SumsAgree
<1>4. g[A] = SumOf(w, g, A)
  BY <1>1 DEF IsSum
<1> QED BY <1>1, <1>2, <1>3, <1>4 DEF SumOf

LEMMA TotalType ==
    ASSUME NEW A, IsFiniteSet(A), NEW w, \A k \in A : w[k] \in Nat
    PROVE  Total(w, A) \in Nat
<1> DEFINE T == {S \in SUBSET A : Total(w, S) \in Nat}
<1> DEFINE Bad == {S \in SUBSET A : Total(w, S) \notin Nat}
<1>1. SUFFICES ASSUME Bad # {} PROVE FALSE
  BY SMT
<1>2. PICK s \in Bad : \A x \in s : s \ {x} \notin Bad
  <2>1. Bad \subseteq SUBSET A
    OBVIOUS
  <2> HIDE DEF Bad
  <2> QED BY <1>1, <2>1, SomeMinimal
<1>3. Total(w, s) = IF s = {} THEN 0 ELSE w[First(s)] + Total(w, s \ {First(s)})
  BY FS_Subset, TotalOfFirst
<1>4. s # {}
  BY <1>2, <1>3
<1>5. First(s) \in s
  BY <1>4 DEF First
<1>6. Total(w, s \ {First(s)}) \in Nat
  BY <1>2, <1>5
<1> QED BY <1>2, <1>3, <1>4, <1>5, <1>6

(* Whichever element is taken out first, the sum is the same.              *)
LEMMA TotalOfAny ==
    ASSUME NEW A, IsFiniteSet(A), NEW w, \A k \in A : w[k] \in Nat, NEW x \in A
    PROVE  Total(w, A) = w[x] + Total(w, A \ {x})
<1> DEFINE Bad == {S \in SUBSET A : \E k \in S : Total(w, S) # w[k] + Total(w, S \ {k})}
<1>1. SUFFICES ASSUME Bad # {} PROVE FALSE
  <2>1. A \notin Bad => Total(w, A) = w[x] + Total(w, A \ {x})
    OBVIOUS
  <2> QED BY <2>1
<1>2. PICK s \in Bad : \A k \in s : s \ {k} \notin Bad
  <2>1. Bad \subseteq SUBSET A
    OBVIOUS
  <2> HIDE DEF Bad
  <2> QED BY <1>1, <2>1, SomeMinimal
<1>3. PICK k \in s : Total(w, s) # w[k] + Total(w, s \ {k})
  BY <1>2
<1> DEFINE f == First(s)
<1>4. f \in s /\ Total(w, s) = w[f] + Total(w, s \ {f})
  <2>1. IsFiniteSet(s)
    BY FS_Subset
  <2> QED BY <2>1, <1>3, TotalOfFirst DEF First
<1>5. f # k
  BY <1>3, <1>4
<1> HIDE DEF f
<1>6. s \ {f} \notin Bad /\ s \ {k} \notin Bad
  BY <1>2, <1>3, <1>4
<1>7. Total(w, s \ {f}) = w[k] + Total(w, (s \ {f}) \ {k})
  BY <1>3, <1>5, <1>6
<1>8. Total(w, s \ {k}) = w[f] + Total(w, (s \ {k}) \ {f})
  BY <1>4, <1>5, <1>6
<1>9. (s \ {f}) \ {k} = (s \ {k}) \ {f}
  OBVIOUS
<1>10. Total(w, (s \ {k}) \ {f}) \in Nat /\ w[f] \in Nat /\ w[k] \in Nat
  <2>1. IsFiniteSet((s \ {k}) \ {f})
    BY FS_Subset
  <2> QED BY <2>1, <1>3, <1>4, TotalType
<1>11. Total(w, s) = w[f] + (w[k] + Total(w, (s \ {k}) \ {f}))
  BY <1>4, <1>7, <1>9
<1> QED BY <1>3, <1>8, <1>10, <1>11

(* Sums of weights that agree on the set agree.                            *)
LEMMA TotalsAgree ==
    ASSUME NEW A, IsFiniteSet(A), NEW v, NEW w, \A k \in A : v[k] = w[k]
    PROVE  Total(v, A) = Total(w, A)
<1> DEFINE Bad == {S \in SUBSET A : Total(v, S) # Total(w, S)}
<1>1. SUFFICES ASSUME Bad # {} PROVE FALSE
  BY SMT
<1>2. PICK s \in Bad : \A x \in s : s \ {x} \notin Bad
  <2>1. Bad \subseteq SUBSET A
    OBVIOUS
  <2> HIDE DEF Bad
  <2> QED BY <1>1, <2>1, SomeMinimal
<1>3. /\ Total(v, s) = IF s = {} THEN 0 ELSE v[First(s)] + Total(v, s \ {First(s)})
      /\ Total(w, s) = IF s = {} THEN 0 ELSE w[First(s)] + Total(w, s \ {First(s)})
  <2>1. IsFiniteSet(s)
    BY FS_Subset
  <2> QED BY <2>1, TotalOfFirst
<1>4. s # {}
  BY <1>2, <1>3
<1>5. First(s) \in s
  BY <1>4 DEF First
<1>6. Total(v, s \ {First(s)}) = Total(w, s \ {First(s)})
  BY <1>2, <1>5
<1> QED BY <1>2, <1>3, <1>4, <1>5, <1>6
---------------------------------------------------------------------------
(* Validation.                                                             *)

(* The running totals are what their recursion says.                       *)
LEMMA SignedWeightUnfolds ==
    ASSUME NEW entries, Len(entries) \in Nat
    PROVE  SignedWeight(entries) =
               [i \in 0 .. Len(entries) |->
                   IF i = 0 THEN 0
                   ELSE SignedWeight(entries)[i - 1] + weights[entries[i].key]]
<1> DEFINE Def(t, i) == IF i = 0 THEN 0 ELSE t[i - 1] + weights[entries[i].key]
           T == {m \in Nat : \E t : t = [i \in 0 .. m |-> Def(t, i)]}
<1>1. 0 \in T
  <2> DEFINE t == [i \in 0 .. 0 |-> 0]
  <2>1. t = [i \in 0 .. 0 |-> Def(t, i)]
    OBVIOUS
  <2>2. \E u : u = [i \in 0 .. 0 |-> Def(u, i)]
    <3> HIDE DEF t
    <3> QED BY <2>1
  <2> QED BY <2>2
<1>2. ASSUME NEW m \in Nat, m \in T PROVE m + 1 \in T
  <2>1. PICK t : t = [i \in 0 .. m |-> Def(t, i)]
    BY <1>2
  <2> DEFINE u == [i \in 0 .. m + 1 |-> Def(t, i)]
  <2>2. ASSUME NEW i \in 0 .. m + 1 PROVE Def(t, i) = Def(u, i)
    <3>1. CASE i = 0
      BY <3>1
    <3>2. CASE i # 0
      <4>1. i - 1 \in 0 .. m /\ i - 1 \in 0 .. m + 1
        BY <3>2
      <4>2. t[i - 1] = u[i - 1]
        BY <2>1, <4>1
      <4> QED BY <3>2, <4>2
    <3> QED BY <3>1, <3>2
  <2>3. u = [i \in 0 .. m + 1 |-> Def(u, i)]
    BY <2>2
  <2>4. \E v : v = [i \in 0 .. m + 1 |-> Def(v, i)]
    <3> HIDE DEF u
    <3> QED BY <2>3
  <2> QED BY <2>4
<1>3. Len(entries) \in T
  <2> HIDE DEF T
  <2> QED BY <1>1, <1>2, NaturalsBySuccessor
<1> DEFINE total == CHOOSE t : t = [i \in 0 .. Len(entries) |-> Def(t, i)]
<1>4. total = [i \in 0 .. Len(entries) |-> Def(total, i)]
  BY <1>3
<1>5. SignedWeight(entries) = total
  BY DEF SignedWeight
<1> QED
  <2> HIDE DEF total
  <2> QED BY <1>4, <1>5

(* A signature field as the sequencer hands it over.                       *)
EntryLists == Seq([key : Keys, genuine : BOOLEAN])
GoodSignature(sig) == sig.count \in Nat /\ sig.entries \in EntryLists

LEMMA GivenSignatures == \A sig \in Signatures : GoodSignature(sig)
BY SignaturesAssumption DEF GoodSignature, EntryLists

Ascending(e) == \A i, j \in 1 .. Len(e) : i < j => e[i].key < e[j].key
WeightsOK == weights \in [Felts -> U128]

LEMMA EntryTypes ==
    ASSUME NEW e \in EntryLists
    PROVE  /\ Len(e) \in Nat
           /\ \A i \in 1 .. Len(e) : e[i].key \in Keys /\ e[i].key \in Nat
           /\ WeightsOK => \A k \in Keys : weights[k] \in Nat
<1> DEFINE E == [key : Keys, genuine : BOOLEAN]
<1>1. Len(e) \in Nat /\ \A i \in 1 .. Len(e) : e[i] \in E
  <2>1. e \in Seq(E)
    BY DEF EntryLists
  <2> HIDE DEF E
  <2> QED BY <2>1
<1>2. \A i \in 1 .. Len(e) : e[i].key \in Keys
  BY <1>1
<1>3. \A i \in 1 .. Len(e) : e[i].key \in Nat
  BY <1>2, KeysAssumption
<1>4. WeightsOK => \A k \in Keys : weights[k] \in Nat
  BY BoundsAssumption DEF WeightsOK, Felts, U128
<1> QED BY <1>1, <1>2, <1>3, <1>4

(* The order rule looks at neighbours only; that is enough for all pairs.  *)
LEMMA NeighboursAscend ==
    ASSUME NEW e \in EntryLists
    PROVE  (\A i \in 1 .. Len(e) : MinKey(e, i) <= e[i].key) <=> Ascending(e)
<1>0. Len(e) \in Nat /\ \A i \in 1 .. Len(e) : e[i].key \in Nat
  BY EntryTypes
<1>1. ASSUME Ascending(e), NEW i \in 1 .. Len(e) PROVE MinKey(e, i) <= e[i].key
  <2>1. CASE i = 1
    BY <1>0, <2>1 DEF MinKey
  <2>2. CASE i # 1
    <3>1. i - 1 \in 1 .. Len(e) /\ i - 1 < i
      BY <1>0, <2>2
    <3>2. e[i - 1].key < e[i].key
      BY <1>1, <3>1 DEF Ascending
    <3> QED BY <1>0, <2>2, <3>1, <3>2 DEF MinKey
  <2> QED BY <2>1, <2>2
<1>2. ASSUME \A i \in 1 .. Len(e) : MinKey(e, i) <= e[i].key PROVE Ascending(e)
  <2> DEFINE T == {n \in Nat : \A i, j \in 1 .. Len(e) : i < j /\ j <= n => e[i].key < e[j].key}
  <2>1. 0 \in T
    BY <1>0
  <2>2. ASSUME NEW n \in Nat, n \in T PROVE n + 1 \in T
    <3> SUFFICES ASSUME NEW i \in 1 .. Len(e), NEW j \in 1 .. Len(e), i < j, j = n + 1
                 PROVE  e[i].key < e[j].key
      BY <1>0, <2>2
    <3>1. n \in 1 .. Len(e) /\ j # 1 /\ j - 1 = n
      BY <1>0
    <3>2. e[n].key + 1 <= e[j].key
      BY <1>2, <3>1 DEF MinKey
    <3>3. i = n \/ e[i].key < e[n].key
      BY <2>2, <3>1
    <3> QED BY <1>0, <3>1, <3>2, <3>3
  <2>3. Len(e) \in T
    <3> HIDE DEF T
    <3> QED BY <1>0, <2>1, <2>2, NaturalsBySuccessor
  <2> QED BY <1>0, <2>3 DEF Ascending
<1> QED BY <1>1, <1>2

(* Then every signer is counted once: the running total is the power of    *)
(* the set of those who signed so far.                                     *)
LEMMA SignedWeightIsPower ==
    ASSUME WeightsOK, NEW e \in EntryLists, Ascending(e), NEW m \in 0 .. Len(e)
    PROVE  /\ IsFiniteSet({e[i].key : i \in 1 .. m})
           /\ SignedWeight(e)[m] = Total(weights, {e[i].key : i \in 1 .. m})
<1> DEFINE S(n) == {e[i].key : i \in 1 .. n}
           T == {n \in Nat : n <= Len(e) =>
                    /\ IsFiniteSet(S(n)) /\ SignedWeight(e)[n] = Total(weights, S(n))
                    /\ Total(weights, S(n)) \in Nat}
<1>0. /\ Len(e) \in Nat
      /\ \A i \in 1 .. Len(e) : e[i].key \in Keys /\ e[i].key \in Nat
      /\ \A k \in Keys : weights[k] \in Nat
  BY EntryTypes
<1>1. 0 \in T
  <2>1. S(0) = {}
    OBVIOUS
  <2>4. IsFiniteSet({})
    BY FS_EmptySet
  <2>2. Total(weights, {}) = 0
    BY FS_EmptySet, TotalOfFirst
  <2>3. SignedWeight(e)[0] = 0
    BY <1>0, SignedWeightUnfolds
  <2> HIDE DEF S
  <2>5. Total(weights, S(0)) = 0 /\ IsFiniteSet(S(0))
    BY <2>1, <2>2, <2>4
  <2> QED BY <2>3, <2>5
<1>2. ASSUME NEW n \in Nat, n \in T PROVE n + 1 \in T
  <2> SUFFICES ASSUME n + 1 <= Len(e)
               PROVE  /\ IsFiniteSet(S(n + 1))
                      /\ SignedWeight(e)[n + 1] = Total(weights, S(n + 1))
                      /\ Total(weights, S(n + 1)) \in Nat
    OBVIOUS
  <2> DEFINE k == e[n + 1].key
  <2>0. n + 1 \in 1 .. Len(e) /\ n + 1 \in 0 .. Len(e)
    BY <1>0
  <2>1. IsFiniteSet(S(n)) /\ SignedWeight(e)[n] = Total(weights, S(n)) /\ Total(weights, S(n)) \in Nat
    BY <1>0, <1>2
  <2>2. S(n + 1) = S(n) \cup {k}
    OBVIOUS
  <2>3. k \notin S(n)
    <3> SUFFICES ASSUME NEW i \in 1 .. n, e[i].key = k PROVE FALSE
      OBVIOUS
    <3>1. i \in 1 .. Len(e) /\ i < n + 1
      BY <1>0
    <3>2. e[i].key < e[n + 1].key
      BY <2>0, <3>1 DEF Ascending
    <3> QED BY <1>0, <2>0, <3>1, <3>2
  <2>4. S(n + 1) \subseteq Keys
    BY <1>0
  <2> HIDE DEF S, T, k
  <2>5. IsFiniteSet(S(n + 1))
    BY <2>1, <2>2, FS_AddElement
  <2>6. Total(weights, S(n + 1)) = weights[k] + Total(weights, S(n + 1) \ {k})
    <3>1. k \in S(n + 1) /\ \A x \in S(n + 1) : weights[x] \in Nat
      BY <1>0, <2>2, <2>4
    <3> QED BY <2>5, <3>1, TotalOfAny
  <2>7. S(n + 1) \ {k} = S(n)
    BY <2>2, <2>3
  <2>8. SignedWeight(e)[n + 1] = SignedWeight(e)[n] + weights[k]
    <3>1. n + 1 # 0 /\ (n + 1) - 1 = n
      OBVIOUS
    <3> QED BY <1>0, <2>0, <3>1, SignedWeightUnfolds DEF k
  <2>9. weights[k] \in Nat
    BY <1>0, <2>0 DEF k
  <2>10. Total(weights, S(n + 1)) = weights[k] + Total(weights, S(n))
    BY <2>6, <2>7
  <2> QED BY <2>1, <2>5, <2>8, <2>9, <2>10
<1>3. m \in T
  <2>1. m \in Nat
    BY <1>0
  <2> HIDE DEF T
  <2> QED BY <1>1, <1>2, <2>1, NaturalsBySuccessor
<1> QED BY <1>0, <1>3

(* Totals only grow, so if the last one fits a u128 all of them do.        *)
LEMMA SignedWeightGrows ==
    ASSUME WeightsOK, NEW e \in EntryLists, Ascending(e), NEW m \in 0 .. Len(e)
    PROVE  SignedWeight(e)[m] \in Nat /\ SignedWeight(e)[m] <= SignedWeight(e)[Len(e)]
<1> DEFINE T == {n \in Nat : n <= Len(e) => \A i \in 0 .. n : 
                    SignedWeight(e)[i] \in Nat /\ SignedWeight(e)[n] \in Nat /\ SignedWeight(e)[i] <= SignedWeight(e)[n]}
<1>0. /\ Len(e) \in Nat
      /\ \A i \in 1 .. Len(e) : e[i].key \in Keys
      /\ \A k \in Keys : weights[k] \in Nat
  BY EntryTypes
<1>1. 0 \in T
  BY <1>0, SignedWeightUnfolds
<1>2. ASSUME NEW n \in Nat, n \in T PROVE n + 1 \in T
  <2> SUFFICES ASSUME n + 1 <= Len(e), NEW i \in 0 .. n + 1
               PROVE  /\ SignedWeight(e)[i] \in Nat /\ SignedWeight(e)[n + 1] \in Nat
                      /\ SignedWeight(e)[i] <= SignedWeight(e)[n + 1]
    OBVIOUS
  <2>1. n + 1 \in 1 .. Len(e) /\ n + 1 \in 0 .. Len(e) /\ n + 1 # 0 /\ (n + 1) - 1 = n
    BY <1>0
  <2>2. SignedWeight(e)[n + 1] = SignedWeight(e)[n] + weights[e[n + 1].key]
    BY <1>0, <2>1, SignedWeightUnfolds
  <2>3. weights[e[n + 1].key] \in Nat
    BY <1>0, <2>1
  <2>4. n <= Len(e) /\ n \in 0 .. n
    BY <1>0
  <2>5. SignedWeight(e)[n] \in Nat
    BY <1>2, <2>4
  <2>6. i = n + 1 \/ i \in 0 .. n
    OBVIOUS
  <2> QED BY <1>2, <2>2, <2>3, <2>4, <2>5, <2>6
<1>3. Len(e) \in T
  <2> HIDE DEF T
  <2> QED BY <1>0, <1>1, <1>2, NaturalsBySuccessor
<1> QED BY <1>0, <1>3

(* What deserialization returns.                                           *)
LEMMA DeserializedIs ==
    ASSUME NEW sig, sig.count \in Nat, sig.entries \in EntryLists, Deserializes(sig)
    PROVE  /\ Deserialized(sig) = [i \in 1 .. sig.count |-> sig.entries[i]]
           /\ Deserialized(sig) \in EntryLists
           /\ Len(Deserialized(sig)) = sig.count
<1> DEFINE E == [key : Keys, genuine : BOOLEAN]  s == sig.entries  c == sig.count
<1>1. c \in Nat /\ c <= Len(s) /\ s \in Seq(E)
  BY DEF Deserializes, EntryLists
<1> HIDE DEF E, s, c
<1>2. SubSeq(s, 1, c) = [i \in 1 .. c |-> s[i]]
  BY <1>1
<1>3. SubSeq(s, 1, c) \in Seq(E) /\ Len(SubSeq(s, 1, c)) = c
  BY <1>1
<1> QED
  BY <1>2, <1>3 DEF Deserialized, EntryLists, s, c, E

(* The rule, for any signature of keys of the account.                     *)
LEMMA ValidatesQuorum ==
    ASSUME WeightsOK, threshold \in U128, NEW sig, sig.count \in Nat, sig.entries \in EntryLists
    PROVE  ValidateTransaction(sig) <=>
            /\ sig.count <= Len(sig.entries)
            /\ \A i, j \in 1 .. sig.count : i < j => sig.entries[i].key < sig.entries[j].key
            /\ \A i \in 1 .. sig.count : sig.entries[i].genuine
            /\ Power({sig.entries[i].key : i \in 1 .. sig.count}) \in threshold .. MaxWeight
<1> SUFFICES ASSUME Deserializes(sig)
             PROVE  ValidateTransaction(sig) <=>
                    /\ \A i, j \in 1 .. sig.count : i < j => sig.entries[i].key < sig.entries[j].key
                    /\ \A i \in 1 .. sig.count : sig.entries[i].genuine
                    /\ Power({sig.entries[i].key : i \in 1 .. sig.count}) \in threshold .. MaxWeight
  BY DEF ValidateTransaction, Deserializes
<1> DEFINE e == Deserialized(sig)
           c == sig.count
           S == {sig.entries[i].key : i \in 1 .. c}
<1>1. e \in EntryLists /\ Len(e) = c /\ c \in Nat /\ \A i \in 1 .. c : e[i] = sig.entries[i]
  BY DeserializedIs
<1> HIDE DEF e, c
<1>2. ValidateTransaction(sig) <=> EntriesPass(e) /\ SignedWeight(e)[c] >= threshold
  BY <1>1 DEF ValidateTransaction, e
<1>3. S = {e[i].key : i \in 1 .. c}
  BY <1>1
<1>4. (\A i, j \in 1 .. c : i < j => sig.entries[i].key < sig.entries[j].key) <=> Ascending(e)
  BY <1>1 DEF Ascending
<1>5. EntriesPass(e) => Ascending(e)
  <2>1. EntriesPass(e) => \A i \in 1 .. Len(e) : MinKey(e, i) <= e[i].key
    BY DEF EntriesPass
  <2> QED BY <1>1, <2>1, NeighboursAscend
<1>6. ASSUME Ascending(e)
      PROVE  /\ SignedWeight(e)[c] = Power(S) /\ SignedWeight(e)[c] \in Nat
             /\ EntriesPass(e) <=> /\ \A i \in 1 .. c : e[i].genuine
                                   /\ SignedWeight(e)[c] <= MaxWeight
  <2>1. SignedWeight(e)[c] = Power(S)
    <3>1. c \in 0 .. Len(e)
      BY <1>1
    <3>2. SignedWeight(e)[c] = Total(weights, {e[i].key : i \in 1 .. c})
      BY <1>1, <1>6, <3>1, SignedWeightIsPower
    <3> HIDE DEF S
    <3> QED BY <1>3, <3>2 DEF Power, Total
  <2>2. \A m \in 0 .. c : SignedWeight(e)[m] \in Nat /\ SignedWeight(e)[m] <= SignedWeight(e)[c]
    BY <1>1, <1>6, SignedWeightGrows
  <2>3. SignedWeight(e)[c] \in Nat
    BY <1>1, <2>2
  <2>4. SignedWeight(e)[0] = 0
    BY <1>1, SignedWeightUnfolds
  <2>5. \A i \in 1 .. c : MinKey(e, i) <= e[i].key
    BY <1>1, <1>6, NeighboursAscend
  <2>6. (\A i \in 1 .. c : SignedWeight(e)[i] <= MaxWeight) <=> SignedWeight(e)[c] <= MaxWeight
    <3>1. ASSUME SignedWeight(e)[c] <= MaxWeight, NEW i \in 1 .. c
          PROVE  SignedWeight(e)[i] <= MaxWeight
      <4>1. i \in 0 .. c
        BY <1>1
      <4> QED BY <2>2, <2>3, <3>1, <4>1, BoundsAssumption
    <3>2. CASE c = 0
      BY <3>2, <2>4, BoundsAssumption
    <3>3. CASE c # 0
      <4>1. c \in 1 .. c
        BY <1>1, <3>3
      <4> QED BY <3>1, <4>1
    <3> QED BY <3>2, <3>3
  <2>7. EntriesPass(e) <=> /\ \A i \in 1 .. c : e[i].genuine
                           /\ SignedWeight(e)[c] <= MaxWeight
    BY <1>1, <2>5, <2>6 DEF EntriesPass
  <2> QED BY <2>1, <2>3, <2>7
<1>7. CASE Ascending(e)
  <2>1. (\A i \in 1 .. c : e[i].genuine) <=> \A i \in 1 .. c : sig.entries[i].genuine
    BY <1>1
  <2>2. SignedWeight(e)[c] \in threshold .. MaxWeight
           <=> SignedWeight(e)[c] >= threshold /\ SignedWeight(e)[c] <= MaxWeight
    BY <1>6, <1>7, BoundsAssumption DEF U128
  <2> HIDE DEF S
  <2>3. Power(S) \in threshold .. MaxWeight
           <=> SignedWeight(e)[c] >= threshold /\ SignedWeight(e)[c] <= MaxWeight
    BY <1>6, <1>7, <2>2
  <2> QED BY <1>2, <1>4, <1>6, <1>7, <2>1, <2>3 DEF S, c
<1>8. CASE ~Ascending(e)
  BY <1>2, <1>4, <1>5, <1>8 DEF c
<1> QED BY <1>7, <1>8

(* Validation accepts exactly the quorums.                                 *)
LEMMA TypeQuorum == TypeOK => ValidationIsQuorum
<1> SUFFICES ASSUME TypeOK, NEW sig \in Signatures
             PROVE  ValidateTransaction(sig) <=>
            /\ sig.count <= Len(sig.entries)
            /\ \A i, j \in 1 .. sig.count : i < j => sig.entries[i].key < sig.entries[j].key
            /\ \A i \in 1 .. sig.count : sig.entries[i].genuine
            /\ Power({sig.entries[i].key : i \in 1 .. sig.count}) \in threshold .. MaxWeight
  BY DEF ValidationIsQuorum
<1>1. WeightsOK /\ threshold \in U128 /\ sig.count \in Nat /\ sig.entries \in EntryLists
  BY SignaturesAssumption DEF TypeOK, WeightsOK, EntryLists
<1> QED BY <1>1, ValidatesQuorum
---------------------------------------------------------------------------
(* The entry point names a receipt can carry.                              *)
LEMMA DispatchEntry ==
    ASSUME NEW caller, NEW call \in DirectCalls, Dispatch(caller, call), caller # "account"
    PROVE  call.fn = "elsewhere" /\ UNCHANGED config
BY DEF Dispatch, AddKey, RemoveKeyAt, SetThreshold

(* The signers of a signature that deserializes are keys.                  *)
LEMMA SignersAre ==
    ASSUME NEW sig, GoodSignature(sig), Deserializes(sig)
    PROVE  /\ Signers(sig) = {sig.entries[i].key : i \in 1 .. sig.count}
           /\ Signers(sig) \in SUBSET Keys
<1> DEFINE e == Deserialized(sig)
<1>1. e \in EntryLists /\ Len(e) = sig.count /\ \A i \in 1 .. sig.count : e[i] = sig.entries[i]
  BY DeserializedIs DEF GoodSignature
<1>2. \A i \in 1 .. Len(e) : e[i].key \in Keys
  <2> HIDE DEF e
  <2> QED BY <1>1, EntryTypes
<1>3. Signers(sig) = {e[i].key : i \in 1 .. Len(e)}
  BY DEF Signers
<1> HIDE DEF e
<1> QED BY <1>1, <1>2, <1>3

LEMMA AddKeyType ==
    ASSUME TypeOK, NEW caller, NEW key \in Keys, NEW weight \in U128, AddKey(caller, key, weight)
    PROVE  threshold' \in U128 /\ n_keys' \in 0 .. MaxKeys
           /\ weights' \in [Felts -> U128] /\ keys' \in [Slots -> Felts]
BY BoundsAssumption DEF TypeOK, AddKey, Felts, Slots

LEMMA RemoveKeyAtType ==
    ASSUME TypeOK, NEW caller, NEW index \in Nat, RemoveKeyAt(caller, index)
    PROVE  threshold' \in U128 /\ n_keys' \in 0 .. MaxKeys
           /\ weights' \in [Felts -> U128] /\ keys' \in [Slots -> Felts]
<1>1. n_keys - 1 \in Slots /\ index \in Slots
  BY BoundsAssumption DEF TypeOK, RemoveKeyAt, Slots
<1>2. keys[index] \in Felts /\ keys[n_keys - 1] \in Felts /\ NoKey \in Felts /\ 0 \in U128
  BY <1>1, BoundsAssumption DEF TypeOK, Felts, U128
<1>3. keys' \in [Slots -> Felts] /\ weights' \in [Felts -> U128]
  BY <1>2 DEF TypeOK, RemoveKeyAt
<1>4. threshold' \in U128 /\ n_keys' \in 0 .. MaxKeys
  BY BoundsAssumption DEF TypeOK, RemoveKeyAt
<1> QED
  BY <1>3, <1>4

(* Every call the account accepts leaves its storage well typed.           *)
LEMMA DispatchType ==
    ASSUME TypeOK, NEW caller, NEW call \in Calls, Dispatch(caller, call)
    PROVE  threshold' \in U128 /\ n_keys' \in 0 .. MaxKeys
           /\ weights' \in [Felts -> U128] /\ keys' \in [Slots -> Felts]
<1>1. CASE call.fn = "add_key" /\ AddKey(caller, call.key, call.weight)
  <2>1. call.key \in Keys /\ call.weight \in U128
    BY <1>1 DEF Calls
  <2> QED
    BY <1>1, <2>1, AddKeyType
<1>2. CASE call.fn = "remove_key_at" /\ RemoveKeyAt(caller, call.index)
  <2>1. call.index \in Nat
    BY <1>2 DEF Calls
  <2> QED
    BY <1>2, <2>1, RemoveKeyAtType
<1>3. CASE call.fn = "set_threshold" /\ SetThreshold(caller, call.threshold)
  <2>1. call.threshold \in U128
    BY <1>3 DEF Calls
  <2> QED
    BY <1>3, <2>1 DEF TypeOK, SetThreshold
<1>4. CASE call.fn = "elsewhere" /\ UNCHANGED config
  BY <1>4 DEF TypeOK, config
<1> QED
  BY <1>1, <1>2, <1>3, <1>4 DEF Dispatch

LEMMA InitType == Init => TypeOK
<1> SUFFICES ASSUME Init PROVE TypeOK
  OBVIOUS
<1>1. PICK d \in Deployments : Constructed(d)
  BY DEF Init
<1> DEFINE n == Len(d.keys_and_weights)
<1>2. /\ d.threshold \in U128
      /\ d.keys_and_weights \in Seq(Keys \X U128)
      /\ n \in 0 .. MaxKeys
  BY DeploymentsAssumption
<1>3. \A i \in 1 .. n : d.keys_and_weights[i][1] \in Keys
  BY <1>2
<1>4. keys \in [Slots -> Felts]
  <2>1. \A i \in Slots : i < n => i + 1 \in 1 .. n
    BY <1>2 DEF Slots
  <2>2. \A i \in Slots : i < n => d.keys_and_weights[i + 1][1] \in Felts
    BY <2>1, <1>3 DEF Felts
  <2>3. keys = [i \in Slots |-> IF i < n THEN d.keys_and_weights[i + 1][1] ELSE NoKey]
    BY <1>1 DEF Constructed
  <2> QED
    BY <2>2, <2>3 DEF Felts
<1>5. threshold \in U128 /\ n_keys \in 0 .. MaxKeys /\ weights \in [Felts -> U128]
  BY <1>1, <1>2 DEF Constructed
<1>6. nonce \in 0 .. MaxNonce
  BY BoundsAssumption DEF Init
<1> QED
  BY <1>4, <1>5, <1>6 DEF Init, TypeOK

(* Whoever made the signature.                                             *)
LEMMA InvokeType ==
    ASSUME TypeOK, NEW tx \in Txs, NEW sig, GoodSignature(sig), Invoke(tx, sig)
    PROVE  TypeOK'
<1>1. tx.version # 0 /\ Len(tx.calls) = 1 /\ Dispatch(tx.calls[1].caller, tx.calls[1])
  BY DEF Invoke, Execute
<1>2. tx.calls[1] \in Calls
  BY <1>1, TxsAssumption
<1>3. threshold' \in U128 /\ n_keys' \in 0 .. MaxKeys
      /\ weights' \in [Felts -> U128] /\ keys' \in [Slots -> Felts]
  BY <1>1, <1>2, DispatchType
<1>4. Signers(sig) \in SUBSET Keys
  BY <1>1, SignersAre DEF Invoke, ValidateTransaction
<1> QED
  BY <1>3, <1>4, BoundsAssumption DEF Invoke, TypeOK

LEMMA NextType == TypeOK /\ [Next]_vars => TypeOK'
<1> SUFFICES ASSUME TypeOK, [Next]_vars PROVE TypeOK'
  OBVIOUS
<1>1. ASSUME NEW tx \in Txs, NEW sig \in Signatures, Invoke(tx, sig)
      PROVE  TypeOK'
  BY <1>1, InvokeType, GivenSignatures
<1>2. ASSUME NEW sig \in Signatures, Declare(sig)
      PROVE  TypeOK'
  <2>1. Signers(sig) \in SUBSET Keys
    BY <1>2, SignersAre, GivenSignatures DEF Declare, ValidateTransaction
  <2> QED
    BY <2>1, <1>2, BoundsAssumption DEF Declare, TypeOK, config
<1>3. ASSUME NEW caller \in {"other", "zero"}, NEW call \in DirectCalls,
             CallDirectly(caller, call)
      PROVE  TypeOK'
  BY <1>3, DispatchEntry DEF CallDirectly, TypeOK, config
<1>4. CASE UNCHANGED vars
  BY <1>4 DEF TypeOK, vars
<1> QED
  BY <1>1, <1>2, <1>3, <1>4 DEF Next

(* The storage of the account always has its type: no call makes n_keys    *)
(* leave the usize range, a listed key is a felt and a weight is a u128.   *)
THEOREM TypeCorrect == Spec => []TypeOK
BY InitType, NextType, PTL DEF Spec

---------------------------------------------------------------------------
LEMMA InitListed == Init => LiveWeightIsListed
<1> SUFFICES ASSUME Init, NEW k \in Felts, weights[k] > 0
             PROVE  \E i \in 0 .. (n_keys - 1) : keys[i] = k
  BY DEF LiveWeightIsListed
<1>1. PICK d \in Deployments : Constructed(d)
  BY DEF Init
<1> DEFINE n == Len(d.keys_and_weights)
<1>2. n \in 0 .. MaxKeys /\ n_keys = n
  BY <1>1, DeploymentsAssumption DEF Constructed
<1>3. PICK i \in 1 .. n : d.keys_and_weights[i][1] = k
  BY <1>1 DEF Constructed
<1>4. i - 1 \in Slots /\ i - 1 < n /\ (i - 1) + 1 = i /\ i - 1 \in 0 .. (n_keys - 1)
  BY <1>2, BoundsAssumption DEF Slots
<1>5. keys[i - 1] = k
  <2>1. keys = [j \in Slots |-> IF j < n THEN d.keys_and_weights[j + 1][1] ELSE NoKey]
    BY <1>1 DEF Constructed
  <2> QED
    BY <2>1, <1>4, <1>3
<1> QED
  BY <1>4, <1>5

LEMMA AddKeyListed ==
    ASSUME TypeOK, LiveWeightIsListed,
           NEW caller, NEW key \in Keys, NEW weight \in U128, AddKey(caller, key, weight)
    PROVE  LiveWeightIsListed'
<1> SUFFICES ASSUME NEW k \in Felts, weights'[k] > 0
             PROVE  \E i \in 0 .. (n_keys' - 1) : keys'[i] = k
  BY DEF LiveWeightIsListed
<1>1. n_keys \in Slots /\ n_keys' = n_keys + 1 /\ n_keys \in Nat
  BY BoundsAssumption DEF TypeOK, AddKey, Slots
<1>2. keys'[n_keys] = key /\ \A i \in Slots : i # n_keys => keys'[i] = keys[i]
  BY <1>1 DEF TypeOK, AddKey
<1>3. CASE k = key
  BY <1>1, <1>2, <1>3
<1>4. CASE k # key
  <2>1. weights[k] > 0
    BY <1>4 DEF TypeOK, AddKey
  <2>2. PICK i \in 0 .. (n_keys - 1) : keys[i] = k
    BY <2>1 DEF LiveWeightIsListed
  <2>3. i \in Slots /\ i # n_keys /\ i \in 0 .. (n_keys' - 1)
    BY <1>1, BoundsAssumption DEF Slots
  <2> QED
    BY <2>2, <2>3, <1>2
<1> QED
  BY <1>3, <1>4

(* The swap: a listed key is still where it was, or was the last and takes *)
(* the place of the one removed.                                           *)
LEMMA RemoveKeyAtListed ==
    ASSUME TypeOK, LiveWeightIsListed,
           NEW caller, NEW index \in Nat, RemoveKeyAt(caller, index)
    PROVE  LiveWeightIsListed'
<1> SUFFICES ASSUME NEW k \in Felts, weights'[k] > 0
             PROVE  \E i \in 0 .. (n_keys' - 1) : keys'[i] = k
  BY DEF LiveWeightIsListed
<1> DEFINE last == n_keys - 1
<1>1. index \in Slots /\ last \in Slots /\ index <= last /\ n_keys' = last
  BY BoundsAssumption DEF TypeOK, RemoveKeyAt, Slots
<1>2. keys[index] \in Felts
  BY <1>1 DEF TypeOK
<1>3. k # keys[index] /\ weights[k] > 0
  BY <1>2 DEF TypeOK, RemoveKeyAt, U128
<1>4. PICK i \in 0 .. last : keys[i] = k
  BY <1>3 DEF LiveWeightIsListed
<1>5. i \in Slots /\ i # index
  <2>1. last \in 0 .. (MaxKeys - 1) /\ MaxKeys \in Nat
    BY <1>1, BoundsAssumption DEF Slots
  <2> HIDE DEF last
  <2>2. i \in Slots
    BY <2>1 DEF Slots
  <2>3. i # index
    BY <1>3, <1>4
  <2> QED
    BY <2>2, <2>3
<1>6. keys' = [keys EXCEPT ![index] = keys[last], ![last] = NoKey]
  BY DEF RemoveKeyAt
<1>7. CASE i = last
  <2>1. index # last /\ keys'[index] = k
    BY <1>1, <1>4, <1>5, <1>6, <1>7 DEF TypeOK
  <2>2. index \in 0 .. (n_keys' - 1)
    BY <1>1, <2>1 DEF Slots
  <2> QED
    BY <2>1, <2>2
<1>8. CASE i # last
  <2>1. keys'[i] = k
    BY <1>1, <1>4, <1>5, <1>6, <1>8 DEF TypeOK
  <2>2. i \in 0 .. (n_keys' - 1)
    BY <1>1, <1>8 DEF Slots
  <2> QED
    BY <2>1, <2>2
<1> QED
  BY <1>7, <1>8

LEMMA InvokeListed ==
    ASSUME TypeOK, LiveWeightIsListed, NEW tx \in Txs, NEW sig, Invoke(tx, sig)
    PROVE  LiveWeightIsListed'
<1> DEFINE call == tx.calls[1]
<1>1. Len(tx.calls) = 1 /\ Dispatch(call.caller, call)
  BY DEF Invoke, Execute
<1>2. call \in Calls
  BY <1>1, TxsAssumption
<1>3. CASE call.fn = "add_key" /\ AddKey(call.caller, call.key, call.weight)
  <2>1. call.key \in Keys /\ call.weight \in U128
    BY <1>2, <1>3 DEF Calls
  <2> QED
    BY <1>3, <2>1, AddKeyListed
<1>4. CASE call.fn = "remove_key_at" /\ RemoveKeyAt(call.caller, call.index)
  <2>1. call.index \in Nat
    BY <1>2, <1>4 DEF Calls
  <2> QED
    BY <1>4, <2>1, RemoveKeyAtListed
<1>5. CASE call.fn = "set_threshold" /\ SetThreshold(call.caller, call.threshold)
  BY <1>5 DEF SetThreshold, LiveWeightIsListed
<1>6. CASE UNCHANGED config
  BY <1>6 DEF LiveWeightIsListed, config
<1> QED
  BY <1>1, <1>3, <1>4, <1>5, <1>6 DEF Dispatch

LEMMA NextListed == TypeOK /\ LiveWeightIsListed /\ [Next]_vars => LiveWeightIsListed'
<1> SUFFICES ASSUME TypeOK, LiveWeightIsListed, [Next]_vars PROVE LiveWeightIsListed'
  OBVIOUS
<1>1. CASE UNCHANGED config
  BY <1>1 DEF LiveWeightIsListed, config
<1>2. ASSUME NEW tx \in Txs, NEW sig \in Signatures, Invoke(tx, sig)
      PROVE  LiveWeightIsListed'
  BY <1>2, InvokeListed
<1>3. ASSUME NEW sig \in Signatures, Declare(sig)
      PROVE  LiveWeightIsListed'
  BY <1>1, <1>3 DEF Declare
<1>4. ASSUME NEW caller \in {"other", "zero"}, NEW call \in DirectCalls,
             CallDirectly(caller, call)
      PROVE  LiveWeightIsListed'
  BY <1>1, <1>4, DispatchEntry DEF CallDirectly
<1>5. CASE UNCHANGED vars
  BY <1>1, <1>5 DEF vars, config
<1> QED
  BY <1>2, <1>3, <1>4, <1>5 DEF Next

(* Whatever the owners do, every key that can vote is in the list and so   *)
(* can be removed by its index.                                            *)
THEOREM VotesAreRevocable == Spec => []LiveWeightIsListed
<1>1. Init => TypeOK /\ LiveWeightIsListed
  BY InitType, InitListed
<1>2. TypeOK /\ LiveWeightIsListed /\ [Next]_vars => TypeOK' /\ LiveWeightIsListed'
  BY NextType, NextListed
<1> QED
  BY <1>1, <1>2, PTL DEF Spec
---------------------------------------------------------------------------
(* Validation accepts exactly the quorums, in every reachable state: the   *)
(* one pass over the entries, with its order rule and its u128 total, is   *)
(* the sum over the set of the signers.                                    *)
THEOREM QuorumsValidate == Spec => []ValidationIsQuorum
BY TypeCorrect, TypeQuorum, PTL

LEMMA InvokeQuorum ==
    ASSUME TypeOK, NEW tx, NEW sig, GoodSignature(sig), Invoke(tx, sig)
    PROVE  /\ receipt'.entry = "__execute__"
           /\ nonce' = nonce + 1
           /\ Power(receipt'.signers) >= threshold
<1>1. ValidateTransaction(sig) /\ Deserializes(sig)
  BY DEF Invoke, Execute, ValidateTransaction
<1>2. WeightsOK /\ threshold \in U128 /\ sig.count \in Nat /\ sig.entries \in EntryLists
  BY DEF TypeOK, WeightsOK, GoodSignature
<1>3. Power({sig.entries[i].key : i \in 1 .. sig.count}) \in threshold .. MaxWeight
  BY <1>1, <1>2, ValidatesQuorum
<1>4. Power(Signers(sig)) \in threshold .. MaxWeight
  BY <1>1, <1>3, SignersAre
<1>5. Power(Signers(sig)) >= threshold
  BY <1>4
<1> QED
  BY <1>5 DEF Invoke

LEMMA NextQuorum == TypeOK /\ Next /\ config' # config =>
                        /\ receipt'.entry = "__execute__"
                        /\ nonce' = nonce + 1
                        /\ Power(receipt'.signers) >= threshold
<1> SUFFICES ASSUME TypeOK, Next, config' # config
             PROVE  /\ receipt'.entry = "__execute__"
                    /\ nonce' = nonce + 1
                    /\ Power(receipt'.signers) >= threshold
  OBVIOUS
<1>1. PICK tx \in Txs, sig \in Signatures : Invoke(tx, sig)
  BY DispatchEntry DEF Next, Declare, CallDirectly
<1> QED
  BY <1>1, InvokeQuorum, GivenSignatures

(* No step, whoever takes it and whatever it calls, changes the owners,    *)
(* the weights or the threshold but a transaction of a quorum.             *)
THEOREM ChangesTakeQuorum == Spec => QuorumRule
<1>1. TypeOK /\ [Next]_vars =>
        [ config' # config =>
          /\ receipt'.entry = "__execute__"
          /\ nonce' = nonce + 1
          /\ Power(receipt'.signers) >= threshold ]_vars
  BY NextQuorum
<1> QED BY <1>1, TypeCorrect, PTL DEF Spec, QuorumRule

---------------------------------------------------------------------------
(* The account and the server together.                                    *)

(* Every step of the system leaves the account alone, or is a step of it   *)
(* that takes a nonce, or a call from elsewhere, which changes nothing.    *)
PostedAreSigned == \A m \in mempool : m.tx \in Txs /\ GoodSignature(m.signature)

ServerRecords ==
    /\ signatures \in [Txs -> Seq(Keys)]
    /\ txs = [t \in Txs |-> txs[t]]
    /\ read \in [Txs -> [from : Nat, till : Nat]]
    /\ handler = [r \in Requests |-> handler[r]]

(* Who signs is a member, and who is posted was.                           *)
SignersAreMembers ==
    \A t \in Txs : IF Server!Known(t) THEN Server!Signed(t) \subseteq Server!Members(t)
                                      ELSE signatures[t] = << >>

Handled(h) ==
    /\ h = [at |-> h.at, tx |-> h.tx, signature |-> h.signature,
            force |-> h.force, removes |-> h.removes]
    /\ h.tx \in Txs /\ Server!Known(h.tx)
    /\ h.signature \in Seq(Keys) /\ ToSet(h.signature) \subseteq Server!Members(h.tx)
    /\ ~h.force => Server!SignatureReady(txs[h.tx], ToSet(h.signature))

HandlersPostMembers == \A r \in Requests : handler[r] # Idle => Handled(handler[r])

(* What an init_tx has read so far is of the past, since it began; and it  *)
(* is what there still is, if the nonce is the one it began with.          *)
ReaderIsCurrent ==
    reader # NoReader =>
        /\ reader = [tx |-> reader.tx, n |-> reader.n, users |-> reader.users,
                     weights |-> reader.weights, nonce |-> reader.nonce]
        /\ reader.tx \in Txs /\ reader.n \in 0 .. MaxKeys /\ reader.nonce \in 0 .. nonce
        /\ reader.nonce = nonce =>
              /\ reader.n = n_keys
              /\ \A i \in DOMAIN reader.users : reader.users[i] = keys[i]
        /\ \A i \in DOMAIN reader.users : \E m \in reader.nonce .. nonce :
              reader.users[i] \in past[m].listed
        /\ \A i \in DOMAIN reader.weights :
              \E m \in reader.nonce .. nonce : \E n \in m .. nonce :
                 /\ reader.users[i] \in past[m].listed
                 /\ reader.weights[i] = past[n].weights[reader.users[i]]
        /\ DOMAIN reader.users \subseteq 0 .. reader.n - 1
        /\ DOMAIN reader.weights \subseteq DOMAIN reader.users

ReadsArePast == \A t \in Txs : read[t].from <= read[t].till /\ read[t].till <= nonce

(* The history ends with the account as it is.                             *)
PastIsKept ==
    /\ DOMAIN past = 0 .. nonce
    /\ past[nonce] = Present
    /\ \A n \in 0 .. nonce : past[n].weights \in [Felts -> U128]

SystemInv ==
    /\ TypeOK
    /\ PostedAreSigned
    /\ ServerRecords
    /\ SignersAreMembers
    /\ HandlersPostMembers
    /\ ReaderIsCurrent
    /\ ReadsArePast
    /\ PastIsKept
    /\ SnapshotWasRead

LEMMA InitSystem == SystemInit => SystemInv
<1> SUFFICES ASSUME SystemInit PROVE SystemInv
  OBVIOUS
<1>1. TypeOK
  BY InitType DEF SystemInit
<1>2. PostedAreSigned /\ ReaderIsCurrent
  BY DEF SystemInit, PostedAreSigned, ReaderIsCurrent
<1>3. nonce = 0 /\ read = [t \in Txs |-> [from |-> 0, till |-> 0]]
  BY DEF SystemInit, Init
<1>4. ReadsArePast /\ PastIsKept
  BY <1>1, <1>3 DEF ReadsArePast, PastIsKept, SystemInit, TypeOK, Present
<1>5. \A t \in Txs : ~Server!Known(t)
  BY DEF SystemInit, Server!Init, Server!Known
<1>6. SnapshotWasRead
  BY <1>5 DEF SnapshotWasRead
<1>7. ServerRecords /\ SignersAreMembers /\ HandlersPostMembers
  BY <1>3, <1>5 DEF SystemInit, Server!Init, ServerRecords, SignersAreMembers, HandlersPostMembers
<1> QED BY <1>1, <1>2, <1>4, <1>6, <1>7 DEF SystemInv

(* What was read stays read while the history grows.                       *)
LEMMA ReadsStay ==
    ASSUME SystemInv, nonce' \in Nat, nonce <= nonce', UNCHANGED <<txs, read>>,
           \A m \in 0 .. nonce : past'[m] = past[m]
    PROVE  ReadsArePast' /\ SnapshotWasRead'
<1>1. nonce \in Nat /\ \A t \in Txs : /\ read[t].from \in Nat /\ read[t].till \in Nat
                                      /\ read[t].from <= read[t].till /\ read[t].till <= nonce
  BY DEF SystemInv, TypeOK, ServerRecords, ReadsArePast
<1>2. ReadsArePast'
  BY <1>1 DEF ReadsArePast
<1>3. ASSUME NEW t \in Txs, Server!Known(t)'
      PROVE  /\ \A k \in Server!Members(t) :
                   \E m \in read[t].from .. read[t].till : \E n \in m .. read[t].till :
                      k \in past'[m].listed /\ txs[t].weights[k] = past'[n].weights[k]
             /\ txs[t].threshold = past'[read[t].till].threshold
             /\ read[t].from = read[t].till =>
                   Server!Members(t) = past'[read[t].from].listed
  <2>1. Server!Known(t)
    BY <1>3 DEF Server!Known
  <2>2. \A m \in read[t].from .. read[t].till : m \in 0 .. nonce /\ past'[m] = past[m]
    BY <1>1
  <2>3. ASSUME NEW k \in Server!Members(t)
        PROVE  \E m \in read[t].from .. read[t].till : \E n \in m .. read[t].till :
                   k \in past'[m].listed /\ txs[t].weights[k] = past'[n].weights[k]
    <3>0. PICK m \in read[t].from .. read[t].till : \E n \in m .. read[t].till :
              k \in past[m].listed /\ txs[t].weights[k] = past[n].weights[k]
      BY <2>1, <2>3 DEF SystemInv, SnapshotWasRead
    <3>1. PICK n \in m .. read[t].till :
              k \in past[m].listed /\ txs[t].weights[k] = past[n].weights[k]
      BY <3>0
    <3>2. n \in read[t].from .. read[t].till
      BY <1>1
    <3> QED BY <2>2, <3>1, <3>2
  <2>4. /\ txs[t].threshold = past[read[t].till].threshold
        /\ read[t].from = read[t].till => Server!Members(t) = past[read[t].from].listed
    BY <2>1 DEF SystemInv, SnapshotWasRead
  <2>5. read[t].till \in read[t].from .. read[t].till
        /\ read[t].from \in read[t].from .. read[t].till
    BY <1>1
  <2> QED BY <2>2, <2>3, <2>4, <2>5
<1>4. SnapshotWasRead'
  BY <1>3 DEF SnapshotWasRead, Server!Members, Server!Known
<1> QED BY <1>2, <1>4

(* A transaction takes a nonce, and the history is one moment longer.      *)
LEMMA NonceMovesOn ==
    ASSUME SystemInv, nonce' = nonce + 1, TypeOK', Remember, mempool' \subseteq mempool,
           UNCHANGED <<serverVars, reader, read>>
    PROVE  SystemInv'
<1>1. nonce \in Nat /\ DOMAIN past = 0 .. nonce
  BY DEF SystemInv, TypeOK, PastIsKept
<1>2. \A m \in 0 .. nonce : past'[m] = past[m]
  BY <1>1 DEF Remember
<1>3. PastIsKept'
  <2>1. DOMAIN past' = 0 .. nonce' /\ past'[nonce'] = Present'
    BY <1>1 DEF Remember
  <2>2. weights' \in [Felts -> U128]
    BY DEF TypeOK
  <2>3. past'[nonce'].weights = weights'
    BY <2>1 DEF Present
  <2>4. \A m \in 0 .. nonce' : m \in 0 .. nonce \/ m = nonce'
    BY <1>1
  <2> QED BY <1>2, <2>1, <2>2, <2>3, <2>4 DEF SystemInv, PastIsKept
<1>4. ReadsArePast' /\ SnapshotWasRead'
  BY <1>1, <1>2, ReadsStay DEF serverVars
<1>5. ReaderIsCurrent'
  <2>1. CASE reader = NoReader
    BY <2>1 DEF ReaderIsCurrent
  <2>2. CASE reader # NoReader
    <3>1. reader.nonce \in 0 .. nonce /\ ReaderIsCurrent
      BY <2>2 DEF SystemInv, ReaderIsCurrent
    <3>2. /\ reader.nonce \in 0 .. nonce' /\ reader.nonce # nonce'
          /\ \A m \in reader.nonce .. nonce :
                m \in reader.nonce .. nonce' /\ past'[m] = past[m]
      BY <1>1, <1>2, <3>1
    <3>3. ASSUME NEW i \in DOMAIN reader.users
          PROVE  \E m \in reader.nonce .. nonce' : reader.users[i] \in past'[m].listed
      BY <2>2, <3>1, <3>2 DEF ReaderIsCurrent
    <3>4. ASSUME NEW i \in DOMAIN reader.weights
          PROVE  \E m \in reader.nonce .. nonce' : \E n \in m .. nonce' :
                    /\ reader.users[i] \in past'[m].listed
                    /\ reader.weights[i] = past'[n].weights[reader.users[i]]
      <4>0. PICK m \in reader.nonce .. nonce : \E n \in m .. nonce :
                /\ reader.users[i] \in past[m].listed
                /\ reader.weights[i] = past[n].weights[reader.users[i]]
        BY <2>2, <3>1 DEF ReaderIsCurrent
      <4>1. PICK n \in m .. nonce :
                /\ reader.users[i] \in past[m].listed
                /\ reader.weights[i] = past[n].weights[reader.users[i]]
        BY <4>0
      <4>2. n \in reader.nonce .. nonce /\ n \in m .. nonce'
        BY <1>1, <3>1
      <4> QED BY <3>2, <4>1, <4>2
    <3> QED BY <2>2, <3>1, <3>2, <3>3, <3>4 DEF ReaderIsCurrent
  <2> QED BY <2>1, <2>2
<1>6. PostedAreSigned' /\ ServerRecords' /\ SignersAreMembers' /\ HandlersPostMembers'
  BY DEF SystemInv, PostedAreSigned, ServerRecords, SignersAreMembers, HandlersPostMembers,
         Handled, serverVars, Server!Known, Server!Signed, Server!Members
<1> QED BY <1>3, <1>4, <1>5, <1>6 DEF SystemInv

(* What a step that leaves the account and the snapshots alone keeps.      *)
LEMMA AccountAlone ==
    ASSUME SystemInv, UNCHANGED <<vars, txs, past, read>>
    PROVE  TypeOK' /\ ReadsArePast' /\ PastIsKept' /\ SnapshotWasRead'
<1>1. TypeOK' /\ PastIsKept' /\ nonce \in Nat
  BY DEF SystemInv, TypeOK, PastIsKept, Present, Listed, vars
<1> QED BY <1>1, ReadsStay DEF vars

LEMMA ReaderAlone ==
    ASSUME SystemInv, UNCHANGED <<vars, reader, past>>
    PROVE  ReaderIsCurrent'
BY DEF SystemInv, ReaderIsCurrent, vars

LEMMA ServerAlone ==
    ASSUME SystemInv, UNCHANGED <<vars, serverVars, past, read, mempool>>, ReaderIsCurrent'
    PROVE  SystemInv'
<1>1. TypeOK' /\ ReadsArePast' /\ PastIsKept' /\ SnapshotWasRead'
  BY AccountAlone DEF serverVars
<1>2. PostedAreSigned' /\ ServerRecords' /\ SignersAreMembers' /\ HandlersPostMembers'
  BY DEF SystemInv, PostedAreSigned, ServerRecords, SignersAreMembers, HandlersPostMembers,
         Handled, serverVars, Server!Known, Server!Signed, Server!Members
<1> QED BY <1>1, <1>2 DEF SystemInv

(* The reads of init_tx.                                                   *)
LEMMA BeginInitInv ==
    ASSUME SystemInv, NEW t \in ServedTxs, BeginInit(t)
    PROVE  SystemInv'
<1>1. nonce \in 0 .. nonce /\ n_keys \in 0 .. MaxKeys /\ t \in Txs
      /\ UNCHANGED <<vars, serverVars, past, read, mempool>>
  BY ServedTxsAssumption DEF BeginInit, SystemInv, TypeOK, accountVars
<1> DEFINE q == [tx |-> t, n |-> n_keys, users |-> << >>, weights |-> << >>, nonce |-> nonce]
<1>2. reader' = q /\ DOMAIN q.users = {} /\ DOMAIN q.weights = {}
      /\ q.tx = t /\ q.n = n_keys /\ q.nonce = nonce
      /\ q = [tx |-> q.tx, n |-> q.n, users |-> q.users, weights |-> q.weights, nonce |-> q.nonce]
  BY DEF BeginInit
<1> HIDE DEF q
<1>3. ReaderIsCurrent'
  BY <1>1, <1>2 DEF ReaderIsCurrent, vars
<1> QED BY <1>1, <1>3, ServerAlone

(* The account as it is, is in the history.                                *)
LEMMA PresentIsPast ==
    ASSUME SystemInv
    PROVE  /\ nonce \in Nat /\ nonce \in 0 .. nonce
           /\ past[nonce].listed = Listed
           /\ past[nonce].weights = weights
           /\ past[nonce].threshold = threshold
BY DEF SystemInv, PastIsKept, Present, TypeOK

LEMMA ReadKeyInv ==
    ASSUME SystemInv, NEW i \in 0 .. MaxKeys - 1, ReadKey(i)
    PROVE  SystemInv'
<1>1. UNCHANGED <<vars, serverVars, past, read, mempool>> /\ reader # NoReader /\ ReaderIsCurrent
      /\ i \in 0 .. reader.n - 1 /\ i \notin DOMAIN reader.users
  BY DEF ReadKey, SystemInv, accountVars
<1> DEFINE u == Answered(reader.users, i, keys[i])
           q == [reader EXCEPT !.users = u]
<1>2. CASE reader' = NoReader
  <2>1. ReaderIsCurrent'
    BY <1>2 DEF ReaderIsCurrent
  <2> QED BY <1>1, <2>1, ServerAlone
<1>3. CASE i < n_keys /\ reader' = q
  <2>1. /\ DOMAIN u = DOMAIN reader.users \cup {i}
        /\ u[i] = keys[i]
        /\ \A j \in DOMAIN reader.users : u[j] = reader.users[j]
    BY <1>1 DEF Answered
  <2> HIDE DEF u
  <2>2. /\ q.tx = reader.tx /\ q.n = reader.n /\ q.users = u /\ q.weights = reader.weights
        /\ q.nonce = reader.nonce
        /\ q = [tx |-> q.tx, n |-> q.n, users |-> q.users, weights |-> q.weights, nonce |-> q.nonce]
    BY <1>1 DEF ReaderIsCurrent
  <2> HIDE DEF q
  <2>3. keys[i] \in past[nonce].listed /\ nonce \in reader.nonce .. nonce
    BY <1>1, <1>3, PresentIsPast DEF ReaderIsCurrent, Listed, SystemInv, TypeOK
  <2>4. \A j \in DOMAIN u : \E m \in reader.nonce .. nonce : u[j] \in past[m].listed
    BY <1>1, <2>1, <2>3 DEF ReaderIsCurrent
  <2>5. \A j \in DOMAIN reader.weights : u[j] = reader.users[j]
    BY <1>1, <2>1 DEF ReaderIsCurrent
  <2>6. ReaderIsCurrent'
    BY <1>1, <1>3, <2>1, <2>2, <2>4, <2>5 DEF ReaderIsCurrent, vars
  <2> QED BY <1>1, <2>6, ServerAlone
<1> QED BY <1>2, <1>3 DEF ReadKey

LEMMA ReadWeightInv ==
    ASSUME SystemInv, NEW i \in 0 .. MaxKeys - 1, ReadWeight(i)
    PROVE  SystemInv'
<1>1. UNCHANGED <<vars, serverVars, past, read, mempool>> /\ reader # NoReader /\ ReaderIsCurrent
      /\ i \in DOMAIN reader.users /\ i \notin DOMAIN reader.weights
  BY DEF ReadWeight, SystemInv, accountVars
<1> DEFINE w == Answered(reader.weights, i, weights[reader.users[i]])
           q == [reader EXCEPT !.weights = w]
<1>2. reader' = q
  BY DEF ReadWeight
<1>3. /\ DOMAIN w = DOMAIN reader.weights \cup {i}
      /\ w[i] = weights[reader.users[i]]
      /\ \A j \in DOMAIN reader.weights : w[j] = reader.weights[j]
  BY <1>1 DEF Answered
<1> HIDE DEF w
<1>4. /\ q.tx = reader.tx /\ q.n = reader.n /\ q.users = reader.users /\ q.weights = w
      /\ q.nonce = reader.nonce
      /\ q = [tx |-> q.tx, n |-> q.n, users |-> q.users, weights |-> q.weights, nonce |-> q.nonce]
  BY <1>1 DEF ReaderIsCurrent
<1> HIDE DEF q
<1>5. \E m \in reader.nonce .. nonce : \E n \in m .. nonce :
          reader.users[i] \in past[m].listed /\ w[i] = past[n].weights[reader.users[i]]
  <2>1. PICK m \in reader.nonce .. nonce : reader.users[i] \in past[m].listed
    BY <1>1 DEF ReaderIsCurrent
  <2>2. nonce \in m .. nonce /\ w[i] = past[nonce].weights[reader.users[i]]
    BY <1>1, <1>3, <2>1, PresentIsPast DEF ReaderIsCurrent
  <2> QED BY <2>1, <2>2
<1>6. \A j \in DOMAIN w : \E m \in reader.nonce .. nonce : \E n \in m .. nonce :
          reader.users[j] \in past[m].listed /\ w[j] = past[n].weights[reader.users[j]]
  BY <1>1, <1>3, <1>5 DEF ReaderIsCurrent
<1>7. ReaderIsCurrent'
  BY <1>1, <1>2, <1>3, <1>4, <1>6 DEF ReaderIsCurrent, vars
<1> QED BY <1>1, <1>7, ServerAlone

LEMMA ServerToSet == \A s : Server!ToSet(s) = ToSet(s)
BY DEF Server!ToSet, ToSet

LEMMA ToSetEmpty == ToSet(<<>>) = {}
BY DEF ToSet

(* A set of small numbers has a greatest.                                  *)
LEMMA MaxIsMember ==
    ASSUME NEW n \in Nat, NEW S \in SUBSET (0 .. n - 1), S # {}
    PROVE  Max(S) \in S
<1> DEFINE T == {m \in Nat : \A R \in SUBSET (0 .. m - 1) :
                                R # {} => \E x \in R : \A y \in R : x >= y}
<1>1. 0 \in T
  <2>1. \A R \in SUBSET (0 .. 0 - 1) : R = {}
    OBVIOUS
  <2> QED BY <2>1
<1>2. ASSUME NEW m \in Nat, m \in T PROVE m + 1 \in T
  <2> SUFFICES ASSUME NEW R \in SUBSET (0 .. (m + 1) - 1), R # {}
               PROVE  \E x \in R : \A y \in R : x >= y
    OBVIOUS
  <2>1. CASE m \in R
    BY <2>1
  <2>2. CASE m \notin R
    <3>1. R \in SUBSET (0 .. m - 1)
      BY <2>2
    <3> QED BY <1>2, <3>1
  <2> QED BY <2>1, <2>2
<1>3. n \in T
  <2> HIDE DEF T
  <2> QED BY <1>1, <1>2, NaturalsBySuccessor
<1>4. \E x \in S : \A y \in S : x >= y
  BY <1>3
<1> QED BY <1>4 DEF Max

LEMMA EndInitInv ==
    ASSUME SystemInv, EndInit
    PROVE  SystemInv'
<1> DEFINE t == reader.tx
           snapshot == [weights |-> ReadWeights, threshold |-> threshold]
<1>1. UNCHANGED <<vars, past, mempool>> /\ reader # NoReader /\ ReaderIsCurrent /\ ReaderIsCurrent'
      /\ DOMAIN reader.weights = 0 .. reader.n - 1
  BY DEF EndInit, SystemInv, accountVars, ReaderIsCurrent
<1>2. CASE UNCHANGED <<serverVars, read>>
  BY <1>1, <1>2, ServerAlone
<1>3. CASE /\ Server!InitTx(t, snapshot)
           /\ read' = [read EXCEPT ![t] = [from |-> reader.nonce, till |-> nonce]]
  <2>1. t \in Txs /\ ~Server!Known(t) /\ signatures[t] = << >> /\ reader.nonce \in 0 .. nonce
        /\ nonce \in Nat
    BY <1>1, <1>3 DEF ReaderIsCurrent, Server!InitTx, SystemInv, SignersAreMembers, TypeOK
  <2>2. /\ txs' = [txs EXCEPT ![t] = snapshot]
        /\ UNCHANGED <<signatures, handler>>
    BY <1>3 DEF Server!InitTx
  <2>3. /\ \A x \in Txs : txs'[x] = IF x = t THEN snapshot ELSE txs[x]
        /\ \A x \in Txs : read'[x] = IF x = t THEN [from |-> reader.nonce, till |-> nonce] ELSE read[x]
    BY <1>3, <2>1, <2>2 DEF SystemInv, ServerRecords
  <2>4. ServerRecords'
    <3>1. txs' = [x \in Txs |-> txs'[x]]
      <4> HIDE DEF snapshot, t
      <4> QED BY <2>2 DEF SystemInv, ServerRecords
    <3>2. read' \in [Txs -> [from : Nat, till : Nat]]
      <4>1. [from |-> reader.nonce, till |-> nonce] \in [from : Nat, till : Nat]
        BY <2>1
      <4>2. read \in [Txs -> [from : Nat, till : Nat]]
        BY DEF SystemInv, ServerRecords
      <4> QED BY <1>3, <4>1, <4>2
    <3> QED BY <2>2, <3>1, <3>2 DEF SystemInv, ServerRecords
  <2>5. TypeOK' /\ PostedAreSigned' /\ ReadsArePast' /\ PastIsKept'
    BY <1>1, <2>1, <2>3 DEF SystemInv, TypeOK, PostedAreSigned, ReadsArePast, PastIsKept,
                            Present, Listed, vars
  <2>6. SignersAreMembers'
    <3>1. \A x \in Txs : Server!Signed(x)' = Server!Signed(x)
      BY <2>2 DEF Server!Signed
    <3>2. Server!Signed(t) = {}
      BY <2>1, ServerToSet, ToSetEmpty DEF Server!Signed
    <3> SUFFICES ASSUME NEW x \in Txs
                 PROVE  (IF Server!Known(x) THEN Server!Signed(x) \subseteq Server!Members(x)
                                            ELSE signatures[x] = << >>)'
      BY DEF SignersAreMembers
    <3>3. CASE x = t
      BY <2>1, <2>2, <3>1, <3>2, <3>3
    <3>4. CASE x # t
      BY <2>2, <2>3, <3>1, <3>4 DEF SystemInv, SignersAreMembers, Server!Known, Server!Members
    <3> QED BY <3>3, <3>4
  <2>7. HandlersPostMembers'
    <3> SUFFICES ASSUME NEW r \in Requests, handler[r] # Idle PROVE Handled(handler[r])'
      BY <2>2 DEF HandlersPostMembers
    <3>1. Handled(handler[r])
      BY DEF SystemInv, HandlersPostMembers
    <3>2. handler[r].tx \in Txs /\ handler[r].tx # t
      BY <2>1, <3>1 DEF Handled
    <3>3. txs'[handler[r].tx] = txs[handler[r].tx]
      BY <2>3, <3>2
    <3> QED BY <2>2, <3>1, <3>3 DEF Handled, Server!Known, Server!Members
  <2>8. /\ \A k \in DOMAIN ReadWeights :
              \E m \in reader.nonce .. nonce : \E n \in m .. nonce :
                 k \in past[m].listed /\ ReadWeights[k] = past[n].weights[k]
        /\ reader.nonce = nonce => DOMAIN ReadWeights = Listed
    <3>1. /\ DOMAIN reader.users = 0 .. reader.n - 1 /\ reader.n \in Nat
          /\ DOMAIN ReadWeights = Range(reader.users)
          /\ Range(reader.users) = {reader.users[i] : i \in 0 .. reader.n - 1}
      <4>0. reader.n \in Nat
        BY <1>1, BoundsAssumption DEF ReaderIsCurrent
      <4>1. DOMAIN reader.users = 0 .. reader.n - 1 /\ reader.n \in Nat
        BY <1>1, <4>0 DEF ReaderIsCurrent
      <4> QED BY <4>1 DEF ReadWeights, Range
    <3>2. ASSUME NEW k \in DOMAIN ReadWeights
          PROVE  \E m \in reader.nonce .. nonce : \E n \in m .. nonce :
                     k \in past[m].listed /\ ReadWeights[k] = past[n].weights[k]
      <4> DEFINE at == {i \in DOMAIN reader.users : reader.users[i] = k}
      <4>1. at # {} /\ at \in SUBSET (0 .. reader.n - 1)
        BY <3>1, <3>2
      <4>2. Max(at) \in at
        BY <3>1, <4>1, MaxIsMember
      <4>3. ReadWeights[k] = reader.weights[Max(at)]
        BY <3>1, <3>2 DEF ReadWeights
      <4>4. Max(at) \in DOMAIN reader.weights /\ reader.users[Max(at)] = k
        BY <1>1, <3>1, <4>2
      <4>5. \A i \in DOMAIN reader.weights :
              \E m \in reader.nonce .. nonce : \E n \in m .. nonce :
                 /\ reader.users[i] \in past[m].listed
                 /\ reader.weights[i] = past[n].weights[reader.users[i]]
        BY <1>1 DEF ReaderIsCurrent
      <4> HIDE DEF at
      <4> QED BY <4>3, <4>4, <4>5
    <3>3. ASSUME reader.nonce = nonce PROVE DOMAIN ReadWeights = Listed
      <4>1. reader.n = n_keys /\ \A i \in 0 .. reader.n - 1 : reader.users[i] = keys[i]
        BY <1>1, <3>1, <3>3 DEF ReaderIsCurrent
      <4> QED BY <3>1, <4>1 DEF Listed
    <3> QED BY <3>2, <3>3
  <2>9. SnapshotWasRead'
    <3> SUFFICES ASSUME NEW x \in Txs, Server!Known(x)'
                 PROVE  /\ \A k \in DOMAIN txs'[x].weights :
                             \E m \in read'[x].from .. read'[x].till :
                             \E n \in m .. read'[x].till :
                                 k \in past[m].listed /\ txs'[x].weights[k] = past[n].weights[k]
                        /\ txs'[x].threshold = past[read'[x].till].threshold
                        /\ read'[x].from = read'[x].till =>
                              DOMAIN txs'[x].weights = past[read'[x].from].listed
      BY <1>1 DEF SnapshotWasRead, Server!Members
    <3>1. CASE x = t
      <4>1. /\ txs'[x].weights = ReadWeights /\ txs'[x].threshold = threshold
            /\ read'[x].from = reader.nonce /\ read'[x].till = nonce
        BY <2>3, <3>1
      <4> QED BY <2>8, <4>1, PresentIsPast
    <3>2. CASE x # t
      BY <2>3, <3>2 DEF SystemInv, SnapshotWasRead, Server!Known, Server!Members
    <3> QED BY <3>1, <3>2
  <2> QED BY <1>1, <2>4, <2>5, <2>6, <2>7, <2>9 DEF SystemInv
<1> QED BY <1>2, <1>3 DEF EndInit

(* What the server's handlers do.                                          *)
LEMMA ServerSteps ==
    ASSUME SystemInv, UNCHANGED <<vars, txs, reader, past, read>>,
           signatures' \in [Txs -> Seq(Keys)], SignersAreMembers', PostedAreSigned',
           handler' = [r \in Requests |-> handler'[r]],
           \A r \in Requests : handler'[r] # Idle => Handled(handler'[r])
    PROVE  SystemInv'
<1>1. TypeOK' /\ ReadsArePast' /\ PastIsKept' /\ SnapshotWasRead' /\ ReaderIsCurrent'
  BY AccountAlone, ReaderAlone
<1>2. ServerRecords'
  BY DEF SystemInv, ServerRecords
<1>3. HandlersPostMembers'
  BY DEF HandlersPostMembers, Handled, Server!Known, Server!Members
<1> QED BY <1>1, <1>2, <1>3 DEF SystemInv

(* A slot that is put to use, goes on, or is freed.                        *)
LEMMA SlotChanges ==
    ASSUME SystemInv, NEW r \in Requests, NEW h, h # Idle => Handled(h),
           handler' = [handler EXCEPT ![r] = h]
    PROVE  /\ handler' = [q \in Requests |-> handler'[q]]
           /\ \A q \in Requests : handler'[q] # Idle => Handled(handler'[q])
<1>1. handler = [q \in Requests |-> handler[q]]
  BY DEF SystemInv, ServerRecords
<1>2. \A q \in Requests : handler'[q] = IF q = r THEN h ELSE handler[q]
  BY <1>1
<1>3. \A q \in Requests : handler'[q] # Idle => Handled(handler'[q])
  BY <1>2 DEF SystemInv, HandlersPostMembers
<1>4. handler' = [q \in Requests |-> handler'[q]]
  BY <1>1
<1> QED BY <1>3, <1>4

LEMMA PostedIsHandled ==
    ASSUME SystemInv, NEW r \in Requests, NEW t \in Txs, NEW s \in Seq(Keys), NEW force, NEW removes,
           Server!Post(r, t, s, force, removes), Server!Known(t), ToSet(s) \subseteq Server!Members(t),
           ~force => Server!SignatureReady(txs[t], ToSet(s))
    PROVE  /\ handler' = [q \in Requests |-> handler'[q]]
           /\ \A q \in Requests : handler'[q] # Idle => Handled(handler'[q])
<1> DEFINE h == [at |-> "gateway", tx |-> t, signature |-> s, force |-> force, removes |-> removes]
<1>1. Handled(h)
  BY DEF Handled
<1>2. handler' = [handler EXCEPT ![r] = h]
  BY DEF Server!Post
<1> HIDE DEF h
<1> QED BY <1>1, <1>2, SlotChanges

LEMMA ToSetAppend ==
    ASSUME NEW s \in Seq(Keys), NEW u \in Keys
    PROVE  /\ Append(s, u) \in Seq(Keys)
           /\ ToSet(Append(s, u)) = ToSet(s) \cup {u}
<1> DEFINE a == Append(s, u)
<1>1. a \in Seq(Keys) /\ Len(a) = Len(s) + 1 /\ Len(s) \in Nat
  OBVIOUS
<1>2. \A i \in 1 .. Len(s) : a[i] = s[i]
  OBVIOUS
<1>3. a[Len(s) + 1] = u
  OBVIOUS
<1>4. DOMAIN a = 1 .. (Len(s) + 1) /\ DOMAIN s = 1 .. Len(s)
  BY <1>1
<1> HIDE DEF a
<1>5. ToSet(a) \subseteq ToSet(s) \cup {u}
  BY <1>1, <1>2, <1>3, <1>4 DEF ToSet
<1>6. ToSet(s) \subseteq ToSet(a)
  <2> SUFFICES ASSUME NEW i \in DOMAIN s PROVE s[i] \in ToSet(a)
    BY DEF ToSet
  <2>1. i \in DOMAIN a /\ a[i] = s[i]
    BY <1>1, <1>2, <1>4
  <2> QED BY <2>1 DEF ToSet
<1>7. u \in ToSet(a)
  <2>1. Len(s) + 1 \in DOMAIN a
    BY <1>1, <1>4
  <2> QED BY <2>1, <1>3 DEF ToSet
<1> QED BY <1>1, <1>5, <1>6, <1>7 DEF a

LEMMA AddSignatureInv ==
    ASSUME SystemInv, NEW r \in Requests, NEW u \in Keys, NEW t \in ServedTxs, AddSignature(r, u, t)
    PROVE  SystemInv'
<1>1. /\ t \in Txs /\ UNCHANGED <<vars, txs, reader, past, read, mempool>>
      /\ Server!Known(t) /\ u \in Server!Members(t)
      /\ signatures' = [signatures EXCEPT ![t] = Server!Recorded(u, t)]
  BY ServedTxsAssumption DEF AddSignature, Server!AddSignature, accountVars
<1> DEFINE s == Server!Recorded(u, t)
<1>2. signatures[t] \in Seq(Keys) /\ Server!Signed(t) = ToSet(signatures[t])
      /\ ToSet(signatures[t]) \subseteq Server!Members(t)
  BY <1>1, ServerToSet DEF SystemInv, ServerRecords, SignersAreMembers, Server!Signed
<1>3. s \in Seq(Keys) /\ ToSet(s) \subseteq Server!Members(t)
  BY <1>1, <1>2, ToSetAppend DEF Server!Recorded
<1> HIDE DEF s
<1>4. signatures' \in [Txs -> Seq(Keys)]
      /\ \A x \in Txs : signatures'[x] = IF x = t THEN s ELSE signatures[x]
  BY <1>1, <1>3 DEF SystemInv, ServerRecords, s
<1>5. SignersAreMembers'
  <2> SUFFICES ASSUME NEW x \in Txs
               PROVE  (IF Server!Known(x) THEN Server!Signed(x) \subseteq Server!Members(x)
                                          ELSE signatures[x] = << >>)'
    BY DEF SignersAreMembers
  <2>1. Server!Signed(x)' = ToSet(signatures'[x]) /\ Server!Signed(x) = ToSet(signatures[x])
    BY ServerToSet DEF Server!Signed
  <2> QED BY <1>1, <1>3, <1>4, <2>1 DEF SystemInv, SignersAreMembers, Server!Known, Server!Members
<1>6. PostedAreSigned'
  BY <1>1 DEF SystemInv, PostedAreSigned
<1>7. CASE handler' = handler
  BY <1>1, <1>4, <1>5, <1>6, <1>7, ServerSteps DEF SystemInv, ServerRecords, HandlersPostMembers
<1>8. CASE /\ Server!SignatureReady(txs[t], Server!ToSet(s))
           /\ Server!Post(r, t, s, FALSE, TRUE)
  <2>1. /\ handler' = [q \in Requests |-> handler'[q]]
        /\ \A q \in Requests : handler'[q] # Idle => Handled(handler'[q])
    BY <1>1, <1>3, <1>8, ServerToSet, PostedIsHandled
  <2> QED BY <1>1, <1>4, <1>5, <1>6, <2>1, ServerSteps
<1> QED BY <1>7, <1>8 DEF AddSignature, Server!AddSignature, s

LEMMA SignersStay ==
    ASSUME SystemInv, UNCHANGED <<vars, txs, signatures>>
    PROVE  SignersAreMembers' /\ signatures' \in [Txs -> Seq(Keys)]
BY DEF SystemInv, SignersAreMembers, ServerRecords, Server!Known, Server!Signed, Server!Members

LEMMA SendTxInv ==
    ASSUME SystemInv, NEW r \in Requests, NEW t \in ServedTxs, NEW force \in BOOLEAN,
           SendTx(r, t, force)
    PROVE  SystemInv'
<1>1. /\ t \in Txs /\ UNCHANGED <<vars, txs, signatures, reader, past, read, mempool>>
      /\ Server!Known(t) /\ (force \/ Server!Status(t) = "Ready")
      /\ Server!Post(r, t, signatures[t], force, Server!Status(t) = "Ready")
  BY ServedTxsAssumption DEF SendTx, Server!SendTx, accountVars
<1>2. signatures[t] \in Seq(Keys) /\ Server!Signed(t) = ToSet(signatures[t])
      /\ ToSet(signatures[t]) \subseteq Server!Members(t)
  BY <1>1, ServerToSet DEF SystemInv, ServerRecords, SignersAreMembers, Server!Signed
<1>3. ~force => Server!SignatureReady(txs[t], ToSet(signatures[t]))
  BY <1>1, <1>2 DEF Server!Status
<1>4. /\ handler' = [q \in Requests |-> handler'[q]]
      /\ \A q \in Requests : handler'[q] # Idle => Handled(handler'[q])
  BY <1>1, <1>2, <1>3, PostedIsHandled
<1>5. PostedAreSigned'
  BY <1>1 DEF SystemInv, PostedAreSigned
<1> QED BY <1>1, <1>4, <1>5, SignersStay, ServerSteps

LEMMA GatewayReceivesInv ==
    ASSUME SystemInv, NEW r \in Requests, GatewayReceives(r)
    PROVE  SystemInv'
<1> DEFINE h == [handler[r] EXCEPT !.at = "answered"]
           p == PostedSignature(handler[r].signature)
<1>1. /\ UNCHANGED <<vars, txs, signatures, reader, past, read>>
      /\ handler[r] # Idle /\ handler' = [handler EXCEPT ![r].at = "answered"]
      /\ mempool' = mempool \cup {[tx |-> handler[r].tx, signature |-> p]}
  BY DEF GatewayReceives, Server!GatewayReceives, accountVars
<1>2. Handled(handler[r])
  BY <1>1 DEF SystemInv, HandlersPostMembers
<1>3. Handled(h)
  <2>1. /\ h.tx = handler[r].tx /\ h.signature = handler[r].signature
        /\ h.force = handler[r].force /\ h.removes = handler[r].removes
        /\ h = [at |-> h.at, tx |-> h.tx, signature |-> h.signature,
                force |-> h.force, removes |-> h.removes]
    BY <1>2 DEF Handled
  <2> HIDE DEF h
  <2> QED BY <1>2, <2>1 DEF Handled
<1>4. GoodSignature(p) /\ handler[r].tx \in Txs
  <2> DEFINE E == [key : Keys, genuine : BOOLEAN]
             s == handler[r].signature
             e == [i \in 1 .. Len(s) |-> [key |-> s[i], genuine |-> TRUE]]
  <2>1. s \in Seq(Keys) /\ handler[r].tx \in Txs
    BY <1>2 DEF Handled
  <2> HIDE DEF s
  <2>2. Len(s) \in Nat /\ \A i \in 1 .. Len(s) : s[i] \in Keys
    BY <2>1
  <2>3. \A i \in 1 .. Len(s) : [key |-> s[i], genuine |-> TRUE] \in E
    BY <2>2
  <2>4. e \in Seq(E)
    <3> HIDE DEF E
    <3> QED BY <2>2, <2>3
  <2>5. p.count \in Nat /\ p.entries = e
    BY <2>2 DEF PostedSignature, s
  <2> QED BY <2>1, <2>4, <2>5 DEF GoodSignature, EntryLists
<1> HIDE DEF p, h
<1>5. PostedAreSigned'
  BY <1>1, <1>4 DEF SystemInv, PostedAreSigned
<1>6. handler' = [handler EXCEPT ![r] = h]
  BY <1>1 DEF h
<1>7. /\ handler' = [q \in Requests |-> handler'[q]]
      /\ \A q \in Requests : handler'[q] # Idle => Handled(handler'[q])
  BY <1>3, <1>6, SlotChanges
<1> QED BY <1>1, <1>5, <1>7, SignersStay, ServerSteps

LEMMA HandlerEndsInv ==
    ASSUME SystemInv, NEW r \in Requests, Resume(r) \/ PostFails(r)
    PROVE  SystemInv'
<1>1. /\ UNCHANGED <<vars, txs, signatures, reader, past, read, mempool>>
      /\ handler' = [handler EXCEPT ![r] = Idle]
  BY DEF Resume, PostFails, Server!Resume, Server!PostFails, accountVars
<1>2. PostedAreSigned'
  BY <1>1 DEF SystemInv, PostedAreSigned
<1>3. /\ handler' = [q \in Requests |-> handler'[q]]
      /\ \A q \in Requests : handler'[q] # Idle => Handled(handler'[q])
  BY <1>1, SlotChanges
<1> QED BY <1>1, <1>2, <1>3, SignersStay, ServerSteps

LEMMA RestartInv ==
    ASSUME SystemInv, Restart
    PROVE  SystemInv'
<1>1. /\ UNCHANGED <<vars, past, read, mempool>> /\ reader' = NoReader
      /\ txs' = [t \in Txs |-> NoTx] /\ signatures' = [t \in Txs |-> <<>>]
      /\ handler' = [r \in Requests |-> Idle]
  BY DEF Restart, Server!Restart, accountVars
<1>2. \A t \in Txs : ~Server!Known(t)'
  BY <1>1 DEF Server!Known
<1>3. TypeOK' /\ ReadsArePast' /\ PastIsKept' /\ PostedAreSigned'
  BY <1>1 DEF SystemInv, TypeOK, ReadsArePast, PastIsKept, Present, Listed, PostedAreSigned, vars
<1>4. SnapshotWasRead' /\ SignersAreMembers' /\ HandlersPostMembers' /\ ReaderIsCurrent'
  BY <1>1, <1>2 DEF SnapshotWasRead, SignersAreMembers, HandlersPostMembers, ReaderIsCurrent
<1>5. ServerRecords'
  BY <1>1 DEF SystemInv, ServerRecords
<1> QED BY <1>3, <1>4, <1>5 DEF SystemInv

LEMMA NextSystem == SystemInv /\ [SystemNext]_systemVars => SystemInv'
<1> SUFFICES ASSUME SystemInv, [SystemNext]_systemVars PROVE SystemInv'
  OBVIOUS
<1>1. TypeOK /\ PostedAreSigned
  BY DEF SystemInv
<1>2. ASSUME NEW m \in mempool, RunPosted(m) PROVE SystemInv'
  <2>1. m.tx \in Txs /\ GoodSignature(m.signature)
    BY <1>1 DEF PostedAreSigned
  <2>2. TypeOK'
    BY <1>1, <1>2, <2>1, InvokeType DEF RunPosted
  <2> QED BY <1>2, <2>2, NonceMovesOn DEF RunPosted, Invoke
<1>3. ASSUME NEW t \in Txs, NEW signature \in Signatures, RunOwn(t, signature) PROVE SystemInv'
  <2>1. TypeOK'
    BY <1>1, <1>3, GivenSignatures, InvokeType DEF RunOwn
  <2> QED BY <1>3, <2>1, NonceMovesOn DEF RunOwn, Invoke
<1>4. ASSUME NEW caller \in {"other", "zero"}, NEW call \in DirectCalls, OthersCall(caller, call)
      PROVE  SystemInv'
  <2>1. UNCHANGED <<config, nonce, serverVars, reader, past, read, mempool>>
    BY <1>4, DispatchEntry DEF OthersCall, CallDirectly
  <2>2. TypeOK'
    BY <1>1, <1>4, DispatchEntry DEF OthersCall, CallDirectly, TypeOK, config
  <2>3. ReaderIsCurrent' /\ PastIsKept'
    BY <2>1 DEF SystemInv, config, ReaderIsCurrent, PastIsKept, Present, Listed
  <2>5. ReadsArePast' /\ SnapshotWasRead'
    BY <1>1, <2>1, ReadsStay DEF serverVars, TypeOK
  <2>4. PostedAreSigned' /\ ServerRecords' /\ SignersAreMembers' /\ HandlersPostMembers'
    BY <2>1 DEF SystemInv, serverVars, PostedAreSigned, ServerRecords, SignersAreMembers,
                HandlersPostMembers, Handled, Server!Known, Server!Signed, Server!Members
  <2> QED BY <2>2, <2>3, <2>4, <2>5 DEF SystemInv
<1>5. ASSUME NEW m \in mempool, DropPosted(m) PROVE SystemInv'
  BY <1>5, AccountAlone, ReaderAlone
     DEF DropPosted, accountVars, serverVars, SystemInv, PostedAreSigned, ServerRecords,
         SignersAreMembers, HandlersPostMembers, Handled,
         Server!Known, Server!Signed, Server!Members
<1>6. CASE UNCHANGED systemVars
  BY <1>6, ServerAlone, ReaderAlone DEF systemVars, accountVars
<1> QED
  BY <1>2, <1>3, <1>4, <1>5, <1>6, BeginInitInv, ReadKeyInv, ReadWeightInv, EndInitInv,
     AddSignatureInv, SendTxInv, GatewayReceivesInv, HandlerEndsInv, RestartInv DEF SystemNext

LEMMA SystemInvariance == SystemSpec => []SystemInv
BY InitSystem, NextSystem, PTL DEF SystemSpec

(* The parts of the system fit together in every reachable state.          *)
THEOREM SystemTypeCorrect == SystemSpec => []SystemTypeOK
<1>1. SystemInv => SystemTypeOK
  BY DEF SystemInv, ReaderIsCurrent, ServerRecords, ReadsArePast, PastIsKept, TypeOK, SystemTypeOK
<1> QED BY <1>1, SystemInvariance, PTL

(* A snapshot is made of what the account was while it was read, for any   *)
(* keys, transactions and interleaving of the reads of init_tx with what   *)
(* the sequencer runs; read between two transactions, it is the account.   *)
THEOREM SnapshotsWereRead == SystemSpec => []SnapshotWasRead
BY SystemInvariance, PTL DEF SystemInv

LEMMA SignersAreFinite ==
    ASSUME NEW s \in Seq(Keys) PROVE IsFiniteSet(ToSet(s))
<1>1. IsFiniteSet(1 .. Len(s)) /\ DOMAIN s = 1 .. Len(s)
  BY FS_Interval
<1>2. s \in Surjection(1 .. Len(s), ToSet(s))
  BY <1>1 DEF Surjection, ToSet
<1> QED BY <1>1, <1>2, FS_Surjection

(* What weighs enough in a snapshot weighed enough while it was read.      *)
LEMMA SnapshotQuorum ==
    ASSUME SystemInv, NEW t \in Txs, Server!Known(t),
           NEW s \in Seq(Keys), ToSet(s) \subseteq Server!Members(t),
           Server!SignatureReady(txs[t], ToSet(s))
    PROVE  QuorumWhenRead(t, ToSet(s))
<1> DEFINE S == ToSet(s)
           v == txs[t].weights
           w == [k \in S |-> v[k]]
<1>1. \A k \in S : \E n \in read[t].from .. read[t].till : w[k] = past[n].weights[k]
  <2> SUFFICES ASSUME NEW k \in S
               PROVE  \E n \in read[t].from .. read[t].till : v[k] = past[n].weights[k]
    OBVIOUS
  <2>0. PICK m \in read[t].from .. read[t].till : \E n \in m .. read[t].till :
            v[k] = past[n].weights[k]
    BY DEF SystemInv, SnapshotWasRead
  <2>1. PICK n \in m .. read[t].till : v[k] = past[n].weights[k]
    BY <2>0
  <2>2. n \in read[t].from .. read[t].till
    BY <2>1 DEF SystemInv, ServerRecords
  <2> QED BY <2>1, <2>2
<1>2. w \in [S -> U128]
  <2>1. S \subseteq Felts
    BY DEF ToSet, Felts
  <2>2. \A n \in read[t].from .. read[t].till : past[n].weights \in [Felts -> U128]
    BY DEF SystemInv, PastIsKept, ServerRecords, ReadsArePast, TypeOK
  <2> QED BY <1>1, <2>1, <2>2
<1>3. IsFiniteSet(S)
  BY SignersAreFinite
<1>4. Server!Weight(txs[t], S) = Total(v, S)
  BY DEF Server!Weight, Total, MapThenSumSet, MapThenFoldSet,
         Server!MapThenSumSet, Server!MapThenFoldSet
<1>5. Server!Weight(txs[t], S) >= txs[t].threshold
  BY DEF Server!SignatureReady
<1>6. txs[t].threshold = past[read[t].till].threshold
  BY DEF SystemInv, SnapshotWasRead
<1>7. Total(w, S) = Total(v, S)
  <2>1. \A k \in S : w[k] = v[k]
    OBVIOUS
  <2> HIDE DEF w, v
  <2> QED BY <1>3, <2>1, TotalsAgree
<1> HIDE DEF w, v
<1>8. Total(w, S) >= past[read[t].till].threshold
  BY <1>4, <1>5, <1>6, <1>7
<1>9. w \in WeightsRead(t, S)
  BY <1>1, <1>2 DEF WeightsRead
<1> QED BY <1>8, <1>9 DEF QuorumWhenRead, Total

(* So whatever the server calls Ready, or posts without force, has signers *)
(* who weighed the threshold while its snapshot was read.                  *)
THEOREM ReadyAreQuorums == SystemSpec => []ReadyIsQuorum
<1>1. SystemInv => ReadyIsQuorum
  <2> SUFFICES ASSUME SystemInv PROVE ReadyIsQuorum
    OBVIOUS
  <2>1. ASSUME NEW t \in Txs, Server!Status(t) = "Ready"
        PROVE  QuorumWhenRead(t, Server!Signed(t))
    <3>1. Server!Known(t) /\ Server!SignatureReady(txs[t], Server!Signed(t))
      BY <2>1 DEF Server!Status
    <3>2. Server!Signed(t) = ToSet(signatures[t]) /\ signatures[t] \in Seq(Keys)
      BY ServerToSet DEF Server!Signed, SystemInv, ServerRecords
    <3>3. ToSet(signatures[t]) \subseteq Server!Members(t)
      BY <3>1, <3>2 DEF SystemInv, SignersAreMembers
    <3> QED BY <3>1, <3>2, <3>3, SnapshotQuorum
  <2>2. ASSUME NEW r \in Requests, handler[r] # Idle, ~handler[r].force
        PROVE  QuorumWhenRead(handler[r].tx, ToSet(handler[r].signature))
    <3>1. Handled(handler[r])
      BY <2>2 DEF SystemInv, HandlersPostMembers
    <3> QED BY <2>2, <3>1, SnapshotQuorum DEF Handled
  <2> QED BY <2>1, <2>2 DEF ReadyIsQuorum
<1> QED BY <1>1, SystemInvariance, PTL
=============================================================================
