------------------------- MODULE ActionQueueProofs -------------------------
(* What the lists of the action queue keep, for any actions and lists of   *)
(* any length, what the queue keeps of its promise, for any number of      *)
(* handlers, and what the merge of two lists returns.                      *)
EXTENDS StoredLists, FiniteSetTheorems, TLAPS

---------------------------------------------------------------------------
(* Of a finite set of places, every one has its rank.                      *)
LEMMA RanksAreTaken ==
    ASSUME NEW len \in Nat, NEW places \in SUBSET (1 .. len)
    PROVE  /\ IsFiniteSet(places) /\ Cardinality(places) \in Nat
           /\ \A i \in places : Cardinality({j \in places : j <= i}) \in 1 .. Cardinality(places)
           /\ \A n \in 1 .. Cardinality(places) :
                 \E i \in places : Cardinality({j \in places : j <= i}) = n
           /\ \A i, k \in places : i < k =>
                 Cardinality({j \in places : j <= i}) < Cardinality({j \in places : j <= k})
<1> DEFINE UpTo(i) == {j \in places : j <= i}
           size == Cardinality(places)
           rank == [i \in places |-> Cardinality(UpTo(i))]
<1>0. \A i \in places : i \in Nat
  OBVIOUS
<1>1. IsFiniteSet(places) /\ size \in Nat
  <2>1. IsFiniteSet(1 .. len)
    BY FS_Interval
  <2>2. IsFiniteSet(places)
    BY <2>1, FS_Subset
  <2> QED BY <2>2, FS_CardinalityType
<1>2. ASSUME NEW i \in places
      PROVE  IsFiniteSet(UpTo(i)) /\ Cardinality(UpTo(i)) \in 1 .. size
  <2>1. UpTo(i) \in SUBSET places /\ i \in UpTo(i)
    OBVIOUS
  <2> HIDE DEF UpTo
  <2>2. IsFiniteSet(UpTo(i)) /\ Cardinality(UpTo(i)) \in Nat /\ Cardinality(UpTo(i)) <= size
    BY <1>1, <2>1, FS_Subset, FS_CardinalityType
  <2>3. Cardinality(UpTo(i)) # 0
    BY <2>1, <2>2, FS_EmptySet
  <2> QED BY <1>1, <2>2, <2>3
<1>3. ASSUME NEW i \in places, NEW k \in places, i < k
      PROVE  Cardinality(UpTo(i)) < Cardinality(UpTo(k))
  <2>1. UpTo(i) \in SUBSET UpTo(k) /\ k \in UpTo(k) /\ k \notin UpTo(i)
    <3>1. \A j \in places : j <= i => j <= k
      BY <1>0, <1>3
    <3>2. k <= k /\ ~ (k <= i)
      BY <1>0, <1>3
    <3> QED BY <3>1, <3>2
  <2> HIDE DEF UpTo
  <2>2. Cardinality(UpTo(i)) <= Cardinality(UpTo(k)) /\ Cardinality(UpTo(i)) # Cardinality(UpTo(k))
    BY <1>2, <2>1, FS_Subset
  <2> QED BY <1>1, <1>2, <2>2
<1>4. rank \in Injection(places, 1 .. size)
  <2>1. \A i, k \in places : i # k => i < k \/ k < i
    OBVIOUS
  <2> HIDE DEF UpTo, size
  <2>2. ASSUME NEW i \in places, NEW k \in places, rank[i] = rank[k] PROVE i = k
    <3>1. Cardinality(UpTo(i)) \in Nat /\ Cardinality(UpTo(k)) \in Nat
      BY <1>2
    <3> QED BY <1>3, <2>1, <2>2, <3>1
  <2>3. rank \in [places -> 1 .. size]
    BY <1>2
  <2> HIDE DEF rank
  <2> QED BY <2>2, <2>3 DEF Injection, IsInjective
<1>5. IsFiniteSet(1 .. size) /\ Cardinality(1 .. size) = size
  BY <1>1, FS_Interval
<1>6. rank \in Surjection(places, 1 .. size)
  <2> HIDE DEF rank
  <2> QED BY <1>4, <1>5, FS_Injection
<1>7. \A n \in 1 .. size : \E i \in places : rank[i] = n
  <2> HIDE DEF rank, size
  <2> QED BY <1>6 DEF Surjection
<1> QED BY <1>1, <1>2, <1>3, <1>7

(* What is kept of a list: its places, in their order.                     *)
LEMMA KeptIs ==
    ASSUME NEW T, NEW source \in Seq(T), NEW places \in SUBSET (DOMAIN source)
    PROVE  /\ Cardinality(places) \in Nat
           /\ Kept(source, places) \in Seq(T)
           /\ \E at \in [1 .. Cardinality(places) -> places] :
                 /\ Kept(source, places) = [n \in 1 .. Cardinality(places) |-> source[at[n]]]
                 /\ \A i \in places : \E n \in 1 .. Cardinality(places) : at[n] = i
                 /\ \A m, n \in 1 .. Cardinality(places) : m < n => at[m] < at[n]
<1> DEFINE size == Cardinality(places)
           Rank(i) == Cardinality({j \in places : j <= i})
           at == [n \in 1 .. size |-> CHOOSE i \in places : Rank(i) = n]
<1>0. Len(source) \in Nat /\ places \in SUBSET (1 .. Len(source))
  OBVIOUS
<1>1. size \in Nat
  BY <1>0, RanksAreTaken
<1>2. \A n \in 1 .. size : \E i \in places : Rank(i) = n
  BY <1>0, RanksAreTaken
<1>3. \A i \in places : Rank(i) \in 1 .. size
  BY <1>0, RanksAreTaken
<1>4. \A i, k \in places : i < k => Rank(i) < Rank(k)
  BY <1>0, RanksAreTaken
<1>5. Kept(source, places) = [n \in 1 .. size |-> source[at[n]]]
  BY DEF Kept
<1> HIDE DEF size, Rank
<1>6. \A n \in 1 .. size : at[n] \in places /\ Rank(at[n]) = n
  BY <1>2
<1>6a. at \in [1 .. size -> places]
  BY <1>6
<1> HIDE DEF at
<1>7. ASSUME NEW i \in places PROVE \E n \in 1 .. size : at[n] = i
  <2>1. Rank(i) \in 1 .. size /\ at[Rank(i)] \in places /\ Rank(at[Rank(i)]) = Rank(i)
    BY <1>3, <1>6
  <2>2. at[Rank(i)] \in Nat /\ i \in Nat
    BY <1>0, <2>1
  <2>3. at[Rank(i)] = i
    BY <1>3, <1>4, <2>1, <2>2
  <2> QED BY <2>1, <2>3
<1>8. ASSUME NEW m \in 1 .. size, NEW n \in 1 .. size, m < n PROVE at[m] < at[n]
  <2>1. at[m] \in Nat /\ at[n] \in Nat
    BY <1>0, <1>6
  <2>2. at[m] # at[n]
    BY <1>6, <1>8
  <2>3. ~ (at[n] < at[m])
    BY <1>4, <1>6, <1>8
  <2> QED BY <2>1, <2>2, <2>3
<1>9. Kept(source, places) \in Seq(T)
  <2>1. \A n \in 1 .. size : source[at[n]] \in T
    BY <1>0, <1>6
  <2> QED BY <1>1, <1>5, <2>1
<1> QED BY <1>1, <1>5, <1>6a, <1>7, <1>8, <1>9 DEF size

LEMMA KeptHas ==
    ASSUME NEW T, NEW source \in Seq(T), NEW places \in SUBSET (DOMAIN source)
    PROVE  ToSet(Kept(source, places)) = {source[i] : i \in places}
<1>1. PICK at \in [1 .. Cardinality(places) -> places] :
          /\ Kept(source, places) = [n \in 1 .. Cardinality(places) |-> source[at[n]]]
          /\ \A i \in places : \E n \in 1 .. Cardinality(places) : at[n] = i
  BY KeptIs
<1> QED BY <1>1 DEF ToSet

---------------------------------------------------------------------------
(* One of each: what no list of the queue loses.                           *)
OneOfEach(list) == \A i, j \in DOMAIN list : list[i].hash = list[j].hash => i = j

LEMMA KeptOneOfEach ==
    ASSUME NEW source \in Seq(Item), NEW places \in SUBSET (DOMAIN source),
           \A i, j \in places : source[i].hash = source[j].hash => i = j
    PROVE  OneOfEach(Kept(source, places))
<1>0. Cardinality(places) \in Nat
  BY KeptIs
<1>1. PICK at \in [1 .. Cardinality(places) -> places] :
          /\ Kept(source, places) = [n \in 1 .. Cardinality(places) |-> source[at[n]]]
          /\ \A m, n \in 1 .. Cardinality(places) : m < n => at[m] < at[n]
  BY KeptIs
<1>2. \A i \in places : i \in Nat
  OBVIOUS
<1>3. ASSUME NEW m \in 1 .. Cardinality(places), NEW n \in 1 .. Cardinality(places), at[m] = at[n]
      PROVE  m = n
  <2>1. ~ (m < n) /\ ~ (n < m)
    BY <1>1, <1>2, <1>3
  <2> QED BY <1>0, <2>1
<1> QED BY <1>1, <1>3 DEF OneOfEach

(* remove: what is of no hash that is to be removed.                       *)
LEMMA DifferenceIs ==
    ASSUME NEW source \in Seq(Item), NEW other \in Seq(Item)
    PROVE  /\ DifferenceWith(source, other) \in Seq(Item)
           /\ ToSet(DifferenceWith(source, other)) =
                 {item \in ToSet(source) : item.hash \notin HashesOf(other)}
           /\ OneOfEach(source) => OneOfEach(DifferenceWith(source, other))
<1> DEFINE places == {i \in DOMAIN source : \A j \in DOMAIN other : ~ SameAction(source[i], other[j])}
<1>1. DifferenceWith(source, other) = Kept(source, places)
  BY DEF DifferenceWith
<1>2. places \in SUBSET (DOMAIN source)
  OBVIOUS
<1>3. \A i \in DOMAIN source : i \in places <=> source[i].hash \notin HashesOf(other)
  BY DEF SameAction, HashesOf
<1>4. {source[i] : i \in places} = {item \in ToSet(source) : item.hash \notin HashesOf(other)}
  BY <1>3 DEF ToSet
<1> HIDE DEF places
<1>5. OneOfEach(source) => OneOfEach(Kept(source, places))
  BY <1>2, KeptOneOfEach DEF OneOfEach
<1>6. Kept(source, places) \in Seq(Item)
  BY <1>2, KeptIs
<1>7. ToSet(Kept(source, places)) = {source[i] : i \in places}
  BY <1>2, KeptHas
<1> QED BY <1>1, <1>4, <1>5, <1>6, <1>7

(* uniqWith: the last one of each hash.                                    *)
LEMMA LastOfEachIs ==
    ASSUME NEW source \in Seq(Item)
    PROVE  /\ LastOfEach(source) \in Seq(Item)
           /\ OneOfEach(LastOfEach(source))
           /\ HashesOf(LastOfEach(source)) \subseteq HashesOf(source)
           /\ OneOfEach(source) => ToSet(LastOfEach(source)) = ToSet(source)
<1> DEFINE places == {i \in DOMAIN source :
                         \A j \in (i + 1) .. Len(source) : ~ SameAction(source[i], source[j])}
<1>1. LastOfEach(source) = Kept(source, places)
  BY DEF LastOfEach
<1>2. places \in SUBSET (DOMAIN source)
  OBVIOUS
<1>3. \A i, j \in places : source[i].hash = source[j].hash => i = j
  BY DEF SameAction
<1>4. OneOfEach(source) => places = DOMAIN source
  <2>1. \A i \in DOMAIN source : \A j \in (i + 1) .. Len(source) : j \in DOMAIN source /\ i # j
    OBVIOUS
  <2> QED BY <2>1 DEF OneOfEach, SameAction
<1> HIDE DEF places
<1>5. Kept(source, places) \in Seq(Item) /\ OneOfEach(Kept(source, places))
  BY <1>2, <1>3, KeptIs, KeptOneOfEach
<1>6. ToSet(Kept(source, places)) = {source[i] : i \in places}
  BY <1>2, KeptHas
<1>7. HashesOf(Kept(source, places)) \subseteq HashesOf(source)
  BY <1>2, <1>6 DEF ToSet, HashesOf
<1>8. OneOfEach(source) => {source[i] : i \in places} = ToSet(source)
  BY <1>4 DEF ToSet
<1> QED BY <1>1, <1>5, <1>6, <1>7, <1>8

LEMMA HashesAre ==
    ASSUME NEW list
    PROVE  HashesOf(list) = {item.hash : item \in ToSet(list)}
BY DEF HashesOf, ToSet

LEMMA OneIsItself ==
    ASSUME NEW list \in Seq(Item), OneOfEach(list), NEW x \in ToSet(list), NEW y \in ToSet(list),
           x.hash = y.hash
    PROVE  x = y
BY DEF OneOfEach, ToSet

(* One turn of the merge.                                                  *)
LEMMA PutIs ==
    ASSUME NEW list \in Seq(Item), OneOfEach(list), NEW element \in Item, NEW insertMode
    PROVE  /\ Put(list, element, insertMode) \in Seq(Item)
           /\ OneOfEach(Put(list, element, insertMode))
           /\ ToSet(Put(list, element, insertMode)) =
                 {item \in ToSet(list) : item.hash # element.hash} \cup {element}
<1> DEFINE places == {i \in DOMAIN list : SameAction(list[i], element)}
           first == CHOOSE i \in places : \A j \in places : i <= j
           rest == {item \in ToSet(list) : item.hash # element.hash}
<1>1. CASE places # {}
  <2>1. PICK p \in places : TRUE
    BY <1>1
  <2>2. p \in DOMAIN list /\ list[p].hash = element.hash /\ p \in Nat
    BY <2>1 DEF SameAction
  <2>3. \A i \in DOMAIN list : list[i].hash = element.hash => i = p
    BY <2>2 DEF OneOfEach
  <2>4. places = {p}
    BY <2>1, <2>3 DEF SameAction
  <2>5. first = p
    BY <2>2, <2>4
  <2>6. Put(list, element, insertMode) = [list EXCEPT ![p] = element]
    BY <1>1, <2>5 DEF Put
  <2> HIDE DEF places, first
  <2> DEFINE new == [list EXCEPT ![p] = element]
  <2>7. new \in Seq(Item) /\ DOMAIN new = DOMAIN list
    BY <2>2
  <2>8. OneOfEach(new)
    BY <2>2, <2>3 DEF OneOfEach
  <2>9. ToSet(new) = rest \cup {element}
    <3>1. ASSUME NEW x \in ToSet(new) PROVE x \in rest \cup {element}
      BY <2>2, <2>3, <3>1 DEF ToSet
    <3>2. ASSUME NEW x \in rest PROVE x \in ToSet(new)
      <4>1. PICK i \in DOMAIN list : x = list[i]
        BY DEF ToSet
      <4>2. i # p
        BY <2>2, <4>1
      <4> QED BY <4>1, <4>2 DEF ToSet
    <3>3. element \in ToSet(new)
      BY <2>2 DEF ToSet
    <3> QED BY <3>1, <3>2, <3>3
  <2> QED BY <2>6, <2>7, <2>8, <2>9
<1>2. CASE places = {}
  <2>1. \A i \in DOMAIN list : list[i].hash # element.hash
    BY <1>2 DEF SameAction
  <2>2. rest = ToSet(list)
    BY <2>1 DEF ToSet
  <2> HIDE DEF places, first, rest
  <2>3. CASE insertMode = "unshift"
    <3> DEFINE new == <<element>> \o list
    <3>1. Put(list, element, insertMode) = new
      BY <1>2, <2>3 DEF Put, places
    <3>2. new \in Seq(Item) /\ DOMAIN new = 1 .. Len(list) + 1 /\ new[1] = element
      OBVIOUS
    <3>3. \A i \in 2 .. Len(list) + 1 : i - 1 \in DOMAIN list /\ new[i] = list[i - 1]
      OBVIOUS
    <3>4. \A i \in DOMAIN list : i + 1 \in DOMAIN new /\ new[i + 1] = list[i]
      OBVIOUS
    <3> HIDE DEF new
    <3>5. \A i \in DOMAIN new : i = 1 \/ i \in 2 .. Len(list) + 1
      BY <3>2
    <3>6. OneOfEach(new)
      <4> SUFFICES ASSUME NEW i \in DOMAIN new, NEW j \in DOMAIN new, new[i].hash = new[j].hash
                   PROVE  i = j
        BY DEF OneOfEach
      <4>1. CASE i = 1 \/ j = 1
        BY <2>1, <3>2, <3>3, <3>5, <4>1
      <4>2. CASE i # 1 /\ j # 1
        <5>1. i - 1 = j - 1
          BY <3>3, <3>5, <4>2 DEF OneOfEach
        <5> QED BY <3>5, <5>1
      <4> QED BY <4>1, <4>2
    <3>7. ToSet(new) = ToSet(list) \cup {element}
      <4>1. ASSUME NEW x \in ToSet(new) PROVE x \in ToSet(list) \cup {element}
        BY <3>2, <3>3, <3>5 DEF ToSet
      <4>2. 1 \in DOMAIN new
        BY <3>2
      <4>3. ASSUME NEW x \in ToSet(list) \cup {element} PROVE x \in ToSet(new)
        BY <3>2, <3>4, <4>2 DEF ToSet
      <4> QED BY <4>1, <4>3
    <3> QED BY <2>2, <3>1, <3>2, <3>6, <3>7 DEF rest
  <2>4. CASE insertMode # "unshift"
    <3> DEFINE new == Append(list, element)
    <3>1. Put(list, element, insertMode) = new
      BY <1>2, <2>4 DEF Put, places
    <3>2. new \in Seq(Item) /\ DOMAIN new = 1 .. Len(list) + 1 /\ new[Len(list) + 1] = element
      OBVIOUS
    <3>3. \A i \in DOMAIN list : i \in DOMAIN new /\ new[i] = list[i]
      OBVIOUS
    <3>4. \A i \in DOMAIN new : i = Len(list) + 1 \/ i \in DOMAIN list
      BY <3>2
    <3> HIDE DEF new
    <3>5. OneOfEach(new)
      BY <2>1, <3>2, <3>3, <3>4 DEF OneOfEach
    <3>6. ToSet(new) = ToSet(list) \cup {element}
      <4>1. ASSUME NEW x \in ToSet(new) PROVE x \in ToSet(list) \cup {element}
        BY <3>2, <3>3, <3>4 DEF ToSet
      <4>2. Len(list) + 1 \in DOMAIN new
        BY <3>2
      <4>3. ASSUME NEW x \in ToSet(list) \cup {element} PROVE x \in ToSet(new)
        BY <3>2, <3>3, <4>2 DEF ToSet
      <4> QED BY <4>1, <4>3
    <3> QED BY <2>2, <3>1, <3>2, <3>5, <3>6 DEF rest
  <2> QED BY <2>3, <2>4
<1> QED BY <1>1, <1>2

---------------------------------------------------------------------------
(* Induction over the naturals, for a set of them.                         *)
LEMMA NaturalsBySuccessor ==
    ASSUME NEW T, 0 \in T, \A n \in Nat : n \in T => n + 1 \in T
    PROVE  Nat \subseteq T
<1> DEFINE less == OpToRel(<, Nat)
<1>1. SUFFICES ASSUME NEW bad \in Nat \ T PROVE FALSE
  OBVIOUS
<1>2. IsWellFoundedOn(less, Nat)
  BY NatLessThanWellFounded, Zenon
<1>3. \A m, n \in Nat : m < n => <<m, n>> \in less
  BY DEF OpToRel
<1> HIDE DEF less
<1>4. PICK n \in Nat \ T : \A m \in Nat \ T : ~ (<<m, n>> \in less)
  BY <1>2, WFMin
<1>5. n # 0 /\ n - 1 \in Nat /\ n - 1 < n /\ (n - 1) + 1 = n
  OBVIOUS
<1> QED BY <1>3, <1>4, <1>5

(* The loop of a merge, turn by turn.                                      *)
Turn(f, n, source, other, insertMode) ==
    IF n = 0 THEN LastOfEach(source) ELSE Put(f[n - 1], other[n], insertMode)
IsLoop(f, m, source, other, insertMode) ==
    f = [n \in 0 .. m |-> Turn(f, n, source, other, insertMode)]

LEMMA LoopExists ==
    ASSUME NEW source, NEW other, NEW insertMode, NEW m \in Nat
    PROVE  \E f : IsLoop(f, m, source, other, insertMode)
<1> DEFINE T == {k \in Nat : \E f : IsLoop(f, k, source, other, insertMode)}
<1>1. 0 \in T
  <2> DEFINE f == [n \in 0 .. 0 |-> LastOfEach(source)]
  <2>1. IsLoop(f, 0, source, other, insertMode)
    BY DEF IsLoop, Turn
  <2> QED BY <2>1
<1>2. ASSUME NEW k \in Nat, k \in T PROVE k + 1 \in T
  <2>1. PICK f : IsLoop(f, k, source, other, insertMode)
    BY <1>2
  <2> DEFINE g == [n \in 0 .. (k + 1) |-> Turn(f, n, source, other, insertMode)]
  <2>2. ASSUME NEW n \in 0 .. (k + 1)
        PROVE  Turn(f, n, source, other, insertMode) = Turn(g, n, source, other, insertMode)
    <3>1. CASE n = 0
      BY <3>1 DEF Turn
    <3>2. CASE n # 0
      <4>1. n - 1 \in 0 .. k /\ n - 1 \in 0 .. (k + 1)
        BY <3>2
      <4>2. f[n - 1] = Turn(f, n - 1, source, other, insertMode)
        BY <2>1, <4>1 DEF IsLoop
      <4>3. g[n - 1] = Turn(f, n - 1, source, other, insertMode)
        BY <4>1
      <4> HIDE DEF g
      <4> QED BY <3>2, <4>2, <4>3 DEF Turn
    <3> QED BY <3>1, <3>2
  <2>3. IsLoop(g, k + 1, source, other, insertMode)
    <3>1. g = [n \in 0 .. (k + 1) |-> Turn(g, n, source, other, insertMode)]
      BY <2>2
    <3> HIDE DEF g
    <3> QED BY <3>1 DEF IsLoop
  <2> HIDE DEF g
  <2> QED BY <2>3
<1>3. Nat \subseteq T
  <2> HIDE DEF T
  <2> QED BY <1>1, <1>2, NaturalsBySuccessor
<1> QED BY <1>3

(* What mergeArrayStableWith returns is what the last turn leaves.         *)
LEMMA MergeIsLoop ==
    ASSUME NEW source, NEW other \in Seq(Item), NEW insertMode
    PROVE  \E f : /\ IsLoop(f, Len(other), source, other, insertMode)
                  /\ MergeArrayStableWith(source, other, insertMode) = f[Len(other)]
<1> DEFINE f == CHOOSE f : IsLoop(f, Len(other), source, other, insertMode)
<1>1. IsLoop(f, Len(other), source, other, insertMode)
  BY LoopExists
<1>2. MergeArrayStableWith(source, other, insertMode) = f[Len(other)]
  BY DEF MergeArrayStableWith, IsLoop, Turn
<1> QED BY <1>1, <1>2

(* A merge keeps one of each, and only what one of the lists has, for all  *)
(* lists and both modes.                                                   *)
LEMMA MergeIsOneOfEach ==
    ASSUME NEW source \in Seq(Item), NEW other \in Seq(Item), NEW insertMode
    PROVE  /\ MergeArrayStableWith(source, other, insertMode) \in Seq(Item)
           /\ OneOfEach(MergeArrayStableWith(source, other, insertMode))
           /\ HashesOf(MergeArrayStableWith(source, other, insertMode))
                 \subseteq HashesOf(source) \cup HashesOf(other)
<1>1. PICK f : /\ IsLoop(f, Len(other), source, other, insertMode)
               /\ MergeArrayStableWith(source, other, insertMode) = f[Len(other)]
  BY MergeIsLoop
<1> DEFINE Good(list) == /\ list \in Seq(Item) /\ OneOfEach(list)
                         /\ HashesOf(list) \subseteq HashesOf(source) \cup HashesOf(other)
           T == {n \in Nat : n <= Len(other) => Good(f[n])}
<1>2. 0 \in T
  <2>1. f[0] = LastOfEach(source)
    BY <1>1 DEF IsLoop, Turn
  <2>2. Good(f[0])
    BY <2>1, LastOfEachIs
  <2> QED BY <2>2
<1>3. ASSUME NEW n \in Nat, n \in T PROVE n + 1 \in T
  <2> SUFFICES ASSUME n + 1 <= Len(other) PROVE Good(f[n + 1])
    OBVIOUS
  <2>1. Len(other) \in Nat /\ n + 1 \in 0 .. Len(other) /\ n + 1 \in DOMAIN other /\ n <= Len(other)
    OBVIOUS
  <2>2. Good(f[n])
    BY <1>3, <2>1
  <2>3. f[n + 1] = Put(f[n], other[n + 1], insertMode)
    <3>1. f[n + 1] = Turn(f, n + 1, source, other, insertMode)
      BY <1>1, <2>1 DEF IsLoop
    <3>2. n + 1 # 0 /\ (n + 1) - 1 = n
      OBVIOUS
    <3> QED BY <3>1, <3>2 DEF Turn
  <2>4. other[n + 1] \in Item
    BY <2>1
  <2>5. f[n + 1] \in Seq(Item) /\ OneOfEach(f[n + 1])
    BY <2>2, <2>3, <2>4, PutIs
  <2>6. HashesOf(f[n + 1]) \subseteq HashesOf(source) \cup HashesOf(other)
    <3>1. ToSet(f[n + 1]) \subseteq ToSet(f[n]) \cup {other[n + 1]}
      BY <2>2, <2>3, <2>4, PutIs
    <3>2. HashesOf(f[n + 1]) \subseteq HashesOf(f[n]) \cup {other[n + 1].hash}
      BY <3>1, HashesAre
    <3>3. other[n + 1].hash \in HashesOf(other)
      BY <2>1 DEF HashesOf
    <3> QED BY <2>2, <3>2, <3>3
  <2> QED BY <2>5, <2>6
<1>4. Nat \subseteq T
  <2> HIDE DEF T
  <2> QED BY <1>2, <1>3, NaturalsBySuccessor
<1>5. Len(other) \in Nat /\ Len(other) <= Len(other)
  OBVIOUS
<1>6. Good(f[Len(other)])
  BY <1>4, <1>5
<1> QED BY <1>1, <1>6

(* What unshift of one action does to a list that has one of each.         *)
LEMMA UnshiftIs ==
    ASSUME NEW source \in Seq(Item), OneOfEach(source), NEW element \in Item, NEW insertMode
    PROVE  ToSet(MergeArrayStableWith(source, <<element>>, insertMode)) =
              {item \in ToSet(source) : item.hash # element.hash} \cup {element}
<1>1. <<element>> \in Seq(Item) /\ Len(<<element>>) = 1 /\ <<element>>[1] = element
  OBVIOUS
<1>2. PICK f : /\ IsLoop(f, 1, source, <<element>>, insertMode)
               /\ MergeArrayStableWith(source, <<element>>, insertMode) = f[1]
  BY <1>1, MergeIsLoop
<1>3. f[0] = LastOfEach(source) /\ f[1] = Put(f[0], element, insertMode)
  BY <1>1, <1>2 DEF IsLoop, Turn
<1>4. f[0] \in Seq(Item) /\ OneOfEach(f[0]) /\ ToSet(f[0]) = ToSet(source)
  BY <1>3, LastOfEachIs
<1> QED BY <1>2, <1>3, <1>4, PutIs

---------------------------------------------------------------------------
(* The selection of an action by its hash, and of what has expired.        *)
LEMMA SelectedIs ==
    ASSUME NEW source \in Seq(Item), NEW places \in SUBSET (DOMAIN source)
    PROVE  /\ Kept(source, places) \in Seq(Item)
           /\ ToSet(Kept(source, places)) \subseteq ToSet(source)
           /\ HashesOf(Kept(source, places)) \subseteq HashesOf(source)
           /\ \A item \in ToSet(Kept(source, places)) : \E i \in places : item = source[i]
<1>1. Kept(source, places) \in Seq(Item)
  BY KeptIs
<1>2. ToSet(Kept(source, places)) = {source[i] : i \in places}
  BY KeptHas
<1>3. ToSet(Kept(source, places)) \subseteq ToSet(source)
  BY <1>2 DEF ToSet
<1> QED BY <1>1, <1>2, <1>3, HashesAre

(* What a handler that waits keeps, whatever the others do; A is what has  *)
(* been asked for.                                                         *)
Sound(x, A) ==
    /\ OneOfEach(x.list)
    /\ x.kind \in {"decide", "forget"} =>
          x.hashes # << >> /\ HashesOf(x.values) \subseteq {Head(x.hashes)}
    /\ x.kind = "push" => Len(x.values) = 1 /\ HashesOf(x.list) \subseteq A \cup {x.values[1].hash}
    /\ x.kind # "push" => HashesOf(x.list) \cup HashesOf(x.values) \subseteq A

Asked == {h \in Hashes : asked[h] > 0}
AskedInv ==
    /\ TypeOK
    /\ OnePerAction
    /\ HashesOf(queue) \subseteq Asked
    /\ \A h \in Hashes : decided[h] > 0 => h \in Asked
    /\ \A r \in Requests : handler[r] # Idle => Sound(handler[r], Asked)

LEMMA SoundGrows ==
    ASSUME NEW x, NEW A, NEW B, A \subseteq B, Sound(x, A)
    PROVE  Sound(x, B)
BY DEF Sound

LEMMA EmptyList ==
    /\ OneOfEach(<< >>) /\ HashesOf(<< >>) = {} /\ ToSet(<< >>) = {}
    /\ << >> \in Seq(Item) /\ << >> \in Seq(Hashes)
BY DEF OneOfEach, HashesOf, ToSet

LEMMA InitAsked == Init => AskedInv
<1> SUFFICES ASSUME Init PROVE AskedInv
  OBVIOUS
<1>1. overlapped \in BOOLEAN
  BY Zenon DEF Init
<1>2. TypeOK
  BY <1>1, EmptyList, TimeAssumption, BoundsAssumption DEF Init, TypeOK
<1>3. OnePerAction /\ HashesOf(queue) = {}
  BY EmptyList DEF Init, OnePerAction, OneOfEach
<1>4. \A h \in Hashes : ~ (decided[h] > 0)
  BY DEF Init
<1> QED BY <1>2, <1>3, <1>4 DEF Init, AskedInv

(* A step of one handler that leaves the queue alone.                      *)
LEMMA OneMoves ==
    ASSUME AskedInv, NEW r \in Requests, NEW x,
           handler' = [handler EXCEPT ![r] = x],
           x = Idle \/ (x \in Waiting /\ Sound(x, Asked)),
           overlapped' \in BOOLEAN,
           UNCHANGED <<queue, now, asked, decided, kills>>
    PROVE  AskedInv'
<1>1. \A q \in Requests : handler'[q] = IF q = r THEN x ELSE handler[q]
  BY DEF AskedInv, TypeOK
<1>2. handler' \in [Requests -> Waiting \cup {Idle}]
  BY DEF AskedInv, TypeOK
<1>3. \A q \in Requests : handler'[q] # Idle => Sound(handler'[q], Asked)
  BY <1>1 DEF AskedInv
<1>4. Asked' = Asked
  BY DEF Asked
<1>5. TypeOK'
  BY <1>1, <1>2, <1>3 DEF AskedInv, TypeOK, Sound
<1>6. OnePerAction' /\ HashesOf(queue)' = HashesOf(queue)
  BY DEF AskedInv, OnePerAction
<1> QED BY <1>3, <1>4, <1>5, <1>6 DEF AskedInv

LEMMA RequestIs ==
    ASSUME NEW kind \in {"push", "expire", "decide", "forget"}, NEW hashes \in Seq(Hashes),
           NEW at \in {"read", "select", "write", "written"}, NEW values \in Seq(Item), NEW list \in Seq(Item)
    PROVE  [kind |-> kind, hashes |-> hashes, at |-> at, values |-> values, list |-> list] \in Waiting
BY DEF Waiting

LEMMA RequestHas ==
    ASSUME NEW x \in Waiting
    PROVE  /\ x.kind \in {"push", "expire", "decide", "forget"}
           /\ x.hashes \in Seq(Hashes)
           /\ x.at \in {"read", "select", "write", "written"}
           /\ x.values \in Seq(Item)
           /\ x.list \in Seq(Item)
           /\ x # Idle
BY IdleAssumption DEF Waiting

LEMMA BeginKeeps ==
    ASSUME AskedInv, NEW r \in Requests, NEW kind \in {"push", "expire", "decide", "forget"},
           NEW hashes \in Seq(Hashes), NEW values \in Seq(Item), Begin(r, kind, hashes, values),
           kind = "push" => Len(values) = 1,
           kind \in {"decide", "forget"} => hashes # << >> /\ values = << >>,
           kind = "expire" => HashesOf(values) \subseteq Asked
    PROVE  AskedInv'
<1> DEFINE x == [kind |-> kind, hashes |-> hashes, at |-> "read", values |-> values, list |-> << >>]
<1>1. x \in Waiting
  BY RequestIs, EmptyList
<1>2. Sound(x, Asked)
  BY EmptyList DEF Sound
<1>3. overlapped' \in BOOLEAN
  BY Zenon DEF Begin
<1> QED BY <1>1, <1>2, <1>3, OneMoves DEF Begin

(* A handler's request while it waits for the storage.                     *)
LEMMA WaitsHas ==
    ASSUME AskedInv, NEW r \in Requests, NEW at, NEW kinds, Waits(r, at, kinds)
    PROVE  /\ handler[r] \in Waiting /\ Sound(handler[r], Asked)
           /\ handler[r].at = at /\ handler[r].kind \in kinds
BY DEF AskedInv, TypeOK, Waits

LEMMA UnshiftKeeps ==
    ASSUME AskedInv, NEW r \in Requests, UnshiftReads(r)
    PROVE  AskedInv'
<1> DEFINE y == handler[r]
           merged == MergeArrayStableWith(queue, y.values, "unshift")
           x == [y EXCEPT !.at = "write", !.list = merged]
<1>1. y \in Waiting /\ Sound(y, Asked) /\ y.kind = "push"
  BY WaitsHas DEF UnshiftReads
<1>2. y.values \in Seq(Item) /\ queue \in Seq(Item)
  BY <1>1, RequestHas DEF AskedInv, TypeOK
<1>3. /\ merged \in Seq(Item) /\ OneOfEach(merged)
      /\ HashesOf(merged) \subseteq HashesOf(queue) \cup HashesOf(y.values)
  BY <1>2, MergeIsOneOfEach
<1>4. HashesOf(y.values) = {y.values[1].hash}
  BY <1>1, <1>2 DEF Sound, HashesOf
<1>5. handler' = [handler EXCEPT ![r] = x]
  BY <1>1 DEF UnshiftReads, Waiting
<1> HIDE DEF merged
<1>6. x \in Waiting
  BY <1>1, <1>3 DEF Waiting
<1>7. Sound(x, Asked)
  BY <1>1, <1>3, <1>4 DEF Sound, AskedInv, Waiting
<1>8. overlapped' \in BOOLEAN
  BY DEF UnshiftReads, AskedInv, TypeOK
<1> HIDE DEF x, y
<1> QED BY <1>5, <1>6, <1>7, <1>8, OneMoves DEF UnshiftReads

LEMMA RemoveReadsKeeps ==
    ASSUME AskedInv, NEW r \in Requests, RemoveReads(r)
    PROVE  AskedInv'
<1> DEFINE y == handler[r]
           left == DifferenceWith(queue, y.values)
           x == [y EXCEPT !.at = "write", !.list = left]
<1>1. y \in Waiting /\ Sound(y, Asked) /\ y.kind = "expire"
  BY WaitsHas DEF RemoveReads
<1>2. y.values \in Seq(Item) /\ queue \in Seq(Item) /\ OneOfEach(queue)
  BY <1>1, RequestHas DEF AskedInv, TypeOK, OnePerAction, OneOfEach
<1>3. left \in Seq(Item) /\ OneOfEach(left) /\ ToSet(left) \subseteq ToSet(queue)
  BY <1>2, DifferenceIs
<1>4. HashesOf(left) \subseteq HashesOf(queue)
  BY <1>3, HashesAre
<1>5. handler' = [handler EXCEPT ![r] = x]
  BY <1>1 DEF RemoveReads, Waiting
<1> HIDE DEF left
<1>6. x \in Waiting
  BY <1>1, <1>3 DEF Waiting
<1>7. Sound(x, Asked)
  BY <1>1, <1>3, <1>4 DEF Sound, AskedInv, Waiting
<1>8. overlapped' \in BOOLEAN
  BY DEF RemoveReads, AskedInv, TypeOK
<1> HIDE DEF x, y
<1> QED BY <1>5, <1>6, <1>7, <1>8, OneMoves DEF RemoveReads

LEMMA SelectorReadsKeeps ==
    ASSUME AskedInv, NEW r \in Requests, RemoveBySelectorReads(r)
    PROVE  AskedInv'
<1> DEFINE y == handler[r]
           x == [y EXCEPT !.at = "select", !.list = queue]
<1>1. y \in Waiting /\ Sound(y, Asked) /\ y.kind \in {"decide", "forget"}
  BY WaitsHas DEF RemoveBySelectorReads
<1>2. queue \in Seq(Item) /\ OneOfEach(queue)
  BY DEF AskedInv, TypeOK, OnePerAction, OneOfEach
<1>3. handler' = [handler EXCEPT ![r] = x]
  BY <1>1 DEF RemoveBySelectorReads, Waiting
<1>4. x \in Waiting
  BY <1>1, <1>2 DEF Waiting
<1>5. Sound(x, Asked)
  BY <1>1, <1>2 DEF Sound, AskedInv, Waiting
<1>6. overlapped' \in BOOLEAN
  BY DEF RemoveBySelectorReads, AskedInv, TypeOK
<1> HIDE DEF x, y
<1> QED BY <1>3, <1>4, <1>5, <1>6, OneMoves DEF RemoveBySelectorReads

(* What a decision selects.                                                *)
Selected(h) == Kept(queue, {i \in DOMAIN queue : queue[i].hash = h})

LEMMA SelectedHas ==
    ASSUME AskedInv, NEW h
    PROVE  /\ Selected(h) \in Seq(Item)
           /\ ToSet(Selected(h)) \subseteq ToSet(queue)
           /\ HashesOf(Selected(h)) \subseteq {h} \cap HashesOf(queue)
<1>1. queue \in Seq(Item)
  BY DEF AskedInv, TypeOK
<1>2. {i \in DOMAIN queue : queue[i].hash = h} \in SUBSET (DOMAIN queue)
  OBVIOUS
<1>3. \A item \in ToSet(Selected(h)) : item.hash = h
  BY <1>1, <1>2, SelectedIs DEF Selected
<1>4. HashesOf(Selected(h)) \subseteq {h}
  BY <1>3, HashesAre
<1> QED BY <1>1, <1>2, <1>4, SelectedIs DEF Selected

LEMMA SelectsKeeps ==
    ASSUME AskedInv, NEW r \in Requests, RemoveSelects(r)
    PROVE  AskedInv'
<1> DEFINE y == handler[r]
           selected == Selected(Head(y.hashes))
           left == DifferenceWith(y.list, selected)
           x == [y EXCEPT !.at = "write", !.values = selected, !.list = left]
<1>1. y \in Waiting /\ Sound(y, Asked) /\ y.kind \in {"decide", "forget"}
  BY WaitsHas DEF RemoveSelects
<1>2. y.list \in Seq(Item) /\ OneOfEach(y.list) /\ HashesOf(y.list) \subseteq Asked
  BY <1>1, RequestHas DEF Sound
<1>3. /\ selected \in Seq(Item) /\ HashesOf(selected) \subseteq {Head(y.hashes)}
      /\ HashesOf(selected) \subseteq Asked
  BY SelectedHas DEF AskedInv
<1>4. handler' = [handler EXCEPT ![r] = x]
  BY <1>1 DEF RemoveSelects, Waiting, Selected
<1> HIDE DEF selected
<1>5. left \in Seq(Item) /\ OneOfEach(left) /\ ToSet(left) \subseteq ToSet(y.list)
  BY <1>2, <1>3, DifferenceIs
<1>6. HashesOf(left) \subseteq Asked
  BY <1>2, <1>5, HashesAre
<1> HIDE DEF left
<1>7. x \in Waiting
  BY <1>1, <1>3, <1>5 DEF Waiting
<1>8. Sound(x, Asked)
  BY <1>1, <1>3, <1>5, <1>6 DEF Sound, AskedInv, Waiting
<1>9. overlapped' \in BOOLEAN
  BY DEF RemoveSelects, AskedInv, TypeOK
<1> HIDE DEF x, y
<1> QED BY <1>4, <1>7, <1>8, <1>9, OneMoves DEF RemoveSelects

LEMMA WriteKeeps ==
    ASSUME AskedInv, NEW r \in Requests, Write(r)
    PROVE  AskedInv'
<1> DEFINE y == handler[r]
           x == [y EXCEPT !.at = "written"]
<1>1. y \in Waiting /\ Sound(y, Asked)
  BY WaitsHas DEF Write
<1>2. y.list \in Seq(Item) /\ OneOfEach(y.list) /\ y.values \in Seq(Item)
  BY <1>1, RequestHas DEF Sound
<1>3. handler' = [handler EXCEPT ![r] = x] /\ x \in Waiting
  BY <1>1 DEF Write, Waiting
<1>4. asked \in [Hashes -> Nat] /\ handler \in [Requests -> Waiting \cup {Idle}]
  BY DEF AskedInv, TypeOK
<1>5. /\ asked' \in [Hashes -> Nat] /\ Asked \subseteq Asked'
      /\ y.kind = "push" => y.values[1].hash \in Asked'
  <2>1. CASE y.kind = "push"
    <3> DEFINE h == y.values[1].hash
    <3>1. h \in Hashes
      <4>1. Len(y.values) = 1
        BY <1>1, <2>1 DEF Sound
      <4>2. y.values[1] \in Item
        BY <1>2, <4>1
      <4> QED BY <4>2 DEF Item
    <3>2. asked' = [asked EXCEPT ![h] = @ + 1]
      BY <2>1 DEF Write
    <3> HIDE DEF h
    <3>3. asked' \in [Hashes -> Nat] /\ \A g \in Hashes : asked'[g] = IF g = h THEN asked[g] + 1 ELSE asked[g]
      BY <1>4, <3>1, <3>2
    <3>4. \A g \in Hashes : asked[g] > 0 => asked'[g] > 0
      BY <1>4, <3>3
    <3>5. asked'[h] > 0
      BY <1>4, <3>1, <3>3
    <3> QED BY <3>1, <3>3, <3>4, <3>5 DEF Asked, h
  <2>2. CASE y.kind # "push"
    BY <1>4, <2>2 DEF Write, Asked
  <2> QED BY <2>1, <2>2
<1>6. HashesOf(y.list) \subseteq Asked'
  BY <1>1, <1>5 DEF Sound
<1>7. Sound(x, Asked')
  BY <1>1, <1>5 DEF Sound, Waiting
<1>8. queue' = y.list
  BY DEF Write
<1> HIDE DEF x, y
<1>9. \A q \in Requests : handler'[q] = IF q = r THEN x ELSE handler[q]
  BY <1>3, <1>4
<1>10. \A q \in Requests : handler'[q] # Idle => Sound(handler'[q], Asked')
  BY <1>5, <1>7, <1>9, SoundGrows DEF AskedInv
<1>11. handler' \in [Requests -> Waiting \cup {Idle}]
  BY <1>3, <1>4
<1>12. UNCHANGED <<now, decided, kills, overlapped>>
  BY DEF Write
<1>13. TypeOK'
  <2>1. \A q \in Requests : handler'[q] # Idle /\ handler'[q].kind \in {"decide", "forget"}
            => handler'[q].hashes # << >>
    BY <1>10 DEF Sound
  <2>2. now' \in 0 .. MaxTime /\ decided' \in [Hashes -> Nat] /\ kills' \in 0 .. MaxKills /\ overlapped' \in BOOLEAN
    BY <1>12 DEF AskedInv, TypeOK
  <2> QED BY <1>2, <1>5, <1>8, <1>11, <2>1, <2>2 DEF TypeOK
<1>14. OnePerAction'
  BY <1>2, <1>8 DEF OnePerAction, OneOfEach
<1>15. HashesOf(queue)' \subseteq Asked'
  BY <1>6, <1>8
<1>16. \A h \in Hashes : decided'[h] > 0 => h \in Asked'
  BY <1>5, <1>12 DEF AskedInv
<1> QED BY <1>10, <1>13, <1>14, <1>15, <1>16 DEF AskedInv

LEMMA ReturnKeeps ==
    ASSUME AskedInv, NEW r \in Requests, Return(r)
    PROVE  AskedInv'
<1>1. overlapped' \in BOOLEAN
  BY DEF Return, AskedInv, TypeOK
<1> QED BY <1>1, OneMoves DEF Return

(* The rest of a batch.                                                    *)
LEMMA RestIs ==
    ASSUME NEW A, NEW x \in Waiting, Sound(x, A), x.kind = "decide"
    PROVE  Rest(x) = Idle \/ (Rest(x) \in Waiting /\ Sound(Rest(x), A) /\ Rest(x).kind = "decide" /\ Rest(x).at = "read")
<1>1. CASE Len(x.hashes) = 1
  BY <1>1 DEF Rest
<1>2. CASE Len(x.hashes) # 1
  <2> DEFINE rest == [x EXCEPT !.hashes = Tail(@), !.at = "read", !.values = << >>, !.list = << >>]
  <2>1. Rest(x) = rest
    BY <1>2 DEF Rest
  <2>2. x.hashes \in Seq(Hashes) /\ x.hashes # << >>
    BY RequestHas DEF Sound
  <2>3. Tail(x.hashes) \in Seq(Hashes) /\ Tail(x.hashes) # << >>
    <3> DEFINE hashes == x.hashes
    <3>1. hashes \in Seq(Hashes) /\ hashes # << >> /\ Len(hashes) # 1
      BY <1>2, <2>2
    <3> HIDE DEF hashes
    <3>2. Len(hashes) \in Nat /\ Len(hashes) # 0
      BY <3>1
    <3>3. Tail(hashes) \in Seq(Hashes) /\ Len(Tail(hashes)) = Len(hashes) - 1
      BY <3>1
    <3>4. Len(<< >>) = 0 /\ Len(Tail(hashes)) # 0
      BY <3>1, <3>2, <3>3
    <3>5. Tail(hashes) # << >>
      BY <3>4
    <3> QED BY <3>3, <3>5 DEF hashes
  <2>4. rest \in Waiting /\ rest.kind = "decide" /\ rest.at = "read"
    BY <2>3, EmptyList DEF Waiting
  <2>5. Sound(rest, A)
    BY <2>3, EmptyList DEF Sound, Waiting
  <2> QED BY <2>1, <2>4, <2>5
<1> QED BY <1>1, <1>2

LEMMA DecideKeeps ==
    ASSUME AskedInv, NEW r \in Requests, Decide(r)
    PROVE  AskedInv'
<1> DEFINE y == handler[r]
           h == Head(y.hashes)
           x == Rest(y)
<1>1. y \in Waiting /\ Sound(y, Asked) /\ y.kind = "decide"
  BY WaitsHas DEF Decide
<1>2. y.values # << >> /\ handler' = [handler EXCEPT ![r] = x]
  BY DEF Decide
<1>3. x = Idle \/ (x \in Waiting /\ Sound(x, Asked))
  BY <1>1, RestIs
<1>4. h \in Asked
  <2>1. y.values \in Seq(Item)
    BY <1>1, RequestHas
  <2>2. y.values[1].hash \in HashesOf(y.values)
    BY <1>2, <2>1 DEF HashesOf
  <2> QED BY <1>1, <2>2 DEF Sound
<1>5. h \in Hashes
  BY <1>4 DEF Asked
<1>6. decided' = [decided EXCEPT ![h] = @ + 1]
  BY DEF Decide
<1>7. UNCHANGED <<queue, now, asked, kills, overlapped>>
  BY DEF Decide
<1> HIDE DEF x, y, h
<1>8. handler \in [Requests -> Waiting \cup {Idle}] /\ decided \in [Hashes -> Nat]
  BY DEF AskedInv, TypeOK
<1>9. \A q \in Requests : handler'[q] = IF q = r THEN x ELSE handler[q]
  BY <1>2, <1>8
<1>10. \A q \in Requests : handler'[q] # Idle => Sound(handler'[q], Asked)
  BY <1>3, <1>9 DEF AskedInv
<1>11. Asked' = Asked
  BY <1>7 DEF Asked
<1>12. decided' \in [Hashes -> Nat] /\ \A g \in Hashes : g # h => decided'[g] = decided[g]
  BY <1>5, <1>6, <1>8
<1>13. TypeOK'
  <2>1. \A q \in Requests : handler'[q] # Idle /\ handler'[q].kind \in {"decide", "forget"}
            => handler'[q].hashes # << >>
    BY <1>10 DEF Sound
  <2>2. handler' \in [Requests -> Waiting \cup {Idle}]
    BY <1>2, <1>3, <1>8
  <2> QED BY <1>7, <1>12, <2>1, <2>2 DEF AskedInv, TypeOK
<1>14. OnePerAction' /\ HashesOf(queue)' \subseteq Asked
  BY <1>7 DEF AskedInv, OnePerAction
<1>15. \A g \in Hashes : decided'[g] > 0 => g \in Asked
  BY <1>4, <1>12 DEF AskedInv
<1> QED BY <1>10, <1>11, <1>13, <1>14, <1>15 DEF AskedInv

LEMMA NextAsked == AskedInv /\ [Next]_vars => AskedInv'
<1> SUFFICES ASSUME AskedInv, [Next]_vars PROVE AskedInv'
  OBVIOUS
<1>0. TypeOK
  BY DEF AskedInv
<1>1. ASSUME NEW r \in Requests, NEW h \in Hashes, Ask(r, h) PROVE AskedInv'
  <2> DEFINE values == <<[hash |-> h, expires |-> now + Life]>>
  <2>1. values \in Seq(Item) /\ Len(values) = 1
    BY <1>0, TimeAssumption DEF TypeOK, Item
  <2>2. Begin(r, "push", << >>, values)
    BY <1>1 DEF Ask
  <2> HIDE DEF values
  <2> QED BY <2>1, <2>2, BeginKeeps, EmptyList
<1>2. ASSUME NEW r \in Requests, GetActions(r) PROVE AskedInv'
  <2> DEFINE expired == Kept(queue, {i \in DOMAIN queue : queue[i].expires <= now})
  <2>1. Begin(r, "expire", << >>, expired)
    BY <1>2 DEF GetActions
  <2>2. expired \in Seq(Item) /\ HashesOf(expired) \subseteq HashesOf(queue)
    BY <1>0, SelectedIs DEF TypeOK
  <2> HIDE DEF expired
  <2> QED BY <2>1, <2>2, BeginKeeps, EmptyList DEF AskedInv
<1>3. ASSUME NEW r \in Requests, NEW kind \in {"decide", "forget"}, NEW hashes \in Seq(Hashes),
             hashes # << >>, Begin(r, kind, hashes, << >>)
      PROVE  AskedInv'
  BY <1>3, BeginKeeps, EmptyList
<1>4. ASSUME NEW r \in Requests, NEW h \in Hashes, Approve(r, h) \/ SignatureFailure(r, h) PROVE AskedInv'
  <2>1. <<h>> \in Seq(Hashes) /\ <<h>> # << >>
    OBVIOUS
  <2> QED BY <1>3, <1>4, <2>1 DEF Approve, SignatureFailure
<1>5. ASSUME NEW r \in Requests, NEW batch \in Batches, Reject(r, batch) PROVE AskedInv'
  BY <1>3, <1>5, BatchesAssumption DEF Reject
<1>6. CASE Kill
  <2>1. handler' = [r \in Requests |-> Idle] /\ UNCHANGED <<queue, now, asked, decided, overlapped>>
    BY <1>6 DEF Kill
  <2>2. kills' \in 0 .. MaxKills
    BY <1>0, <1>6, BoundsAssumption DEF Kill, TypeOK
  <2>3. TypeOK'
    BY <1>0, <2>1, <2>2 DEF TypeOK
  <2> QED BY <2>1, <2>3 DEF AskedInv, OnePerAction, Asked
<1>7. CASE Tick
  <2>1. UNCHANGED <<queue, handler, asked, decided, kills, overlapped>>
    BY <1>7 DEF Tick
  <2>2. now' \in 0 .. MaxTime
    BY <1>0, <1>7, TimeAssumption DEF Tick, TypeOK
  <2>3. TypeOK'
    BY <1>0, <2>1, <2>2 DEF TypeOK
  <2> QED BY <2>1, <2>3 DEF AskedInv, OnePerAction, Asked
<1>8. CASE UNCHANGED vars
  BY <1>0, <1>8 DEF vars, AskedInv, TypeOK, OnePerAction, Asked
<1> QED
  BY <1>1, <1>2, <1>4, <1>5, <1>6, <1>7, <1>8, UnshiftKeeps, RemoveReadsKeeps, SelectorReadsKeeps,
     SelectsKeeps, WriteKeeps, ReturnKeeps, DecideKeeps DEF Next

(* The lists and the locals keep their shapes, for any number of handlers. *)
THEOREM TypeCorrect == Spec => []TypeOK
<1>1. AskedInv => TypeOK
  BY DEF AskedInv
<1> QED BY <1>1, InitAsked, NextAsked, PTL DEF Spec

(* However many handlers overlap and overwrite each other's lists, the     *)
(* queue never shows one action twice.                                     *)
THEOREM ShownOnce == Spec => []OnePerAction
<1>1. AskedInv => OnePerAction
  BY DEF AskedInv
<1> QED BY <1>1, InitAsked, NextAsked, PTL DEF Spec

---------------------------------------------------------------------------
(* What a handler that is alone knows of the queue q at the time t: nobody *)
(* has written it since it was read.                                       *)
Alone(x, q, t) ==
    /\ x.kind = "push" =>
          /\ x.values[1].expires <= t + Life
          /\ x.at = "write" => x.list = MergeArrayStableWith(q, x.values, "unshift")
    /\ x.kind = "expire" /\ x.at \in {"read", "write"} =>
          ToSet(x.values) \subseteq {item \in ToSet(q) : item.expires <= t}
    /\ x.kind \in {"decide", "forget"} /\ x.at = "select" => x.list = q
    /\ x.kind \in {"decide", "forget"} /\ x.at = "write" => ToSet(x.values) \subseteq ToSet(q)
    /\ x.kind # "push" /\ x.at = "write" => x.list = DifferenceWith(q, x.values)

SerialInv ==
    ~ overlapped =>
        /\ \A q, r \in Requests : handler[q] # Idle /\ handler[r] # Idle => q = r
        /\ \A r \in Requests : handler[r] # Idle => Alone(handler[r], queue, now)

(* A step of the one handler that waits.                                   *)
LEMMA TheOneMoves ==
    ASSUME AskedInv, SerialInv, NEW r \in Requests, handler[r] # Idle, NEW x,
           handler' = [handler EXCEPT ![r] = x], overlapped' = overlapped,
           ~ overlapped => x = Idle \/ Alone(x, queue', now')
    PROVE  SerialInv'
<1>1. \A q \in Requests : handler'[q] = IF q = r THEN x ELSE handler[q]
  BY DEF AskedInv, TypeOK
<1> QED BY <1>1 DEF SerialInv

LEMMA BeginsAlone ==
    ASSUME AskedInv, NEW r \in Requests, NEW kind, NEW hashes, NEW values, Begin(r, kind, hashes, values),
           kind = "push" => values[1].expires <= now + Life,
           kind = "expire" => ToSet(values) \subseteq {item \in ToSet(queue) : item.expires <= now}
    PROVE  SerialInv'
<1> SUFFICES ASSUME ~ overlapped' PROVE SerialInv'
  BY DEF SerialInv
<1> DEFINE x == [kind |-> kind, hashes |-> hashes, at |-> "read", values |-> values, list |-> << >>]
<1>1. \A q \in Requests : handler'[q] = IF q = r THEN x ELSE Idle
  BY DEF Begin, AskedInv, TypeOK
<1>2. queue' = queue /\ now' = now
  BY DEF Begin
<1>3. Alone(x, queue, now)
  BY DEF Alone
<1> HIDE DEF x
<1> QED BY <1>1, <1>2, <1>3 DEF SerialInv

LEMMA NextSerial ==
    ASSUME AskedInv, SerialInv, [Next]_vars
    PROVE  SerialInv'
<1>0. TypeOK /\ queue \in Seq(Item)
  BY DEF AskedInv, TypeOK
<1>1. ASSUME NEW r \in Requests, NEW h \in Hashes, Ask(r, h) PROVE SerialInv'
  <2> DEFINE values == <<[hash |-> h, expires |-> now + Life]>>
  <2>1. now + Life <= now + Life
    BY <1>0, TimeAssumption DEF TypeOK
  <2>2. values[1].expires <= now + Life /\ Begin(r, "push", << >>, values)
    BY <1>1, <2>1 DEF Ask
  <2> HIDE DEF values
  <2> QED BY <2>2, BeginsAlone
<1>2. ASSUME NEW r \in Requests, GetActions(r) PROVE SerialInv'
  <2> DEFINE places == {i \in DOMAIN queue : queue[i].expires <= now}
  <2>1. Begin(r, "expire", << >>, Kept(queue, places))
    BY <1>2 DEF GetActions
  <2>2. places \in SUBSET (DOMAIN queue) /\ \A i \in places : queue[i].expires <= now
    OBVIOUS
  <2> HIDE DEF places
  <2>3. ToSet(Kept(queue, places)) \subseteq {item \in ToSet(queue) : item.expires <= now}
    BY <1>0, <2>2, SelectedIs
  <2> QED BY <2>1, <2>3, BeginsAlone
<1>3. ASSUME NEW r \in Requests, NEW kind \in {"decide", "forget"}, NEW hashes, Begin(r, kind, hashes, << >>)
      PROVE  SerialInv'
  BY <1>3, BeginsAlone
<1>4. ASSUME NEW r \in Requests, UnshiftReads(r) PROVE SerialInv'
  <2> DEFINE y == handler[r]
             merged == MergeArrayStableWith(queue, y.values, "unshift")
             x == [y EXCEPT !.at = "write", !.list = merged]
  <2>1. y \in Waiting /\ y.kind = "push" /\ y # Idle
    BY <1>4, WaitsHas DEF UnshiftReads, Waits
  <2>2. handler' = [handler EXCEPT ![r] = x] /\ UNCHANGED <<queue, now, overlapped>>
    BY <1>4, <2>1 DEF UnshiftReads, Waiting
  <2>3. ~ overlapped => Alone(y, queue, now)
    BY <2>1 DEF SerialInv
  <2> HIDE DEF merged
  <2>4. x.kind = "push" /\ x.values = y.values /\ x.at = "write" /\ x.list = merged
    BY <2>1 DEF Waiting
  <2>5. Alone(y, queue, now) => Alone(x, queue, now)
    BY <2>1, <2>4 DEF Alone, merged
  <2> HIDE DEF x, y
  <2>6. handler[r] # Idle
    BY <2>1 DEF y
  <2> QED BY <2>2, <2>3, <2>5, <2>6, TheOneMoves
<1>5. ASSUME NEW r \in Requests, RemoveReads(r) PROVE SerialInv'
  <2> DEFINE y == handler[r]
             left == DifferenceWith(queue, y.values)
             x == [y EXCEPT !.at = "write", !.list = left]
  <2>1. y \in Waiting /\ y.kind = "expire" /\ y.at = "read" /\ y # Idle
    BY <1>5, WaitsHas DEF RemoveReads, Waits
  <2>2. handler' = [handler EXCEPT ![r] = x] /\ UNCHANGED <<queue, now, overlapped>>
    BY <1>5, <2>1 DEF RemoveReads, Waiting
  <2>3. ~ overlapped => Alone(y, queue, now)
    BY <2>1 DEF SerialInv
  <2> HIDE DEF left
  <2>4. x.kind = "expire" /\ x.values = y.values /\ x.at = "write" /\ x.list = left
    BY <2>1 DEF Waiting
  <2>5. Alone(y, queue, now) => Alone(x, queue, now)
    BY <2>1, <2>4 DEF Alone, left
  <2> HIDE DEF x, y
  <2>6. handler[r] # Idle
    BY <2>1 DEF y
  <2> QED BY <2>2, <2>3, <2>5, <2>6, TheOneMoves
<1>6. ASSUME NEW r \in Requests, RemoveBySelectorReads(r) PROVE SerialInv'
  <2> DEFINE y == handler[r]
             x == [y EXCEPT !.at = "select", !.list = queue]
  <2>1. y \in Waiting /\ y.kind \in {"decide", "forget"} /\ y # Idle
    BY <1>6, WaitsHas DEF RemoveBySelectorReads, Waits
  <2>2. handler' = [handler EXCEPT ![r] = x] /\ UNCHANGED <<queue, now, overlapped>>
    BY <1>6, <2>1 DEF RemoveBySelectorReads, Waiting
  <2>3. x.kind \in {"decide", "forget"} /\ x.at = "select" /\ x.list = queue
    BY <2>1 DEF Waiting
  <2>4. Alone(x, queue, now)
    BY <2>3 DEF Alone
  <2> HIDE DEF x, y
  <2>5. handler[r] # Idle
    BY <2>1 DEF y
  <2> QED BY <2>2, <2>4, <2>5, TheOneMoves
<1>7. ASSUME NEW r \in Requests, RemoveSelects(r) PROVE SerialInv'
  <2> DEFINE y == handler[r]
             selected == Selected(Head(y.hashes))
             left == DifferenceWith(y.list, selected)
             x == [y EXCEPT !.at = "write", !.values = selected, !.list = left]
  <2>1. y \in Waiting /\ y.kind \in {"decide", "forget"} /\ y.at = "select" /\ y # Idle
    BY <1>7, WaitsHas DEF RemoveSelects, Waits
  <2>2. handler' = [handler EXCEPT ![r] = x] /\ UNCHANGED <<queue, now, overlapped>>
    BY <1>7, <2>1 DEF RemoveSelects, Waiting, Selected
  <2>3. ~ overlapped => y.list = queue
    BY <2>1 DEF SerialInv, Alone
  <2>4. ToSet(selected) \subseteq ToSet(queue)
    BY SelectedHas
  <2> HIDE DEF selected
  <2>5. y.list = queue => left = DifferenceWith(queue, selected)
    OBVIOUS
  <2> HIDE DEF left
  <2>6. x.kind = y.kind /\ x.values = selected /\ x.at = "write" /\ x.list = left
    BY <2>1 DEF Waiting
  <2>7. ~ overlapped => Alone(x, queue, now)
    BY <2>1, <2>3, <2>4, <2>5, <2>6 DEF Alone
  <2> HIDE DEF x, y
  <2>8. handler[r] # Idle
    BY <2>1 DEF y
  <2> QED BY <2>2, <2>7, <2>8, TheOneMoves
<1>8. ASSUME NEW r \in Requests, Write(r) PROVE SerialInv'
  <2> DEFINE y == handler[r]
             x == [y EXCEPT !.at = "written"]
  <2>1. y \in Waiting /\ y # Idle
    BY <1>8, WaitsHas DEF Write, Waits
  <2>2. handler' = [handler EXCEPT ![r] = x] /\ UNCHANGED <<now, overlapped>>
    BY <1>8, <2>1 DEF Write, Waiting
  <2>3. ~ overlapped => Alone(y, queue, now)
    BY <2>1 DEF SerialInv
  <2>4. x.kind = y.kind /\ x.values = y.values /\ x.at = "written"
    BY <2>1 DEF Waiting
  <2>5. Alone(y, queue, now) => Alone(x, queue', now)
    BY <2>4 DEF Alone
  <2> HIDE DEF x, y
  <2>6. handler[r] # Idle
    BY <2>1 DEF y
  <2> QED BY <2>2, <2>3, <2>5, <2>6, TheOneMoves
<1>9. ASSUME NEW r \in Requests, Return(r) PROVE SerialInv'
  BY <1>9, TheOneMoves DEF Return, Waits
<1>10. ASSUME NEW r \in Requests, Decide(r) PROVE SerialInv'
  <2>1. handler[r] \in Waiting /\ Sound(handler[r], Asked) /\ handler[r].kind = "decide" /\ handler[r] # Idle
    BY <1>10, WaitsHas DEF Decide, Waits
  <2>2. Rest(handler[r]) = Idle \/ (Rest(handler[r]).kind = "decide" /\ Rest(handler[r]).at = "read")
    BY <2>1, RestIs
  <2>3. Rest(handler[r]) = Idle \/ Alone(Rest(handler[r]), queue', now')
    BY <2>2 DEF Alone
  <2> QED BY <1>10, <2>1, <2>3, TheOneMoves DEF Decide
<1>11. CASE Kill
  BY <1>11 DEF Kill, SerialInv
<1>12. CASE Tick
  <2>1. now' = now + 1 /\ UNCHANGED <<queue, handler, overlapped>>
    BY <1>12 DEF Tick
  <2>2. \A e \in Nat : e <= now => e <= now + 1
    BY <1>0 DEF TypeOK
  <2>3. \A e \in Nat : e <= now + Life => e <= (now + 1) + Life
    BY <1>0, TimeAssumption DEF TypeOK
  <2>4. ASSUME NEW r \in Requests, handler[r] # Idle, Alone(handler[r], queue, now)
        PROVE  Alone(handler[r], queue, now + 1)
    <3> DEFINE y == handler[r]
    <3>1. y \in Waiting /\ Sound(y, Asked) /\ y.values \in Seq(Item)
      BY <2>4, RequestHas DEF AskedInv, TypeOK
    <3>2. y.kind = "push" => y.values[1].expires \in Nat
      <4> SUFFICES ASSUME y.kind = "push" PROVE y.values[1].expires \in Nat
        OBVIOUS
      <4>1. Len(y.values) = 1
        BY <3>1 DEF Sound
      <4>2. y.values[1] \in Item
        BY <3>1, <4>1
      <4> QED BY <4>2 DEF Item
    <3>3. \A item \in ToSet(queue) : item.expires \in Nat
      <4>1. \A i \in DOMAIN queue : queue[i] \in Item
        BY <1>0
      <4> QED BY <4>1 DEF ToSet, Item
    <3> HIDE DEF y
    <3>4. Alone(y, queue, now) => Alone(y, queue, now + 1)
      BY <2>2, <2>3, <3>2, <3>3 DEF Alone
    <3> QED BY <2>4, <3>4 DEF y
  <2> QED BY <2>1, <2>4 DEF SerialInv
<1>13. CASE UNCHANGED vars
  BY <1>13 DEF vars, SerialInv
<1> QED
  BY <1>1, <1>2, <1>3, <1>4, <1>5, <1>6, <1>7, <1>8, <1>9, <1>10, <1>11, <1>12, <1>13
  DEF Next, Approve, Reject, SignatureFailure

---------------------------------------------------------------------------
(* What is removed and not yet decided on, of all handlers and of one.     *)
HandsOf(hd) ==
    UNION {HashesOf(hd[r].values) :
              r \in {q \in Requests : /\ hd[q] # Idle /\ hd[q].at = "written"
                                      /\ hd[q].kind \in {"decide", "forget"}}}
HandOf(x) ==
    IF x # Idle /\ x.at = "written" /\ x.kind \in {"decide", "forget"} THEN HashesOf(x.values) ELSE {}

LEMMA InHandIs == InHand = HandsOf(handler) /\ InHand' = HandsOf(handler')
BY DEF InHand, HandsOf, Waits

LEMMA HandsOfOne ==
    ASSUME NEW hd, NEW r \in Requests, \A q \in Requests : q # r => hd[q] = Idle
    PROVE  HandsOf(hd) = HandOf(hd[r])
BY DEF HandsOf, HandOf

LEMMA HandsOfNone ==
    ASSUME NEW hd, \A q \in Requests : hd[q] = Idle
    PROVE  HandsOf(hd) = {}
BY DEF HandsOf

(* A step of the only handler that waits, seen from outside.               *)
LEMMA HandMoves ==
    ASSUME AskedInv, SerialInv, ~ overlapped, NEW r \in Requests, handler[r] # Idle,
           NEW x, handler' = [handler EXCEPT ![r] = x]
    PROVE  InHand = HandOf(handler[r]) /\ InHand' = HandOf(x)
<1>1. \A q \in Requests : q # r => handler[q] = Idle
  BY DEF SerialInv
<1>2. handler'[r] = x /\ \A q \in Requests : q # r => handler'[q] = Idle
  BY <1>1 DEF AskedInv, TypeOK
<1>3. HandsOf(handler) = HandOf(handler[r])
  BY <1>1, HandsOfOne
<1>4. HandsOf(handler') = HandOf(x)
  BY <1>2, HandsOfOne
<1> QED BY <1>3, <1>4, InHandIs

LEMMA BeginMaps ==
    ASSUME AskedInv, NEW r \in Requests, NEW kind, NEW hashes, NEW values, Begin(r, kind, hashes, values),
           ~ overlapped'
    PROVE  UNCHANGED Approvals!vars
<1> DEFINE x == [kind |-> kind, hashes |-> hashes, at |-> "read", values |-> values, list |-> << >>]
<1>1. \A q \in Requests : handler[q] = Idle
  BY DEF Begin
<1>2. \A q \in Requests : handler'[q] = IF q = r THEN x ELSE Idle
  BY <1>1 DEF Begin, AskedInv, TypeOK
<1>3. HandOf(x) = {}
  BY DEF HandOf
<1> HIDE DEF x
<1>4. HandsOf(handler) = {}
  BY <1>1, HandsOfNone
<1>5. HandsOf(handler') = {}
  BY <1>2, <1>3, HandsOfOne
<1>6. UNCHANGED <<queue, now, asked, decided>>
  BY DEF Begin
<1> QED BY <1>4, <1>5, <1>6, InHandIs DEF Approvals!vars

(* The steps that only read.                                               *)
LEMMA ReadMaps ==
    ASSUME AskedInv, SerialInv, ~ overlapped, NEW r \in Requests,
           UnshiftReads(r) \/ RemoveReads(r) \/ RemoveBySelectorReads(r) \/ RemoveSelects(r)
    PROVE  UNCHANGED Approvals!vars
<1>1. handler[r] \in Waiting /\ handler[r].at \in {"read", "select"} /\ handler[r] # Idle
  BY WaitsHas DEF UnshiftReads, RemoveReads, RemoveBySelectorReads, RemoveSelects, Waits
<1>2. \E x : handler' = [handler EXCEPT ![r] = x] /\ x.at # "written"
  <2> DEFINE y == handler[r]
  <2>1. \A list : [y EXCEPT !.at = "write", !.list = list].at # "written"
    BY <1>1 DEF Waiting
  <2>2. \A list : [y EXCEPT !.at = "select", !.list = list].at # "written"
    BY <1>1 DEF Waiting
  <2>3. \A values, list : [y EXCEPT !.at = "write", !.values = values, !.list = list].at # "written"
    BY <1>1 DEF Waiting
  <2>4. CASE UnshiftReads(r)
    BY <2>1, <2>4 DEF UnshiftReads
  <2>5. CASE RemoveReads(r)
    BY <2>1, <2>5 DEF RemoveReads
  <2>6. CASE RemoveBySelectorReads(r)
    BY <2>2, <2>6 DEF RemoveBySelectorReads
  <2>7. CASE RemoveSelects(r)
    BY <2>3, <2>7 DEF RemoveSelects
  <2> QED BY <2>4, <2>5, <2>6, <2>7
<1>3. PICK x : handler' = [handler EXCEPT ![r] = x] /\ x.at # "written"
  BY <1>2
<1>4. InHand = {} /\ InHand' = {}
  BY <1>1, <1>3, HandMoves DEF HandOf
<1>5. UNCHANGED <<queue, now, asked, decided>>
  BY DEF UnshiftReads, RemoveReads, RemoveBySelectorReads, RemoveSelects
<1> QED BY <1>4, <1>5 DEF Approvals!vars

(* The write: what was asked for waits, or what waited is taken or gone.   *)
LEMMA WriteMaps ==
    ASSUME AskedInv, SerialInv, ~ overlapped, NEW r \in Requests, Write(r)
    PROVE  Approvals!Next \/ UNCHANGED Approvals!vars
<1> DEFINE y == handler[r]
           x == [y EXCEPT !.at = "written"]
<1>1. /\ y \in Waiting /\ y # Idle /\ y.at = "write" /\ Sound(y, Asked)
      /\ y.kind \in {"push", "expire", "decide", "forget"}
  BY WaitsHas DEF Write, Waits
<1>2. handler' = [handler EXCEPT ![r] = x] /\ x \in Waiting
  BY <1>1 DEF Write, Waiting
<1>3. x.kind = y.kind /\ x.values = y.values /\ x.at = "written" /\ x # Idle
  BY <1>1, <1>2, RequestHas DEF Waiting
<1>4. Alone(y, queue, now)
  BY <1>1 DEF SerialInv
<1>5. InHand = {} /\ InHand' = IF y.kind \in {"decide", "forget"} THEN HashesOf(y.values) ELSE {}
  <2> HIDE DEF x
  <2>1. InHand = HandOf(y) /\ InHand' = HandOf(x)
    BY <1>1, <1>2, HandMoves
  <2> HIDE DEF y
  <2> QED BY <1>1, <1>3, <2>1 DEF HandOf
<1>6. queue' = y.list /\ now' = now /\ decided' = decided
  BY DEF Write
<1>7. asked' = IF y.kind = "push" THEN [asked EXCEPT ![y.values[1].hash] = @ + 1] ELSE asked
  BY DEF Write
<1>8. y.values \in Seq(Item) /\ queue \in Seq(Item) /\ OneOfEach(queue)
  BY <1>1, RequestHas DEF AskedInv, TypeOK, OnePerAction, OneOfEach
<1> HIDE DEF x, y
<1>9. CASE y.kind = "push"
  <2> DEFINE v == y.values[1]
  <2>1. Len(y.values) = 1
    BY <1>1, <1>9 DEF Sound
  <2>2. v \in Item /\ y.values = <<v>>
    BY <1>8, <2>1
  <2>3. v.hash \in Hashes /\ v.expires \in Nat /\ v = [hash |-> v.hash, expires |-> v.expires]
    BY <2>2 DEF Item
  <2>4. v.expires <= now + Life
    BY <1>4, <1>9 DEF Alone
  <2>5. v.expires \in 0 .. now + Life
    BY <2>3, <2>4, TimeAssumption DEF AskedInv, TypeOK
  <2>6. queue' = MergeArrayStableWith(queue, <<v>>, "unshift")
    BY <1>1, <1>4, <1>6, <1>9, <2>2 DEF Alone
  <2> HIDE DEF v
  <2>7. ToSet(queue') = {item \in ToSet(queue) : item.hash # v.hash} \cup {v}
    BY <1>8, <2>2, <2>6, UnshiftIs
  <2>8. ToSet(queue') = {item \in ToSet(queue) : item.hash \notin {v.hash}} \cup {[hash |-> v.hash, expires |-> v.expires]}
    BY <2>3, <2>7
  <2>9. asked' = [asked EXCEPT ![v.hash] = @ + 1]
    BY <1>7, <1>9 DEF v
  <2>10. Approvals!Ask(v.hash)
    BY <1>5, <1>6, <1>9, <2>5, <2>8, <2>9 DEF Approvals!Ask, Approvals!Without
  <2> QED BY <2>3, <2>10 DEF Approvals!Next
<1>10. CASE y.kind # "push"
  <2>1. queue' = DifferenceWith(queue, y.values)
    BY <1>1, <1>4, <1>6, <1>10 DEF Alone
  <2>2. ToSet(queue') = {item \in ToSet(queue) : item.hash \notin HashesOf(y.values)}
    BY <1>8, <2>1, DifferenceIs
  <2>3. HashesOf(y.values) \subseteq Hashes
    BY <1>1, <1>10 DEF Sound, Asked
  <2>4. asked' = asked
    BY <1>7, <1>10
  <2>5. CASE y.kind = "expire"
    <3>1. ToSet(y.values) \subseteq {item \in ToSet(queue) : item.expires <= now}
      BY <1>1, <1>4, <2>5 DEF Alone
    <3>2. ASSUME NEW item \in ToSet(queue), item.hash \in HashesOf(y.values) PROVE item.expires <= now
      <4>1. PICK v \in ToSet(y.values) : v.hash = item.hash
        BY <3>2, HashesAre
      <4>2. v \in ToSet(queue) /\ v.expires <= now
        BY <3>1
      <4>3. v = item
        BY <1>8, <4>1, <4>2, OneIsItself
      <4> QED BY <4>2, <4>3
    <3>3. Approvals!Expire(HashesOf(y.values))
      BY <1>5, <1>6, <2>2, <2>4, <2>5, <3>2 DEF Approvals!Expire, Approvals!Without
    <3> QED BY <2>3, <3>3 DEF Approvals!Next
  <2>6. CASE y.kind \in {"decide", "forget"} /\ HashesOf(y.values) = {}
    <3>1. ToSet(queue') = ToSet(queue) /\ InHand' = InHand
      BY <1>5, <2>2, <2>6
    <3> QED BY <1>6, <2>4, <3>1 DEF Approvals!vars
  <2>7. CASE y.kind \in {"decide", "forget"} /\ HashesOf(y.values) # {}
    <3> DEFINE h == Head(y.hashes)
    <3>1. HashesOf(y.values) = {h}
      BY <1>1, <2>7 DEF Sound
    <3>2. ToSet(y.values) \subseteq ToSet(queue)
      BY <1>1, <1>4, <2>7 DEF Alone
    <3> HIDE DEF h
    <3>3. \E item \in ToSet(queue) : item.hash = h
      BY <3>1, <3>2, HashesAre
    <3>4. Approvals!Take(h)
      BY <1>5, <1>6, <2>2, <2>4, <2>7, <3>1, <3>3 DEF Approvals!Take, Approvals!Waits, Approvals!Without
    <3> QED BY <2>3, <3>1, <3>4 DEF Approvals!Next
  <2> QED BY <1>1, <1>10, <2>5, <2>6, <2>7
<1> QED BY <1>9, <1>10

(* What was taken is decided on, or given up.                              *)
LEMMA HandIs ==
    ASSUME NEW x \in Waiting, Sound(x, Asked)
    PROVE  HandOf(x) = {} \/ \E h \in Hashes : HandOf(x) = {h}
<1>1. CASE x.kind \in {"decide", "forget"}
  <2>1. HashesOf(x.values) \subseteq {Head(x.hashes)} /\ HashesOf(x.values) \subseteq Hashes
    BY <1>1 DEF Sound, Asked
  <2> QED BY <2>1 DEF HandOf
<1>2. CASE x.kind \notin {"decide", "forget"}
  BY <1>2 DEF HandOf
<1> QED BY <1>1, <1>2

LEMMA DropMaps ==
    ASSUME UNCHANGED <<queue, now, asked, decided>>, InHand' = {},
           InHand = {} \/ \E h \in Hashes : InHand = {h}
    PROVE  Approvals!Next \/ UNCHANGED Approvals!vars
<1>1. CASE InHand = {}
  BY <1>1 DEF Approvals!vars
<1>2. ASSUME NEW h \in Hashes, InHand = {h} PROVE Approvals!Next
  <2>1. Approvals!Drop(h)
    BY <1>2 DEF Approvals!Drop
  <2> QED BY <2>1 DEF Approvals!Next
<1> QED BY <1>1, <1>2

LEMMA ReturnMaps ==
    ASSUME AskedInv, SerialInv, ~ overlapped, NEW r \in Requests, Return(r)
    PROVE  Approvals!Next \/ UNCHANGED Approvals!vars
<1>1. handler[r] \in Waiting /\ handler[r] # Idle /\ Sound(handler[r], Asked)
  BY WaitsHas DEF Return, Waits
<1>2. InHand = HandOf(handler[r]) /\ InHand' = HandOf(Idle)
  BY <1>1, HandMoves DEF Return
<1> QED BY <1>1, <1>2, HandIs, DropMaps DEF Return, HandOf

LEMMA DecideMaps ==
    ASSUME AskedInv, SerialInv, ~ overlapped, NEW r \in Requests, Decide(r)
    PROVE  Approvals!Next
<1> DEFINE y == handler[r]
           h == Head(y.hashes)
<1>1. /\ y \in Waiting /\ y # Idle /\ Sound(y, Asked) /\ y.kind = "decide" /\ y.at = "written"
      /\ y.values # << >>
  BY WaitsHas DEF Decide, Waits
<1>2. Rest(y) = Idle \/ Rest(y).at = "read"
  BY <1>1, RestIs
<1>3. InHand = HashesOf(y.values) /\ InHand' = {}
  BY <1>1, <1>2, HandMoves DEF Decide, HandOf
<1>4. HashesOf(y.values) = {h} /\ h \in Hashes
  <2>1. y.values \in Seq(Item)
    BY <1>1, RequestHas
  <2>2. y.values[1].hash \in HashesOf(y.values)
    BY <1>1, <2>1 DEF HashesOf
  <2> QED BY <1>1, <2>2 DEF Sound, Asked
<1>5. decided' = [decided EXCEPT ![h] = @ + 1] /\ UNCHANGED <<queue, now, asked>>
  BY DEF Decide
<1> HIDE DEF h, y
<1>6. Approvals!Decide(h)
  BY <1>3, <1>4, <1>5 DEF Approvals!Decide
<1> QED BY <1>4, <1>6 DEF Approvals!Next

LEMMA KillMaps ==
    ASSUME AskedInv, SerialInv, ~ overlapped, Kill
    PROVE  Approvals!Next \/ UNCHANGED Approvals!vars
<1>1. InHand' = {}
  BY InHandIs, HandsOfNone DEF Kill
<1>2. InHand = {} \/ \E h \in Hashes : InHand = {h}
  <2>1. ASSUME NEW r \in Requests, handler[r] # Idle
        PROVE  InHand = {} \/ \E h \in Hashes : InHand = {h}
    <3>1. handler[r] \in Waiting /\ Sound(handler[r], Asked)
      BY <2>1 DEF AskedInv, TypeOK
    <3>2. InHand = HandOf(handler[r])
      BY <2>1, InHandIs, HandsOfOne DEF SerialInv
    <3> QED BY <3>1, <3>2, HandIs
  <2>2. CASE \A r \in Requests : handler[r] = Idle
    BY <2>2, InHandIs, HandsOfNone
  <2> QED BY <2>1, <2>2
<1> QED BY <1>1, <1>2, DropMaps DEF Kill

LEMMA StepMaps ==
    ASSUME AskedInv, SerialInv, [Next]_vars, ~ overlapped'
    PROVE  Approvals!Next \/ UNCHANGED Approvals!vars
<1>1. ASSUME NEW r \in Requests, NEW kind, NEW hashes, NEW values, Begin(r, kind, hashes, values)
      PROVE  UNCHANGED Approvals!vars
  BY <1>1, BeginMaps
<1>2. CASE \/ \E r \in Requests, h \in Hashes : Ask(r, h) \/ Approve(r, h) \/ SignatureFailure(r, h)
           \/ \E r \in Requests : GetActions(r)
           \/ \E r \in Requests, batch \in Batches : Reject(r, batch)
  BY <1>1, <1>2 DEF Ask, Approve, SignatureFailure, GetActions, Reject
<1>3. CASE Tick
  <2>1. now' = now + 1 /\ UNCHANGED <<queue, handler, asked, decided>>
    BY <1>3 DEF Tick
  <2>2. InHand' = InHand
    BY <2>1, InHandIs
  <2>3. Approvals!Tick
    BY <2>1, <2>2 DEF Approvals!Tick
  <2> QED BY <2>3 DEF Approvals!Next
<1>4. CASE UNCHANGED vars
  <2>1. UNCHANGED <<queue, handler, now, asked, decided>>
    BY <1>4 DEF vars
  <2>2. InHand' = InHand
    BY <2>1, InHandIs
  <2> QED BY <2>1, <2>2 DEF Approvals!vars
<1>5. CASE \E r \in Requests : \/ UnshiftReads(r) \/ RemoveReads(r) \/ RemoveBySelectorReads(r)
                               \/ RemoveSelects(r) \/ Write(r) \/ Return(r) \/ Decide(r)
  <2> PICK r \in Requests : \/ UnshiftReads(r) \/ RemoveReads(r) \/ RemoveBySelectorReads(r)
                            \/ RemoveSelects(r) \/ Write(r) \/ Return(r) \/ Decide(r)
    BY <1>5
  <2>1. ~ overlapped
    BY DEF UnshiftReads, RemoveReads, RemoveBySelectorReads, RemoveSelects, Write, Return, Decide
  <2> QED BY <2>1, ReadMaps, WriteMaps, ReturnMaps, DecideMaps
<1>6. CASE Kill
  BY <1>6, KillMaps DEF Kill
<1> QED BY <1>2, <1>3, <1>4, <1>5, <1>6 DEF Next

---------------------------------------------------------------------------
(* What an action still counts for: a decision each.                       *)
Held(h) == IF h \in InHand THEN 1 ELSE 0
Open(h) == IF Approvals!Waits(h) THEN 1 ELSE 0

LEMMA AnsweredByParts ==
    Approvals!AnsweredOncePerAsk <=> \A h \in Hashes : decided[h] + Held(h) + Open(h) <= asked[h]
  BY DEF Approvals!AnsweredOncePerAsk, Held, Open

(* No step that ApprovalQueue promises answers a question twice.           *)
LEMMA AnswersKept ==
    ASSUME asked \in [Hashes -> Nat], decided \in [Hashes -> Nat], Approvals!AnsweredOncePerAsk,
           Approvals!Next \/ UNCHANGED Approvals!vars
    PROVE  Approvals!AnsweredOncePerAsk'
<1> USE DEF Approvals!Waits, Approvals!Without
<1> SUFFICES ASSUME NEW g \in Hashes
             PROVE  (decided[g] + Held(g) + Open(g) <= asked[g])'
  BY DEF Approvals!AnsweredOncePerAsk, Held, Open
<1>1. decided[g] + Held(g) + Open(g) <= asked[g]
  BY AnsweredByParts
<1>2. asked[g] \in Nat /\ decided[g] \in Nat
  OBVIOUS
<1>3. ASSUME NEW h \in Hashes, Approvals!Ask(h)
      PROVE  (decided[g] + Held(g) + Open(g) <= asked[g])'
  <2>1. InHand' = InHand /\ decided' = decided /\ asked' = [asked EXCEPT ![h] = @ + 1]
    BY <1>3 DEF Approvals!Ask
  <2>2. CASE g = h
    BY <1>1, <1>2, <2>1, <2>2 DEF Held, Open
  <2>3. CASE g # h
    <3>1. Approvals!Waits(g)' <=> Approvals!Waits(g)
      BY <1>3, <2>3 DEF Approvals!Ask
    <3> QED BY <1>1, <1>2, <2>1, <2>3, <3>1 DEF Held, Open
  <2> QED BY <2>2, <2>3
<1>4. ASSUME NEW h \in Hashes, Approvals!Take(h)
      PROVE  (decided[g] + Held(g) + Open(g) <= asked[g])'
  <2>1. InHand' = InHand \cup {h} /\ decided' = decided /\ asked' = asked
    BY <1>4 DEF Approvals!Take
  <2>2. CASE g = h
    <3>1. Approvals!Waits(g) /\ g \notin InHand /\ ~ Approvals!Waits(g)'
      BY <1>4, <2>2 DEF Approvals!Take
    <3> QED BY <1>1, <1>2, <2>1, <2>2, <3>1 DEF Held, Open
  <2>3. CASE g # h
    <3>1. Approvals!Waits(g)' <=> Approvals!Waits(g)
      BY <1>4, <2>3 DEF Approvals!Take
    <3> QED BY <1>1, <2>1, <2>3, <3>1 DEF Held, Open
  <2> QED BY <2>2, <2>3
<1>5. ASSUME NEW h \in Hashes, Approvals!Decide(h)
      PROVE  (decided[g] + Held(g) + Open(g) <= asked[g])'
  <2>1. /\ h \in InHand /\ InHand' = InHand \ {h}
        /\ decided' = [decided EXCEPT ![h] = @ + 1] /\ asked' = asked
    BY <1>5 DEF Approvals!Decide
  <2>2. Approvals!Waits(g)' <=> Approvals!Waits(g)
    BY <1>5 DEF Approvals!Decide
  <2> QED BY <1>1, <1>2, <2>1, <2>2 DEF Held, Open
<1>6. ASSUME NEW h \in Hashes, Approvals!Drop(h)
      PROVE  (decided[g] + Held(g) + Open(g) <= asked[g])'
  <2>1. InHand' = InHand \ {h} /\ decided' = decided /\ asked' = asked
    BY <1>6 DEF Approvals!Drop
  <2>2. Approvals!Waits(g)' <=> Approvals!Waits(g)
    BY <1>6 DEF Approvals!Drop
  <2> QED BY <1>1, <1>2, <2>1, <2>2 DEF Held, Open
<1>7. ASSUME NEW S \in SUBSET Hashes, Approvals!Expire(S)
      PROVE  (decided[g] + Held(g) + Open(g) <= asked[g])'
  <2>1. InHand' = InHand /\ decided' = decided /\ asked' = asked
    BY <1>7 DEF Approvals!Expire
  <2>2. Approvals!Waits(g)' => Approvals!Waits(g)
    BY <1>7 DEF Approvals!Expire
  <2> QED BY <1>1, <1>2, <2>1, <2>2 DEF Held, Open
<1>8. CASE Approvals!Tick \/ UNCHANGED Approvals!vars
  <2>1. InHand' = InHand /\ decided' = decided /\ asked' = asked
    BY <1>8 DEF Approvals!Tick, Approvals!vars
  <2>2. Approvals!Waits(g)' <=> Approvals!Waits(g)
    BY <1>8 DEF Approvals!Tick, Approvals!vars
  <2> QED BY <1>1, <2>1, <2>2 DEF Held, Open
<1> QED BY <1>3, <1>4, <1>5, <1>6, <1>7, <1>8 DEF Approvals!Next

QueueInv ==
    /\ AskedInv /\ SerialInv
    /\ ~ overlapped => Approvals!AnsweredOncePerAsk

LEMMA InitMaps == Init => Approvals!Init
<1> SUFFICES ASSUME Init PROVE Approvals!Init
  OBVIOUS
<1>1. ToSet(queue) = {} /\ InHand = {}
  BY EmptyList, InHandIs, HandsOfNone DEF Init
<1> QED BY <1>1 DEF Init, Approvals!Init

LEMMA InitQueue == Init => QueueInv
<1> SUFFICES ASSUME Init PROVE QueueInv
  OBVIOUS
<1>1. SerialInv
  BY DEF Init, SerialInv
<1>2. \A h \in Hashes : decided[h] = 0 /\ asked[h] = 0 /\ Held(h) = 0 /\ Open(h) = 0
  BY InitMaps DEF Approvals!Init, Approvals!Waits, Held, Open
<1>3. Approvals!AnsweredOncePerAsk
  BY <1>2, AnsweredByParts
<1> QED BY <1>1, <1>3, InitAsked DEF QueueInv

LEMMA NextQueue == QueueInv /\ [Next]_vars => QueueInv'
<1> SUFFICES ASSUME QueueInv, [Next]_vars PROVE QueueInv'
  OBVIOUS
<1>1. AskedInv' /\ SerialInv'
  BY NextAsked, NextSerial DEF QueueInv
<1>2. ASSUME ~ overlapped' PROVE Approvals!AnsweredOncePerAsk'
  <2>1. Approvals!Next \/ UNCHANGED Approvals!vars
    BY <1>2, StepMaps DEF QueueInv
  <2>2. ~ overlapped
    BY <1>2 DEF Next, vars, Ask, GetActions, Approve, Reject, SignatureFailure, Begin, UnshiftReads,
       RemoveReads, RemoveBySelectorReads, RemoveSelects, Write, Return, Decide, Kill, Tick
  <2>3. asked \in [Hashes -> Nat] /\ decided \in [Hashes -> Nat] /\ Approvals!AnsweredOncePerAsk
    BY <2>2 DEF QueueInv, AskedInv, TypeOK
  <2> QED BY <2>1, <2>3, AnswersKept
<1> QED BY <1>1, <1>2 DEF QueueInv

(* Nothing is decided that nobody asked for, however stale the lists are   *)
(* that handlers write back, and as long as messages come one after the    *)
(* other, no question is answered twice, also when it is asked again, is   *)
(* given up or expires, or when the background page is stopped.            *)
THEOREM AnsweredOnce == Spec => []AnsweredAsAsked
<1>1. QueueInv => AnsweredAsAsked
  BY DEF QueueInv, AskedInv, Asked, AnsweredAsAsked
<1> QED BY <1>1, InitQueue, NextQueue, PTL DEF Spec

(* As long as messages come one after the other, the reads and writes of   *)
(* the storage implement the abstract queue, step by step.                 *)
THEOREM QueueImplements == Spec => SerialImplements
<1>1. QueueInv /\ [Next]_vars => [~ overlapped' => Approvals!Next]_(Approvals!vars)
  BY StepMaps DEF QueueInv
<1> QED BY <1>1, InitMaps, InitQueue, NextQueue, PTL DEF Spec, SerialImplements

---------------------------------------------------------------------------
(* The merge of two lists.  It goes through what is given turn by turn;    *)
(* after each one the list has the keys of what was stored and of the      *)
(* given elements so far, in the order of MergeIsStable, each in its       *)
(* latest version so far (MergedTo).                                       *)

LEMMA LargestExists ==
    ASSUME NEW len \in Nat, NEW S \in SUBSET (1 .. len), S # {}
    PROVE  \E x \in S : \A y \in S : x >= y
<1> DEFINE T == {m \in Nat : \A R \in SUBSET (1 .. m) : R # {} => \E x \in R : \A y \in R : x >= y}
<1>1. 0 \in T
  <2>1. 1 .. 0 = {}
    OBVIOUS
  <2> QED BY <2>1
<1>2. ASSUME NEW m \in Nat, m \in T PROVE m + 1 \in T
  <2> SUFFICES ASSUME NEW R \in SUBSET (1 .. (m + 1)), R # {}
               PROVE  \E x \in R : \A y \in R : x >= y
    OBVIOUS
  <2>1. CASE m + 1 \in R
    BY <2>1
  <2>2. CASE m + 1 \notin R
    <3>1. R \in SUBSET (1 .. m)
      BY <2>2
    <3> QED BY <1>2, <3>1
  <2> QED BY <2>1, <2>2
<1>3. Nat \subseteq T
  <2> HIDE DEF T
  <2> QED BY <1>1, <1>2, NaturalsBySuccessor
<1> QED BY <1>3

LEMMA SmallestExists ==
    ASSUME NEW len \in Nat, NEW S \in SUBSET (1 .. len), S # {}
    PROVE  \E x \in S : \A y \in S : x =< y
<1> DEFINE T == {m \in Nat : \A R \in SUBSET (1 .. m) : R # {} => \E x \in R : \A y \in R : x =< y}
<1>1. 0 \in T
  <2>1. 1 .. 0 = {}
    OBVIOUS
  <2> QED BY <2>1
<1>2. ASSUME NEW m \in Nat, m \in T PROVE m + 1 \in T
  <2> SUFFICES ASSUME NEW R \in SUBSET (1 .. (m + 1)), R # {}
               PROVE  \E x \in R : \A y \in R : x =< y
    OBVIOUS
  <2>1. CASE R \cap (1 .. m) = {}
    <3>1. \A y \in R : y = m + 1
      BY <2>1
    <3>2. m + 1 \in R
      BY <3>1, Zenon
    <3>3. m + 1 =< m + 1
      OBVIOUS
    <3> QED BY <3>1, <3>2, <3>3
  <2>2. CASE R \cap (1 .. m) # {}
    <3>1. R \cap (1 .. m) \in SUBSET (1 .. m)
      OBVIOUS
    <3>2. PICK x \in R \cap (1 .. m) : \A y \in R \cap (1 .. m) : x =< y
      BY <1>2, <2>2, <3>1
    <3>3. \A y \in R : x =< y
      BY <3>2
    <3> QED BY <3>2, <3>3
  <2> QED BY <2>1, <2>2
<1>3. Nat \subseteq T
  <2> HIDE DEF T
  <2> QED BY <1>1, <1>2, NaturalsBySuccessor
<1> QED BY <1>3

(* Max and Min, of places in a list.                                       *)
LEMMA MaxIs ==
    ASSUME NEW len \in Nat, NEW S \in SUBSET (1 .. len), S # {}
    PROVE  /\ Max(S) \in S /\ Max(S) \in Nat /\ \A y \in S : y <= Max(S)
           /\ \A x \in S : (\A y \in S : y <= x) => Max(S) = x
<1>1. \E x \in S : \A y \in S : x >= y
  BY LargestExists
<1>2. Max(S) \in S /\ \A y \in S : Max(S) >= y
  BY <1>1 DEF Max
<1>3. \A y \in S : y \in Nat
  OBVIOUS
<1>4. ASSUME NEW x \in S, \A y \in S : y <= x PROVE Max(S) = x
  <2>1. Max(S) \in Nat /\ x \in Nat
    BY <1>2, <1>3
  <2>2. Max(S) <= x /\ x <= Max(S)
    BY <1>2, <1>4, <2>1
  <2> QED BY <2>1, <2>2
<1>5. Max(S) \in Nat /\ \A y \in S : y <= Max(S)
  BY <1>2, <1>3
<1> QED BY <1>2, <1>4, <1>5

LEMMA MinIs ==
    ASSUME NEW len \in Nat, NEW S \in SUBSET (1 .. len), S # {}
    PROVE  /\ Min(S) \in S /\ Min(S) \in Nat /\ \A y \in S : Min(S) <= y
           /\ \A x \in S : (\A y \in S : x <= y) => Min(S) = x
<1>1. \E x \in S : \A y \in S : x =< y
  BY SmallestExists
<1>2. Min(S) \in S /\ \A y \in S : Min(S) =< y
  BY <1>1 DEF Min
<1>3. \A y \in S : y \in Nat
  OBVIOUS
<1>4. ASSUME NEW x \in S, \A y \in S : x <= y PROVE Min(S) = x
  <2>1. Min(S) \in Nat /\ x \in Nat
    BY <1>2, <1>3
  <2>2. Min(S) <= x /\ x <= Min(S)
    BY <1>2, <1>4, <2>1
  <2> QED BY <2>1, <2>2
<1>5. Min(S) \in Nat /\ \A y \in S : Min(S) <= y
  BY <1>2, <1>3
<1> QED BY <1>2, <1>4, <1>5

Typed == stored \in Seq(Element) /\ given \in Seq(Element)

LEMMA PlacesAre ==
    ASSUME NEW list \in Seq(Element), NEW k
    PROVE  /\ Places(list, k) \in SUBSET (1 .. Len(list)) /\ Len(list) \in Nat
           /\ k \in KeysOf(list) <=> Places(list, k) # {}
BY DEF Places, KeysOf

(* The given elements so far: their places, and the latest of a key.       *)
SoFar(n, k) == {i \in 1 .. n : given[i].key = k}
Latest(n, k) == IF SoFar(n, k) # {} THEN given[Max(SoFar(n, k))] ELSE Newest(stored, k)

Ordered(list, insertMode) ==
    \A i, j \in DOMAIN list : i < j => Before(insertMode, list[i].key, list[j].key)

MergedTo(list, n, insertMode) ==
    /\ list \in Seq(Element)
    /\ \A k : k \in KeysOf(list) <=> k \in KeysOf(stored) \/ SoFar(n, k) # {}
    /\ Ordered(list, insertMode)
    /\ \A i \in DOMAIN list : list[i] = Latest(n, list[i].key)

(* A new key goes behind the known ones and the new ones so far, or before.*)
LEMMA NewIsBefore ==
    ASSUME Typed, NEW n \in 0 .. Len(given), n < Len(given), NEW k, NEW l,
           l = given[n + 1].key, l \notin KeysOf(stored), SoFar(n, l) = {},
           k \in KeysOf(stored) \/ SoFar(n, k) # {}
    PROVE  Before("push", k, l) /\ Before("unshift", l, k)
<1>1. Len(given) \in Nat /\ n \in Nat /\ n + 1 \in 1 .. Len(given) /\ DOMAIN given = 1 .. Len(given)
  BY DEF Typed
<1>2. CASE k \in KeysOf(stored)
  BY <1>2 DEF Before
<1>3. CASE k \notin KeysOf(stored)
  <2>1. Min(Places(given, l)) = n + 1
    <3>1. n + 1 \in Places(given, l)
      BY <1>1 DEF Places
    <3>2. \A y \in Places(given, l) : n + 1 <= y
      BY <1>1 DEF Places, SoFar
    <3>3. Places(given, l) \in SUBSET (1 .. Len(given))
      BY PlacesAre DEF Typed
    <3> QED BY <1>1, <3>1, <3>2, <3>3, MinIs
  <2>2. Min(Places(given, k)) \in Nat /\ Min(Places(given, k)) <= n
    <3>1. PICK i \in SoFar(n, k) : TRUE
      BY <1>3
    <3>2. i \in Places(given, k) /\ i <= n /\ i \in Nat
      BY <1>1 DEF Places, SoFar
    <3>3. Places(given, k) \in SUBSET (1 .. Len(given))
      BY PlacesAre DEF Typed
    <3>4. Min(Places(given, k)) \in Nat /\ Min(Places(given, k)) <= i
      BY <1>1, <3>2, <3>3, MinIs
    <3> QED BY <1>1, <3>2, <3>4
  <2> QED BY <1>1, <1>3, <2>1, <2>2 DEF Before
<1> QED BY <1>2, <1>3

(* No key comes before itself: an ordered list has each key once.          *)
LEMMA KeysAreDistinct ==
    ASSUME Typed, NEW insertMode, NEW list, list \in Seq(Element), Ordered(list, insertMode),
           \A k \in KeysOf(list) : k \in KeysOf(stored) \/ k \in KeysOf(given),
           NEW i \in DOMAIN list, NEW j \in DOMAIN list, list[i].key = list[j].key
    PROVE  i = j
<1> DEFINE k == list[i].key
<1>1. k \in KeysOf(list) /\ i \in Nat /\ j \in Nat
  BY DEF KeysOf
<1>2. ~ Before(insertMode, k, k)
  <2>1. CASE k \in KeysOf(stored)
    <3>1. Places(stored, k) \in SUBSET (1 .. Len(stored)) /\ Len(stored) \in Nat
          /\ Places(stored, k) # {}
      BY <2>1, PlacesAre DEF Typed
    <3>2. Max(Places(stored, k)) \in Nat
      BY <3>1, MaxIs
    <3> QED BY <2>1, <3>2 DEF Before
  <2>2. CASE k \notin KeysOf(stored)
    <3>1. k \in KeysOf(given)
      BY <1>1, <2>2
    <3>2. Places(given, k) \in SUBSET (1 .. Len(given)) /\ Len(given) \in Nat
          /\ Places(given, k) # {}
      BY <3>1, PlacesAre DEF Typed
    <3>3. Min(Places(given, k)) \in Nat
      BY <3>2, MinIs
    <3> QED BY <2>2, <3>3 DEF Before
  <2> QED BY <2>1, <2>2
<1> QED BY <1>1, <1>2 DEF Ordered

(* One turn, for a key the list has: its element changes, nothing else.    *)
LEMMA TurnReplaces ==
    ASSUME Typed, NEW insertMode, NEW n \in 0 .. Len(given), n < Len(given),
           NEW list, MergedTo(list, n, insertMode),
           NEW p \in DOMAIN list, list[p].key = given[n + 1].key
    PROVE  /\ Store!Put(list, given[n + 1], insertMode) = [list EXCEPT ![p] = given[n + 1]]
           /\ MergedTo([list EXCEPT ![p] = given[n + 1]], n + 1, insertMode)
<1> DEFINE element == given[n + 1]
           new == [list EXCEPT ![p] = element]
           places == {i \in DOMAIN list : SameKey(list[i], element)}
           first == CHOOSE i \in places : \A j \in places : i <= j
<1>1. /\ Len(given) \in Nat /\ n \in Nat /\ n + 1 \in 1 .. Len(given) /\ DOMAIN given = 1 .. Len(given)
      /\ element \in Element /\ list \in Seq(Element) /\ p \in Nat
  BY DEF Typed, MergedTo
<1>2. \A k : k \in KeysOf(list) => k \in KeysOf(stored) \/ k \in KeysOf(given)
  <2> SUFFICES ASSUME NEW k, k \in KeysOf(list), SoFar(n, k) # {} PROVE k \in KeysOf(given)
    BY DEF MergedTo
  <2> QED BY <1>1 DEF SoFar, KeysOf
<1>3. \A i \in DOMAIN list : list[i].key = element.key => i = p
  BY <1>1, <1>2, KeysAreDistinct DEF MergedTo
<1>4. places = {p}
  BY <1>3 DEF SameKey
<1>5. first = p
  BY <1>1, <1>4
<1>6. Store!Put(list, element, insertMode) = new
  BY <1>4, <1>5 DEF Store!Put
<1>7. new \in Seq(Element) /\ DOMAIN new = DOMAIN list
      /\ \A i \in DOMAIN list : new[i] = IF i = p THEN element ELSE list[i]
  BY <1>1
<1>8. \A i \in DOMAIN list : new[i].key = list[i].key
  BY <1>7
<1> HIDE DEF new, first, places
<1>9. \A k : SoFar(n + 1, k) = IF k = element.key THEN SoFar(n, k) \cup {n + 1} ELSE SoFar(n, k)
  BY <1>1 DEF SoFar
<1>10. \A k : k \in KeysOf(new) <=> k \in KeysOf(stored) \/ SoFar(n + 1, k) # {}
  <2>1. KeysOf(new) = KeysOf(list)
    BY <1>7, <1>8 DEF KeysOf
  <2>2. element.key \in KeysOf(list)
    BY DEF KeysOf
  <2> QED BY <1>9, <2>1, <2>2 DEF MergedTo
<1>11. Ordered(new, insertMode)
  BY <1>7, <1>8 DEF Ordered, MergedTo
<1>12. ASSUME NEW i \in DOMAIN new PROVE new[i] = Latest(n + 1, new[i].key)
  <2>1. CASE i = p
    <3> DEFINE k == element.key
    <3>1. SoFar(n + 1, k) \in SUBSET (1 .. n + 1) /\ n + 1 \in SoFar(n + 1, k)
      BY <1>1 DEF SoFar
    <3>2. \A y \in SoFar(n + 1, k) : y <= n + 1
      BY <3>1
    <3>3. Max(SoFar(n + 1, k)) = n + 1
      <4>1. n + 1 \in Nat /\ SoFar(n + 1, k) # {}
        BY <1>1, <3>1
      <4> HIDE DEF k
      <4> QED BY <3>1, <3>2, <4>1, MaxIs
    <3> QED BY <1>7, <2>1, <3>1, <3>3 DEF Latest
  <2>2. CASE i # p
    <3>1. new[i] = list[i] /\ list[i].key # element.key
      BY <1>3, <1>7, <2>2
    <3>2. SoFar(n + 1, list[i].key) = SoFar(n, list[i].key)
      BY <1>9, <3>1
    <3> QED BY <1>7, <3>1, <3>2 DEF Latest, MergedTo
  <2> QED BY <2>1, <2>2
<1> QED BY <1>6, <1>7, <1>10, <1>11, <1>12 DEF MergedTo

(* One turn, for a key that is new: it goes to the end the mode names.     *)
LEMMA TurnInserts ==
    ASSUME Typed, NEW insertMode \in {"push", "unshift"},
           NEW n \in 0 .. Len(given), n < Len(given),
           NEW list, MergedTo(list, n, insertMode),
           \A i \in DOMAIN list : list[i].key # given[n + 1].key
    PROVE  MergedTo(Store!Put(list, given[n + 1], insertMode), n + 1, insertMode)
<1> DEFINE element == given[n + 1]
           new == Store!Put(list, element, insertMode)
<1> SUFFICES MergedTo(new, n + 1, insertMode)
  OBVIOUS
<1>1. /\ Len(given) \in Nat /\ n \in Nat /\ n + 1 \in 1 .. Len(given) /\ DOMAIN given = 1 .. Len(given)
      /\ element \in Element /\ list \in Seq(Element)
      /\ Len(list) \in Nat /\ DOMAIN list = 1 .. Len(list)
  BY DEF Typed, MergedTo
<1>2. element.key \notin KeysOf(list)
  BY DEF KeysOf
<1>3. element.key \notin KeysOf(stored) /\ SoFar(n, element.key) = {}
  BY <1>2 DEF MergedTo
<1>4. \A k : SoFar(n + 1, k) = IF k = element.key THEN {n + 1} ELSE SoFar(n, k)
  BY <1>1, <1>3 DEF SoFar
<1>5. Latest(n + 1, element.key) = element
  <2>1. SoFar(n + 1, element.key) = {n + 1} /\ {n + 1} \in SUBSET (1 .. n + 1)
    BY <1>1, <1>4
  <2>2. Max({n + 1}) = n + 1
    BY <1>1, <2>1, MaxIs
  <2> QED BY <2>1, <2>2 DEF Latest
<1>6. \A k \in KeysOf(list) : Before("push", k, element.key) /\ Before("unshift", element.key, k)
  BY <1>3, NewIsBefore DEF MergedTo
<1>7. \A i \in DOMAIN list : list[i].key \in KeysOf(list) /\ list[i] = Latest(n + 1, list[i].key)
  BY <1>4 DEF KeysOf, Latest, MergedTo
<1>8. {i \in DOMAIN list : SameKey(list[i], element)} = {}
  BY DEF SameKey
<1>9. CASE insertMode = "push"
  <2>1. new = Append(list, element)
    BY <1>8, <1>9 DEF Store!Put
  <2>2. /\ new \in Seq(Element) /\ DOMAIN new = 1 .. Len(list) + 1 /\ new[Len(list) + 1] = element
        /\ \A i \in DOMAIN list : i \in DOMAIN new /\ new[i] = list[i]
        /\ \A i \in DOMAIN new : i = Len(list) + 1 \/ i \in DOMAIN list
    BY <1>1, <2>1
  <2> HIDE DEF new
  <2>3. KeysOf(new) = KeysOf(list) \cup {element.key}
    <3>1. Len(list) + 1 \in DOMAIN new
      BY <1>1, <2>2
    <3> QED BY <2>2, <3>1 DEF KeysOf
  <2>4. \A k : k \in KeysOf(new) <=> k \in KeysOf(stored) \/ SoFar(n + 1, k) # {}
    BY <1>4, <2>3 DEF MergedTo
  <2>5. Ordered(new, insertMode)
    <3> SUFFICES ASSUME NEW i \in DOMAIN new, NEW j \in DOMAIN new, i < j
                 PROVE  Before(insertMode, new[i].key, new[j].key)
      BY DEF Ordered
    <3>1. i \in DOMAIN list
      BY <1>1, <2>2
    <3>2. CASE j \in DOMAIN list
      BY <2>2, <3>1, <3>2 DEF Ordered, MergedTo
    <3>3. CASE j = Len(list) + 1
      BY <1>6, <1>7, <1>9, <2>2, <3>1, <3>3
    <3> QED BY <2>2, <3>2, <3>3
  <2>6. \A i \in DOMAIN new : new[i] = Latest(n + 1, new[i].key)
    BY <1>5, <1>7, <2>2
  <2> QED BY <2>2, <2>4, <2>5, <2>6 DEF MergedTo
<1>10. CASE insertMode = "unshift"
  <2>1. new = <<element>> \o list
    BY <1>8, <1>10 DEF Store!Put
  <2>2. /\ new \in Seq(Element) /\ DOMAIN new = 1 .. Len(list) + 1 /\ new[1] = element
        /\ \A i \in DOMAIN list : i + 1 \in DOMAIN new /\ new[i + 1] = list[i]
        /\ \A i \in DOMAIN new : i = 1 \/ (i - 1 \in DOMAIN list /\ new[i] = list[i - 1])
    <3>1. new \in Seq(Element) /\ DOMAIN new = 1 .. Len(list) + 1 /\ new[1] = element
      BY <1>1, <2>1
    <3>2. \A i \in DOMAIN list : i + 1 \in DOMAIN new /\ new[i + 1] = list[i]
      BY <1>1, <2>1
    <3>3. \A i \in 2 .. Len(list) + 1 : i - 1 \in DOMAIN list /\ new[i] = list[i - 1]
      BY <1>1, <2>1
    <3> HIDE DEF new
    <3>4. \A i \in DOMAIN new : i = 1 \/ i \in 2 .. Len(list) + 1
      BY <1>1, <3>1
    <3> QED BY <3>1, <3>2, <3>3, <3>4
  <2> HIDE DEF new
  <2>3. KeysOf(new) = KeysOf(list) \cup {element.key}
    <3>1. 1 \in DOMAIN new
      BY <1>1, <2>2
    <3>2. ASSUME NEW k \in KeysOf(list) PROVE k \in KeysOf(new)
      BY <2>2 DEF KeysOf
    <3>3. ASSUME NEW k \in KeysOf(new) PROVE k \in KeysOf(list) \cup {element.key}
      BY <2>2 DEF KeysOf
    <3>4. element.key \in KeysOf(new)
      BY <2>2, <3>1 DEF KeysOf
    <3> QED BY <3>2, <3>3, <3>4
  <2>4. \A k : k \in KeysOf(new) <=> k \in KeysOf(stored) \/ SoFar(n + 1, k) # {}
    BY <1>4, <2>3 DEF MergedTo
  <2>5. Ordered(new, insertMode)
    <3> SUFFICES ASSUME NEW i \in DOMAIN new, NEW j \in DOMAIN new, i < j
                 PROVE  Before(insertMode, new[i].key, new[j].key)
      BY DEF Ordered
    <3>1. j - 1 \in DOMAIN list /\ new[j] = list[j - 1]
      BY <1>1, <2>2
    <3>2. CASE i = 1
      BY <1>6, <1>7, <1>10, <2>2, <3>1, <3>2
    <3>3. CASE i # 1
      <4>1. i - 1 \in DOMAIN list /\ new[i] = list[i - 1] /\ i - 1 < j - 1
        BY <1>1, <2>2, <3>3
      <4> QED BY <3>1, <4>1 DEF Ordered, MergedTo
    <3> QED BY <3>2, <3>3
  <2>6. \A i \in DOMAIN new : new[i] = Latest(n + 1, new[i].key)
    BY <1>5, <1>7, <2>2
  <2> QED BY <2>2, <2>4, <2>5, <2>6 DEF MergedTo
<1> QED BY <1>9, <1>10

(* What was stored, of each key the last.                                  *)
LEMMA StoredIsMerged ==
    ASSUME Typed, NEW insertMode
    PROVE  MergedTo(Store!LastOfEach(stored), 0, insertMode)
<1> DEFINE places == {i \in DOMAIN stored :
                         \A j \in (i + 1) .. Len(stored) : ~ SameKey(stored[i], stored[j])}
           size == Cardinality(places)
           new == Kept(stored, places)
<1>1. stored \in Seq(Element) /\ Len(stored) \in Nat /\ DOMAIN stored = 1 .. Len(stored)
      /\ places \in SUBSET (DOMAIN stored)
  BY DEF Typed
<1>2. Store!LastOfEach(stored) = new
  <2>1. \A S : Store!Cardinality(S) = Cardinality(S)
    BY DEF Store!Cardinality, Cardinality, Store!IsFiniteSet, IsFiniteSet
  <2>2. Store!LastOfEach(stored) = Store!Kept(stored, places)
    BY DEF Store!LastOfEach
  <2> HIDE DEF places
  <2> QED BY <2>1, <2>2 DEF Store!Kept, Kept
<1>3. \A i \in DOMAIN stored : i \in places => Max(Places(stored, stored[i].key)) = i
  <2> SUFFICES ASSUME NEW i \in DOMAIN stored, i \in places
               PROVE  Max(Places(stored, stored[i].key)) = i
    OBVIOUS
  <2>1. i \in Places(stored, stored[i].key) /\ i \in Nat
    BY <1>1 DEF Places
  <2>2. \A j \in Places(stored, stored[i].key) : j <= i
    BY <1>1, <2>1 DEF Places, SameKey
  <2>3. Places(stored, stored[i].key) \in SUBSET (1 .. Len(stored))
    BY <1>1, PlacesAre
  <2> QED BY <1>1, <2>1, <2>2, <2>3, MaxIs
<1>4. \A k \in KeysOf(stored) : \E i \in places : stored[i].key = k
  <2> SUFFICES ASSUME NEW k \in KeysOf(stored) PROVE \E i \in places : stored[i].key = k
    OBVIOUS
  <2>1. Places(stored, k) \in SUBSET (1 .. Len(stored)) /\ Places(stored, k) # {}
    BY <1>1, PlacesAre
  <2> DEFINE i == Max(Places(stored, k))
  <2>2. i \in Places(stored, k) /\ i \in Nat /\ \A y \in Places(stored, k) : y <= i
    BY <1>1, <2>1, MaxIs
  <2> HIDE DEF i
  <2>3. i \in DOMAIN stored /\ stored[i].key = k
    BY <2>2 DEF Places
  <2>4. \A j \in (i + 1) .. Len(stored) : j \in DOMAIN stored /\ ~ (j <= i)
    BY <1>1, <2>2, <2>3
  <2>5. \A j \in (i + 1) .. Len(stored) : stored[j].key # k
    BY <2>2, <2>4 DEF Places
  <2> QED BY <2>3, <2>5 DEF SameKey
<1> HIDE DEF places
<1>5. /\ size \in Nat /\ new \in Seq(Element)
      /\ \E at \in [1 .. size -> places] :
            /\ new = [n \in 1 .. size |-> stored[at[n]]]
            /\ \A i \in places : \E n \in 1 .. size : at[n] = i
            /\ \A m, n \in 1 .. size : m < n => at[m] < at[n]
  BY <1>1, KeptIs
<1>6. PICK at \in [1 .. size -> places] :
            /\ new = [n \in 1 .. size |-> stored[at[n]]]
            /\ \A i \in places : \E n \in 1 .. size : at[n] = i
            /\ \A m, n \in 1 .. size : m < n => at[m] < at[n]
  BY <1>5
<1> HIDE DEF new, size
<1>7. DOMAIN new = 1 .. size /\ \A n \in 1 .. size : at[n] \in places /\ new[n] = stored[at[n]]
  BY <1>6
<1>8. \A n \in 1 .. size : /\ new[n].key \in KeysOf(stored)
                          /\ Max(Places(stored, new[n].key)) = at[n]
  BY <1>1, <1>3, <1>7 DEF KeysOf
<1>9. \A k : SoFar(0, k) = {}
  BY DEF SoFar
<1>10. KeysOf(new) = KeysOf(stored)
  <2>1. ASSUME NEW k \in KeysOf(new) PROVE k \in KeysOf(stored)
    BY <1>7, <1>8 DEF KeysOf
  <2>2. ASSUME NEW k \in KeysOf(stored) PROVE k \in KeysOf(new)
    <3>1. PICK i \in places : stored[i].key = k
      BY <1>4
    <3>2. PICK n \in 1 .. size : at[n] = i
      BY <1>6
    <3> QED BY <1>7, <3>1, <3>2 DEF KeysOf
  <2> QED BY <2>1, <2>2
<1>11. Ordered(new, insertMode)
  <2> SUFFICES ASSUME NEW m \in 1 .. size, NEW n \in 1 .. size, m < n
               PROVE  Before(insertMode, new[m].key, new[n].key)
    BY <1>7 DEF Ordered
  <2>1. Max(Places(stored, new[m].key)) < Max(Places(stored, new[n].key))
    BY <1>6, <1>8
  <2> QED BY <1>8, <2>1 DEF Before
<1>12. \A n \in DOMAIN new : new[n] = Latest(0, new[n].key)
  BY <1>7, <1>8, <1>9 DEF Latest, Newest
<1> QED BY <1>2, <1>5, <1>9, <1>10, <1>11, <1>12 DEF MergedTo

(* The loop of the merge, turn by turn.                                    *)
KeyTurn(f, n, insertMode) ==
    IF n = 0 THEN Store!LastOfEach(stored) ELSE Store!Put(f[n - 1], given[n], insertMode)
IsKeyLoop(f, m, insertMode) == f = [n \in 0 .. m |-> KeyTurn(f, n, insertMode)]

LEMMA KeyLoopExists ==
    ASSUME NEW insertMode, NEW m \in Nat
    PROVE  \E f : IsKeyLoop(f, m, insertMode)
<1> DEFINE T == {k \in Nat : \E f : IsKeyLoop(f, k, insertMode)}
<1>1. 0 \in T
  <2> DEFINE f == [n \in 0 .. 0 |-> Store!LastOfEach(stored)]
  <2>1. IsKeyLoop(f, 0, insertMode)
    BY DEF IsKeyLoop, KeyTurn
  <2> QED BY <2>1
<1>2. ASSUME NEW k \in Nat, k \in T PROVE k + 1 \in T
  <2>1. PICK f : IsKeyLoop(f, k, insertMode)
    BY <1>2
  <2> DEFINE g == [n \in 0 .. (k + 1) |-> KeyTurn(f, n, insertMode)]
  <2>2. ASSUME NEW n \in 0 .. (k + 1)
        PROVE  KeyTurn(f, n, insertMode) = KeyTurn(g, n, insertMode)
    <3>1. CASE n = 0
      BY <3>1 DEF KeyTurn
    <3>2. CASE n # 0
      <4>1. n - 1 \in 0 .. k /\ n - 1 \in 0 .. (k + 1)
        BY <3>2
      <4>2. f[n - 1] = KeyTurn(f, n - 1, insertMode)
        BY <2>1, <4>1 DEF IsKeyLoop
      <4>3. g[n - 1] = KeyTurn(f, n - 1, insertMode)
        BY <4>1
      <4> HIDE DEF g
      <4> QED BY <3>2, <4>2, <4>3 DEF KeyTurn
    <3> QED BY <3>1, <3>2
  <2>3. IsKeyLoop(g, k + 1, insertMode)
    <3>1. g = [n \in 0 .. (k + 1) |-> KeyTurn(g, n, insertMode)]
      BY <2>2
    <3> HIDE DEF g
    <3> QED BY <3>1 DEF IsKeyLoop
  <2> HIDE DEF g
  <2> QED BY <2>3
<1>3. Nat \subseteq T
  <2> HIDE DEF T
  <2> QED BY <1>1, <1>2, NaturalsBySuccessor
<1> QED BY <1>3

LEMMA StoreMergeIs ==
    ASSUME Typed, NEW insertMode \in {"push", "unshift"}
    PROVE  MergedTo(Store!MergeArrayStableWith(stored, given, insertMode), Len(given), insertMode)
<1> DEFINE f == CHOOSE f : IsKeyLoop(f, Len(given), insertMode)
<1>0. Len(given) \in Nat
  BY DEF Typed
<1>1. IsKeyLoop(f, Len(given), insertMode)
  BY <1>0, KeyLoopExists
<1>2. Store!MergeArrayStableWith(stored, given, insertMode) = f[Len(given)]
  BY DEF Store!MergeArrayStableWith, IsKeyLoop, KeyTurn
<1> HIDE DEF f
<1> DEFINE T == {n \in Nat : n <= Len(given) => MergedTo(f[n], n, insertMode)}
<1>3. 0 \in T
  <2>1. f[0] = Store!LastOfEach(stored)
    BY <1>0, <1>1 DEF IsKeyLoop, KeyTurn
  <2> QED BY <2>1, StoredIsMerged
<1>4. ASSUME NEW n \in Nat, n \in T PROVE n + 1 \in T
  <2> SUFFICES ASSUME n + 1 <= Len(given) PROVE MergedTo(f[n + 1], n + 1, insertMode)
    OBVIOUS
  <2>1. n \in 0 .. Len(given) /\ n < Len(given) /\ n + 1 \in 0 .. Len(given) /\ n <= Len(given)
    BY <1>0
  <2>2. MergedTo(f[n], n, insertMode)
    BY <1>4, <2>1
  <2>3. f[n + 1] = Store!Put(f[n], given[n + 1], insertMode)
    <3>1. f[n + 1] = KeyTurn(f, n + 1, insertMode)
      BY <1>1, <2>1 DEF IsKeyLoop
    <3>2. n + 1 # 0 /\ (n + 1) - 1 = n
      OBVIOUS
    <3> QED BY <3>1, <3>2 DEF KeyTurn
  <2>4. CASE \E p \in DOMAIN f[n] : f[n][p].key = given[n + 1].key
    <3>1. PICK p \in DOMAIN f[n] : f[n][p].key = given[n + 1].key
      BY <2>4
    <3>2. /\ f[n + 1] = [f[n] EXCEPT ![p] = given[n + 1]]
          /\ MergedTo([f[n] EXCEPT ![p] = given[n + 1]], n + 1, insertMode)
      BY <2>1, <2>2, <2>3, <3>1, TurnReplaces
    <3> QED BY <3>2, Zenon
  <2>5. CASE \A p \in DOMAIN f[n] : f[n][p].key # given[n + 1].key
    BY <2>1, <2>2, <2>3, <2>5, TurnInserts
  <2> QED BY <2>4, <2>5
<1>5. Nat \subseteq T
  <2> HIDE DEF T
  <2> QED BY <1>3, <1>4, NaturalsBySuccessor
<1>6. MergedTo(f[Len(given)], Len(given), insertMode)
  BY <1>0, <1>5
<1> QED BY <1>2, <1>6

LEMMA TypedSuffices == Typed => MergeIsStable
<1> SUFFICES ASSUME Typed PROVE MergeIsStable
  OBVIOUS
<1>1. \A k : SoFar(Len(given), k) = Places(given, k)
  BY DEF Typed, SoFar, Places
<1>2. \A k : k \in KeysOf(given) <=> Places(given, k) # {}
  BY PlacesAre DEF Typed
<1> SUFFICES ASSUME NEW insertMode \in {"push", "unshift"}
             PROVE  LET merged == Store!MergeArrayStableWith(stored, given, insertMode)
                    IN  /\ KeysOf(merged) = KeysOf(stored) \cup KeysOf(given)
                        /\ \A i, j \in DOMAIN merged : i < j =>
                              Before(insertMode, merged[i].key, merged[j].key)
                        /\ \A i \in DOMAIN merged :
                              merged[i] = Newest(IF merged[i].key \in KeysOf(given)
                                                 THEN given ELSE stored, merged[i].key)
  BY DEF MergeIsStable
<1> DEFINE merged == Store!MergeArrayStableWith(stored, given, insertMode)
<1>3. MergedTo(merged, Len(given), insertMode)
  BY StoreMergeIs
<1> HIDE DEF merged
<1>4. KeysOf(merged) = KeysOf(stored) \cup KeysOf(given)
  BY <1>1, <1>2, <1>3 DEF MergedTo
<1>5. \A i, j \in DOMAIN merged : i < j => Before(insertMode, merged[i].key, merged[j].key)
  BY <1>3 DEF MergedTo, Ordered
<1>6. \A i \in DOMAIN merged :
         merged[i] = Newest(IF merged[i].key \in KeysOf(given) THEN given ELSE stored, merged[i].key)
  BY <1>1, <1>2, <1>3 DEF MergedTo, Latest, Newest
<1> QED BY <1>4, <1>5, <1>6 DEF merged

(* MergeIsStable: for all lists of any length and both modes, the merge of *)
(* mergeArrayStableWith has every key of both once, in its latest version, *)
(* the known ones in their order, the new ones in theirs behind (push) or  *)
(* before them (unshift).                                                  *)
THEOREM MergesAreStable == ListsSpec => []MergeIsStable
<1>1. ListsInit => Typed
  BY DEF ListsInit, Typed
<1>2. Typed /\ [BuildLists]_<<stored, given>> => Typed'
  <2> SUFFICES ASSUME Typed, BuildLists PROVE Typed'
    BY DEF Typed
  <2>1. PICK element \in Element :
           \/ stored' = Append(stored, element) /\ UNCHANGED given
           \/ given' = Append(given, element) /\ UNCHANGED stored
    BY DEF BuildLists
  <2>2. stored \in Seq(Element) /\ given \in Seq(Element)
    BY DEF Typed
  <2>3. /\ Append(stored, element) \in Seq(Element)
        /\ Append(given, element) \in Seq(Element)
    BY <2>2
  <2>4. stored' \in Seq(Element) /\ given' \in Seq(Element)
    BY <2>1, <2>2, <2>3
  <2> QED BY <2>4 DEF Typed
<1> QED BY <1>1, <1>2, TypedSuffices, PTL DEF ListsSpec
=============================================================================
