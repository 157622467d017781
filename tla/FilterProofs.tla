---------------------------- MODULE FilterProofs ----------------------------
(***************************************************************************)
(* What filter() gives: the elements at some places, each once and in      *)
(* their order.  The proofs about the thread of a tab and about the rounds *)
(* of a chat use these lemmas.                                             *)
(***************************************************************************)
EXTENDS Filter, Functions, FiniteSetTheorems, TLAPS

Rank(places, i) == Cardinality({j \in places : j <= i})

\* The places up to one of them are as many as its rank, and every rank is one's.
LEMMA Ranks ==
  ASSUME NEW n \in Nat, NEW places \in SUBSET (1 .. n)
  PROVE  /\ IsFiniteSet(places) /\ Cardinality(places) \in Nat
         /\ \A i \in places : Rank(places, i) \in 1 .. Cardinality(places)
         /\ \A i, j \in places : i < j => Rank(places, i) < Rank(places, j)
         /\ \A r \in 1 .. Cardinality(places) : \E i \in places : Rank(places, i) = r
<1> DEFINE upTo(i) == {j \in places : j <= i}
           m == Cardinality(places)
           f == [i \in places |-> Rank(places, i)]
<1>1. IsFiniteSet(1 .. n)
  BY FS_Interval
<1>2. IsFiniteSet(places) /\ m \in Nat
  BY <1>1, FS_Subset, FS_CardinalityType
<1>3. ASSUME NEW i \in places PROVE IsFiniteSet(upTo(i)) /\ Cardinality(upTo(i)) \in 1 .. m
  <2>1. upTo(i) \in SUBSET places /\ upTo(i) # {} /\ i \in Nat
    OBVIOUS
  <2>2. IsFiniteSet(upTo(i)) /\ Cardinality(upTo(i)) <= m
    BY <1>2, <2>1, FS_Subset
  <2>3. Cardinality(upTo(i)) \in Nat /\ Cardinality(upTo(i)) # 0
    BY <2>1, <2>2, FS_CardinalityType, FS_EmptySet
  <2>4. QED
    BY <1>2, <2>2, <2>3
<1>4. ASSUME NEW i \in places, NEW j \in places, i < j
      PROVE  Cardinality(upTo(i)) < Cardinality(upTo(j))
  <2>0. places \subseteq Nat
    OBVIOUS
  <2>1. upTo(i) \in SUBSET upTo(j) /\ j \in upTo(j) /\ j \notin upTo(i)
    <3>1. i \in Nat /\ j \in Nat /\ i < j
      BY <1>4, <2>0
    <3>2. ASSUME NEW k \in places, k <= i PROVE k <= j
      <4>1. k \in Nat
        BY <2>0
      <4>2. QED
        BY <3>1, <3>2, <4>1
    <3>3. j <= j /\ ~(j <= i)
      BY <3>1
    <3>4. QED
      BY <3>2, <3>3
  <2>2. IsFiniteSet(upTo(j)) /\ Cardinality(upTo(i)) \in Nat /\ Cardinality(upTo(j)) \in Nat
    BY <1>3, <1>2
  <2>3. Cardinality(upTo(i)) <= Cardinality(upTo(j)) /\ Cardinality(upTo(i)) # Cardinality(upTo(j))
    BY <2>1, <2>2, FS_Subset
  <2>4. QED
    BY <2>2, <2>3
<1>5. \A i \in places : Rank(places, i) = Cardinality(upTo(i))
  BY DEF Rank
<1> HIDE DEF upTo
<1>6. \A i \in places : Rank(places, i) \in 1 .. m
  BY <1>3, <1>5
<1>7. \A i, j \in places : i < j => Rank(places, i) < Rank(places, j)
  BY <1>4, <1>5
<1>8. f \in Injection(places, 1 .. m)
  <2>1. f \in [places -> 1 .. m]
    BY <1>6
  <2>2. ASSUME NEW i \in places, NEW j \in places, f[i] = f[j] PROVE i = j
    <3>1. i \in Nat /\ j \in Nat /\ f[i] \in Nat /\ f[j] \in Nat
      BY <1>2, <1>6
    <3>2. ~(i < j) /\ ~(j < i)
      BY <1>7, <2>2, <3>1
    <3>3. QED
      BY <3>1, <3>2
  <2>3. QED
    BY <2>1, <2>2 DEF Injection, IsInjective
<1>9. IsFiniteSet(1 .. m) /\ Cardinality(1 .. m) = m
  BY <1>2, FS_Interval
<1>10. f \in Surjection(places, 1 .. m)
  BY <1>8, <1>9, FS_Injection
<1>11. \A r \in 1 .. m : \E i \in places : Rank(places, i) = r
  BY <1>10 DEF Surjection
<1>12. QED
  BY <1>2, <1>6, <1>7, <1>11

\* filter() gives the elements at the places, each once and in their order.
LEMMA AtIs ==
  ASSUME NEW S, NEW seq \in Seq(S), NEW places \in SUBSET (DOMAIN seq)
  PROVE  /\ FilterAt(seq, places) \in Seq(S) /\ DOMAIN FilterAt(seq, places) = 1 .. Cardinality(places)
         /\ \A r \in DOMAIN FilterAt(seq, places) :
              PlaceOf(places, r) \in places /\ FilterAt(seq, places)[r] = seq[PlaceOf(places, r)]
         /\ \A r, q \in DOMAIN FilterAt(seq, places) : r < q => PlaceOf(places, r) < PlaceOf(places, q)
         /\ Range(FilterAt(seq, places)) = {seq[i] : i \in places}
<1> DEFINE m == Cardinality(places)
<1>1. places \in SUBSET (1 .. Len(seq)) /\ Len(seq) \in Nat
  OBVIOUS
<1>2. /\ m \in Nat
      /\ \A i \in places : Rank(places, i) \in 1 .. m
      /\ \A i, j \in places : i < j => Rank(places, i) < Rank(places, j)
      /\ \A r \in 1 .. m : \E i \in places : Rank(places, i) = r
  BY <1>1, Ranks
<1>3. \A r \in 1 .. m : PlaceOf(places, r) \in places /\ Rank(places, PlaceOf(places, r)) = r
  BY <1>2 DEF PlaceOf, Rank
<1>4. \A i, j \in places : Rank(places, i) = Rank(places, j) => i = j
  <2>1. SUFFICES ASSUME NEW i \in places, NEW j \in places, Rank(places, i) = Rank(places, j)
                 PROVE  i = j
    OBVIOUS
  <2>2. i \in Nat /\ j \in Nat /\ Rank(places, i) \in Nat
    BY <1>1, <1>2
  <2>3. ~(i < j) /\ ~(j < i)
    BY <1>2, <2>1, <2>2
  <2>4. QED
    BY <2>2, <2>3
<1>5. FilterAt(seq, places) = [r \in 1 .. m |-> seq[PlaceOf(places, r)]]
  BY DEF FilterAt
<1>6. ASSUME NEW r \in 1 .. m, NEW q \in 1 .. m, r < q
      PROVE  PlaceOf(places, r) < PlaceOf(places, q)
  <2>1. /\ PlaceOf(places, r) \in places /\ Rank(places, PlaceOf(places, r)) = r
        /\ PlaceOf(places, q) \in places /\ Rank(places, PlaceOf(places, q)) = q
    BY <1>3
  <2>2. PlaceOf(places, r) \in Nat /\ PlaceOf(places, q) \in Nat
    BY <1>1, <2>1
  <2>3. r \in Nat /\ q \in Nat
    BY <1>2
  <2>4. ~(PlaceOf(places, q) < PlaceOf(places, r)) /\ PlaceOf(places, r) # PlaceOf(places, q)
    BY <1>2, <1>6, <2>1, <2>3
  <2>5. QED
    BY <2>2, <2>4
<1>7. FilterAt(seq, places) \in Seq(S)
  <2>1. \A r \in 1 .. m : seq[PlaceOf(places, r)] \in S
    BY <1>1, <1>3
  <2>2. QED
    BY <1>2, <1>5, <2>1
<1>8. Range(FilterAt(seq, places)) = {seq[i] : i \in places}
  <2>1. ASSUME NEW i \in places PROVE \E r \in 1 .. m : FilterAt(seq, places)[r] = seq[i]
    <3>1. Rank(places, i) \in 1 .. m /\ PlaceOf(places, Rank(places, i)) = i
      BY <1>2, <1>3, <1>4
    <3>2. QED
      BY <1>5, <3>1
  <2>2. \A r \in 1 .. m : FilterAt(seq, places)[r] \in {seq[i] : i \in places}
    BY <1>3, <1>5
  <2>3. DOMAIN FilterAt(seq, places) = 1 .. m
    BY <1>5
  <2>4. QED
    BY <2>1, <2>2, <2>3 DEF Range
<1>9. QED
  BY <1>3, <1>5, <1>6, <1>7, <1>8

\* The result t has the elements of seq at the places, at[r] the place of its r-th.
Picks(t, seq, places, m, at) ==
  /\ m \in Nat /\ at \in [1 .. m -> places] /\ DOMAIN t = 1 .. m
  /\ \A r \in 1 .. m : t[r] = seq[at[r]]
  /\ \A r, q \in 1 .. m : r < q => at[r] < at[q]
  /\ \A i \in places : \E r \in 1 .. m : at[r] = i

\* The same with the places as a function: each element of the result comes from a
\* place, every place is one's, and their order is kept.
LEMMA FilterIs ==
  ASSUME NEW S, NEW seq \in Seq(S), NEW places \in SUBSET (DOMAIN seq)
  PROVE  /\ FilterAt(seq, places) \in Seq(S)
         /\ \E m, at : Picks(FilterAt(seq, places), seq, places, m, at)
<1> DEFINE m == Cardinality(places)
           at == [r \in 1 .. m |-> PlaceOf(places, r)]
<1>1. places \in SUBSET (1 .. Len(seq)) /\ Len(seq) \in Nat
  OBVIOUS
<1>2. /\ m \in Nat
      /\ \A i \in places : Rank(places, i) \in 1 .. m
      /\ \A i, j \in places : i < j => Rank(places, i) < Rank(places, j)
      /\ \A r \in 1 .. m : \E i \in places : Rank(places, i) = r
  BY <1>1, Ranks
<1>3. \A r \in 1 .. m : PlaceOf(places, r) \in places /\ Rank(places, PlaceOf(places, r)) = r
  BY <1>2 DEF PlaceOf, Rank
<1>4. ASSUME NEW i \in places PROVE \E r \in 1 .. m : at[r] = i
  <2>1. Rank(places, i) \in 1 .. m
    BY <1>2
  <2> DEFINE j == PlaceOf(places, Rank(places, i))
  <2>2. j \in places /\ Rank(places, j) = Rank(places, i)
    BY <1>3, <2>1
  <2> HIDE DEF j
  <2>3. i \in Nat /\ j \in Nat /\ Rank(places, i) \in Nat
    BY <1>1, <2>1, <2>2
  <2>4. ~(i < j) /\ ~(j < i)
    BY <1>2, <2>2, <2>3
  <2>5. i = j
    BY <2>3, <2>4
  <2> QED BY <2>1, <2>5 DEF j
<1>5. /\ FilterAt(seq, places) \in Seq(S) /\ DOMAIN FilterAt(seq, places) = 1 .. m
      /\ \A r \in 1 .. m : FilterAt(seq, places)[r] = seq[PlaceOf(places, r)]
      /\ \A r, q \in 1 .. m : r < q => PlaceOf(places, r) < PlaceOf(places, q)
  BY <1>1, AtIs
<1>6. at \in [1 .. m -> places]
  BY <1>3
<1>7. \A r \in 1 .. m : at[r] = PlaceOf(places, r)
  OBVIOUS
<1> HIDE DEF at, m
<1>8. m \in Nat
  BY <1>2
<1>9. Picks(FilterAt(seq, places), seq, places, m, at)
  BY <1>4, <1>5, <1>6, <1>7, <1>8 DEF Picks
<1> QED BY <1>5, <1>9

Sorted(seq) == \A i, j \in DOMAIN seq : i < j => seq[i].id < seq[j].id
ListedOnce(seq) == \A i, j \in DOMAIN seq : seq[i].id = seq[j].id => i = j

\* What is filtered keeps its order and is listed once if it was.
LEMMA AtKeeps ==
  ASSUME NEW S, NEW seq \in Seq(S), NEW places \in SUBSET (DOMAIN seq)
  PROVE  /\ Sorted(seq) => Sorted(FilterAt(seq, places))
         /\ ListedOnce(seq) => ListedOnce(FilterAt(seq, places))
<1> DEFINE new == FilterAt(seq, places)
           at(r) == PlaceOf(places, r)
<1>1. /\ DOMAIN new = 1 .. Cardinality(places) /\ Cardinality(places) \in Nat
      /\ \A r \in DOMAIN new : at(r) \in places /\ new[r] = seq[at(r)]
      /\ \A r, q \in DOMAIN new : r < q => at(r) < at(q)
  <2>1. places \in SUBSET (1 .. Len(seq)) /\ Len(seq) \in Nat
    OBVIOUS
  <2>2. QED
    BY <2>1, AtIs, Ranks
<1>2. \A r \in DOMAIN new : at(r) \in DOMAIN seq /\ at(r) \in Nat /\ r \in Nat
  BY <1>1
<1> HIDE DEF new, at
<1>3. Sorted(seq) => Sorted(new)
  BY <1>1, <1>2 DEF Sorted
<1>4. ListedOnce(seq) => ListedOnce(new)
  <2>1. SUFFICES ASSUME ListedOnce(seq), NEW r \in DOMAIN new, NEW q \in DOMAIN new,
                        new[r].id = new[q].id
                 PROVE  r = q
    BY DEF ListedOnce
  <2>2. at(r) = at(q)
    BY <1>1, <1>2, <2>1 DEF ListedOnce
  <2>3. ~(r < q) /\ ~(q < r)
    BY <1>1, <1>2, <2>2
  <2>4. QED
    BY <1>2, <2>3
<1>5. QED
  BY <1>3, <1>4 DEF new
=============================================================================
