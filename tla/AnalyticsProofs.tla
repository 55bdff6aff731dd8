---------------------------- MODULE AnalyticsProofs ----------------------------
(***************************************************************************)
(* The totals of the reports: sums over finite sets, and the bounds of     *)
(* each booking (AvailabilityProofs) added up.                             *)
(***************************************************************************)
EXTENDS AvailabilityProofs, WellFoundedInduction

(* Induction over the subsets of a finite set *)

LEMMA SubsetInduction ==
  ASSUME NEW U, IsFiniteSet(U), NEW T, T \subseteq SUBSET U,
         \A s \in SUBSET U : (\A r \in SUBSET s : r # s => r \in T) => s \in T
  PROVE  T = SUBSET U
  <1> DEFINE bad == (SUBSET U) \ T
             smaller == StrictSubsetOrdering(U)
  <1>1. IsWellFoundedOn(smaller, SUBSET U)
    BY FS_StrictSubsetOrderingWellFounded, FS_FiniteSubsetsOfFinite
  <1> SUFFICES ASSUME bad # {} PROVE FALSE
    OBVIOUS
  <1>2. bad \subseteq SUBSET U
    OBVIOUS
  <1>3. \A r \in SUBSET U : \A s \in SUBSET U : r \subseteq s /\ r # s => <<r, s>> \in smaller
    BY DEF StrictSubsetOrdering
  <1> HIDE DEF smaller
  <1>4. PICK s \in bad : \A r \in bad : <<r, s>> \notin smaller
    <2> HIDE DEF bad
    <2> QED
      BY <1>1, <1>2, WFMin
  <1>5. ASSUME NEW r \in SUBSET s, r # s PROVE r \in T
    <2>1. r \in SUBSET U /\ s \in SUBSET U
      OBVIOUS
    <2>2. <<r, s>> \in smaller
      BY <1>3, <1>5, <2>1
    <2> QED
      BY <1>4, <2>1, <2>2
  <1> QED
    BY <1>4, <1>5
-----------------------------------------------------------------------------
(* Sums: the recursive function of Folds exists *)

First(s) == CHOOSE x \in s : TRUE
Sums(g, h, U) ==
  g = [s \in SUBSET U |-> IF s = {} THEN 0 ELSE h[First(s)] + g[s \ {First(s)}]]
Total(h, U) == (CHOOSE g : Sums(g, h, U))[U]

LEMMA FirstIn == \A s : s # {} => First(s) \in s
  BY DEF First

LEMMA SumsAt ==
  ASSUME NEW g, NEW h, NEW U, Sums(g, h, U), NEW s \in SUBSET U
  PROVE  g[s] = IF s = {} THEN 0 ELSE h[First(s)] + g[s \ {First(s)}]
  BY DEF Sums

LEMMA SumsAgree ==
  ASSUME NEW U, IsFiniteSet(U), NEW h, NEW g, NEW V, NEW k, U \subseteq V,
         Sums(g, h, U), Sums(k, h, V)
  PROVE  g[U] = k[U]
  <1> DEFINE T == {s \in SUBSET U : g[s] = k[s]}
  <1>1. ASSUME NEW s \in SUBSET U, \A r \in SUBSET s : r # s => r \in T
        PROVE  s \in T
    <2>1. s \in SUBSET V
      OBVIOUS
    <2>2. s # {} => g[s \ {First(s)}] = k[s \ {First(s)}]
      BY <1>1, FirstIn
    <2>3. g[s] = IF s = {} THEN 0 ELSE h[First(s)] + g[s \ {First(s)}]
      BY SumsAt
    <2>4. k[s] = IF s = {} THEN 0 ELSE h[First(s)] + k[s \ {First(s)}]
      BY <2>1, SumsAt
    <2> QED
      BY <2>2, <2>3, <2>4
  <1>2. T = SUBSET U
    <2>1. T \subseteq SUBSET U
      OBVIOUS
    <2> HIDE DEF T
    <2> QED
      BY <1>1, <2>1, SubsetInduction
  <1> QED
    BY <1>2

LEMMA SumsExist ==
  ASSUME NEW U, IsFiniteSet(U), NEW h
  PROVE  \E g : Sums(g, h, U)
  <1> DEFINE T == {s \in SUBSET U : \E g : Sums(g, h, s)}
  <1>1. ASSUME NEW s \in SUBSET U, \A r \in SUBSET s : r # s => r \in T
        PROVE  s \in T
    <2> DEFINE value(r) == IF r = {} THEN 0 ELSE h[First(r)] + Total(h, r \ {First(r)})
               g == [r \in SUBSET s |-> value(r)]
    <2>1. ASSUME NEW r \in SUBSET s, r # s PROVE value(r) = Total(h, r)
      <3>1. PICK k : k = CHOOSE f : Sums(f, h, r)
        OBVIOUS
      <3>2. Sums(k, h, r) /\ Total(h, r) = k[r]
        BY <1>1, <2>1, <3>1 DEF Total
      <3>3. k[r] = IF r = {} THEN 0 ELSE h[First(r)] + k[r \ {First(r)}]
        BY <3>2, SumsAt
      <3>4. CASE r = {}
        BY <3>2, <3>3, <3>4
      <3>5. CASE r # {}
        <4> DEFINE q == r \ {First(r)}
        <4>1. q \in SUBSET r /\ q \in SUBSET s /\ q # s
          BY <2>1
        <4>2. PICK j : j = CHOOSE f : Sums(f, h, q)
          OBVIOUS
        <4>3. Sums(j, h, q) /\ Total(h, q) = j[q]
          BY <1>1, <4>1, <4>2 DEF Total
        <4>4. IsFiniteSet(q)
          <5>1. q \in SUBSET U
            BY <4>1
          <5> HIDE DEF q
          <5> QED
            BY <5>1, FS_Subset
        <4>5. j[q] = k[q]
          <5> HIDE DEF q
          <5> QED
            BY <3>2, <4>1, <4>3, <4>4, SumsAgree
        <4> QED
          BY <3>2, <3>3, <3>5, <4>3, <4>5
      <3> QED
        BY <3>4, <3>5
    <2>2. \A r \in SUBSET s : r # {} => g[r \ {First(r)}] = Total(h, r \ {First(r)})
      <3> SUFFICES ASSUME NEW r \in SUBSET s, r # {}
                   PROVE  g[r \ {First(r)}] = Total(h, r \ {First(r)})
        OBVIOUS
      <3>1. r \ {First(r)} \in SUBSET s /\ r \ {First(r)} # s
        BY FirstIn
      <3>2. value(r \ {First(r)}) = Total(h, r \ {First(r)})
        BY <2>1, <3>1
      <3> QED
        BY <3>1, <3>2
    <2>3. Sums(g, h, s)
      BY <2>2 DEF Sums
    <2> QED
      BY <2>3
  <1>2. T = SUBSET U
    <2>1. T \subseteq SUBSET U
      OBVIOUS
    <2> HIDE DEF T
    <2> QED
      BY <1>1, <2>1, SubsetInduction
  <1> QED
    BY <1>2

(* What a sum is: nothing over the empty set, otherwise any one term first. *)

LEMMA TotalIs ==
  ASSUME NEW U, IsFiniteSet(U), NEW h
  PROVE  Total(h, U) = IF U = {} THEN 0 ELSE h[First(U)] + Total(h, U \ {First(U)})
  <1> DEFINE W == U \ {First(U)}
  <1>1. IsFiniteSet(W) /\ W \subseteq U
    BY FS_Subset
  <1>2. PICK g : Sums(g, h, U) /\ Total(h, U) = g[U]
    BY SumsExist DEF Total
  <1>3. PICK k : Sums(k, h, W) /\ Total(h, W) = k[W]
    BY <1>1, SumsExist DEF Total
  <1>4. g[U] = IF U = {} THEN 0 ELSE h[First(U)] + g[W]
    BY <1>2, SumsAt
  <1>5. k[W] = g[W]
    <2> HIDE DEF W
    <2> QED
      BY <1>1, <1>2, <1>3, SumsAgree
  <1> QED
    BY <1>2, <1>3, <1>4, <1>5

LEMMA TotalOfNone == \A h : Total(h, {}) = 0
  BY TotalIs, FS_EmptySet

LEMMA TotalInt ==
  ASSUME NEW U, IsFiniteSet(U), NEW h, \A i \in U : h[i] \in Int
  PROVE  Total(h, U) \in Int
  <1> DEFINE T == {s \in SUBSET U : Total(h, s) \in Int}
  <1>1. ASSUME NEW s \in SUBSET U, \A r \in SUBSET s : r # s => r \in T
        PROVE  s \in T
    <2>1. Total(h, s) = IF s = {} THEN 0 ELSE h[First(s)] + Total(h, s \ {First(s)})
      BY FS_Subset, TotalIs
    <2>2. s # {} => First(s) \in U /\ Total(h, s \ {First(s)}) \in Int
      BY <1>1, FirstIn
    <2> QED
      BY <2>1, <2>2
  <1>2. T = SUBSET U
    <2>1. T \subseteq SUBSET U
      OBVIOUS
    <2> HIDE DEF T
    <2> QED
      BY <1>1, <2>1, SubsetInduction
  <1> QED
    BY <1>2

LEMMA AnyFirst ==
  ASSUME NEW U, IsFiniteSet(U), NEW h, \A i \in U : h[i] \in Int, NEW x \in U
  PROVE  Total(h, U) = h[x] + Total(h, U \ {x})
  <1> DEFINE T == {s \in SUBSET U : \A y \in s : Total(h, s) = h[y] + Total(h, s \ {y})}
  <1>1. ASSUME NEW s \in SUBSET U, \A r \in SUBSET s : r # s => r \in T
        PROVE  s \in T
    <2> SUFFICES ASSUME NEW y \in s PROVE Total(h, s) = h[y] + Total(h, s \ {y})
      OBVIOUS
    <2>1. PICK f : f = First(s)
      OBVIOUS
    <2>2. f \in s /\ Total(h, s) = h[f] + Total(h, s \ {f})
      BY <2>1, FS_Subset, TotalIs, FirstIn
    <2>3. CASE y = f
      BY <2>2, <2>3
    <2>4. CASE y # f
      <3>1. s \ {f} \in T /\ s \ {y} \in T
        BY <1>1, <2>2
      <3>2. Total(h, s \ {f}) = h[y] + Total(h, (s \ {f}) \ {y})
        BY <2>4, <3>1
      <3>3. Total(h, s \ {y}) = h[f] + Total(h, (s \ {y}) \ {f})
        BY <2>2, <2>4, <3>1
      <3>4. (s \ {f}) \ {y} = (s \ {y}) \ {f}
        OBVIOUS
      <3>5. Total(h, (s \ {y}) \ {f}) \in Int
        <4>1. (s \ {y}) \ {f} \in SUBSET U
          OBVIOUS
        <4> QED
          BY <4>1, FS_Subset, TotalInt
      <3>6. h[f] \in Int /\ h[y] \in Int
        BY <2>2
      <3>7. PICK rest : rest = Total(h, (s \ {y}) \ {f})
        OBVIOUS
      <3>8. ASSUME NEW a \in Int, NEW b \in Int, NEW c \in Int
            PROVE  a + (b + c) = b + (a + c)
        OBVIOUS
      <3>9. h[f] + (h[y] + rest) = h[y] + (h[f] + rest)
        BY <3>5, <3>6, <3>7, <3>8
      <3> QED
        BY <2>2, <3>2, <3>3, <3>4, <3>7, <3>9, Zenon
    <2> QED
      BY <2>3, <2>4
  <1>2. T = SUBSET U
    <2>1. T \subseteq SUBSET U
      OBVIOUS
    <2> HIDE DEF T
    <2> QED
      BY <1>1, <2>1, SubsetInduction
  <1>3. U \in T
    BY <1>2
  <1> QED
    BY <1>3

LEMMA TotalOfUnion ==
  ASSUME NEW U, IsFiniteSet(U), NEW h, \A i \in U : h[i] \in Int,
         NEW V, V \subseteq U
  PROVE  Total(h, U) = Total(h, V) + Total(h, U \ V)
  <1> DEFINE T == {s \in SUBSET V : Total(h, (U \ V) \cup s) = Total(h, s) + Total(h, U \ V)}
  <1>0. IsFiniteSet(V) /\ Total(h, U \ V) \in Int
    <2>1. IsFiniteSet(U \ V) /\ IsFiniteSet(V)
      BY FS_Subset
    <2> QED
      BY <2>1, TotalInt
  <1>1. ASSUME NEW s \in SUBSET V, \A r \in SUBSET s : r # s => r \in T
        PROVE  s \in T
    <2>1. CASE s = {}
      BY <1>0, <2>1, TotalOfNone
    <2>2. CASE s # {}
      <3>1. PICK x \in s : TRUE
        BY <2>2
      <3> DEFINE w == (U \ V) \cup s
      <3>2. s \ {x} \in T
        BY <1>1, <3>1
      <3>3. w \ {x} = (U \ V) \cup (s \ {x}) /\ x \in w /\ w \subseteq U /\ s \subseteq U
        BY <3>1
      <3>4. IsFiniteSet(w) /\ IsFiniteSet(s)
        BY <3>3, FS_Subset
      <3>5. \A i \in w : h[i] \in Int
        BY <3>3
      <3>6. \A i \in s : h[i] \in Int
        BY <3>3
      <3>7. Total(h, w) = h[x] + Total(h, w \ {x})
        <4> HIDE DEF w
        <4> QED
          BY <3>3, <3>4, <3>5, AnyFirst
      <3>8. Total(h, s) = h[x] + Total(h, s \ {x})
        BY <3>1, <3>4, <3>6, AnyFirst
      <3>9. Total(h, s \ {x}) \in Int /\ h[x] \in Int
        <4>1. IsFiniteSet(s \ {x})
          BY <3>4, FS_Subset
        <4> QED
          BY <3>1, <3>6, <4>1, TotalInt
      <3>10. Total(h, w \ {x}) = Total(h, s \ {x}) + Total(h, U \ V)
        BY <3>2, <3>3
      <3>11. Total(h, w) = Total(h, s) + Total(h, U \ V)
        <4> HIDE DEF w
        <4> QED
          BY <1>0, <3>7, <3>8, <3>9, <3>10
      <3> QED
        BY <3>11
    <2> QED
      BY <2>1, <2>2
  <1>2. T = SUBSET V
    <2>1. T \subseteq SUBSET V
      OBVIOUS
    <2> HIDE DEF T
    <2> QED
      BY <1>0, <1>1, <2>1, SubsetInduction
  <1>3. V \in T /\ (U \ V) \cup V = U
    BY <1>2
  <1> QED
    BY <1>3

(* Sums of functions related at every element *)

LEMMA TotalScaled ==
  ASSUME NEW U, IsFiniteSet(U), NEW h, NEW k, NEW p \in Int,
         \A i \in U : h[i] \in Int /\ k[i] = p * h[i]
  PROVE  Total(k, U) = p * Total(h, U)
  <1> DEFINE T == {s \in SUBSET U : Total(k, s) = p * Total(h, s)}
  <1>1. ASSUME NEW s \in SUBSET U, \A r \in SUBSET s : r # s => r \in T
        PROVE  s \in T
    <2> DEFINE r == s \ {First(s)}
    <2>1. Total(h, s) = IF s = {} THEN 0 ELSE h[First(s)] + Total(h, r)
      BY FS_Subset, TotalIs
    <2>2. Total(k, s) = IF s = {} THEN 0 ELSE k[First(s)] + Total(k, r)
      BY FS_Subset, TotalIs
    <2>3. ASSUME s # {}
          PROVE  /\ First(s) \in U /\ Total(k, r) = p * Total(h, r)
                 /\ Total(h, r) \in Int /\ h[First(s)] \in Int
      <3>1. First(s) \in s
        BY <2>3, FirstIn
      <3>2. r \in SUBSET U /\ IsFiniteSet(r)
        BY FS_Subset
      <3>3. Total(h, r) \in Int
        <4> HIDE DEF r
        <4> QED
          BY <3>2, TotalInt
      <3> QED
        BY <1>1, <3>1, <3>3
    <2>4. ASSUME NEW a \in Int, NEW b \in Int PROVE p * (a + b) = p * a + p * b /\ p * 0 = 0
      OBVIOUS
    <2>5. CASE s = {}
      BY <2>1, <2>2, <2>4, <2>5
    <2>6. CASE s # {}
      <3> HIDE DEF r
      <3>1. Total(k, s) = p * h[First(s)] + p * Total(h, r)
        BY <2>2, <2>3, <2>6
      <3> QED
        BY <2>1, <2>3, <2>4, <2>6, <3>1
    <2> QED
      BY <2>5, <2>6
  <1>2. T = SUBSET U
    <2>1. T \subseteq SUBSET U
      OBVIOUS
    <2> HIDE DEF T
    <2> QED
      BY <1>1, <2>1, SubsetInduction
  <1> QED
    BY <1>2

LEMMA TotalBound ==
  ASSUME NEW U, IsFiniteSet(U), NEW h, NEW k, NEW c,
         \A i \in U : h[i] \in Int /\ k[i] \in Int /\ c[i] \in Int /\ k[i] <= h[i] + c[i]
  PROVE  Total(k, U) <= Total(h, U) + Total(c, U)
  <1> DEFINE T == {s \in SUBSET U : Total(k, s) <= Total(h, s) + Total(c, s)}
  <1>1. ASSUME NEW s \in SUBSET U, \A r \in SUBSET s : r # s => r \in T
        PROVE  s \in T
    <2> DEFINE r == s \ {First(s)}
    <2>1. /\ Total(h, s) = IF s = {} THEN 0 ELSE h[First(s)] + Total(h, r)
          /\ Total(k, s) = IF s = {} THEN 0 ELSE k[First(s)] + Total(k, r)
          /\ Total(c, s) = IF s = {} THEN 0 ELSE c[First(s)] + Total(c, r)
      BY FS_Subset, TotalIs
    <2>2. CASE s = {}
      BY <2>1, <2>2
    <2>3. CASE s # {}
      <3>1. First(s) \in U
        BY <2>3, FirstIn
      <3>2. Total(k, r) <= Total(h, r) + Total(c, r)
        BY <1>1, <2>3, FirstIn
      <3>3. r \in SUBSET U /\ IsFiniteSet(r)
        BY FS_Subset
      <3> HIDE DEF r
      <3>4. Total(h, r) \in Int /\ Total(k, r) \in Int /\ Total(c, r) \in Int
        BY <3>3, TotalInt
      <3> QED
        BY <2>1, <2>3, <3>1, <3>2, <3>4
    <2> QED
      BY <2>2, <2>3
  <1>2. T = SUBSET U
    <2>1. T \subseteq SUBSET U
      OBVIOUS
    <2> HIDE DEF T
    <2> QED
      BY <1>1, <2>1, SubsetInduction
  <1> QED
    BY <1>2

(* The same amount p for every element of V and nothing for the others *)
LEMMA TotalOfMarks ==
  ASSUME NEW U, IsFiniteSet(U), NEW V, V \subseteq U, NEW p \in Int, NEW c,
         \A i \in U : c[i] = IF i \in V THEN p ELSE 0
  PROVE  Total(c, U) = p * Cardinality(V)
  <1> DEFINE T == {s \in SUBSET U : Total(c, s) = p * Cardinality(s \cap V)}
  <1>1. ASSUME NEW s \in SUBSET U, \A r \in SUBSET s : r # s => r \in T
        PROVE  s \in T
    <2> DEFINE f == First(s)
               r == s \ {f}
    <2>1. Total(c, s) = IF s = {} THEN 0 ELSE c[f] + Total(c, r)
      BY FS_Subset, TotalIs
    <2>2. CASE s = {}
      <3>1. s \cap V = {}
        BY <2>2
      <3> QED
        BY <2>1, <2>2, <3>1, FS_EmptySet
    <2>3. CASE s # {}
      <3>1. f \in s
        BY <2>3, FirstIn
      <3>2. Total(c, r) = p * Cardinality(r \cap V)
        BY <1>1, <3>1
      <3>3. IsFiniteSet(s \cap V) /\ Cardinality(s \cap V) \in Nat
        <4>1. s \cap V \subseteq U
          OBVIOUS
        <4> QED
          BY <4>1, FS_Subset, FS_CardinalityType
      <3>4. CASE f \notin V
        <4>1. r \cap V = s \cap V
          BY <3>4
        <4>2. c[f] = 0
          BY <3>1, <3>4
        <4>3. p * Cardinality(s \cap V) \in Int
          BY <3>3
        <4> HIDE DEF f, r
        <4>4. Total(c, s) = 0 + p * Cardinality(s \cap V)
          BY <2>1, <2>3, <3>2, <4>1, <4>2
        <4> QED
          BY <4>3, <4>4
      <3>5. CASE f \in V
        <4>1. r \cap V = (s \cap V) \ {f}
          OBVIOUS
        <4>2. f \in s \cap V
          BY <3>1, <3>5
        <4>3. Cardinality((s \cap V) \ {f}) = Cardinality(s \cap V) - 1
          <5> HIDE DEF f
          <5> QED
            BY <3>3, <4>2, FS_RemoveElement
        <4>4. c[f] = p
          BY <3>1, <3>5
        <4>5. p + p * (Cardinality(s \cap V) - 1) = p * Cardinality(s \cap V)
          BY <3>3
        <4> HIDE DEF f, r
        <4> QED
          BY <2>1, <2>3, <3>2, <4>1, <4>3, <4>4, <4>5
      <3> QED
        BY <3>4, <3>5
    <2> QED
      BY <2>2, <2>3
  <1>2. T = SUBSET U
    <2>1. T \subseteq SUBSET U
      OBVIOUS
    <2> HIDE DEF T
    <2> QED
      BY <1>1, <2>1, SubsetInduction
  <1>3. U \in T /\ U \cap V = V
    BY <1>2
  <1> QED
    BY <1>3

LEMMA FiniteImage ==
  ASSUME NEW S, IsFiniteSet(S), NEW h
  PROVE  IsFiniteSet({h[i] : i \in S})
  <1> DEFINE image == {h[i] : i \in S}
             f == [i \in S |-> h[i]]
  <1>1. f \in Surjection(S, image)
    BY DEF Surjection
  <1> HIDE DEF f, image
  <1>2. IsFiniteSet(image)
    BY <1>1, FS_Surjection
  <1> QED
    BY <1>2 DEF image

(* The elements of U are grouped by their keys, and k gives the total of    *)
(* each group under a row of its own.                                       *)
Grouped(U, h, key, Keys, row, Rows, k) ==
  /\ IsFiniteSet(U) /\ \A i \in U : h[i] \in Int
  /\ Keys = {key[i] : i \in U}
  /\ Rows = {row[d] : d \in Keys}
  /\ \A c, d \in Keys : row[c] = row[d] => c = d
  /\ \A d \in Keys : k[row[d]] = Total(h, {i \in U : key[i] = d})

LEMMA TotalByGroup ==
  ASSUME NEW U, NEW h, NEW key, NEW Keys, NEW row, NEW Rows, NEW k,
         Grouped(U, h, key, Keys, row, Rows, k)
  PROVE  Total(k, Rows) = Total(h, U)
  <1> DEFINE rows(D) == {row[d] : d \in D}
             filed(D) == {i \in U : key[i] \in D}
             T == {D \in SUBSET Keys : Total(k, rows(D)) = Total(h, filed(D))}
  <1>1. IsFiniteSet(U) /\ \A i \in U : h[i] \in Int
    BY DEF Grouped
  <1>2. Keys = {key[i] : i \in U} /\ Rows = rows(Keys)
    BY DEF Grouped
  <1>3. /\ \A c, d \in Keys : row[c] = row[d] => c = d
        /\ \A d \in Keys : k[row[d]] = Total(h, {i \in U : key[i] = d})
    BY DEF Grouped
  <1>4. IsFiniteSet(Keys)
    BY <1>1, <1>2, FiniteImage
  <1>5. ASSUME NEW D \in SUBSET Keys PROVE IsFiniteSet(rows(D)) /\ IsFiniteSet(filed(D))
    <2>1. IsFiniteSet(D)
      BY <1>4, FS_Subset
    <2>2. IsFiniteSet({row[d] : d \in D})
      BY <2>1, FiniteImage
    <2>3. filed(D) \subseteq U
      OBVIOUS
    <2> HIDE DEF filed
    <2> QED
      BY <1>1, <2>2, <2>3, FS_Subset
  <1>6. ASSUME NEW s \in SUBSET U PROVE Total(h, s) \in Int
    BY <1>1, FS_Subset, TotalInt
  <1>7. ASSUME NEW D \in SUBSET Keys PROVE \A r \in rows(D) : k[r] \in Int
    <2> SUFFICES ASSUME NEW d \in D PROVE k[row[d]] \in Int
      OBVIOUS
    <2>1. {i \in U : key[i] = d} \in SUBSET U
      OBVIOUS
    <2> QED
      BY <1>3, <1>6, <2>1
  <1>8. ASSUME NEW D \in SUBSET Keys, \A C \in SUBSET D : C # D => C \in T
        PROVE  D \in T
    <2>1. CASE D = {}
      <3>1. rows(D) = {} /\ filed(D) = {}
        BY <2>1
      <3> QED
        BY <3>1, TotalOfNone
    <2>2. CASE D # {}
      <3>1. PICK d \in D : TRUE
        BY <2>2
      <3> DEFINE rest == D \ {d}
                 group == {i \in U : key[i] = d}
      <3>2. rest \in SUBSET Keys /\ Total(k, rows(rest)) = Total(h, filed(rest))
        BY <1>8, <3>1
      <3>3. row[d] \in rows(D) /\ rows(D) \ {row[d]} = rows(rest)
        BY <1>3, <3>1
      <3>4. group \subseteq filed(D) /\ filed(D) \ group = filed(rest)
        BY <3>1
      <3>5. k[row[d]] = Total(h, group)
        BY <1>3, <3>1
      <3>6. IsFiniteSet(rows(D)) /\ IsFiniteSet(filed(D)) /\ \A r \in rows(D) : k[r] \in Int
        BY <1>5, <1>7
      <3>7. \A i \in filed(D) : h[i] \in Int
        BY <1>1
      <3> HIDE DEF rows, filed, rest, group
      <3>8. Total(k, rows(D)) = k[row[d]] + Total(k, rows(D) \ {row[d]})
        BY <3>3, <3>6, AnyFirst
      <3>9. Total(h, filed(D)) = Total(h, group) + Total(h, filed(D) \ group)
        BY <3>4, <3>6, <3>7, TotalOfUnion
      <3> QED
        BY <3>2, <3>3, <3>4, <3>5, <3>8, <3>9
    <2> QED
      BY <2>1, <2>2
  <1>9. T = SUBSET Keys
    <2>1. T \subseteq SUBSET Keys
      OBVIOUS
    <2> HIDE DEF T
    <2> QED
      BY <1>4, <1>8, <2>1, SubsetInduction
  <1>10. Keys \in T
    BY <1>9
  <1>11. filed(Keys) = U
    BY <1>2
  <1>12. Total(k, rows(Keys)) = Total(h, filed(Keys))
    BY <1>10
  <1> QED
    BY <1>2, <1>11, <1>12
-----------------------------------------------------------------------------
(* The reports' sums as totals *)

LEMMA TotalOf ==
  ASSUME NEW U, IsFiniteSet(U), NEW h, NEW g, Sums(g, h, U)
  PROVE  g[U] = Total(h, U)
  <1>1. PICK k : Sums(k, h, U) /\ Total(h, U) = k[U]
    BY SumsExist DEF Total
  <1> QED
    BY <1>1, SumsAgree

LEMMA BookedHoursAdded ==
  ASSUME NEW U, IsFiniteSet(U), NEW h, \A i \in U : h[i] = BookedHours(bookings[i])
  PROVE  SumOver(BookedHours, U) = Total(h, U)
  <1> DEFINE D(g) == [s \in SUBSET U |-> IF s = {} THEN 0 ELSE
                        BookedHours(bookings[First(s)]) + g[s \ {First(s)}]]
  <1>1. \A g : g = D(g) <=> Sums(g, h, U)
    <2>1. \A s \in SUBSET U : s # {} => First(s) \in U
      BY FirstIn
    <2> QED
      BY <2>1 DEF Sums
  <1>2. SumOver(BookedHours, U) = (CHOOSE g : g = D(g))[U]
    BY DEF SumOver, MapThenSumSet, MapThenFoldSet, First
  <1> HIDE DEF D
  <1>3. PICK g : g = CHOOSE f : f = D(f)
    OBVIOUS
  <1> QED
    BY <1>1, <1>2, <1>3, SumsExist, TotalOf

LEMMA HoursInBusinessAdded ==
  ASSUME NEW U, IsFiniteSet(U), NEW h, \A i \in U : h[i] = HoursInBusiness(bookings[i])
  PROVE  SumOver(HoursInBusiness, U) = Total(h, U)
  <1> DEFINE D(g) == [s \in SUBSET U |-> IF s = {} THEN 0 ELSE
                        HoursInBusiness(bookings[First(s)]) + g[s \ {First(s)}]]
  <1>1. \A g : g = D(g) <=> Sums(g, h, U)
    <2>1. \A s \in SUBSET U : s # {} => First(s) \in U
      BY FirstIn
    <2> QED
      BY <2>1 DEF Sums
  <1>2. SumOver(HoursInBusiness, U) = (CHOOSE g : g = D(g))[U]
    BY DEF SumOver, MapThenSumSet, MapThenFoldSet, First
  <1> HIDE DEF D
  <1>3. PICK g : g = CHOOSE f : f = D(f)
    OBVIOUS
  <1> QED
    BY <1>1, <1>2, <1>3, SumsExist, TotalOf

LEMMA BusinessTimeAdded ==
  ASSUME NEW U, IsFiniteSet(U), NEW h, \A i \in U : h[i] = BusinessTime(bookings[i])
  PROVE  SumOver(BusinessTime, U) = Total(h, U)
  <1> DEFINE D(g) == [s \in SUBSET U |-> IF s = {} THEN 0 ELSE
                        BusinessTime(bookings[First(s)]) + g[s \ {First(s)}]]
  <1>1. \A g : g = D(g) <=> Sums(g, h, U)
    <2>1. \A s \in SUBSET U : s # {} => First(s) \in U
      BY FirstIn
    <2> QED
      BY <2>1 DEF Sums
  <1>2. SumOver(BusinessTime, U) = (CHOOSE g : g = D(g))[U]
    BY DEF SumOver, MapThenSumSet, MapThenFoldSet, First
  <1> HIDE DEF D
  <1>3. PICK g : g = CHOOSE f : f = D(f)
    OBVIOUS
  <1> QED
    BY <1>1, <1>2, <1>3, SumsExist, TotalOf

LEMMA TrendHoursAdded ==
  ASSUME NEW U, IsFiniteSet(U), NEW h, \A i \in U : h[i] = i.hours
  PROVE  MapThenSumSet(LAMBDA t : t.hours, U) = Total(h, U)
  <1> DEFINE D(g) == [s \in SUBSET U |-> IF s = {} THEN 0 ELSE
                        First(s).hours + g[s \ {First(s)}]]
  <1>1. \A g : g = D(g) <=> Sums(g, h, U)
    <2>1. \A s \in SUBSET U : s # {} => First(s) \in U
      BY FirstIn
    <2> QED
      BY <2>1 DEF Sums
  <1>2. MapThenSumSet(LAMBDA t : t.hours, U) = (CHOOSE g : g = D(g))[U]
    BY DEF MapThenSumSet, MapThenFoldSet, First
  <1> HIDE DEF D
  <1>3. PICK g : g = CHOOSE f : f = D(f)
    OBVIOUS
  <1> QED
    BY <1>1, <1>2, <1>3, SumsExist, TotalOf
-----------------------------------------------------------------------------
(* The reports *)

LEMMA HoursTyped ==
  ASSUME TableInv, NEW i \in DOMAIN bookings
  PROVE  /\ BookedHours(bookings[i]) \in Int /\ HoursInBusiness(bookings[i]) \in Int
         /\ BusinessTime(bookings[i]) \in Int
  <1> DEFINE b == bookings[i]
  <1> SUFFICES BookedHours(b) \in Int /\ HoursInBusiness(b) \in Int /\ BusinessTime(b) \in Int
    OBVIOUS
  <1>1. b.start \in Int /\ b.end \in Int
    BY StoredTimes
  <1> HIDE DEF b
  <1>2. Opening(b) \in Int /\ Closing(b) \in Int
    <2>1. Opening(b) = Midnight(DayOf(b.start)) + 540 * Minute
      BY <1>1, DayOfIs, HourMarks DEF Opening, START
    <2>2. Closing(b) = Midnight(DayOf(b.start)) + 1020 * Minute
      BY <1>1, DayOfIs, HourMarks DEF Closing, END
    <2> QED
      BY <1>1, <2>1, <2>2, DayOfIs, InMinutes
  <1>3. ASSUME NEW from \in Int, NEW to \in Int PROVE TimestampDiffHours(from, to) \in Int
    <2>1. CASE to >= from
      <3>1. (to - from) \div PerHour \in Int
        BY PerHourPositive, Division
      <3> QED
        BY <2>1, <3>1 DEF TimestampDiffHours
    <2>2. CASE ~(to >= from)
      <3>1. (from - to) \div PerHour \in Int
        BY PerHourPositive, Division
      <3> QED
        BY <2>2, <3>1 DEF TimestampDiffHours
    <2> QED
      BY <2>1, <2>2
  <1>4. BookedHours(b) \in Int
    BY <1>1, <1>3 DEF BookedHours
  <1>5. HoursInBusiness(b) \in Int
    BY <1>1, <1>2, <1>3 DEF HoursInBusiness
  <1>6. BusinessTime(b) \in Int
    BY <1>1, <1>2 DEF BusinessTime
  <1> QED
    BY <1>4, <1>5, <1>6

LEMMA CountedFinite ==
  ASSUME TableInv, NEW range
  PROVE  IsFiniteSet(Counted(range)) /\ Counted(range) \subseteq DOMAIN bookings
  <1>1. DOMAIN bookings = 1..Len(bookings) /\ Len(bookings) \in Int
    BY DEF TableInv
  <1>2. IsFiniteSet(DOMAIN bookings)
    BY <1>1, 1 \in Int, FS_Interval
  <1>3. Counted(range) \subseteq DOMAIN bookings
    BY DEF Counted, Ids
  <1> QED
    BY <1>2, <1>3, FS_Subset

(* Over any dates, the utilization never overstates the business time that *)
(* was booked, and understates it by less than an hour for each booking,   *)
(* unless one passes midnight (getRoomUtilization, analytics.repo.ts:26-   *)
(* 41).                                                                    *)
THEOREM UtilizationIsClose == ASpec => []UtilizationWithinAnHour
  <1>1. TableInv /\ (\A i \in DOMAIN bookings : HoursOK(bookings[i])) => UtilizationWithinAnHour
    <2> SUFFICES ASSUME TableInv, \A i \in DOMAIN bookings : HoursOK(bookings[i]),
                        NEW range \in DateRange
                 PROVE  LET ids == Counted(range)
                            counted == PerHour * getRoomUtilization(range).booked
                            true == SumOver(BusinessTime, ids)
                        IN /\ counted <= true
                           /\ \/ ids = {} \/ PassesMidnight(ids)
                              \/ true < counted + PerHour * Cardinality(ids)
      BY DEF UtilizationWithinAnHour
    <2> DEFINE ids == Counted(range)
               h == [i \in ids |-> HoursInBusiness(bookings[i])]
               p == [i \in ids |-> PerHour * HoursInBusiness(bookings[i])]
               t == [i \in ids |-> BusinessTime(bookings[i])]
               none == [i \in ids |-> 0]
               hour == [i \in ids |-> PerHour - 1]
    <2>1. IsFiniteSet(ids) /\ ids \subseteq DOMAIN bookings /\ PerHour \in Nat \ {0}
      BY CountedFinite, PerHourPositive
    <2>2. \A i \in ids : HoursInBusiness(bookings[i]) \in Int /\ BusinessTime(bookings[i]) \in Int
      BY <2>1, HoursTyped
    <2>3. getRoomUtilization(range).booked = SumOver(HoursInBusiness, ids)
      BY DEF getRoomUtilization
    <2>4. \A i \in ids : HoursOK(bookings[i])
      BY <2>1
    <2> HIDE DEF ids
    <2>5. /\ SumOver(HoursInBusiness, ids) = Total(h, ids)
          /\ SumOver(BusinessTime, ids) = Total(t, ids)
      <3>1. \A i \in ids : h[i] = HoursInBusiness(bookings[i])
        OBVIOUS
      <3>2. \A i \in ids : t[i] = BusinessTime(bookings[i])
        OBVIOUS
      <3> HIDE DEF h, t
      <3> QED
        BY <2>1, <3>1, <3>2, HoursInBusinessAdded, BusinessTimeAdded
    <2>6. \A i \in ids : /\ h[i] \in Int /\ t[i] \in Int /\ p[i] \in Int /\ p[i] = PerHour * h[i]
                         /\ none[i] \in Int /\ hour[i] \in Int
                         /\ none[i] = IF i \in {} THEN 0 ELSE 0
                         /\ hour[i] = IF i \in ids THEN PerHour - 1 ELSE 0
      BY <2>1, <2>2
    <2>7. \A i \in ids : p[i] <= t[i] + none[i]
      BY <2>2, <2>4, <2>1 DEF HoursOK
    <2>8. ASSUME ~PassesMidnight(ids) PROVE \A i \in ids : t[i] <= p[i] + hour[i]
      <3> SUFFICES ASSUME NEW i \in ids PROVE t[i] <= p[i] + hour[i]
        OBVIOUS
      <3>1. DayOf(bookings[i].start) = DayOf(bookings[i].end)
        BY <2>8 DEF PassesMidnight
      <3>2. BusinessTime(bookings[i]) < PerHour * HoursInBusiness(bookings[i]) + PerHour
        BY <2>4, <3>1 DEF HoursOK
      <3>3. PerHour * HoursInBusiness(bookings[i]) \in Int
        BY <2>1, <2>2
      <3> QED
        BY <2>1, <2>2, <3>2, <3>3
    <2> HIDE DEF h, p, t, none, hour
    <2>9. /\ Total(h, ids) \in Int /\ Total(t, ids) \in Int
          /\ Total(p, ids) = PerHour * Total(h, ids)
      BY <2>1, <2>6, TotalInt, TotalScaled
    <2>10. Total(none, ids) = 0
      <3>1. Total(none, ids) = 0 * Cardinality({})
        BY <2>1, <2>6, 0 \in Int, {} \subseteq ids, TotalOfMarks
      <3> QED
        BY <3>1, FS_EmptySet
    <2>11. Total(hour, ids) = (PerHour - 1) * Cardinality(ids)
      BY <2>1, <2>6, PerHour - 1 \in Int, ids \subseteq ids, TotalOfMarks
    <2>12. Total(p, ids) <= Total(t, ids)
      <3>1. Total(p, ids) <= Total(t, ids) + Total(none, ids)
        BY <2>1, <2>6, <2>7, TotalBound
      <3> QED
        BY <2>9, <2>10, <3>1
    <2>13. ASSUME ~PassesMidnight(ids), ids # {}
           PROVE  Total(t, ids) < Total(p, ids) + PerHour * Cardinality(ids)
      <3>1. Total(t, ids) <= Total(p, ids) + Total(hour, ids)
        BY <2>1, <2>6, <2>8, <2>13, TotalBound
      <3>2. Cardinality(ids) \in Nat /\ Cardinality(ids) > 0
        BY <2>1, <2>13, FS_CardinalityType, FS_EmptySet
      <3>3. /\ (PerHour - 1) * Cardinality(ids) = PerHour * Cardinality(ids) - Cardinality(ids)
            /\ PerHour * Cardinality(ids) \in Int /\ PerHour * Total(h, ids) \in Int
        BY <2>1, <2>9, <3>2
      <3> QED
        BY <2>9, <2>11, <3>1, <3>2, <3>3
    <2> QED
      BY <2>3, <2>5, <2>9, <2>12, <2>13 DEF ids
  <1> QED
    BY <1>1, TableAlways, HoursOfEachBooking, PTL

(* No two days are printed as the same date, whatever the zone. *)
LEMMA DatesPrintedApart ==
  ASSUME NEW c \in Int, NEW d \in Int, PrintedDate(c) = PrintedDate(d)
  PROVE  c = d
  <1>1. ASSUME NEW day \in Int
        PROVE  /\ PrintedDate(day) = DayOf(Midnight(day) - Offset)
               /\ Midnight(day) - Offset \in Int
    <2>1. At(day, 0, 0) = Midnight(day) + (60 * 0 + 0) * Minute /\ Midnight(day) \in Int
      BY 0 \in Int, AtIs
    <2>2. At(day, 0, 0) = Midnight(day)
      BY <2>1, InMinutes
    <2> QED
      BY <2>1, <2>2, PerHourPositive DEF PrintedDate, toISOString
  <1>2. ASSUME NEW x \in Int, NEW y \in Int, x < y PROVE PrintedDate(x) # PrintedDate(y)
    <2>1. Midnight(x) + PerDay <= Midnight(y)
      BY <1>2, MidnightGrows
    <2>2. /\ Midnight(PrintedDate(x)) \in Int
          /\ Midnight(PrintedDate(x)) <= Midnight(x) - Offset
      BY <1>1, DayOfIs
    <2>3. Midnight(y) - Offset < Midnight(PrintedDate(y)) + PerDay
      BY <1>1, DayOfIs
    <2>4. Midnight(x) \in Int /\ Midnight(y) \in Int /\ PerDay \in Int /\ Offset \in Int
      BY InMinutes, PerHourPositive DEF Midnight
    <2> QED
      BY <2>1, <2>2, <2>3, <2>4
  <1> QED
    BY <1>2

(* A booking counted over some dates is in the trend of one of them, and   *)
(* every trend is of bookings counted.                                     *)
LEMMA CountedByDay ==
  ASSUME TableInv, NEW range \in DateRange, NEW d \in {DayOf(bookings[i].start) : i \in Counted(range)}
  PROVE  Counted([start |-> d, end |-> d])
           = {i \in Counted(range) : DayOf(bookings[i].start) = d}
  <1>1. /\ range.start \in Int /\ range.end \in Int
        /\ \A i \in DOMAIN bookings : DayOf(bookings[i].start) \in Int
    BY StoredTimes, DayOfIs, DatesAreInts DEF DateRange
  <1>2. \A r : Counted(r) = {i \in DOMAIN bookings :
                               /\ DayOf(bookings[i].start) \in r.start .. r.end
                               /\ bookings[i].status \in {"confirmed", "completed"}}
    BY DEF Counted, Ids, InPeriod
  <1>3. d \in Int /\ d \in range.start .. range.end
    BY <1>1, <1>2
  <1>4. Counted([start |-> d, end |-> d])
          = {i \in DOMAIN bookings : /\ DayOf(bookings[i].start) \in d .. d
                                     /\ bookings[i].status \in {"confirmed", "completed"}}
    BY <1>2
  <1>5. \A i \in DOMAIN bookings : DayOf(bookings[i].start) \in d .. d <=> DayOf(bookings[i].start) = d
    BY <1>1, <1>3
  <1> QED
    BY <1>2, <1>3, <1>4, <1>5

(* The hours of the trends are those of the bookings, each counted once. *)
LEMMA TrendsAddUp ==
  ASSUME TableInv, NEW range \in DateRange, NEW k,
         \A i \in Counted(range) : k[i] = BookedHours(bookings[i])
  PROVE  MapThenSumSet(LAMBDA t : t.hours, getDailyBookingTrends(range))
           = Total(k, Counted(range))
  <1> DEFINE ids == Counted(range)
             days == {DayOf(bookings[i].start) : i \in ids}
             On(day) == Counted([start |-> day, end |-> day])
             trend(day) == [date |-> PrintedDate(day), bookings |-> Cardinality(On(day)),
                            hours |-> SumOver(BookedHours, On(day))]
             trends == {trend(day) : day \in days}
             key == [i \in ids |-> DayOf(bookings[i].start)]
             row == [day \in days |-> trend(day)]
             hours == [t \in trends |-> t.hours]
  <1>1. IsFiniteSet(ids) /\ ids \subseteq DOMAIN bookings
    BY CountedFinite
  <1>2. \A i \in ids : k[i] \in Int /\ DayOf(bookings[i].start) \in Int
    BY <1>1, HoursTyped, StoredTimes, DayOfIs
  <1>3. getDailyBookingTrends(range) = trends
    BY DEF getDailyBookingTrends
  <1>4. days = {key[i] : i \in ids} /\ trends = {row[day] : day \in days}
    BY Zenon
  <1>5. \A c, d \in days : row[c] = row[d] => c = d
    <2> SUFFICES ASSUME NEW c \in days, NEW d \in days, row[c] = row[d] PROVE c = d
      OBVIOUS
    <2>1. row[c].date = PrintedDate(c) /\ row[d].date = PrintedDate(d)
      OBVIOUS
    <2> QED
      BY <1>2, <2>1, DatesPrintedApart
  <1>6. \A d \in days : hours[row[d]] = Total(k, {i \in ids : key[i] = d})
    <2> SUFFICES ASSUME NEW d \in days PROVE hours[row[d]] = Total(k, {i \in ids : key[i] = d})
      OBVIOUS
    <2>1. hours[row[d]] = SumOver(BookedHours, On(d))
      OBVIOUS
    <2>2. On(d) = {i \in ids : key[i] = d}
      BY CountedByDay
    <2>3. On(d) \subseteq ids
      BY <2>2
    <2>4. IsFiniteSet(On(d)) /\ \A i \in On(d) : k[i] = BookedHours(bookings[i])
      BY <2>3, CountedFinite
    <2>5. SumOver(BookedHours, On(d)) = Total(k, On(d))
      BY <2>4, BookedHoursAdded
    <2> QED
      BY <2>1, <2>2, <2>5
  <1>7. \A t \in trends : hours[t] = t.hours
    OBVIOUS
  <1> HIDE DEF ids, days, On, trend, trends, key, row, hours
  <1>8. IsFiniteSet(trends)
    <2>1. IsFiniteSet(days)
      <3>1. IsFiniteSet({key[i] : i \in ids})
        BY <1>1, FiniteImage
      <3> QED
        BY <1>4, <3>1
    <2>2. IsFiniteSet({row[day] : day \in days})
      BY <2>1, FiniteImage
    <2> QED
      BY <1>4, <2>2
  <1>9. MapThenSumSet(LAMBDA t : t.hours, trends) = Total(hours, trends)
    BY <1>7, <1>8, TrendHoursAdded
  <1>10. Total(hours, trends) = Total(k, ids)
    <2>1. \A i \in ids : k[i] \in Int
      BY <1>2
    <2>2. Grouped(ids, k, key, days, row, trends, hours)
      BY <1>1, <1>4, <1>5, <1>6, <2>1 DEF Grouped
    <2> QED
      BY <2>2, TotalByGroup
  <1> QED
    BY <1>3, <1>9, <1>10 DEF ids

(* Over any dates, the trends count no fewer hours than the utilization    *)
(* does, and at most one more for each booking that ends after closing     *)
(* time, unless one passes midnight (analytics.repo.ts:26-41, 93).         *)
THEOREM TheReportsAgree == ASpec => []ReportsAgree
  <1>1. TableInv /\ (\A i \in DOMAIN bookings : HoursOK(bookings[i])) => ReportsAgree
    <2> SUFFICES ASSUME TableInv, \A i \in DOMAIN bookings : HoursOK(bookings[i]),
                        NEW range \in DateRange
                 PROVE  LET ids == Counted(range)
                            trends == MapThenSumSet(LAMBDA t : t.hours, getDailyBookingTrends(range))
                            booked == getRoomUtilization(range).booked
                        IN /\ booked <= trends
                           /\ \/ PassesMidnight(ids)
                              \/ trends <= booked
                                   + Cardinality({i \in ids : bookings[i].end > Closing(bookings[i])})
      BY DEF ReportsAgree
    <2> DEFINE ids == Counted(range)
               over == {i \in ids : bookings[i].end > Closing(bookings[i])}
               h == [i \in ids |-> HoursInBusiness(bookings[i])]
               k == [i \in ids |-> BookedHours(bookings[i])]
               none == [i \in ids |-> 0]
               late == [i \in ids |-> IF i \in over THEN 1 ELSE 0]
    <2>1. IsFiniteSet(ids) /\ ids \subseteq DOMAIN bookings
      BY CountedFinite
    <2>2. \A i \in ids : HoursInBusiness(bookings[i]) \in Int /\ BookedHours(bookings[i]) \in Int
      BY <2>1, HoursTyped
    <2>3. getRoomUtilization(range).booked = SumOver(HoursInBusiness, ids)
      BY DEF getRoomUtilization
    <2>4. MapThenSumSet(LAMBDA t : t.hours, getDailyBookingTrends(range)) = Total(k, ids)
      <3>1. \A i \in Counted(range) : k[i] = BookedHours(bookings[i])
        OBVIOUS
      <3> HIDE DEF k
      <3> QED
        BY <3>1, TrendsAddUp
    <2>5. \A i \in ids : HoursOK(bookings[i])
      BY <2>1
    <2>6. over \subseteq ids /\ \A i \in ids : i \in over <=> bookings[i].end > Closing(bookings[i])
      OBVIOUS
    <2> HIDE DEF ids, over
    <2>7. SumOver(HoursInBusiness, ids) = Total(h, ids)
      <3>1. \A i \in ids : h[i] = HoursInBusiness(bookings[i])
        OBVIOUS
      <3> HIDE DEF h
      <3> QED
        BY <2>1, <3>1, HoursInBusinessAdded
    <2>8. \A i \in ids : /\ h[i] \in Int /\ k[i] \in Int /\ none[i] \in Int /\ late[i] \in Int
                         /\ none[i] = IF i \in {} THEN 0 ELSE 0
                         /\ late[i] = IF i \in over THEN 1 ELSE 0
      BY <2>2
    <2>9. \A i \in ids : h[i] <= k[i] + none[i]
      BY <2>2, <2>5 DEF HoursOK
    <2>10. ASSUME ~PassesMidnight(ids) PROVE \A i \in ids : k[i] <= h[i] + late[i]
      <3> SUFFICES ASSUME NEW i \in ids PROVE k[i] <= h[i] + late[i]
        OBVIOUS
      <3>1. DayOf(bookings[i].start) = DayOf(bookings[i].end)
        BY <2>10 DEF PassesMidnight
      <3>2. BookedHours(bookings[i]) <= HoursInBusiness(bookings[i])
              + (IF bookings[i].end > Closing(bookings[i]) THEN 1 ELSE 0)
        BY <2>5, <3>1 DEF HoursOK
      <3> QED
        BY <2>2, <2>6, <3>2
    <2> HIDE DEF h, k, none, late
    <2>11. Total(h, ids) \in Int /\ Total(k, ids) \in Int
      BY <2>1, <2>8, TotalInt
    <2>12. Total(none, ids) = 0
      <3>1. Total(none, ids) = 0 * Cardinality({})
        BY <2>1, <2>8, 0 \in Int, {} \subseteq ids, TotalOfMarks
      <3> QED
        BY <3>1, FS_EmptySet
    <2>13. Total(late, ids) = Cardinality(over)
      <3>1. Total(late, ids) = 1 * Cardinality(over)
        BY <2>1, <2>6, <2>8, 1 \in Int, TotalOfMarks
      <3>2. Cardinality(over) \in Nat
        BY <2>1, <2>6, FS_Subset, FS_CardinalityType
      <3> QED
        BY <3>1, <3>2
    <2>14. Total(h, ids) <= Total(k, ids)
      <3>1. Total(h, ids) <= Total(k, ids) + Total(none, ids)
        BY <2>1, <2>8, <2>9, TotalBound
      <3> QED
        BY <2>11, <2>12, <3>1
    <2>15. ASSUME ~PassesMidnight(ids)
           PROVE  Total(k, ids) <= Total(h, ids) + Cardinality(over)
      <3>1. Total(k, ids) <= Total(h, ids) + Total(late, ids)
        BY <2>1, <2>8, <2>10, <2>15, TotalBound
      <3> QED
        BY <2>13, <3>1
    <2> QED
      BY <2>3, <2>4, <2>7, <2>14, <2>15 DEF ids, over
  <1> QED
    BY <1>1, TableAlways, HoursOfEachBooking, PTL
=============================================================================
