---------------------------- MODULE Posts_proofs ----------------------------
(***************************************************************************)
(* Facts about the operators of Posts, for any finite family of numbers:   *)
(* sums, counts, sorting, rounding and the coefficient of variation.       *)
(*                                                                         *)
(* Sums are folds over finite sets.  Induction over such a set is stated   *)
(* with the set G of the subsets for which the claim holds, in place of a  *)
(* predicate.                                                              *)
(***************************************************************************)
EXTENDS Posts, FiniteSetTheorems, FunctionTheorems, TLAPS

(* Among subsets of a finite set there is one that has none of them below  *)
LEMMA SmallestSubset ==
  ASSUME NEW S, IsFiniteSet(S), NEW B \in SUBSET (SUBSET S), B # {}
  PROVE  \E b \in B : \A d \in SUBSET b : d # b => d \notin B
<1>1. IsWellFoundedOn(StrictSubsetOrdering(S), FiniteSubsetsOf(S))
  BY FS_StrictSubsetOrderingWellFounded
<1>2. B \subseteq FiniteSubsetsOf(S) BY FS_FiniteSubsetsOfFinite
<1>3. PICK b \in B : \A d \in B : ~(<<d, b>> \in StrictSubsetOrdering(S))
  BY <1>1, <1>2, WFMin
<1>4. ASSUME NEW d \in SUBSET b, d # b, d \in B PROVE FALSE
  BY <1>3, <1>4 DEF StrictSubsetOrdering
<1> QED BY <1>4

(* Induction over the subsets of a finite set, one more element at a time   *)
LEMMA SubsetInduction ==
  ASSUME NEW S, IsFiniteSet(S), NEW G, {} \in G,
         \A s \in SUBSET S : \A x \in S \ s : s \in G => s \cup {x} \in G
  PROVE  S \in G
<1> DEFINE B == {s \in SUBSET S : s \notin G}
<1> SUFFICES ASSUME S \notin G PROVE FALSE
  OBVIOUS
<1>1. PICK b \in B : \A d \in SUBSET b : d # b => d \notin B
  <2>1. B \in SUBSET (SUBSET S) /\ B # {} OBVIOUS
  <2> HIDE DEF B
  <2> QED BY <2>1, SmallestSubset
<1>2. PICK x \in b : TRUE OBVIOUS
<1>3. b \ {x} \in G /\ b \ {x} \in SUBSET S /\ x \in S \ (b \ {x}) BY <1>1, <1>2
<1>4. (b \ {x}) \cup {x} \in G BY <1>3
<1>5. (b \ {x}) \cup {x} = b BY <1>2
<1> QED BY <1>4, <1>5

(* Induction over the naturals *)
LEMMA NumberInduction ==
  ASSUME NEW G, 0 \in G, \A m \in Nat : m \in G => m + 1 \in G
  PROVE  Nat \subseteq G
<1> DEFINE B == {m \in Nat : m \notin G}
           Less == {ss \in Nat \X Nat : ss[1] < ss[2]}
<1> SUFFICES ASSUME B # {} PROVE FALSE
  OBVIOUS
<1>1. IsWellFoundedOn(Less, Nat) BY NatLessThanWellFounded DEF OpToRel
<1> HIDE DEF Less
<1>2. PICK b \in B : \A d \in B : ~(<<d, b>> \in Less)
  <2>1. B \subseteq Nat OBVIOUS
  <2> QED BY <1>1, <2>1, WFMin
<1>3. b \in Nat \ {0} /\ b \notin G OBVIOUS
<1>4. b - 1 \in Nat /\ <<b - 1, b>> \in Less BY <1>3 DEF Less
<1>5. b - 1 \in G BY <1>2, <1>4
<1>6. (b - 1) + 1 \in G BY <1>4, <1>5
<1> QED BY <1>3, <1>6
-----------------------------------------------------------------------------
(* Sums.  Total(c) is the sum of c over its domain. *)
SumOver(c, S) == MapThenSumSet(LAMBDA x : c[x], S)

(* One turn of the fold: an element of s, and the sum of the others in g *)
Turn(c, g, s) == IF s = {} THEN 0
                 ELSE c[CHOOSE x \in s : TRUE] + g[s \ {CHOOSE x \in s : TRUE}]

Sums(c, g, S) == \A s \in SUBSET S : g[s] = Turn(c, g, s)

(* The fold is well defined: there is a function that gives all the sums *)
LEMMA SumsExist ==
  ASSUME NEW c, NEW S, IsFiniteSet(S)
  PROVE  \E g : g = [s \in SUBSET S |-> Turn(c, g, s)]
<1> DEFINE G == {m \in Nat : \E g : \A s \in SUBSET S :
                   Cardinality(s) <= m => g[s] = Turn(c, g, s)}
<1>1. \A s \in SUBSET S : IsFiniteSet(s) /\ Cardinality(s) \in Nat
  BY FS_Subset, FS_CardinalityType
<1>2. 0 \in G
  <2>1. \A s \in SUBSET S : Cardinality(s) <= 0 => s = {} BY <1>1, FS_EmptySet
  <2>2. \A s \in SUBSET S : Cardinality(s) <= 0 => [t \in SUBSET S |-> 0][s] = Turn(c, [t \in SUBSET S |-> 0], s)
    BY <2>1 DEF Turn
  <2> QED BY <2>2
<1>3. ASSUME NEW m \in Nat, m \in G PROVE m + 1 \in G
  <2>1. PICK g : \A s \in SUBSET S : Cardinality(s) <= m => g[s] = Turn(c, g, s) BY <1>3
  <2> DEFINE h == [s \in SUBSET S |-> Turn(c, g, s)]
  <2>2. ASSUME NEW s \in SUBSET S, Cardinality(s) <= m + 1 PROVE h[s] = Turn(c, h, s)
    <3>1. CASE s = {} BY <3>1 DEF Turn
    <3>2. CASE s # {}
      <4> DEFINE x == CHOOSE y \in s : TRUE
      <4>1. x \in s BY <3>2
      <4> HIDE DEF x
      <4>a. IsFiniteSet(s) /\ Cardinality(s) \in Nat BY <1>1
      <4>b. Cardinality(s \ {x}) = Cardinality(s) - 1 BY <4>1, <4>a, FS_RemoveElement
      <4>2. s \ {x} \in SUBSET S /\ Cardinality(s \ {x}) <= m BY <2>2, <4>a, <4>b
      <4> USE DEF x
      <4>3. h[s \ {x}] = g[s \ {x}] BY <2>1, <4>2
      <4> QED BY <3>2, <4>3 DEF Turn
    <3> QED BY <3>1, <3>2
  <2> HIDE DEF h
  <2> QED BY <2>2
<1> HIDE DEF G
<1>4. Cardinality(S) \in G BY <1>1, <1>2, <1>3, NumberInduction
<1>5. PICK g : \A s \in SUBSET S : Cardinality(s) <= Cardinality(S) => g[s] = Turn(c, g, s)
  BY <1>4 DEF G
<1> DEFINE h == [s \in SUBSET S |-> g[s]]
<1>6. ASSUME NEW s \in SUBSET S PROVE h[s] = Turn(c, h, s)
  <2>1. g[s] = Turn(c, g, s) BY <1>5, FS_Subset
  <2>2. s # {} => s \ {CHOOSE y \in s : TRUE} \in SUBSET S OBVIOUS
  <2> QED BY <2>1, <2>2 DEF Turn
<1>7. h = [s \in SUBSET S |-> Turn(c, h, s)] BY <1>6
<1> QED BY <1>7

(* A sum is what such a function says ... *)
LEMMA SumIsFold ==
  ASSUME NEW c, NEW S, IsFiniteSet(S)
  PROVE  \E g : Sums(c, g, S) /\ SumOver(c, S) = g[S]
<1> DEFINE P(g) == g = [s \in SUBSET S |-> IF s = {} THEN 0
                     ELSE c[CHOOSE x \in s : TRUE] + g[s \ {CHOOSE x \in s : TRUE}]]
<1>1. SumOver(c, S) = (CHOOSE g : P(g))[S]
  BY DEF SumOver, MapThenSumSet, MapThenFoldSet
<1>2. \E g : P(g)
  <2>1. PICK g : g = [s \in SUBSET S |-> Turn(c, g, s)] BY SumsExist
  <2>2. P(g) BY <2>1 DEF Turn
  <2> QED BY <2>2
<1>3. P(CHOOSE g : P(g)) BY <1>2
<1>4. Sums(c, CHOOSE g : P(g), S) BY <1>3 DEF Sums, Turn
<1> QED BY <1>1, <1>4

(* ... and all of them say the same *)
LEMMA SumsAgree ==
  ASSUME NEW c, NEW S, IsFiniteSet(S), NEW g, NEW h, Sums(c, g, S), Sums(c, h, S)
  PROVE  g[S] = h[S]
<1> DEFINE B == {s \in SUBSET S : g[s] # h[s]}
<1> SUFFICES ASSUME g[S] # h[S] PROVE FALSE
  OBVIOUS
<1>1. PICK b \in B : \A d \in SUBSET b : d # b => d \notin B
  <2>1. B \in SUBSET (SUBSET S) /\ B # {} OBVIOUS
  <2> HIDE DEF B
  <2> QED BY <2>1, SmallestSubset
<1>2. g[b] = Turn(c, g, b) /\ h[b] = Turn(c, h, b) BY DEF Sums
<1>3. b # {} BY <1>2 DEF Turn
<1>4. g[b \ {CHOOSE x \in b : TRUE}] = h[b \ {CHOOSE x \in b : TRUE}] BY <1>1, <1>3
<1> QED BY <1>2, <1>4 DEF Turn

(* The sum over nothing, and the sum over one element and the others *)
LEMMA SumChosen ==
  ASSUME NEW c, NEW S, IsFiniteSet(S)
  PROVE  SumOver(c, S) = IF S = {} THEN 0
                         ELSE c[CHOOSE x \in S : TRUE] + SumOver(c, S \ {CHOOSE x \in S : TRUE})
<1>1. PICK g : Sums(c, g, S) /\ SumOver(c, S) = g[S] BY SumIsFold
<1>2. SumOver(c, S) = Turn(c, g, S) BY <1>1 DEF Sums
<1> DEFINE T == S \ {CHOOSE x \in S : TRUE}
<1>3. IsFiniteSet(T) BY FS_Subset
<1>4. PICK h : Sums(c, h, T) /\ SumOver(c, T) = h[T] BY <1>3, SumIsFold
<1>5. Sums(c, g, T) BY <1>1 DEF Sums
<1>6. g[T] = SumOver(c, T) BY <1>3, <1>4, <1>5, SumsAgree
<1> QED BY <1>2, <1>6 DEF Turn

(* A sum of integers is one *)
LEMMA SumType ==
  ASSUME NEW c, NEW S, IsFiniteSet(S), \A x \in S : c[x] \in Int
  PROVE  SumOver(c, S) \in Int
<1> DEFINE B == {s \in SUBSET S : SumOver(c, s) \notin Int}
<1> SUFFICES ASSUME SumOver(c, S) \notin Int PROVE FALSE
  OBVIOUS
<1>1. PICK b \in B : \A d \in SUBSET b : d # b => d \notin B
  <2>1. B \in SUBSET (SUBSET S) /\ B # {} OBVIOUS
  <2> HIDE DEF B
  <2> QED BY <2>1, SmallestSubset
<1>2. b \in SUBSET S /\ IsFiniteSet(b) BY FS_Subset
<1>3. b # {}
  <2>1. IsFiniteSet({}) BY FS_EmptySet
  <2>2. SumOver(c, {}) = 0 BY <2>1, SumChosen
  <2> QED BY <2>2
<1> DEFINE x == CHOOSE y \in b : TRUE
<1>4. x \in b BY <1>3
<1>5. SumOver(c, b) = c[x] + SumOver(c, b \ {x}) BY <1>2, <1>3, SumChosen
<1>6. SumOver(c, b \ {x}) \in Int BY <1>1, <1>2, <1>4
<1> QED BY <1>2, <1>4, <1>5, <1>6

(* It does not matter which element is taken out *)
LEMMA SumRemove ==
  ASSUME NEW c, NEW S, IsFiniteSet(S), \A x \in S : c[x] \in Int, NEW e \in S
  PROVE  SumOver(c, S) = c[e] + SumOver(c, S \ {e})
<1> DEFINE B == {s \in SUBSET S : \E x \in s : SumOver(c, s) # c[x] + SumOver(c, s \ {x})}
<1> SUFFICES ASSUME SumOver(c, S) # c[e] + SumOver(c, S \ {e}) PROVE FALSE
  OBVIOUS
<1>1. PICK b \in B : \A d \in SUBSET b : d # b => d \notin B
  <2>1. B \in SUBSET (SUBSET S) /\ B # {} OBVIOUS
  <2> HIDE DEF B
  <2> QED BY <2>1, SmallestSubset
<1>2. b \in SUBSET S /\ IsFiniteSet(b) /\ b # {} BY FS_Subset
<1>3. PICK x \in b : SumOver(c, b) # c[x] + SumOver(c, b \ {x}) OBVIOUS
<1> DEFINE y == CHOOSE z \in b : TRUE
<1>4. y \in b BY <1>2
<1>5. SumOver(c, b) = c[y] + SumOver(c, b \ {y}) BY <1>2, SumChosen
<1>6. x # y BY <1>3, <1>5
<1> HIDE DEF y
<1>7. SumOver(c, b \ {y}) = c[x] + SumOver(c, (b \ {y}) \ {x})
  BY <1>1, <1>2, <1>4, <1>6
<1>8. SumOver(c, b \ {x}) = c[y] + SumOver(c, (b \ {x}) \ {y})
  BY <1>1, <1>2, <1>4, <1>6
<1>9. (b \ {x}) \ {y} = (b \ {y}) \ {x} OBVIOUS
<1>10. SumOver(c, (b \ {x}) \ {y}) \in Int /\ c[x] \in Int /\ c[y] \in Int
  <2>1. IsFiniteSet((b \ {x}) \ {y}) BY <1>2, FS_Subset
  <2> QED BY <1>2, <1>4, <2>1, SumType
<1> DEFINE r == SumOver(c, (b \ {x}) \ {y})
<1> HIDE DEF B, r
<1>11. /\ SumOver(c, b) = c[y] + (c[x] + r) /\ SumOver(c, b \ {x}) = c[y] + r
       /\ r \in Int /\ c[x] \in Int /\ c[y] \in Int
  BY <1>5, <1>7, <1>8, <1>9, <1>10 DEF r
<1>12. SumOver(c, b) = c[x] + SumOver(c, b \ {x}) BY <1>11
<1> QED BY <1>3, <1>12

(* The same, one element more *)
LEMMA SumAdd ==
  ASSUME NEW c, NEW S, IsFiniteSet(S), NEW e, e \notin S, \A x \in S \cup {e} : c[x] \in Int
  PROVE  SumOver(c, S \cup {e}) = c[e] + SumOver(c, S)
<1>1. IsFiniteSet(S \cup {e}) BY FS_AddElement
<1>2. (S \cup {e}) \ {e} = S OBVIOUS
<1> QED BY <1>1, <1>2, SumRemove

(* The sum over nothing *)
LEMMA SumEmpty == ASSUME NEW c PROVE SumOver(c, {}) = 0
  BY FS_EmptySet, SumChosen

(* Total is the sum over the domain *)
LEMMA TotalIs == ASSUME NEW c PROVE Total(c) = SumOver(c, DOMAIN c)
  BY DEF Total, SumOver

(* Equal terms, equal sums *)
LEMMA SumSame ==
  ASSUME NEW c, NEW d, NEW S, IsFiniteSet(S), \A x \in S : c[x] \in Int /\ c[x] = d[x]
  PROVE  SumOver(c, S) = SumOver(d, S)
<1> DEFINE G == {s \in SUBSET S : SumOver(c, s) = SumOver(d, s)}
<1>1. {} \in G BY SumEmpty
<1>2. ASSUME NEW s \in SUBSET S, NEW x \in S \ s, s \in G PROVE s \cup {x} \in G
  <2>1. IsFiniteSet(s) BY FS_Subset
  <2>2. SumOver(c, s \cup {x}) = c[x] + SumOver(c, s) BY <2>1, SumAdd
  <2>3. SumOver(d, s \cup {x}) = d[x] + SumOver(d, s) BY <2>1, SumAdd
  <2> QED BY <1>2, <2>2, <2>3
<1> HIDE DEF G
<1>3. S \in G BY <1>1, <1>2, SubsetInduction
<1> QED BY <1>3 DEF G

(* The sum of sums *)
LEMMA SumPlus ==
  ASSUME NEW a, NEW b, NEW c, NEW S, IsFiniteSet(S),
         \A x \in S : a[x] \in Int /\ b[x] \in Int /\ c[x] = a[x] + b[x]
  PROVE  SumOver(c, S) = SumOver(a, S) + SumOver(b, S)
<1> DEFINE G == {s \in SUBSET S : SumOver(c, s) = SumOver(a, s) + SumOver(b, s)}
<1>1. {} \in G BY SumEmpty
<1>2. ASSUME NEW s \in SUBSET S, NEW x \in S \ s, s \in G PROVE s \cup {x} \in G
  <2>1. IsFiniteSet(s) BY FS_Subset
  <2>2. /\ SumOver(a, s \cup {x}) = a[x] + SumOver(a, s) /\ SumOver(a, s) \in Int
        /\ SumOver(b, s \cup {x}) = b[x] + SumOver(b, s) /\ SumOver(b, s) \in Int
        /\ SumOver(c, s \cup {x}) = c[x] + SumOver(c, s)
    BY <2>1, SumAdd, SumType
  <2>3. a[x] \in Int /\ b[x] \in Int /\ c[x] = a[x] + b[x] OBVIOUS
  <2>4. SumOver(c, s) = SumOver(a, s) + SumOver(b, s) BY <1>2
  <2>5. SumOver(c, s \cup {x}) = SumOver(a, s \cup {x}) + SumOver(b, s \cup {x})
    BY <2>2, <2>3, <2>4
  <2> QED BY <2>5
<1> HIDE DEF G
<1>3. S \in G BY <1>1, <1>2, SubsetInduction
<1> QED BY <1>3 DEF G

(* A common factor *)
LEMMA SumTimes ==
  ASSUME NEW a, NEW c, NEW f \in Int, NEW S, IsFiniteSet(S),
         \A x \in S : a[x] \in Int /\ c[x] = f * a[x]
  PROVE  SumOver(c, S) = f * SumOver(a, S)
<1> DEFINE G == {s \in SUBSET S : SumOver(c, s) = f * SumOver(a, s)}
<1>1. {} \in G BY SumEmpty
<1>2. ASSUME NEW s \in SUBSET S, NEW x \in S \ s, s \in G PROVE s \cup {x} \in G
  <2>1. IsFiniteSet(s) BY FS_Subset
  <2>2. /\ SumOver(a, s \cup {x}) = a[x] + SumOver(a, s) /\ SumOver(a, s) \in Int
        /\ SumOver(c, s \cup {x}) = c[x] + SumOver(c, s)
    BY <2>1, SumAdd, SumType
  <2>3. a[x] \in Int /\ c[x] = f * a[x] OBVIOUS
  <2>4. SumOver(c, s) = f * SumOver(a, s) BY <1>2
  <2>5. f * a[x] + f * SumOver(a, s) = f * (a[x] + SumOver(a, s)) BY <2>2, <2>3
  <2>6. SumOver(c, s \cup {x}) = f * SumOver(a, s \cup {x}) BY <2>2, <2>3, <2>4, <2>5
  <2> QED BY <2>6
<1> HIDE DEF G
<1>3. S \in G BY <1>1, <1>2, SubsetInduction
<1> QED BY <1>3 DEF G

(* Greater terms, a greater sum *)
LEMMA SumAtMost ==
  ASSUME NEW a, NEW b, NEW S, IsFiniteSet(S),
         \A x \in S : a[x] \in Int /\ b[x] \in Int /\ a[x] <= b[x]
  PROVE  SumOver(a, S) <= SumOver(b, S)
<1> DEFINE G == {s \in SUBSET S : SumOver(a, s) <= SumOver(b, s)}
<1>1. {} \in G BY SumEmpty
<1>2. ASSUME NEW s \in SUBSET S, NEW x \in S \ s, s \in G PROVE s \cup {x} \in G
  <2>1. IsFiniteSet(s) BY FS_Subset
  <2>2. /\ SumOver(a, s \cup {x}) = a[x] + SumOver(a, s) /\ SumOver(a, s) \in Int
        /\ SumOver(b, s \cup {x}) = b[x] + SumOver(b, s) /\ SumOver(b, s) \in Int
    BY <2>1, SumAdd, SumType
  <2>3. a[x] \in Int /\ b[x] \in Int /\ a[x] <= b[x] OBVIOUS
  <2>4. SumOver(a, s) <= SumOver(b, s) BY <1>2
  <2>5. SumOver(a, s \cup {x}) <= SumOver(b, s \cup {x}) BY <2>2, <2>3, <2>4
  <2> QED BY <2>5
<1> HIDE DEF G
<1>3. S \in G BY <1>1, <1>2, SubsetInduction
<1> QED BY <1>3 DEF G

(* Counting is adding ones *)
LEMMA SumOfOnes ==
  ASSUME NEW c, NEW S, IsFiniteSet(S), \A x \in S : c[x] = 1
  PROVE  SumOver(c, S) = Cardinality(S)
<1> DEFINE G == {s \in SUBSET S : SumOver(c, s) = Cardinality(s)}
<1>1. {} \in G BY SumEmpty, FS_EmptySet
<1>2. ASSUME NEW s \in SUBSET S, NEW x \in S \ s, s \in G PROVE s \cup {x} \in G
  <2>1. IsFiniteSet(s) /\ Cardinality(s) \in Nat BY FS_Subset, FS_CardinalityType
  <2>2. SumOver(c, s \cup {x}) = c[x] + SumOver(c, s) BY <2>1, SumAdd
  <2>3. Cardinality(s \cup {x}) = Cardinality(s) + 1 BY <2>1, FS_AddElement
  <2> QED BY <1>2, <2>1, <2>2, <2>3
<1> HIDE DEF G
<1>3. S \in G BY <1>1, <1>2, SubsetInduction
<1> QED BY <1>3 DEF G

(* The sum over two sets *)
LEMMA SumUnion ==
  ASSUME NEW c, NEW S, IsFiniteSet(S), NEW T \in SUBSET S, \A x \in S : c[x] \in Int
  PROVE  SumOver(c, S) = SumOver(c, T) + SumOver(c, S \ T)
<1> DEFINE G == {s \in SUBSET S : SumOver(c, s) = SumOver(c, s \cap T) + SumOver(c, s \ T)}
<1>1. {} \in G
  <2>1. {} \cap T = {} /\ {} \ T = {} OBVIOUS
  <2> QED BY <2>1, SumEmpty
<1>2. ASSUME NEW s \in SUBSET S, NEW x \in S \ s, s \in G PROVE s \cup {x} \in G
  <2>1. IsFiniteSet(s) /\ IsFiniteSet(s \cap T) /\ IsFiniteSet(s \ T) BY FS_Subset
  <2>2. /\ SumOver(c, s \cup {x}) = c[x] + SumOver(c, s)
        /\ SumOver(c, s \cap T) \in Int /\ SumOver(c, s \ T) \in Int /\ c[x] \in Int
    BY <2>1, SumAdd, SumType
  <2>3. SumOver(c, s) = SumOver(c, s \cap T) + SumOver(c, s \ T) BY <1>2
  <2>4. CASE x \in T
    <3>1. (s \cup {x}) \cap T = (s \cap T) \cup {x} /\ (s \cup {x}) \ T = s \ T BY <2>4
    <3>2. SumOver(c, (s \cap T) \cup {x}) = c[x] + SumOver(c, s \cap T) BY <2>1, SumAdd
    <3>3. /\ SumOver(c, (s \cup {x}) \cap T) = c[x] + SumOver(c, s \cap T)
          /\ SumOver(c, (s \cup {x}) \ T) = SumOver(c, s \ T)
      BY <3>1, <3>2
    <3> HIDE DEF G
    <3>4. SumOver(c, s \cup {x}) = SumOver(c, (s \cup {x}) \cap T) + SumOver(c, (s \cup {x}) \ T)
      BY <2>2, <2>3, <3>3
    <3> USE DEF G
    <3> QED BY <3>4
  <2>5. CASE x \notin T
    <3>1. (s \cup {x}) \cap T = s \cap T /\ (s \cup {x}) \ T = (s \ T) \cup {x} BY <2>5
    <3>2. SumOver(c, (s \ T) \cup {x}) = c[x] + SumOver(c, s \ T) BY <2>1, SumAdd
    <3>3. /\ SumOver(c, (s \cup {x}) \cap T) = SumOver(c, s \cap T)
          /\ SumOver(c, (s \cup {x}) \ T) = c[x] + SumOver(c, s \ T)
      BY <3>1, <3>2
    <3> HIDE DEF G
    <3>4. SumOver(c, s \cup {x}) = SumOver(c, (s \cup {x}) \cap T) + SumOver(c, (s \cup {x}) \ T)
      BY <2>2, <2>3, <3>3
    <3> USE DEF G
    <3> QED BY <3>4
  <2> QED BY <2>4, <2>5
<1> HIDE DEF G
<1>3. S \in G BY <1>1, <1>2, SubsetInduction
<1>4. S \cap T = T OBVIOUS
<1> QED BY <1>3, <1>4 DEF G

(* h sorts S into T, and f holds the sums of w there *)
Fibred(f, T, w, S, h) ==
  /\ IsFiniteSet(S) /\ IsFiniteSet(T)
  /\ \A x \in S : h[x] \in T /\ w[x] \in Int
  /\ \A t \in T : f[t] = SumOver(w, {x \in S : h[x] = t})

(* A sum is that of the sums over the fibres of h *)
LEMMA FibredSum ==
  ASSUME NEW f, NEW T, NEW w, NEW S, NEW h, Fibred(f, T, w, S, h)
  PROVE  SumOver(f, T) = SumOver(w, S)
<1>0. /\ IsFiniteSet(S) /\ IsFiniteSet(T) /\ \A x \in S : h[x] \in T /\ w[x] \in Int
      /\ \A t \in T : f[t] = SumOver(w, {x \in S : h[x] = t})
  BY DEF Fibred
<1> USE <1>0
<1> DEFINE Over(s) == {x \in S : h[x] \in s}
           G == {s \in SUBSET T : SumOver(f, s) = SumOver(w, Over(s))}
<1>1. {} \in G
  <2>1. Over({}) = {} OBVIOUS
  <2> QED BY <2>1, SumEmpty
<1>2. ASSUME NEW s \in SUBSET T, NEW t \in T \ s, s \in G PROVE s \cup {t} \in G
  <2> DEFINE U == Over(s \cup {t})
  <2>1. IsFiniteSet(s) /\ IsFiniteSet(U) /\ Over(s) \in SUBSET U BY FS_Subset
  <2>2. U \ Over(s) = {x \in S : h[x] = t} OBVIOUS
  <2>3. \A x \in U : w[x] \in Int OBVIOUS
  <2>4. \A u \in T : SumOver(w, {x \in S : h[x] = u}) \in Int
    <3> SUFFICES ASSUME NEW u \in T PROVE SumOver(w, {x \in S : h[x] = u}) \in Int
      OBVIOUS
    <3>1. IsFiniteSet({x \in S : h[x] = u}) BY FS_Subset
    <3> QED BY <3>1, SumType
  <2>11. \A u \in s \cup {t} : f[u] \in Int BY <2>4
  <2> HIDE DEF U, Over
  <2>5. SumOver(f, s \cup {t}) = f[t] + SumOver(f, s) BY <2>1, <2>11, SumAdd
  <2>6. SumOver(w, U) = SumOver(w, Over(s)) + SumOver(w, U \ Over(s)) BY <2>1, <2>3, SumUnion
  <2>7. SumOver(f, s) = SumOver(w, Over(s)) BY <1>2
  <2>8. f[t] \in Int /\ f[t] = SumOver(w, U \ Over(s)) BY <2>2, <2>4
  <2>9. SumOver(w, Over(s)) \in Int
    <3>1. IsFiniteSet(Over(s)) /\ \A x \in Over(s) : w[x] \in Int BY <2>1, <2>3, FS_Subset
    <3> QED BY <3>1, SumType
  <2>10. SumOver(f, s \cup {t}) = SumOver(w, U) BY <2>5, <2>6, <2>7, <2>8, <2>9
  <2> QED BY <2>10 DEF U
<1>3. Over(T) = S OBVIOUS
<1> HIDE DEF G, Over
<1>4. T \in G BY <1>1, <1>2, SubsetInduction
<1> QED BY <1>3, <1>4 DEF G

(* The same without a name for it *)
LEMMA SumOfFibres ==
  ASSUME NEW w, NEW S, IsFiniteSet(S), \A x \in S : w[x] \in Int,
         NEW T, IsFiniteSet(T), NEW h, \A x \in S : h[x] \in T,
         NEW f, \A t \in T : f[t] = SumOver(w, {x \in S : h[x] = t})
  PROVE  SumOver(f, T) = SumOver(w, S)
<1>1. Fibred(f, T, w, S, h) BY DEF Fibred
<1> QED BY <1>1, FibredSum

(* Every element is in one fibre of h *)
LEMMA CountOfFibres ==
  ASSUME NEW S, IsFiniteSet(S), NEW T, IsFiniteSet(T), NEW h, \A x \in S : h[x] \in T,
         NEW f, \A t \in T : f[t] = Cardinality({x \in S : h[x] = t})
  PROVE  SumOver(f, T) = Cardinality(S)
<1> DEFINE w == [x \in S |-> 1]
<1>1. ASSUME NEW t \in T PROVE f[t] = SumOver(w, {x \in S : h[x] = t})
  <2> DEFINE U == {x \in S : h[x] = t}
  <2>1. IsFiniteSet(U) /\ \A x \in U : w[x] = 1 BY FS_Subset
  <2> HIDE DEF w, U
  <2>2. SumOver(w, U) = Cardinality(U) BY <2>1, SumOfOnes
  <2> QED BY <2>2 DEF U
<1>2. (\A x \in S : w[x] = 1) /\ (\A x \in S : w[x] \in Int) OBVIOUS
<1> HIDE DEF w
<1>3. \A t \in T : f[t] = SumOver(w, {x \in S : h[x] = t}) BY <1>1
<1>4. SumOver(f, T) = SumOver(w, S) BY <1>2, <1>3, SumOfFibres
<1> QED BY <1>2, <1>4, SumOfOnes

(* a has the sums of the rows of w, and b those of its columns *)
Margins(S, T, w, a, b) ==
  /\ IsFiniteSet(S) /\ IsFiniteSet(T)
  /\ \A x \in S : \A t \in T : w[x][t] \in Int
  /\ \A x \in S : a[x] = SumOver(w[x], T)
  /\ \A t \in T : b[t] = SumOver([x \in S |-> w[x][t]], S)

(* Row by row or column by column *)
LEMMA SumSwap ==
  ASSUME NEW S, NEW T, NEW w, NEW a, NEW b, Margins(S, T, w, a, b)
  PROVE  SumOver(a, S) = SumOver(b, T)
<1> USE DEF Margins
<1> DEFINE column(t) == [x \in S |-> w[x][t]]
           columns(s) == [t \in T |-> SumOver(column(t), s)]
           G == {s \in SUBSET S : SumOver(a, s) = SumOver(columns(s), T)}
<1>1. \A s \in SUBSET S : IsFiniteSet(s) BY FS_Subset
<1>2. \A s \in SUBSET S : \A t \in T : SumOver(column(t), s) \in Int
  <2> SUFFICES ASSUME NEW s \in SUBSET S, NEW t \in T PROVE SumOver(column(t), s) \in Int
    OBVIOUS
  <2>1. \A x \in s : column(t)[x] \in Int OBVIOUS
  <2> QED BY <1>1, <2>1, SumType
<1>3. \A x \in S : a[x] \in Int
  <2> SUFFICES ASSUME NEW x \in S PROVE SumOver(w[x], T) \in Int
    OBVIOUS
  <2> QED BY SumType
<1>4. {} \in G
  <2>1. \A t \in T : columns({})[t] = 0 BY SumEmpty
  <2>2. SumOver(columns({}), T) = 0 * SumOver(columns({}), T)
    <3>1. \A t \in T : columns({})[t] \in Int /\ columns({})[t] = 0 * columns({})[t] BY <2>1
    <3> HIDE DEF columns
    <3> QED BY <3>1, SumTimes
  <2>3. SumOver(columns({}), T) \in Int
    <3>1. \A t \in T : columns({})[t] \in Int BY <2>1
    <3> HIDE DEF columns
    <3> QED BY <3>1, SumType
  <2>4. SumOver(columns({}), T) = 0 BY <2>2, <2>3
  <2> QED BY <2>4, SumEmpty
<1>5. ASSUME NEW s \in SUBSET S, NEW x \in S \ s, s \in G PROVE s \cup {x} \in G
  <2>1. \A t \in T : columns(s \cup {x})[t] = w[x][t] + columns(s)[t]
    <3> SUFFICES ASSUME NEW t \in T
                 PROVE  SumOver(column(t), s \cup {x}) = w[x][t] + SumOver(column(t), s)
      OBVIOUS
    <3>1. column(t)[x] = w[x][t] /\ \A y \in s \cup {x} : column(t)[y] \in Int OBVIOUS
    <3> HIDE DEF column
    <3> QED BY <1>1, <3>1, SumAdd
  <2>2. \A t \in T : /\ w[x][t] \in Int /\ columns(s)[t] \in Int
                     /\ columns(s \cup {x})[t] = w[x][t] + columns(s)[t]
    BY <1>2, <2>1
  <2>3. s \cup {x} \in SUBSET S OBVIOUS
  <2>4. SumOver(a, s) = SumOver(columns(s), T) BY <1>5
  <2> DEFINE row == w[x]
             above == columns(s)
             all == columns(s \cup {x})
  <2>b. \A t \in T : row[t] \in Int /\ above[t] \in Int /\ all[t] = row[t] + above[t] BY <2>2
  <2> HIDE DEF columns, column, G, row, above, all
  <2>c. SumOver(all, T) = SumOver(row, T) + SumOver(above, T) BY <2>b, SumPlus
  <2>5. SumOver(columns(s \cup {x}), T) = SumOver(w[x], T) + SumOver(columns(s), T)
    BY <2>c DEF row, above, all
  <2>6. SumOver(a, s \cup {x}) = a[x] + SumOver(a, s) BY <1>1, <1>3, SumAdd
  <2>7. SumOver(a, s \cup {x}) = SumOver(columns(s \cup {x}), T) BY <2>4, <2>5, <2>6
  <2> QED BY <2>3, <2>7 DEF G
<1> HIDE DEF G
<1>6. S \in G BY <1>4, <1>5, SubsetInduction
<1>7. \A t \in T : columns(S)[t] = b[t] /\ columns(S)[t] \in Int BY <1>2
<1>8. SumOver(a, S) = SumOver(columns(S), T) BY <1>6 DEF G
<1> HIDE DEF columns, column
<1>9. SumOver(columns(S), T) = SumOver(b, T) BY <1>7, SumSame
<1> QED BY <1>8, <1>9

-----------------------------------------------------------------------------
(* A finite set of integers has a greatest element *)
LEMMA GreatestIsIn ==
  ASSUME NEW S \in SUBSET Int, IsFiniteSet(S), S # {}
  PROVE  Max(S) \in S /\ \A y \in S : y <= Max(S)
<1> DEFINE G == {s \in SUBSET S : s # {} => \E x \in s : \A y \in s : x >= y}
<1>1. {} \in G OBVIOUS
<1>2. ASSUME NEW s \in SUBSET S, NEW z \in S \ s, s \in G PROVE s \cup {z} \in G
  <2>1. CASE s = {} BY <2>1
  <2>2. CASE s # {}
    <3>1. PICK x \in s : \A y \in s : x >= y BY <1>2, <2>2
    <3>2. CASE z >= x BY <3>1, <3>2
    <3>3. CASE ~(z >= x) BY <3>1, <3>3
    <3> QED BY <3>2, <3>3
  <2> QED BY <2>1, <2>2
<1> HIDE DEF G
<1>3. S \in G BY <1>1, <1>2, SubsetInduction
<1>4. \E x \in S : \A y \in S : x >= y BY <1>3 DEF G
<1>5. Max(S) \in S /\ \A y \in S : Max(S) >= y BY <1>4 DEF Max
<1> QED BY <1>5

(* ... and a least one *)
LEMMA LeastIsIn ==
  ASSUME NEW S \in SUBSET Int, IsFiniteSet(S), S # {}
  PROVE  Min(S) \in S /\ \A y \in S : Min(S) <= y
<1> DEFINE G == {s \in SUBSET S : s # {} => \E x \in s : \A y \in s : x <= y}
<1>1. {} \in G OBVIOUS
<1>2. ASSUME NEW s \in SUBSET S, NEW z \in S \ s, s \in G PROVE s \cup {z} \in G
  <2>1. CASE s = {} BY <2>1
  <2>2. CASE s # {}
    <3>1. PICK x \in s : \A y \in s : x <= y BY <1>2, <2>2
    <3>2. CASE z <= x BY <3>1, <3>2
    <3>3. CASE ~(z <= x) BY <3>1, <3>3
    <3> QED BY <3>2, <3>3
  <2> QED BY <2>1, <2>2
<1> HIDE DEF G
<1>3. S \in G BY <1>1, <1>2, SubsetInduction
<1>4. \E x \in S : \A y \in S : x <= y BY <1>3 DEF G
<1>5. Min(S) \in S /\ \A y \in S : Min(S) <= y BY <1>4 DEF Min
<1> QED BY <1>5

(* Of two numbers *)
LEMMA MaxMinOfTwo ==
  ASSUME NEW a \in Int, NEW b \in Int
  PROVE  /\ Max({a, b}) = IF a >= b THEN a ELSE b
         /\ Min({a, b}) = IF a <= b THEN a ELSE b
<1>1. ASSUME NEW S, NEW x \in S, \A y \in S : x >= y, S \subseteq Int PROVE Max(S) = x
  <2>1. Max(S) \in S /\ \A y \in S : Max(S) >= y BY <1>1 DEF Max
  <2>2. Max(S) >= x /\ x >= Max(S) /\ Max(S) \in Int /\ x \in Int BY <1>1, <2>1
  <2> QED BY <2>2
<1>2. ASSUME NEW S, NEW x \in S, \A y \in S : x <= y, S \subseteq Int PROVE Min(S) = x
  <2>1. Min(S) \in S /\ \A y \in S : Min(S) <= y BY <1>2 DEF Min
  <2>2. Min(S) <= x /\ x <= Min(S) /\ Min(S) \in Int /\ x \in Int BY <1>2, <2>1
  <2> QED BY <2>2
<1> DEFINE S == {a, b}
<1>3. S \subseteq Int /\ a \in S /\ b \in S OBVIOUS
<1>4. a >= b => \A y \in S : a >= y OBVIOUS
<1>5. ~(a >= b) => \A y \in S : b >= y OBVIOUS
<1>6. a <= b => \A y \in S : a <= y OBVIOUS
<1>7. ~(a <= b) => \A y \in S : b <= y OBVIOUS
<1> HIDE DEF S
<1>8. Max(S) = IF a >= b THEN a ELSE b BY <1>1, <1>3, <1>4, <1>5
<1>9. Min(S) = IF a <= b THEN a ELSE b BY <1>2, <1>3, <1>6, <1>7
<1> QED BY <1>8, <1>9 DEF S

(* clamp *)
LEMMA ClampIs ==
  ASSUME NEW x \in Int, NEW low \in Int, NEW high \in Int, low <= high
  PROVE  /\ Clamp(x, low, high) = IF x < low THEN low ELSE IF x > high THEN high ELSE x
         /\ Clamp(x, low, high) \in low..high
<1>1. Min({x, high}) \in Int /\ Min({x, high}) = IF x <= high THEN x ELSE high BY MaxMinOfTwo, ZenonT(30)
<1>2. Clamp(x, low, high) = IF low >= Min({x, high}) THEN low ELSE Min({x, high})
  BY <1>1, MaxMinOfTwo DEF Clamp
<1> QED BY <1>1, <1>2

-----------------------------------------------------------------------------
(* Division, as the solvers know it *)
LEMMA Division ==
  ASSUME NEW a \in Int, NEW b \in Nat \ {0}
  PROVE  /\ a \div b \in Int /\ a % b \in 0..(b - 1)
         /\ a = b * (a \div b) + (a % b)
  OBVIOUS

(* Rounding is off by half a unit at most *)
LEMMA RoundNear ==
  ASSUME NEW a \in Int, NEW b \in Nat \ {0}
  PROVE  Round(a, b) \in Int /\ 2 * (b * Round(a, b) - a) \in -b..b
<1> DEFINE q == a \div b
           r == a % b
<1>1. q \in Int /\ r \in 0..(b - 1) /\ a = b * q + r BY Division
<1>2. Round(a, b) = IF 2 * r > b \/ (2 * r = b /\ q % 2 = 1) THEN q + 1 ELSE q
  BY DEF Round
<1> HIDE DEF q, r
<1>3. CASE Round(a, b) = q /\ 2 * r <= b
  <2>1. b * Round(a, b) - a = -r BY <1>1, <1>3
  <2> QED BY <1>1, <1>3, <2>1
<1>4. CASE Round(a, b) = q + 1 /\ 2 * r >= b
  <2>1. b * (q + 1) = b * q + b BY <1>1
  <2>2. b * Round(a, b) - a = b - r BY <1>1, <1>4, <2>1
  <2> QED BY <1>1, <1>4, <2>2
<1>5. 2 * r > b \/ 2 * r = b \/ 2 * r < b BY <1>1
<1> QED BY <1>1, <1>2, <1>3, <1>4, <1>5

(* What is at most m times b is rounded to m at most, and never below 0 *)
LEMMA RoundWithin ==
  ASSUME NEW b \in Nat \ {0}, NEW m \in Nat, NEW a \in 0..(m * b)
  PROVE  Round(a, b) \in 0..m
<1> DEFINE k == Round(a, b)
<1>1. k \in Int /\ 2 * (b * k - a) \in -b..b /\ m * b \in Nat BY RoundNear
<1> HIDE DEF k
<1>2. k >= 0
  <2> SUFFICES ASSUME k <= -1 PROVE FALSE BY <1>1
  <2>1. b * k <= -b BY <1>1
  <2> QED BY <1>1, <2>1
<1>3. k <= m
  <2> SUFFICES ASSUME k >= m + 1 PROVE FALSE BY <1>1
  <2>1. b * k >= b * (m + 1) BY <1>1
  <2>2. b * (m + 1) = m * b + b OBVIOUS
  <2> QED BY <1>1, <2>1, <2>2
<1> QED BY <1>1, <1>2, <1>3 DEF k

-----------------------------------------------------------------------------
(* What a function makes of a finite set is finite *)
LEMMA FiniteImage ==
  ASSUME NEW S, IsFiniteSet(S), NEW h
  PROVE  IsFiniteSet({h[x] : x \in S}) /\ Cardinality({h[x] : x \in S}) <= Cardinality(S)
<1> DEFINE T == {h[x] : x \in S}
           g == [x \in S |-> h[x]]
<1>1. g \in Surjection(S, T) BY DEF Surjection
<1> HIDE DEF T, g
<1>2. IsFiniteSet(T) /\ Cardinality(T) <= Cardinality(S) BY <1>1, FS_Surjection
<1> QED BY <1>2 DEF T

(* The values of a finite family *)
LEMMA FiniteRange ==
  ASSUME NEW f, IsFiniteSet(DOMAIN f)
  PROVE  IsFiniteSet(Range(f))
  BY FiniteImage DEF Range

(* How many there are in a finite family *)
LEMMA SizeType ==
  ASSUME NEW f, IsFiniteSet(DOMAIN f)
  PROVE  Size(f) \in Nat /\ (Size(f) = 0 <=> DOMAIN f = {})
  BY FS_CardinalityType, FS_EmptySet DEF Size

(* A sequence is a finite family *)
LEMMA SizeOfSequence ==
  ASSUME NEW m \in Nat, NEW f, DOMAIN f = 1..m
  PROVE  IsFiniteSet(DOMAIN f) /\ Size(f) = m
<1>1. IsFiniteSet(1..m) /\ Cardinality(1..m) = m BY FS_Interval
<1> QED BY <1>1 DEF Size

-----------------------------------------------------------------------------
(* Sorting *)
Numbers(f) == IsFiniteSet(DOMAIN f) /\ \A k \in DOMAIN f : f[k] \in Int

Below(f, x) == {l \in DOMAIN f : f[l] < x}
UpTo(f, x)  == {l \in DOMAIN f : f[l] <= x}

(* x is the k-th of f in ascending order *)
Ranked(f, k, x) ==
  x \in Range(f) /\ Cardinality(Below(f, x)) < k /\ Cardinality(UpTo(f, x)) >= k

(* There is a k-th number *)
LEMMA RankedExists ==
  ASSUME NEW f, Numbers(f), NEW k \in 1..Size(f)
  PROVE  \E x \in Range(f) : Ranked(f, k, x)
<1> DEFINE D == DOMAIN f
           B == {x \in Range(f) : Cardinality(UpTo(f, x)) >= k}
<1>1. IsFiniteSet(D) /\ IsFiniteSet(Range(f)) /\ Size(f) \in Nat /\ Size(f) = Cardinality(D)
  BY FiniteRange, SizeType DEF Numbers, Size
<1>2. Range(f) \in SUBSET Int BY DEF Range, Numbers
<1>3. Range(f) # {}
  <2>1. D # {} BY <1>1, FS_EmptySet
  <2> QED BY <2>1 DEF Range
<1>4. Max(Range(f)) \in B
  <2>1. Max(Range(f)) \in Range(f) /\ \A y \in Range(f) : y <= Max(Range(f))
    BY <1>1, <1>2, <1>3, GreatestIsIn
  <2>2. UpTo(f, Max(Range(f))) = D BY <2>1 DEF UpTo, Range
  <2> QED BY <1>1, <2>1, <2>2
<1>5. B \in SUBSET Int /\ IsFiniteSet(B) /\ B # {} BY <1>1, <1>2, <1>4, FS_Subset
<1> DEFINE x == Min(B)
<1>6. x \in B /\ \A y \in B : x <= y
  <2> HIDE DEF B
  <2> QED BY <1>5, LeastIsIn
<1> HIDE DEF x
<1>7. Cardinality(Below(f, x)) < k
  <2> DEFINE V == {f[l] : l \in Below(f, x)}
  <2>1. Below(f, x) \in SUBSET D /\ x \in Int BY <1>5, <1>6 DEF Below
  <2>2. IsFiniteSet(Below(f, x)) BY <1>1, <2>1, FS_Subset
  <2>3. CASE Below(f, x) = {} BY <2>3, FS_EmptySet
  <2>4. CASE Below(f, x) # {}
    <3>1. V \in SUBSET Int /\ V # {} BY <2>1, <2>4 DEF Numbers
    <3>2. IsFiniteSet(V) BY <2>2, FiniteImage
    <3> DEFINE y == Max(V)
    <3>3. y \in V /\ \A z \in V : z <= y
      <4> HIDE DEF V
      <4> QED BY <3>1, <3>2, GreatestIsIn
    <3> HIDE DEF y
    <3>4. y \in Range(f) /\ y < x /\ y \in Int BY <2>1, <3>1, <3>3 DEF Below, Range
    <3>5. y \notin B
      <4>1. SUFFICES ASSUME y \in B PROVE FALSE OBVIOUS
      <4>2. x <= y BY <1>6, <4>1
      <4> QED BY <2>1, <3>4, <4>2
    <3>6. ~(Cardinality(UpTo(f, y)) >= k) BY <3>4, <3>5
    <3>7. Below(f, x) = UpTo(f, y)
      <4>1. ASSUME NEW l \in D PROVE f[l] < x <=> f[l] <= y
        <5>1. f[l] \in Int BY DEF Numbers
        <5>2. f[l] < x => f[l] <= y BY <3>3 DEF Below
        <5> QED BY <2>1, <3>4, <5>1, <5>2
      <4> QED BY <4>1 DEF Below, UpTo
    <3>8. Cardinality(Below(f, x)) \in Nat BY <2>2, FS_CardinalityType
    <3> QED BY <3>6, <3>7, <3>8
  <2> QED BY <2>3, <2>4
<1> QED BY <1>6, <1>7 DEF Ranked

(* Ranks are as the numbers are *)
LEMMA RankedOrder ==
  ASSUME NEW f, Numbers(f), NEW k \in Int, NEW l \in Int, k <= l,
         NEW x, Ranked(f, k, x), NEW y, Ranked(f, l, y)
  PROVE  x <= y
<1>1. x \in Int /\ y \in Int BY DEF Ranked, Range, Numbers
<1> SUFFICES ASSUME y < x PROVE FALSE BY <1>1
<1>2. UpTo(f, y) \in SUBSET Below(f, x)
  <2> SUFFICES ASSUME NEW m \in DOMAIN f, f[m] <= y PROVE f[m] < x BY DEF UpTo, Below
  <2>1. f[m] \in Int BY DEF Numbers
  <2> QED BY <1>1, <2>1
<1>3. IsFiniteSet(Below(f, x)) BY FS_Subset DEF Below, Numbers
<1>4. Cardinality(UpTo(f, y)) <= Cardinality(Below(f, x)) /\ IsFiniteSet(UpTo(f, y))
  BY <1>2, <1>3, FS_Subset
<1>5. Cardinality(UpTo(f, y)) \in Nat /\ Cardinality(Below(f, x)) \in Nat
  BY <1>3, <1>4, FS_CardinalityType
<1> QED BY <1>4, <1>5 DEF Ranked

(* Sorted gives the k-th number at k *)
LEMMA SortedRanks ==
  ASSUME NEW f, Numbers(f), NEW k \in 1..Size(f)
  PROVE  Ranked(f, k, Sorted(f)[k])
<1> DEFINE P(x) == /\ CountWhere(f, LAMBDA y : y < x) < k
                   /\ CountWhere(f, LAMBDA y : y <= x) >= k
<1>1. \A x : CountWhere(f, LAMBDA y : y < x) = Cardinality(Below(f, x))
             /\ CountWhere(f, LAMBDA y : y <= x) = Cardinality(UpTo(f, x))
  BY DEF CountWhere, Below, UpTo
<1>2. Sorted(f)[k] = CHOOSE x \in Range(f) : P(x) BY DEF Sorted
<1>3. PICK x \in Range(f) : Ranked(f, k, x) BY RankedExists
<1>4. P(x) BY <1>1, <1>3 DEF Ranked
<1>5. Sorted(f)[k] \in Range(f) /\ P(Sorted(f)[k])
  <2> HIDE DEF P
  <2> QED BY <1>2, <1>4
<1> QED BY <1>1, <1>5 DEF Ranked

(* A sorted family is an ascending sequence of its numbers *)
LEMMA SortedAscends ==
  ASSUME NEW f, Numbers(f)
  PROVE  /\ Sorted(f) \in Seq(Int) /\ Len(Sorted(f)) = Size(f) /\ Size(f) \in Nat
         /\ \A k \in 1..Size(f) : Sorted(f)[k] \in Int
         /\ \A k, l \in 1..Size(f) : k <= l => Sorted(f)[k] <= Sorted(f)[l]
<1>1. Size(f) \in Nat BY SizeType DEF Numbers
<1>2. ASSUME NEW k \in 1..Size(f) PROVE Sorted(f)[k] \in Int
  BY SortedRanks DEF Ranked, Range, Numbers
<1>3. ASSUME NEW k \in 1..Size(f), NEW l \in 1..Size(f), k <= l
      PROVE  Sorted(f)[k] <= Sorted(f)[l]
  <2>1. Ranked(f, k, Sorted(f)[k]) /\ Ranked(f, l, Sorted(f)[l]) BY SortedRanks
  <2> QED BY <1>1, <1>3, <2>1, RankedOrder
<1> DEFINE s == Sorted(f)
<1> DEFINE element(k) == CHOOSE x \in Range(f) : /\ CountWhere(f, LAMBDA y : y < x) < k
                                                /\ CountWhere(f, LAMBDA y : y <= x) >= k
<1>4. s = [k \in 1..Size(f) |-> s[k]]
  <2>1. s = [k \in 1..Size(f) |-> element(k)] BY DEF Sorted
  <2> HIDE DEF s, element
  <2> QED BY <2>1
<1> HIDE DEF s
<1>5. s \in Seq(Int) /\ Len(s) = Size(f)
  <2>1. \A k \in 1..Size(f) : s[k] \in Int BY <1>2 DEF s
  <2> QED BY <1>1, <1>4, <2>1
<1> QED BY <1>1, <1>2, <1>3, <1>5 DEF s

(* Its ends are the least and the greatest of them *)
LEMMA SortedEnds ==
  ASSUME NEW f, Numbers(f), NEW l \in DOMAIN f
  PROVE  1 \in 1..Size(f) /\ Sorted(f)[1] <= f[l] /\ f[l] <= Sorted(f)[Size(f)]
<1>1. Size(f) \in Nat \ {0} BY SizeType DEF Numbers
<1>2. f[l] \in Int BY DEF Numbers
<1> DEFINE a == Sorted(f)[1]
           b == Sorted(f)[Size(f)]
<1>3. Ranked(f, 1, a) /\ Ranked(f, Size(f), b) /\ a \in Int /\ b \in Int
  BY <1>1, SortedRanks, SortedAscends
<1> HIDE DEF a, b
<1>4. a <= f[l]
  <2>1. IsFiniteSet(Below(f, a)) BY FS_Subset DEF Below, Numbers
  <2>2. Cardinality(Below(f, a)) \in Nat /\ Cardinality(Below(f, a)) < 1
    BY <1>3, <2>1, FS_CardinalityType DEF Ranked
  <2>3. Below(f, a) = {} BY <2>1, <2>2, FS_EmptySet
  <2> QED BY <1>2, <1>3, <2>3 DEF Below
<1>5. f[l] <= b
  <2>1. UpTo(f, b) \in SUBSET DOMAIN f /\ IsFiniteSet(DOMAIN f) BY DEF UpTo, Numbers
  <2>2. Cardinality(UpTo(f, b)) <= Size(f) BY <2>1, FS_Subset DEF Size
  <2>3. IsFiniteSet(UpTo(f, b)) BY <2>1, FS_Subset
  <2>4. Cardinality(UpTo(f, b)) \in Nat /\ Cardinality(UpTo(f, b)) >= Size(f)
    BY <1>3, <2>3, FS_CardinalityType DEF Ranked
  <2>5. Cardinality(DOMAIN f) = Cardinality(UpTo(f, b)) BY <1>1, <2>2, <2>4 DEF Size
  <2>6. DOMAIN f = UpTo(f, b) BY <2>1, <2>5, FS_Subset
  <2> QED BY <2>6 DEF UpTo
<1> QED BY <1>1, <1>4, <1>5 DEF a, b

-----------------------------------------------------------------------------
(* The sum of naturals is one *)
LEMMA SumOfNaturals ==
  ASSUME NEW c, NEW S, IsFiniteSet(S), \A x \in S : c[x] \in Nat
  PROVE  SumOver(c, S) \in Nat
<1> DEFINE zero == [x \in S |-> 0]
<1>1. \A x \in S : zero[x] = 0 * zero[x] /\ zero[x] \in Int OBVIOUS
<1>2. \A x \in S : zero[x] \in Int /\ c[x] \in Int /\ zero[x] <= c[x] OBVIOUS
<1> HIDE DEF zero
<1>3. SumOver(zero, S) = 0 * SumOver(zero, S) /\ SumOver(zero, S) \in Int
  BY <1>1, SumTimes, SumType
<1>4. SumOver(zero, S) <= SumOver(c, S) /\ SumOver(c, S) \in Int BY <1>2, SumAtMost, SumType
<1> QED BY <1>3, <1>4

(* The sum of a constant *)
LEMMA SumOfConstant ==
  ASSUME NEW c, NEW f \in Int, NEW S, IsFiniteSet(S), \A x \in S : c[x] = f
  PROVE  SumOver(c, S) = f * Cardinality(S)
<1> DEFINE one == [x \in S |-> 1]
<1>1. (\A x \in S : one[x] = 1) /\ (\A x \in S : one[x] \in Int /\ c[x] = f * one[x]) OBVIOUS
<1> HIDE DEF one
<1>2. SumOver(one, S) = Cardinality(S) BY <1>1, SumOfOnes
<1>3. SumOver(c, S) = f * SumOver(one, S) BY <1>1, SumTimes
<1> QED BY <1>2, <1>3

Squares(f)         == [x \in DOMAIN f |-> f[x] * f[x]]
SquaresOf(m, f, a) == [x \in DOMAIN f |-> (m * f[x] - a) * (m * f[x] - a)]

(* The sum of the squares of m times a number less a *)
LEMMA SumOfSquares ==
  ASSUME NEW f, Numbers(f), NEW m \in Int, NEW a \in Int
  PROVE  /\ Total(Squares(f)) \in Int /\ Total(f) \in Int
         /\ Total(SquaresOf(m, f, a)) = (m * m) * Total(Squares(f)) + (-2 * (m * a)) * Total(f)
                                          + (a * a) * Size(f)
<1> DEFINE S == DOMAIN f
           q == Squares(f)
           d == SquaresOf(m, f, a)
           b == [x \in S |-> (m * m) * q[x]]
           l == [x \in S |-> (-2 * (m * a)) * f[x]]
           e == [x \in S |-> a * a]
           t == [x \in S |-> b[x] + l[x]]
<1>1. ASSUME NEW x \in S
      PROVE  /\ f[x] \in Int /\ q[x] \in Int /\ b[x] \in Int /\ l[x] \in Int /\ e[x] \in Int
             /\ t[x] \in Int /\ t[x] = b[x] + l[x] /\ d[x] = t[x] + e[x]
             /\ b[x] = (m * m) * q[x] /\ l[x] = (-2 * (m * a)) * f[x] /\ e[x] = a * a
  <2>1. f[x] \in Int /\ q[x] = f[x] * f[x] /\ d[x] = (m * f[x] - a) * (m * f[x] - a)
    BY DEF Numbers, Squares, SquaresOf
  <2>2. \A y \in Int : (m * y - a) * (m * y - a) = (m * m) * (y * y) + (-2 * (m * a)) * y + a * a
    OBVIOUS
  <2> QED BY <2>1, <2>2
<1>2. m * m \in Int /\ -2 * (m * a) \in Int /\ a * a \in Int /\ IsFiniteSet(S) BY DEF Numbers
<1>9. Total(f) = SumOver(f, S) /\ Total(q) = SumOver(q, S) /\ Total(d) = SumOver(d, S)
  BY DEF Total, SumOver, Squares, SquaresOf
<1> HIDE DEF b, l, e, t, q, d, S
<1>3. SumOver(d, S) = SumOver(t, S) + SumOver(e, S) BY <1>1, <1>2, SumPlus
<1>4. SumOver(t, S) = SumOver(b, S) + SumOver(l, S) BY <1>1, <1>2, SumPlus
<1>5. SumOver(b, S) = (m * m) * SumOver(q, S) BY <1>1, <1>2, SumTimes
<1>6. SumOver(l, S) = (-2 * (m * a)) * SumOver(f, S) BY <1>1, <1>2, SumTimes
<1>7. SumOver(e, S) = (a * a) * Cardinality(S) BY <1>1, <1>2, SumOfConstant
<1>8. SumOver(q, S) \in Int /\ SumOver(f, S) \in Int BY <1>1, <1>2, SumType
<1>10. SumOver(d, S) = (m * m) * SumOver(q, S) + (-2 * (m * a)) * SumOver(f, S)
                         + (a * a) * Cardinality(S)
  BY <1>3, <1>4, <1>5, <1>6, <1>7
<1> QED BY <1>8, <1>9, <1>10 DEF Size, S, q, d

(* A factor of what is not negative *)
LEMMA FactorNotNegative ==
  ASSUME NEW m \in Nat \ {0}, NEW v \in Int, m * v >= 0
  PROVE  v >= 0
<1> SUFFICES ASSUME v <= -1 PROVE FALSE OBVIOUS
<1>1. m * v <= m * (-1) OBVIOUS
<1> QED BY <1>1

(* Cauchy and Schwarz: a variance is not negative *)
LEMMA VarianceNotNegative ==
  ASSUME NEW f, Numbers(f)
  PROVE  /\ Total(Squares(f)) \in Int /\ Total(f) \in Int /\ Size(f) \in Nat
         /\ Size(f) * Total(Squares(f)) - Total(f) * Total(f) >= 0
<1> DEFINE m == Size(f)
           s == Total(f)
           q == Total(Squares(f))
           d == SquaresOf(m, f, s)
<1>1. m \in Nat /\ s \in Int /\ q \in Int
      /\ Total(d) = (m * m) * q + (-2 * (m * s)) * s + (s * s) * m
  <2>1. m \in Nat BY SizeType DEF Numbers
  <2>2. s \in Int BY SumOfSquares
  <2> QED BY <2>1, <2>2, SumOfSquares
<1>2. CASE m = 0
  <2>1. DOMAIN f = {} BY <1>2, SizeType DEF Numbers
  <2>2. s = 0 BY <2>1, SumEmpty, TotalIs
  <2> HIDE DEF m, s, q
  <2>3. m * q = 0 /\ s * s = 0 BY <1>1, <1>2, <2>2
  <2> QED BY <1>1, <2>3 DEF m, s, q
<1>3. CASE m # 0
  <2>1. \A x \in DOMAIN f : d[x] \in Nat
    <3>1. \A y \in Int : (m * y - s) * (m * y - s) \in Nat
      <4> HIDE DEF m, s
      <4>1. \A y \in Int : m * y - s \in Int BY <1>1
      <4>2. \A z \in Int : z * z \in Nat
        <5>1. \A z \in Int : z >= 0 => z * z >= 0 OBVIOUS
        <5>2. \A z \in Int : z <= 0 => z * z >= 0 OBVIOUS
        <5>3. \A z \in Int : z * z >= 0 BY <5>1, <5>2
        <5> QED BY <5>3
      <4> QED BY <4>1, <4>2
    <3>2. \A x \in DOMAIN f : d[x] = (m * f[x] - s) * (m * f[x] - s) BY DEF SquaresOf
    <3> HIDE DEF m, s, d
    <3> QED BY <3>1, <3>2 DEF Numbers
  <2>2. Total(d) \in Nat
    <3>1. DOMAIN d = DOMAIN f /\ IsFiniteSet(DOMAIN f) BY DEF SquaresOf, Numbers
    <3> HIDE DEF d
    <3>2. SumOver(d, DOMAIN f) \in Nat BY <2>1, <3>1, SumOfNaturals
    <3> QED BY <3>1, <3>2 DEF Total, SumOver
  <2> HIDE DEF d, m, s, q
  <2>3. (m * m) * q + (-2 * (m * s)) * s + (s * s) * m = m * (m * q - s * s) BY <1>1
  <2>4. m * q - s * s \in Int /\ m \in Nat \ {0} BY <1>1, <1>3
  <2>5. m * q - s * s >= 0 BY <1>1, <2>2, <2>3, <2>4, FactorNotNegative
  <2> QED BY <1>1, <2>5 DEF m, s, q
<1> QED BY <1>2, <1>3

(* The integer square root *)
LEMMA SquareRoot ==
  ASSUME NEW sq \in Nat
  PROVE  \E r \in 0..(sq + 1) : r * r <= sq /\ sq < (r + 1) * (r + 1)
<1> DEFINE G == {z \in Nat : \E r \in 0..(z + 1) : r * r <= z /\ z < (r + 1) * (r + 1)}
<1>1. 0 \in G OBVIOUS
<1>2. ASSUME NEW z \in Nat, z \in G PROVE z + 1 \in G
  <2>1. PICK r \in 0..(z + 1) : r * r <= z /\ z < (r + 1) * (r + 1) BY <1>2
  <2>2. r \in Nat /\ r * r \in Nat /\ (r + 1) * (r + 1) \in Nat OBVIOUS
  <2>3. CASE z + 1 < (r + 1) * (r + 1)
    <3>1. r \in 0..(z + 2) /\ r * r <= z + 1 BY <2>1, <2>2
    <3> QED BY <2>3, <3>1
  <2>4. CASE ~(z + 1 < (r + 1) * (r + 1))
    <3>1. (r + 1) * (r + 1) <= z + 1 BY <2>1, <2>2, <2>4
    <3>2. (r + 2) * (r + 2) = (r + 1) * (r + 1) + 2 * r + 3 BY <2>2
    <3>3. z + 1 < (r + 2) * (r + 2) BY <2>1, <2>2, <3>2
    <3> DEFINE t == r + 1
    <3>4. t \in 0..(z + 2) /\ t + 1 = r + 2 /\ t = r + 1 OBVIOUS
    <3> HIDE DEF t
    <3>5. t * t <= z + 1 /\ z + 1 < (t + 1) * (t + 1) BY <3>1, <3>3, <3>4
    <3>6. (z + 1) + 1 = z + 2 /\ z + 1 \in Nat OBVIOUS
    <3> QED BY <3>4, <3>5, <3>6
  <2> QED BY <2>3, <2>4
<1> HIDE DEF G
<1>3. sq \in G BY <1>1, <1>2, NumberInduction
<1> QED BY <1>3 DEF G

(* Dividing what is not negative *)
LEMMA QuotientNotNegative ==
  ASSUME NEW a \in Nat, NEW b \in Nat \ {0}
  PROVE  a \div b \in Nat
<1>1. a \div b \in Int /\ a % b \in 0..(b - 1) /\ a = b * (a \div b) + (a % b) BY Division
<1> SUFFICES ASSUME a \div b <= -1 PROVE FALSE BY <1>1
<1>2. b * (a \div b) <= -b BY <1>1
<1> QED BY <1>1, <1>2

(* The coefficient of variation is a natural number *)
LEMMA CVType == ASSUME NEW f, Numbers(f) PROVE CV(f) \in Nat
<1> DEFINE sum == Total(f)
           v == Size(f) * Total(Squares(f)) - sum * sum
           sq == (((100 * v) \div sum) * 100) \div sum
           Root(r) == r * r <= sq /\ sq < (r + 1) * (r + 1)
<1>1. CV(f) = IF sum <= 0 THEN 0 ELSE CHOOSE r \in 0..(sq + 1) : Root(r)
  BY DEF CV, SumOf, Squares
<1>2. sum \in Int /\ v \in Int /\ v >= 0 BY VarianceNotNegative
<1> HIDE DEF sum, v
<1>3. CASE sum <= 0 BY <1>1, <1>3
<1>4. CASE ~(sum <= 0)
  <2>1. sum \in Nat \ {0} /\ 100 * v \in Nat BY <1>2, <1>4
  <2>2. (100 * v) \div sum \in Nat BY <2>1, QuotientNotNegative
  <2>3. ((100 * v) \div sum) * 100 \in Nat BY <2>2
  <2>4. sq \in Nat BY <2>1, <2>3, QuotientNotNegative
  <2> HIDE DEF sq
  <2>5. \E r \in 0..(sq + 1) : Root(r) BY <2>4, SquareRoot
  <2>6. (CHOOSE r \in 0..(sq + 1) : Root(r)) \in 0..(sq + 1) BY <2>5
  <2> QED BY <1>1, <1>4, <2>4, <2>6
<1> QED BY <1>3, <1>4

-----------------------------------------------------------------------------
(* What falls at every step falls from any place to a later one *)
LEMMA StepsDescend ==
  ASSUME NEW m \in Nat, NEW f, \A k \in 1..m : f[k] \in Int,
         \A k \in 1..m : k + 1 <= m => f[k + 1] < f[k]
  PROVE  \A k, l \in 1..m : k < l => f[l] < f[k]
<1> DEFINE G == {d \in Nat : \A k \in 1..m : k + d + 1 <= m => f[k + d + 1] < f[k]}
<1>1. 0 \in G OBVIOUS
<1>2. ASSUME NEW d \in Nat, d \in G PROVE d + 1 \in G
  <2> SUFFICES ASSUME NEW k \in 1..m, k + (d + 1) + 1 <= m PROVE f[k + (d + 1) + 1] < f[k]
    OBVIOUS
  <2> DEFINE l == k + d + 1
  <2>1. l \in 1..m /\ l + 1 <= m /\ l + 1 = k + (d + 1) + 1 OBVIOUS
  <2>2. f[l] < f[k] BY <1>2, <2>1
  <2> HIDE DEF l
  <2>3. f[l + 1] < f[l] /\ l + 1 \in 1..m BY <2>1
  <2>4. f[l + 1] < f[k] BY <2>1, <2>2, <2>3
  <2> QED BY <2>1, <2>4
<1> HIDE DEF G
<1>3. Nat \subseteq G BY <1>1, <1>2, NumberInduction
<1> SUFFICES ASSUME NEW k \in 1..m, NEW l \in 1..m, k < l PROVE f[l] < f[k]
  OBVIOUS
<1> DEFINE d == l - k - 1
<1>4. d \in Nat /\ k + d + 1 = l OBVIOUS
<1> HIDE DEF d
<1>5. d \in G BY <1>3, <1>4
<1> QED BY <1>4, <1>5 DEF G

(* Sorting what descends turns it round *)
LEMMA SortedReverses ==
  ASSUME NEW m \in Nat, NEW f, DOMAIN f = 1..m, Numbers(f),
         \A k, l \in 1..m : k < l => f[l] < f[k], NEW k \in 1..m
  PROVE  Sorted(f)[k] = f[m + 1 - k]
<1> DEFINE i == m + 1 - k
           x == f[i]
<1>1. i \in 1..m OBVIOUS
<1>2. \A l \in 1..m : f[l] \in Int BY DEF Numbers
<1>3. \A l \in 1..m : (f[l] < x <=> l > i) /\ (f[l] <= x <=> l >= i)
  <2> TAKE l \in 1..m
  <2>1. f[l] \in Int /\ x \in Int BY <1>1, <1>2
  <2>2. CASE l > i BY <1>1, <2>1, <2>2
  <2>3. CASE l = i BY <1>1, <2>1, <2>3
  <2>4. CASE l < i BY <1>1, <2>1, <2>4
  <2> QED BY <1>1, <2>2, <2>3, <2>4
<1> HIDE DEF x
<1>4. Below(f, x) = (i + 1)..m BY <1>1, <1>3 DEF Below
<1>5. UpTo(f, x) = i..m BY <1>1, <1>3 DEF UpTo
<1>6. Cardinality((i + 1)..m) = k - 1 /\ Cardinality(i..m) = k
  <2>1. i + 1 \in Int /\ i \in Int /\ m \in Int OBVIOUS
  <2>2. Cardinality((i + 1)..m) = IF i + 1 > m THEN 0 ELSE m - (i + 1) + 1
    BY <2>1, FS_Interval
  <2>3. Cardinality(i..m) = IF i > m THEN 0 ELSE m - i + 1 BY <2>1, FS_Interval
  <2> QED BY <2>2, <2>3
<1>7. x \in Range(f) BY <1>1 DEF Range, x
<1> HIDE DEF i
<1>8. Ranked(f, k, x) BY <1>4, <1>5, <1>6, <1>7 DEF Ranked
<1>9. Size(f) = m BY SizeOfSequence
<1>10. Ranked(f, k, Sorted(f)[k]) BY <1>9, SortedRanks
<1> DEFINE y == Sorted(f)[k]
<1>11. x \in Int /\ y \in Int BY <1>8, <1>10 DEF Ranked, Range, Numbers
<1> HIDE DEF y
<1>12. Ranked(f, k, y) BY <1>10 DEF y
<1>13. k \in Int /\ k <= k OBVIOUS
<1>14. x <= y /\ y <= x BY <1>8, <1>12, <1>13, RankedOrder
<1> QED BY <1>11, <1>14 DEF x, y, i

(* A variance small beside the mean leaves little after both divisions *)
LEMMA SmallQuotient ==
  ASSUME NEW v \in Nat, NEW s \in Nat \ {0}, NEW t \in Nat, t <= 2 * s, 400 * v <= t * t
  PROVE  (((100 * v) \div s) * 100) \div s <= 100
<1> DEFINE a == (100 * v) \div s
           b == (a * 100) \div s
<1>1. a \in Int /\ s * a <= 100 * v
  <2>1. 100 * v \in Int OBVIOUS
  <2>2. /\ a \in Int /\ (100 * v) % s \in 0..(s - 1) /\ 100 * v = s * a + ((100 * v) % s)
    BY <2>1, Division
  <2> HIDE DEF a
  <2>3. s * a \in Int BY <2>2
  <2> QED BY <2>2, <2>3
<1> HIDE DEF a
<1>2. b \in Int /\ s * b <= a * 100
  <2>1. a * 100 \in Int BY <1>1
  <2>2. /\ b \in Int /\ (a * 100) % s \in 0..(s - 1) /\ a * 100 = s * b + ((a * 100) % s)
    BY <2>1, Division
  <2> HIDE DEF b
  <2>3. s * b \in Int BY <2>2
  <2> QED BY <2>1, <2>2, <2>3
<1> HIDE DEF b
<1>3. t * t <= 4 * (s * s)
  <2>1. t * t <= t * (2 * s) OBVIOUS
  <2>2. t * (2 * s) <= (2 * s) * (2 * s) OBVIOUS
  <2>3. (2 * s) * (2 * s) = 4 * (s * s) OBVIOUS
  <2>4. t * t \in Int /\ t * (2 * s) \in Int /\ s * s \in Int OBVIOUS
  <2> QED BY <2>1, <2>2, <2>3, <2>4
<1>4. s * a <= s * s
  <2>1. s * a \in Int /\ s * s \in Int /\ t * t \in Int BY <1>1
  <2> QED BY <1>1, <1>3, <2>1
<1>5. a <= s
  <2> SUFFICES ASSUME a >= s + 1 PROVE FALSE BY <1>1
  <2>1. s * a >= s * (s + 1) BY <1>1
  <2>2. s * (s + 1) = s * s + s OBVIOUS
  <2>3. s * a \in Int /\ s * s \in Int BY <1>1
  <2> QED BY <1>4, <2>1, <2>2, <2>3
<1>6. b <= 100
  <2> SUFFICES ASSUME b >= 101 PROVE FALSE BY <1>2
  <2>1. s * b >= s * 101 BY <1>2
  <2>2. s * b \in Int BY <1>2
  <2> QED BY <1>1, <1>2, <1>5, <2>1, <2>2
<1> QED BY <1>6 DEF a, b

(* A coefficient of variation whose square is at most 100 is at most 10 *)
LEMMA CVAtMost ==
  ASSUME NEW f, Numbers(f), NEW v, v = Size(f) * Total(Squares(f)) - Total(f) * Total(f),
         Total(f) > 0, (((100 * v) \div Total(f)) * 100) \div Total(f) <= 100
  PROVE  CV(f) <= 10
<1> DEFINE sum == Total(f)
           sq == (((100 * v) \div sum) * 100) \div sum
           Root(r) == r * r <= sq /\ sq < (r + 1) * (r + 1)
<1>1. CV(f) = IF sum <= 0 THEN 0 ELSE CHOOSE r \in 0..(sq + 1) : Root(r)
  BY DEF CV, SumOf, Squares
<1>2. sum \in Int /\ v \in Int /\ v >= 0 /\ sum > 0 /\ sq <= 100 BY VarianceNotNegative
<1> HIDE DEF sum
<1>3. sum \in Nat \ {0} /\ 100 * v \in Nat BY <1>2
<1>4. (100 * v) \div sum \in Nat BY <1>3, QuotientNotNegative
<1>5. ((100 * v) \div sum) * 100 \in Nat BY <1>4
<1>6. sq \in Nat BY <1>3, <1>5, QuotientNotNegative
<1> HIDE DEF sq
<1>7. \E r \in 0..(sq + 1) : Root(r) BY <1>6, SquareRoot
<1> DEFINE r == CHOOSE r \in 0..(sq + 1) : Root(r)
<1>8. r \in 0..(sq + 1) /\ Root(r) BY <1>7
<1>9. CV(f) = r BY <1>1, <1>2
<1> HIDE DEF r
<1>10. r \in Nat /\ r * r <= sq BY <1>6, <1>8
<1>11. r <= 10
  <2> SUFFICES ASSUME r >= 11 PROVE FALSE BY <1>10
  <2>1. r * r >= 11 * r BY <1>10
  <2>2. 11 * r >= 121 /\ r * r \in Int BY <1>10
  <2> QED BY <1>2, <1>6, <1>10, <2>1, <2>2
<1> QED BY <1>9, <1>11

(* Numbers within a twentieth of h vary little *)
LEMMA CloseNumbersVaryLittle ==
  ASSUME NEW f, Numbers(f), Size(f) > 0, NEW h \in Nat \ {0},
         \A x \in DOMAIN f : 20 * (f[x] - h) \in -h..h
  PROVE  CV(f) <= 10
<1> DEFINE S == DOMAIN f
           one == 1
           d == SquaresOf(one, f, h)
           c == [x \in S |-> 400 * d[x]]
           square == [x \in S |-> h * h]
           twice == [x \in S |-> 2 * f[x]]
           mean == [x \in S |-> h]
           n == Size(f)
           sum == Total(f)
           q == Total(Squares(f))
           D == Total(d)
           t == n * h
           v == n * q - sum * sum
<1>1. IsFiniteSet(S) /\ n \in Nat \ {0} /\ n = Cardinality(S) BY SizeType DEF Numbers, Size
<1>2. ASSUME NEW x \in S
      PROVE  /\ f[x] \in Int /\ d[x] \in Int /\ c[x] \in Int /\ c[x] = 400 * d[x]
             /\ square[x] = h * h /\ c[x] <= square[x]
             /\ twice[x] \in Int /\ twice[x] = 2 * f[x] /\ mean[x] = h /\ mean[x] <= twice[x]
  <2> DEFINE y == f[x] - h
  <2>1. f[x] \in Int /\ y \in Int /\ 20 * y \in -h..h BY DEF Numbers
  <2>2. d[x] = (one * f[x] - h) * (one * f[x] - h) BY DEF SquaresOf
  <2>3. one * f[x] - h = y BY <2>1
  <2>4. d[x] = y * y BY <2>2, <2>3
  <2>5. (20 * y) * (20 * y) <= h * h
    <3> DEFINE z == 20 * y
    <3>1. z \in -h..h /\ z \in Int BY <2>1
    <3> HIDE DEF z
    <3>2. z >= 0 => z * z <= h * h
      <4> SUFFICES ASSUME z >= 0 PROVE z * z <= h * h OBVIOUS
      <4>1. z * z <= z * h BY <3>1
      <4>2. z * h <= h * h BY <3>1
      <4>3. z * z \in Int /\ z * h \in Int /\ h * h \in Int BY <3>1
      <4> QED BY <4>1, <4>2, <4>3
    <3>3. z < 0 => z * z <= h * h
      <4> SUFFICES ASSUME z < 0 PROVE z * z <= h * h OBVIOUS
      <4> DEFINE w == -z
      <4>1. w \in Nat /\ w <= h /\ z * z = w * w BY <3>1
      <4> HIDE DEF w
      <4>2. w * w <= w * h BY <4>1
      <4>3. w * h <= h * h BY <4>1
      <4>4. w * w \in Int /\ w * h \in Int /\ h * h \in Int BY <4>1
      <4> QED BY <4>1, <4>2, <4>3, <4>4
    <3>4. z * z <= h * h BY <3>1, <3>2, <3>3
    <3> QED BY <3>4 DEF z
  <2>6. (20 * y) * (20 * y) = 400 * (y * y) /\ y * y \in Int BY <2>1
  <2>7. h <= 2 * f[x] BY <2>1
  <2> HIDE DEF y, d
  <2> QED BY <2>1, <2>4, <2>5, <2>6, <2>7
<1>3. D = SumOver(d, S) /\ sum = SumOver(f, S) BY DEF Total, SumOver, SquaresOf
<1>4. h * h \in Int /\ one \in Int OBVIOUS
<1>5. /\ q \in Int /\ sum \in Int
      /\ D = (one * one) * q + (-2 * (one * h)) * sum + (h * h) * n
  BY <1>4, SumOfSquares
<1>6. D = q - 2 * (h * sum) + (h * h) * n
  <2> HIDE DEF D, q, sum, n
  <2>1. (one * one) * q = q /\ (-2 * (one * h)) * sum = -(2 * (h * sum)) BY <1>5
  <2>2. h * sum \in Int /\ (h * h) * n \in Int BY <1>1, <1>5
  <2> QED BY <1>5, <2>1, <2>2
<1> HIDE DEF d, c, square, twice, mean, S
<1>7. 400 * D <= (h * h) * n /\ D \in Int
  <2>1. \A x \in S : c[x] \in Int /\ square[x] \in Int /\ c[x] <= square[x] BY <1>2, <1>4
  <2>2. SumOver(c, S) <= SumOver(square, S) BY <1>1, <2>1, SumAtMost
  <2> DEFINE factor == 400
  <2>3. factor \in Int /\ \A x \in S : d[x] \in Int /\ c[x] = factor * d[x] BY <1>2
  <2> HIDE DEF factor
  <2>4. SumOver(c, S) = factor * SumOver(d, S) BY <1>1, <2>3, SumTimes
  <2> DEFINE hh == h * h
  <2>5. hh \in Int /\ \A x \in S : square[x] = hh BY <1>2, <1>4
  <2> HIDE DEF hh
  <2>6. SumOver(square, S) = hh * Cardinality(S) BY <1>1, <2>5, SumOfConstant
  <2>7. SumOver(d, S) \in Int BY <1>1, <2>3, SumType
  <2> QED BY <1>1, <1>3, <2>2, <2>4, <2>6, <2>7 DEF factor, hh
<1>8. t <= 2 * sum /\ t \in Nat \ {0}
  <2>1. \A x \in S : mean[x] \in Int /\ twice[x] \in Int /\ mean[x] <= twice[x] BY <1>2
  <2>2. SumOver(mean, S) <= SumOver(twice, S) BY <1>1, <2>1, SumAtMost
  <2> DEFINE factor == 2
  <2>3. factor \in Int /\ \A x \in S : f[x] \in Int /\ twice[x] = factor * f[x] BY <1>2
  <2> HIDE DEF factor
  <2>4. SumOver(twice, S) = factor * SumOver(f, S) BY <1>1, <2>3, SumTimes
  <2>5. h \in Int /\ \A x \in S : mean[x] = h BY <1>2
  <2>6. SumOver(mean, S) = h * Cardinality(S) BY <1>1, <2>5, SumOfConstant
  <2> HIDE DEF n, sum
  <2>7. t = h * n /\ t \in Nat /\ t > 0
    <3>1. n * h >= n BY <1>1
    <3> QED BY <1>1, <3>1
  <2> QED BY <1>1, <1>3, <1>5, <2>2, <2>4, <2>6, <2>7 DEF factor
<1> HIDE DEF n, sum, q, D
<1>9. v \in Nat /\ v = n * q - sum * sum
  <2>1. v >= 0 /\ v \in Int BY VarianceNotNegative DEF n, sum, q
  <2> QED BY <2>1
<1>10. n * D = v + (sum - t) * (sum - t)
  <2>1. n * D = n * q - 2 * ((n * h) * sum) + (n * h) * (n * h) BY <1>1, <1>5, <1>6
  <2>2. n * D = n * q - 2 * (t * sum) + t * t BY <2>1
  <2> HIDE DEF t
  <2>3. (sum - t) * (sum - t) = sum * sum - 2 * (t * sum) + t * t BY <1>5, <1>8
  <2>4. n * q \in Int /\ t * sum \in Int /\ t * t \in Int /\ sum * sum \in Int BY <1>1, <1>5, <1>8
  <2> HIDE DEF v
  <2> QED BY <1>9, <2>2, <2>3, <2>4
<1>11. 400 * (n * D) <= t * t
  <2>1. n * (400 * D) <= n * ((h * h) * n)
    <3> DEFINE l == 400 * D
               r == (h * h) * n
    <3>1. l \in Int /\ r \in Int /\ l <= r BY <1>1, <1>4, <1>7
    <3> HIDE DEF l, r
    <3>2. n * l <= n * r BY <1>1, <3>1
    <3> QED BY <3>2 DEF l, r
  <2>2. n * ((h * h) * n) = t * t BY <1>1
  <2>3. n * (400 * D) = 400 * (n * D) BY <1>1, <1>7
  <2> QED BY <2>1, <2>2, <2>3
<1>12. 400 * v <= t * t
  <2> DEFINE y == sum - t
             w == y * y
  <2>1. w \in Nat
    <3>1. y \in Int BY <1>5, <1>8
    <3> HIDE DEF y
    <3>2. y >= 0 => y * y \in Nat BY <3>1
    <3>3. y <= 0 => y * y \in Nat BY <3>1
    <3> QED BY <3>1, <3>2, <3>3
  <2>2. n * D = v + w BY <1>10
  <2> HIDE DEF w, t, v
  <2>3. t * t \in Int BY <1>8
  <2> QED BY <1>9, <1>11, <2>1, <2>2, <2>3
<1>13. sum \in Nat \ {0} BY <1>5, <1>8
<1> HIDE DEF v, t
<1>14. (((100 * v) \div sum) * 100) \div sum <= 100 BY <1>8, <1>9, <1>12, <1>13, SmallQuotient
<1>15. v = Size(f) * Total(Squares(f)) - Total(f) * Total(f) BY <1>9 DEF n, q, sum
<1> QED BY <1>13, <1>14, <1>15, CVAtMost DEF sum

-----------------------------------------------------------------------------
(* g is the family f in another order: b says where g has its numbers from *)
Along(b, f, g) ==
  /\ IsFiniteSet(DOMAIN f) /\ b \in Bijection(DOMAIN g, DOMAIN f)
  /\ \A x \in DOMAIN g : g[x] = f[b[x]]

(* What b does *)
LEMMA AlongIs ==
  ASSUME NEW b, NEW f, NEW g, Along(b, f, g)
  PROVE  /\ \A x \in DOMAIN g : b[x] \in DOMAIN f /\ g[x] = f[b[x]]
         /\ \A x, y \in DOMAIN g : b[x] = b[y] => x = y
         /\ \A z \in DOMAIN f : \E x \in DOMAIN g : b[x] = z
BY DEF Along, Bijection, Injection, Surjection, IsInjective

(* The part T of g comes from the part S of f *)
Corresponds(b, f, g, S, T) ==
  /\ Along(b, f, g) /\ S \subseteq DOMAIN f /\ T \subseteq DOMAIN g
  /\ \A x \in DOMAIN g : x \in T <=> b[x] \in S

(* b on a part *)
On(b, T) == [x \in T |-> b[x]]

(* Parts that correspond are of one size, and one order *)
LEMMA AlongPart ==
  ASSUME NEW b, NEW f, NEW g, NEW S, NEW T, Corresponds(b, f, g, S, T)
  PROVE  /\ IsFiniteSet(S) /\ On(b, T) \in Bijection(T, S)
         /\ Cardinality(T) = Cardinality(S) /\ IsFiniteSet(T)
<1> DEFINE c == [x \in T |-> b[x]]
<1>0. /\ Along(b, f, g) /\ S \in SUBSET DOMAIN f /\ T \in SUBSET DOMAIN g
      /\ \A x \in DOMAIN g : x \in T <=> b[x] \in S
  BY DEF Corresponds
<1>1. /\ \A x \in DOMAIN g : b[x] \in DOMAIN f
      /\ \A x, y \in DOMAIN g : b[x] = b[y] => x = y
      /\ \A z \in DOMAIN f : \E x \in DOMAIN g : b[x] = z
  BY <1>0, AlongIs
<1>2. IsFiniteSet(S) BY <1>0, FS_Subset DEF Along
<1>3. c \in [T -> S] BY <1>0, <1>1
<1>4. \A x, y \in T : c[x] = c[y] => x = y BY <1>0, <1>1
<1>5. \A z \in S : \E x \in T : c[x] = z
  <2> SUFFICES ASSUME NEW z \in S PROVE \E x \in T : b[x] = z
    OBVIOUS
  <2>1. PICK x \in DOMAIN g : b[x] = z BY <1>0, <1>1
  <2> QED BY <1>0, <2>1
<1> HIDE DEF c
<1>6. c \in Bijection(T, S)
  BY <1>3, <1>4, <1>5 DEF Bijection, Injection, Surjection, IsInjective
<1> DEFINE d == [z \in S |-> CHOOSE x \in T : c[x] = z]
<1>7. \A z \in S : d[z] \in T /\ c[d[z]] = z BY <1>5
<1>8. d \in [S -> T] BY <1>7
<1> HIDE DEF d
<1>9. \A y, z \in S : d[y] = d[z] => y = z BY <1>7
<1>10. \A x \in T : \E z \in S : d[z] = x
  <2> SUFFICES ASSUME NEW x \in T PROVE d[c[x]] = x /\ c[x] \in S
    OBVIOUS
  <2>1. c[x] \in S BY <1>3
  <2>2. d[c[x]] \in T /\ c[d[c[x]]] = c[x] BY <1>7, <2>1
  <2> QED BY <1>4, <2>1, <2>2
<1>11. d \in Bijection(S, T)
  BY <1>8, <1>9, <1>10 DEF Bijection, Injection, Surjection, IsInjective
<1>12. ExistsBijection(S, T) BY <1>11 DEF ExistsBijection
<1>13. Cardinality(T) = Cardinality(S) /\ IsFiniteSet(T) BY <1>2, <1>12, FS_Bijection
<1> QED BY <1>2, <1>6, <1>13 DEF c, On

(* Another order of a family has its size and its values *)
LEMMA AlongSize ==
  ASSUME NEW b, NEW f, NEW g, Along(b, f, g)
  PROVE  IsFiniteSet(DOMAIN g) /\ Size(g) = Size(f) /\ Range(g) = Range(f)
<1>1. /\ \A x \in DOMAIN g : b[x] \in DOMAIN f /\ g[x] = f[b[x]]
      /\ \A z \in DOMAIN f : \E x \in DOMAIN g : b[x] = z
  BY AlongIs
<1> DEFINE S == DOMAIN f
           T == DOMAIN g
<1>2. Corresponds(b, f, g, S, T) BY <1>1 DEF Corresponds
<1> HIDE DEF S, T
<1>3. Cardinality(T) = Cardinality(S) /\ IsFiniteSet(T) BY <1>2, AlongPart
<1>4. Range(g) = Range(f)
  <2>1. ASSUME NEW x \in DOMAIN g PROVE g[x] \in Range(f) BY <1>1 DEF Range
  <2>2. ASSUME NEW z \in DOMAIN f PROVE f[z] \in Range(g)
    <3>1. PICK x \in DOMAIN g : b[x] = z BY <1>1
    <3>2. g[x] = f[z] BY <1>1, <3>1
    <3> QED BY <3>2 DEF Range
  <2> QED BY <2>1, <2>2 DEF Range
<1> QED BY <1>3, <1>4 DEF Size, S, T

(* Where a family has a value *)
With(f, v) == {x \in DOMAIN f : f[x] = v}

(* Another order has as many of each value *)
LEMMA AlongCount ==
  ASSUME NEW b, NEW f, NEW g, Along(b, f, g), NEW v
  PROVE  Cardinality(With(g, v)) = Cardinality(With(f, v))
<1> DEFINE S == With(f, v)
           T == With(g, v)
<1>1. \A x \in DOMAIN g : b[x] \in DOMAIN f /\ g[x] = f[b[x]] BY AlongIs
<1>2. Corresponds(b, f, g, S, T) BY <1>1 DEF Corresponds, With
<1> HIDE DEF S, T
<1>3. Cardinality(T) = Cardinality(S) BY <1>2, AlongPart
<1> QED BY <1>3 DEF S, T

(* So it has the same counter *)
LEMMA AlongCounter ==
  ASSUME NEW b, NEW f, NEW g, Along(b, f, g)
  PROVE  Counter(g) = Counter(f)
<1>1. Range(g) = Range(f) BY AlongSize
<1>2. /\ Counter(g) = [v \in Range(g) |-> Cardinality(With(g, v))]
      /\ Counter(f) = [v \in Range(f) |-> Cardinality(With(f, v))]
  BY DEF Counter, CountWhere, With
<1>3. \A v : Cardinality(With(g, v)) = Cardinality(With(f, v)) BY AlongCount
<1> QED BY <1>1, <1>2, <1>3

(* Another order has the same total *)
LEMMA AlongTotal ==
  ASSUME NEW b, NEW f, NEW g, Along(b, f, g), \A x \in DOMAIN f : f[x] \in Int
  PROVE  Total(g) = Total(f)
<1> DEFINE S == DOMAIN f
           T == DOMAIN g
           F(z) == {x \in T : b[x] = z}
<1>1. /\ \A x \in T : b[x] \in S /\ g[x] = f[b[x]]
      /\ \A x, y \in T : b[x] = b[y] => x = y
      /\ \A z \in S : \E x \in T : b[x] = z
  BY AlongIs
<1>2. IsFiniteSet(S) /\ IsFiniteSet(T) BY AlongSize DEF Along
<1>3. \A x \in T : g[x] \in Int BY <1>1
<1>4. \A z \in S : f[z] = SumOver(g, F(z))
  <2> SUFFICES ASSUME NEW z \in S PROVE f[z] = SumOver(g, F(z))
    OBVIOUS
  <2>1. PICK x \in T : b[x] = z BY <1>1
  <2>2. F(z) = {x} BY <1>1, <2>1
  <2> DEFINE E == {x}
  <2>3. IsFiniteSet(E) /\ x \in E /\ E \ {x} = {} /\ \A y \in E : g[y] \in Int BY <1>3, FS_Singleton
  <2> HIDE DEF E
  <2>4. SumOver(g, E) = g[x] + SumOver(g, E \ {x}) BY <2>3, SumRemove
  <2>5. SumOver(g, {}) = 0 BY SumEmpty
  <2>6. g[x] = f[z] /\ g[x] \in Int BY <1>1, <1>3, <2>1
  <2>7. SumOver(g, E) = f[z] BY <2>3, <2>4, <2>5, <2>6
  <2> QED BY <2>2, <2>7 DEF E
<1>5. Fibred(f, S, g, T, b) BY <1>1, <1>2, <1>3, <1>4 DEF Fibred
<1> HIDE DEF S, T
<1>6. SumOver(f, S) = SumOver(g, T) BY <1>5, FibredSum
<1> QED BY <1>6, TotalIs DEF S, T

(* ... and sorts alike *)
LEMMA AlongSorted ==
  ASSUME NEW b, NEW f, NEW g, Along(b, f, g), Numbers(f)
  PROVE  Numbers(g) /\ Sorted(g) = Sorted(f)
<1>1. IsFiniteSet(DOMAIN g) /\ Size(g) = Size(f) /\ Range(g) = Range(f) BY AlongSize
<1>2. \A x \in DOMAIN g : b[x] \in DOMAIN f /\ g[x] = f[b[x]] BY AlongIs
<1>3. Numbers(g) BY <1>1, <1>2 DEF Numbers
<1>4. ASSUME NEW k \in 1..Size(f) PROVE Sorted(g)[k] = Sorted(f)[k]
  <2> DEFINE v == Sorted(g)[k]
             w == Sorted(f)[k]
             S == Below(f, v)
             T == Below(g, v)
             U == UpTo(f, v)
             V == UpTo(g, v)
  <2>1. Ranked(g, k, v) /\ Ranked(f, k, w) BY <1>1, <1>3, SortedRanks
  <2>2. Corresponds(b, f, g, S, T) BY <1>2 DEF Below, Corresponds
  <2>3. Corresponds(b, f, g, U, V) BY <1>2 DEF UpTo, Corresponds
  <2> HIDE DEF S, T, U, V
  <2>4. Cardinality(T) = Cardinality(S) BY <2>2, AlongPart
  <2>5. Cardinality(V) = Cardinality(U) BY <2>3, AlongPart
  <2>6. Ranked(f, k, v) BY <1>1, <2>1, <2>4, <2>5 DEF Ranked, S, T, U, V
  <2> HIDE DEF v, w
  <2>7. v \in Int /\ w \in Int BY <2>1, <2>6 DEF Ranked, Range, Numbers
  <2>8. Size(f) \in Nat /\ k \in Int /\ k <= k BY SizeType DEF Numbers
  <2>9. v <= w /\ w <= v BY <2>1, <2>6, <2>8, RankedOrder
  <2>10. v = w BY <2>7, <2>9
  <2> QED BY <2>10 DEF v, w
<1>5. /\ Sorted(f) = [k \in 1..Size(f) |-> Sorted(f)[k]]
      /\ Sorted(g) = [k \in 1..Size(f) |-> Sorted(g)[k]]
  <2>1. Sorted(f) \in Seq(Int) /\ Len(Sorted(f)) = Size(f) BY SortedAscends
  <2>2. Sorted(g) \in Seq(Int) /\ Len(Sorted(g)) = Size(f) BY <1>1, <1>3, SortedAscends
  <2> QED BY <2>1, <2>2
<1>6. Sorted(g) = Sorted(f)
  <2>1. [k \in 1..Size(f) |-> Sorted(g)[k]] = [k \in 1..Size(f) |-> Sorted(f)[k]] BY <1>4
  <2> QED BY <1>5, <2>1, Zenon
<1> QED BY <1>3, <1>6
=============================================================================
