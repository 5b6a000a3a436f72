------------------------------ MODULE SetLemmas ------------------------------
(* Facts about sets of naturals and about counting that the proofs of the    *)
(* components share.  LeastNatural is the least-number principle as a fact   *)
(* about a set: an induction over the naturals is carried out by applying it *)
(* to the set of the naturals for which the claim fails.                     *)
EXTENDS Integers, FiniteSets, FiniteSetsExt, FiniteSetTheorems, WellFoundedInduction, TLAPS

(* Every non-empty set of naturals has a least member.                       *)
LEMMA LeastNatural ==
  ASSUME NEW S \in SUBSET Nat, S # {}
  PROVE  \E m \in S : \A k \in S : m <= k
<1> DEFINE R == StrictSubsetOrdering(Nat)
           T == {0 .. n : n \in S}
<1>1. IsWellFoundedOn(R, FiniteSubsetsOf(Nat)) BY FS_StrictSubsetOrderingWellFounded
<1>2. ASSUME NEW n \in S PROVE 0 .. n \in FiniteSubsetsOf(Nat)
  <2>1. n \in Nat OBVIOUS
  <2>2. IsFiniteSet(0 .. n) BY <2>1, FS_Interval
  <2>3. 0 .. n \in SUBSET Nat BY <2>1
  <2> QED BY <2>2, <2>3 DEF FiniteSubsetsOf
<1>3. T \subseteq FiniteSubsetsOf(Nat) /\ T # {} BY <1>2
<1>4. \A x, y \in Nat : x < y => <<0 .. x, 0 .. y>> \in R
  <2> SUFFICES ASSUME NEW x \in Nat, NEW y \in Nat, x < y PROVE <<0 .. x, 0 .. y>> \in R
    OBVIOUS
  <2>1. 0 .. x \subseteq Nat /\ 0 .. y \subseteq Nat /\ 0 .. x \subseteq 0 .. y OBVIOUS
  <2>2. y \in 0 .. y /\ y \notin 0 .. x OBVIOUS
  <2> QED BY <2>1, <2>2 DEF StrictSubsetOrdering
<1> HIDE DEF R
<1>5. \E m \in T : \A k \in T : ~ (<<k, m>> \in R) BY <1>1, <1>3, WFMin
<1>6. PICK m \in S : \A k \in S : ~ (<<0 .. k, 0 .. m>> \in R) BY <1>5
<1>7. \A k \in S : ~ (k < m) BY <1>4, <1>6
<1> QED BY <1>7

(* The Min of a non-empty set of naturals is its least member.               *)
LEMMA MinOfNaturals ==
  ASSUME NEW S \in SUBSET Nat, S # {}
  PROVE  Min(S) \in S /\ \A k \in S : Min(S) <= k
BY LeastNatural DEF Min

(* A member that no other member is below is the Min.                        *)
LEMMA MinIs ==
  ASSUME NEW S \in SUBSET Nat, NEW m \in S, \A k \in S : m <= k
  PROVE  Min(S) = m
<1>1. Min(S) \in S /\ \A k \in S : Min(S) <= k BY MinOfNaturals
<1>2. m \in Nat /\ Min(S) \in Nat BY <1>1
<1>3. m <= Min(S) /\ Min(S) <= m BY <1>1
<1> HIDE DEF Min
<1> QED BY <1>2, <1>3

LEMMA MaxOfTwo ==
  ASSUME NEW a \in Nat, NEW b \in Nat
  PROVE  Max({a, b}) = IF a >= b THEN a ELSE b
<1>1. \E x \in {a, b} : \A y \in {a, b} : x >= y OBVIOUS
<1>2. Max({a, b}) \in {a, b} /\ \A y \in {a, b} : Max({a, b}) >= y BY <1>1 DEF Max
<1> HIDE DEF Max
<1> QED BY <1>2

(* A finite set of n members or more has a member left when fewer than n     *)
(* have been taken away.                                                     *)
LEMMA OneLeft ==
  ASSUME NEW S, IsFiniteSet(S), Cardinality(S) >= 1
  PROVE  S # {}
BY FS_EmptySet

LEMMA TakeOne ==
  ASSUME NEW S, IsFiniteSet(S), NEW n \in Nat, Cardinality(S) >= n + 1, NEW x
  PROVE  IsFiniteSet(S \ {x}) /\ Cardinality(S \ {x}) >= n
<1>1. Cardinality(S) \in Nat BY FS_CardinalityType
<1>2. IsFiniteSet(S \ {x}) /\ Cardinality(S \ {x}) = IF x \in S THEN Cardinality(S) - 1 ELSE Cardinality(S)
  BY FS_RemoveElement
<1> QED BY <1>1, <1>2

(* Two members of a set of two or more, as they are taken one after another. *)
LEMMA TwoLeft ==
  ASSUME NEW S \in SUBSET Nat, IsFiniteSet(S), Cardinality(S) >= 2
  PROVE  LET a == Min(S)
             b == Min(S \ {a})
         IN a \in S /\ b \in S /\ a # b
<1> DEFINE a == Min(S)
           b == Min(S \ {a})
<1>1. a \in S
  <2>1. Cardinality(S) \in Nat BY FS_CardinalityType
  <2>2. S # {} BY <2>1, OneLeft
  <2> QED BY <2>2, MinOfNaturals
<1>2. IsFiniteSet(S \ {a}) /\ Cardinality(S \ {a}) >= 1
  <2>1. Cardinality(S) >= 1 + 1 OBVIOUS
  <2> HIDE DEF a
  <2> QED BY <2>1, TakeOne
<1>3. b \in S \ {a}
  <2>1. S \ {a} # {} BY <1>2, OneLeft
  <2>2. S \ {a} \in SUBSET Nat OBVIOUS
  <2> HIDE DEF a
  <2> QED BY <2>1, <2>2, MinOfNaturals
<1> QED BY <1>1, <1>3

(* Four members of a set of four or more.                                    *)
LEMMA FourLeft ==
  ASSUME NEW S \in SUBSET Nat, IsFiniteSet(S), Cardinality(S) >= 4
  PROVE  LET a == Min(S)
             b == Min(S \ {a})
             c == Min(S \ {a, b})
             d == Min(S \ {a, b, c})
         IN /\ a \in S /\ b \in S /\ c \in S /\ d \in S
            /\ a # b /\ a # c /\ a # d /\ b # c /\ b # d /\ c # d
<1> DEFINE a == Min(S)
           b == Min(S \ {a})
           c == Min(S \ {a, b})
           d == Min(S \ {a, b, c})
<1>0. Cardinality(S) \in Nat BY FS_CardinalityType
<1>1. a \in S /\ b \in S /\ a # b BY <1>0, TwoLeft
<1> HIDE DEF a, b
<1>2. IsFiniteSet(S \ {a}) /\ Cardinality(S \ {a}) >= 3
  <2>1. Cardinality(S) >= 3 + 1 BY <1>0
  <2> QED BY <2>1, TakeOne
<1>3. IsFiniteSet(S \ {a, b}) /\ Cardinality(S \ {a, b}) >= 2
  <2>0. Cardinality(S \ {a}) \in Nat BY <1>2, FS_CardinalityType
  <2>1. Cardinality(S \ {a}) >= 2 + 1 BY <1>2, <2>0
  <2>2. IsFiniteSet((S \ {a}) \ {b}) /\ Cardinality((S \ {a}) \ {b}) >= 2 BY <1>2, <2>1, TakeOne
  <2>3. (S \ {a}) \ {b} = S \ {a, b} OBVIOUS
  <2> QED BY <2>2, <2>3
<1>4. c \in S \ {a, b}
  <2>0. Cardinality(S \ {a, b}) \in Nat BY <1>3, FS_CardinalityType
  <2>1. S \ {a, b} # {} BY <1>3, <2>0, OneLeft
  <2> QED BY <2>1, MinOfNaturals
<1> HIDE DEF c
<1>5. IsFiniteSet(S \ {a, b, c}) /\ Cardinality(S \ {a, b, c}) >= 1
  <2>0. Cardinality(S \ {a, b}) \in Nat BY <1>3, FS_CardinalityType
  <2>1. Cardinality(S \ {a, b}) >= 1 + 1 BY <1>3, <2>0
  <2>2. IsFiniteSet((S \ {a, b}) \ {c}) /\ Cardinality((S \ {a, b}) \ {c}) >= 1 BY <1>3, <2>1, TakeOne
  <2>3. (S \ {a, b}) \ {c} = S \ {a, b, c} OBVIOUS
  <2> QED BY <2>2, <2>3
<1>6. d \in S \ {a, b, c}
  <2>1. S \ {a, b, c} # {} BY <1>5, OneLeft
  <2> QED BY <2>1, MinOfNaturals
<1> QED BY <1>1, <1>4, <1>6 DEF a, b, c

-----------------------------------------------------------------------------
(* Sums.  SumTo is the sum of r[0], ..., r[n - 1], folded over the set of    *)
(* the indices in whatever order CHOOSE takes them.                          *)
SumTo(r, n) == MapThenSumSet(LAMBDA i : r[i], 0 .. n - 1)

(* What MapThenSumSet folds with, a function of the sets of indices.         *)
Folds(r, it, S) ==
  it = [s \in SUBSET S |-> IF s = {} THEN 0
                           ELSE r[CHOOSE x \in s : TRUE] + it[s \ {CHOOSE x \in s : TRUE}]]

(* A sum of which any index may be taken out first.                          *)
Sums(r, G, S) ==
  /\ G \in [SUBSET S -> Nat] /\ G[{}] = 0
  /\ \A s \in SUBSET S : \A x \in s : G[s] = r[x] + G[s \ {x}]

LEMMA SumOfMore ==
  ASSUME NEW r \in [Nat -> Nat], NEW n \in Nat, NEW G, Sums(r, G, 0 .. n - 1),
         NEW H, H = [s \in SUBSET (0 .. n) |-> IF n \in s THEN r[n] + G[s \ {n}] ELSE G[s]]
  PROVE  Sums(r, H, 0 .. n)
<1> DEFINE S == 0 .. n - 1
           T == 0 .. n
<1>1. T = S \cup {n} /\ n \notin S /\ r[n] \in Nat OBVIOUS
<1>2. G \in [SUBSET S -> Nat] /\ G[{}] = 0 /\ \A s \in SUBSET S : \A x \in s : G[s] = r[x] + G[s \ {x}]
  BY DEF Sums
<1>3. \A x \in S : r[x] \in Nat OBVIOUS
<1>a. H = [s \in SUBSET T |-> IF n \in s THEN r[n] + G[s \ {n}] ELSE G[s]] OBVIOUS
<1> HIDE DEF S, T
<1>4. \A s \in SUBSET T : s \ {n} \in SUBSET S /\ (n \notin s => s \in SUBSET S) BY <1>1
<1>5. H \in [SUBSET T -> Nat] /\ H[{}] = 0
  <2>1. ASSUME NEW s \in SUBSET T PROVE H[s] \in Nat
    <3>1. CASE n \in s
      <4>1. H[s] = r[n] + G[s \ {n}] BY <1>a, <3>1
      <4>2. PICK g : g = G[s \ {n}] OBVIOUS
      <4>3. g \in Nat BY <1>2, <1>4, <4>2
      <4>4. PICK a : a = r[n] OBVIOUS
      <4>5. a \in Nat BY <1>1, <4>4
      <4>6. H[s] = a + g BY <4>1, <4>2, <4>4
      <4> QED BY SMTT(30), <4>3, <4>5, <4>6
    <3>2. CASE n \notin s
      <4>1. H[s] = G[s] /\ s \in SUBSET S BY <1>a, <1>4, <3>2
      <4> QED BY <1>2, <4>1
    <3> QED BY <3>1, <3>2
  <2>2. H[{}] = G[{}] BY <1>a
  <2>3. H = [s \in SUBSET T |-> H[s]] BY <1>a
  <2>4. H \in [SUBSET T -> Nat] BY <2>1, <2>3
  <2> QED BY <1>2, <2>2, <2>4
<1>6. ASSUME NEW s \in SUBSET T, NEW x \in s PROVE H[s] = r[x] + H[s \ {x}]
  <2>0. s \ {x} \in SUBSET T OBVIOUS
  <2>1. CASE x = n
    <3>1. H[s] = r[n] + G[s \ {n}] BY <1>a, <2>1
    <3>2. H[s \ {x}] = G[s \ {n}] BY <1>a, <2>0, <2>1
    <3> QED BY <2>1, <3>1, <3>2
  <2>2. CASE x # n /\ n \notin s
    <3>1. H[s] = G[s] /\ H[s \ {x}] = G[s \ {x}] BY <1>a, <2>0, <2>2
    <3>2. s \in SUBSET S BY <1>4, <2>2
    <3> QED BY <1>2, <3>1, <3>2
  <2>3. CASE x # n /\ n \in s
    <3>1. H[s] = r[n] + G[s \ {n}] /\ H[s \ {x}] = r[n] + G[(s \ {x}) \ {n}] BY <1>a, <2>0, <2>3
    <3>2. s \ {n} \in SUBSET S /\ x \in s \ {n} BY <1>4, <2>3
    <3>3. G[s \ {n}] = r[x] + G[(s \ {n}) \ {x}] BY <1>2, <3>2
    <3>4. (s \ {n}) \ {x} = (s \ {x}) \ {n} OBVIOUS
    <3>5. (s \ {n}) \ {x} \in SUBSET S /\ x \in S BY <3>2
    <3>6. PICK g : g = G[(s \ {n}) \ {x}] OBVIOUS
    <3>7. g \in Nat /\ r[x] \in Nat BY <1>2, <1>3, <3>5, <3>6
    <3>8. H[s] = r[n] + (r[x] + g) BY <3>1, <3>3, <3>6
    <3>9. H[s \ {x}] = r[n] + g BY <3>1, <3>4, <3>6
    <3>10. PICK a, b : a = r[n] /\ b = r[x] OBVIOUS
    <3>11. a \in Nat /\ b \in Nat BY <1>1, <3>7, <3>10
    <3>12. a + (b + g) = b + (a + g) BY <3>7, <3>11
    <3> QED BY <3>8, <3>9, <3>10, <3>12
  <2> QED BY <2>1, <2>2, <2>3
<1> QED BY <1>5, <1>6 DEF Sums, T

LEMMA SumsExist ==
  ASSUME NEW r \in [Nat -> Nat], NEW n \in Nat
  PROVE  \E G : Sums(r, G, 0 .. n - 1)
<1> DEFINE B == {m \in Nat : ~ \E G : Sums(r, G, 0 .. m - 1)}
<1> SUFFICES ASSUME B # {} PROVE FALSE OBVIOUS
<1>1. PICK m \in B : \A k \in B : m <= k
  <2>1. B \in SUBSET Nat OBVIOUS
  <2> HIDE DEF B
  <2> QED BY <2>1, LeastNatural
<1>2. m # 0
  <2> SUFFICES ASSUME m = 0 PROVE FALSE OBVIOUS
  <2>1. 0 .. m - 1 = {} OBVIOUS
  <2> DEFINE Z == [s \in SUBSET {} |-> 0]
  <2>2. Sums(r, Z, {}) BY DEF Sums
  <2> QED BY <2>1, <2>2
<1>3. m \in Nat OBVIOUS
<1>4. PICK k \in Nat : k = m - 1 BY <1>2, <1>3
<1>a. k \notin B
  <2>1. ~ (m <= k) BY <1>3, <1>4
  <2> HIDE DEF B
  <2> QED BY <1>1, <2>1
<1>5. PICK G : Sums(r, G, 0 .. k - 1) BY <1>a
<1>6. PICK H : H = [s \in SUBSET (0 .. k) |-> IF k \in s THEN r[k] + G[s \ {k}] ELSE G[s]] OBVIOUS
<1>7. Sums(r, H, 0 .. k)
  <2> HIDE DEF B
  <2> QED BY <1>5, <1>6, SumOfMore
<1>8. k = m - 1 BY <1>4
<1> QED BY <1>7, <1>8

LEMMA FoldIsSum ==
  ASSUME NEW r \in [Nat -> Nat], NEW n \in Nat, NEW G, Sums(r, G, 0 .. n - 1),
         NEW it, Folds(r, it, 0 .. n - 1)
  PROVE  it[0 .. n - 1] = G[0 .. n - 1]
<1> DEFINE S == 0 .. n - 1
           B == {s \in SUBSET S : it[s] # G[s]}
           C == {Cardinality(s) : s \in B}
<1> SUFFICES ASSUME B # {} PROVE FALSE OBVIOUS
<1>1. IsFiniteSet(S) BY FS_Interval
<1>2. \A s \in SUBSET S : IsFiniteSet(s) /\ Cardinality(s) \in Nat BY <1>1, FS_Subset, FS_CardinalityType
<1>3. C \in SUBSET Nat /\ C # {} BY <1>2
<1>4. PICK m \in C : \A k \in C : m <= k
  <2> HIDE DEF C
  <2> QED BY <1>3, LeastNatural
<1>5. PICK s \in B : m = Cardinality(s) OBVIOUS
<1>6. \A t \in SUBSET S : it[t] = IF t = {} THEN 0
                                  ELSE r[CHOOSE x \in t : TRUE] + it[t \ {CHOOSE x \in t : TRUE}]
  BY DEF Folds
<1>7. s # {} BY <1>6 DEF Sums
<1>8. PICK x : x = CHOOSE y \in s : TRUE OBVIOUS
<1>9. x \in s BY <1>7, <1>8
<1>10. it[s] = r[x] + it[s \ {x}] BY <1>6, <1>7, <1>8
<1>11. G[s] = r[x] + G[s \ {x}] BY <1>9 DEF Sums
<1>12. s \ {x} \notin B
  <2>1. Cardinality(s \ {x}) = Cardinality(s) - 1 BY <1>2, <1>9, FS_RemoveElement
  <2>2. Cardinality(s) \in Nat BY <1>2
  <2>3. Cardinality(s \ {x}) < m BY <1>5, <2>1, <2>2
  <2>4. m \in Nat BY <1>3
  <2> QED BY <1>4, <2>1, <2>2, <2>3, <2>4
<1> QED BY <1>10, <1>11, <1>12

LEMMA FoldExists ==
  ASSUME NEW r \in [Nat -> Nat], NEW n \in Nat
  PROVE  \E it : Folds(r, it, 0 .. n - 1)
<1>1. PICK G : Sums(r, G, 0 .. n - 1) BY SumsExist
<1> DEFINE S == 0 .. n - 1
           F == [s \in SUBSET S |-> IF s = {} THEN 0
                                    ELSE r[CHOOSE x \in s : TRUE] + G[s \ {CHOOSE x \in s : TRUE}]]
<1>2. \A s \in SUBSET S : G[s] = IF s = {} THEN 0
                                 ELSE r[CHOOSE x \in s : TRUE] + G[s \ {CHOOSE x \in s : TRUE}]
  <2> TAKE s \in SUBSET S
  <2>1. CASE s = {} BY <1>1, <2>1 DEF Sums
  <2>2. CASE s # {}
    <3>1. PICK x : x = CHOOSE y \in s : TRUE OBVIOUS
    <3>2. x \in s BY <2>2, <3>1
    <3>3. G[s] = r[x] + G[s \ {x}] BY <1>1, <3>2 DEF Sums
    <3> QED BY <2>2, <3>1, <3>3
  <2> QED BY <2>1, <2>2
<1>3. G = [s \in SUBSET S |-> G[s]] BY <1>1 DEF Sums
<1>4. G = F BY <1>2, <1>3
<1> QED BY <1>4 DEF Folds

LEMMA SumToIs ==
  ASSUME NEW r \in [Nat -> Nat], NEW n \in Nat, NEW G, Sums(r, G, 0 .. n - 1)
  PROVE  SumTo(r, n) = G[0 .. n - 1]
<1> DEFINE S == 0 .. n - 1
<1>1. PICK it : it = CHOOSE f : f = [s \in SUBSET S |-> IF s = {} THEN 0
                       ELSE r[CHOOSE x \in s : TRUE] + f[s \ {CHOOSE x \in s : TRUE}]]
  OBVIOUS
<1>2. \E f : f = [s \in SUBSET S |-> IF s = {} THEN 0
                       ELSE r[CHOOSE x \in s : TRUE] + f[s \ {CHOOSE x \in s : TRUE}]]
  BY FoldExists DEF Folds
<1>3. it = [s \in SUBSET S |-> IF s = {} THEN 0
                       ELSE r[CHOOSE x \in s : TRUE] + it[s \ {CHOOSE x \in s : TRUE}]]
  BY <1>1, <1>2
<1>4. SumTo(r, n) = it[S] BY <1>1 DEF SumTo, MapThenSumSet, MapThenFoldSet
<1>5. Folds(r, it, S) BY <1>3 DEF Folds
<1> QED BY <1>4, <1>5, FoldIsSum

(* The sum of none is nothing, and the next number is added to it.           *)
LEMMA SumToSteps ==
  ASSUME NEW r \in [Nat -> Nat], NEW n \in Nat
  PROVE  /\ SumTo(r, n) \in Nat /\ SumTo(r, 0) = 0
         /\ SumTo(r, n + 1) = SumTo(r, n) + r[n]
<1>1. PICK G : Sums(r, G, 0 .. n - 1) BY SumsExist
<1>2. PICK H : H = [s \in SUBSET (0 .. n) |-> IF n \in s THEN r[n] + G[s \ {n}] ELSE G[s]] OBVIOUS
<1>3. Sums(r, H, 0 .. n) BY <1>1, <1>2, SumOfMore
<1>4. SumTo(r, n) = G[0 .. n - 1] /\ G[0 .. n - 1] \in Nat BY <1>1, SumToIs DEF Sums
<1>5. SumTo(r, n + 1) = H[0 .. n]
  <2>1. (n + 1) - 1 = n /\ n + 1 \in Nat OBVIOUS
  <2>2. Sums(r, H, 0 .. (n + 1) - 1) BY <1>3, <2>1
  <2> QED BY <2>1, <2>2, SumToIs
<1>6. H[0 .. n] = r[n] + G[(0 .. n) \ {n}] BY <1>2
<1>7. (0 .. n) \ {n} = 0 .. n - 1 OBVIOUS
<1>8. r[n] \in Nat OBVIOUS
<1>9. SumTo(r, 0) = 0
  <2>1. 0 .. 0 - 1 = {} OBVIOUS
  <2>2. PICK Z : Sums(r, Z, 0 .. 0 - 1) BY SumsExist
  <2>3. SumTo(r, 0) = Z[0 .. 0 - 1] BY <2>2, SumToIs
  <2> QED BY <2>1, <2>2, <2>3 DEF Sums
<1>10. PICK g, a : g = G[0 .. n - 1] /\ a = r[n] OBVIOUS
<1>11. g \in Nat /\ a \in Nat BY <1>4, <1>8, <1>10
<1>12. SumTo(r, n) = g BY <1>4, <1>10
<1>13. SumTo(r, n + 1) = a + g BY <1>5, <1>6, <1>7, <1>10
<1>14. a + g = g + a BY <1>11
<1> QED BY <1>9, <1>10, <1>11, <1>12, <1>13, <1>14

(* What is the same below n adds up to the same.                             *)
LEMMA SumToSame ==
  ASSUME NEW r \in [Nat -> Nat], NEW q \in [Nat -> Nat], NEW n \in Nat,
         \A k \in 0 .. n - 1 : q[k] = r[k]
  PROVE  SumTo(q, n) = SumTo(r, n)
<1> DEFINE B == {m \in Nat : m <= n /\ SumTo(q, m) # SumTo(r, m)}
<1> SUFFICES ASSUME B # {} PROVE FALSE OBVIOUS
<1>1. PICK m \in B : \A k \in B : m <= k
  <2>1. B \in SUBSET Nat OBVIOUS
  <2> HIDE DEF B
  <2> QED BY <2>1, LeastNatural
<1>2. m \in Nat /\ m <= n /\ SumTo(q, m) # SumTo(r, m) OBVIOUS
<1>3. m # 0 BY <1>2, SumToSteps
<1>4. PICK k \in Nat : m = k + 1
  <2>1. m - 1 \in Nat /\ m = (m - 1) + 1 BY <1>2, <1>3
  <2> QED BY <2>1
<1>5. SumTo(q, k) = SumTo(r, k)
  <2>1. ~ (m <= k) /\ k <= n BY <1>2, <1>4
  <2>2. k \notin B
    <3> HIDE DEF B
    <3> QED BY <1>1, <2>1
  <2> QED BY <2>1, <2>2
<1>6. q[k] = r[k]
  <2>1. k \in 0 .. n - 1 BY <1>2, <1>4
  <2> QED BY <2>1
<1>7. SumTo(q, k + 1) = SumTo(q, k) + q[k] BY SumToSteps
<1>8. SumTo(r, k + 1) = SumTo(r, k) + r[k] BY SumToSteps
<1> QED BY <1>2, <1>4, <1>5, <1>6, <1>7, <1>8

(* One number below n is another one.                                        *)
LEMMA SumToOne ==
  ASSUME NEW r \in [Nat -> Nat], NEW q \in [Nat -> Nat], NEW n \in Nat, NEW i \in Nat, i < n,
         \A k \in 0 .. n - 1 : k # i => q[k] = r[k]
  PROVE  SumTo(q, n) + r[i] = SumTo(r, n) + q[i]
<1> DEFINE B == {m \in Nat : i < m /\ m <= n /\ SumTo(q, m) + r[i] # SumTo(r, m) + q[i]}
<1> SUFFICES ASSUME B # {} PROVE FALSE
  <2>1. n \notin B => SumTo(q, n) + r[i] = SumTo(r, n) + q[i] OBVIOUS
  <2> QED BY <2>1
<1>1. PICK m \in B : \A k \in B : m <= k
  <2>1. B \in SUBSET Nat OBVIOUS
  <2> HIDE DEF B
  <2> QED BY <2>1, LeastNatural
<1>2. m \in Nat /\ i < m /\ m <= n /\ SumTo(q, m) + r[i] # SumTo(r, m) + q[i] OBVIOUS
<1>4. PICK k \in Nat : m = k + 1
  <2>1. m - 1 \in Nat /\ m = (m - 1) + 1 BY <1>2
  <2> QED BY <2>1
<1>a. PICK a, b, c, d, e, f : /\ a = SumTo(q, k) /\ b = SumTo(r, k) /\ c = q[k] /\ d = r[k]
                              /\ e = q[i] /\ f = r[i]
  OBVIOUS
<1>b. a \in Nat /\ b \in Nat /\ c \in Nat /\ d \in Nat /\ e \in Nat /\ f \in Nat
  <2>1. SumTo(q, k) \in Nat /\ SumTo(r, k) \in Nat BY SumToSteps
  <2> QED BY <2>1, <1>a
<1>7. SumTo(q, k + 1) = a + c BY SumToSteps, <1>a
<1>8. SumTo(r, k + 1) = b + d BY SumToSteps, <1>a
<1>9. (a + c) + f # (b + d) + e BY <1>2, <1>4, <1>7, <1>8, <1>a
<1>5. CASE k = i
  <2>1. SumTo(q, i) = SumTo(r, i)
    <3>1. \A j \in 0 .. i - 1 : q[j] = r[j] OBVIOUS
    <3> QED BY <3>1, SumToSame
  <2>2. a = b /\ c = e /\ d = f BY <1>5, <1>a, <2>1
  <2> QED BY <1>9, <1>b, <2>2
<1>6. CASE k # i
  <2>1. ~ (m <= k) /\ k <= n /\ i < k BY <1>2, <1>4, <1>6
  <2>2. k \notin B
    <3> HIDE DEF B
    <3> QED BY <1>1, <2>1
  <2>3. a + f = b + e BY <2>1, <2>2, <1>a
  <2>4. k \in 0 .. n - 1 BY <1>2, <1>4
  <2>5. c = d BY <1>6, <2>4, <1>a
  <2> QED BY <1>9, <1>b, <2>3, <2>5
<1> QED BY <1>5, <1>6

(* Zeros add nothing.                                                        *)
LEMMA SumToZeros ==
  ASSUME NEW r \in [Nat -> Nat], NEW m \in Nat, NEW n \in Nat, m <= n,
         \A k \in m .. n - 1 : r[k] = 0
  PROVE  SumTo(r, n) = SumTo(r, m)
<1> DEFINE B == {k \in Nat : m <= k /\ k <= n /\ SumTo(r, k) # SumTo(r, m)}
<1> SUFFICES ASSUME B # {} PROVE FALSE
  <2>1. n \notin B => SumTo(r, n) = SumTo(r, m) OBVIOUS
  <2> QED BY <2>1
<1>1. PICK l \in B : \A k \in B : l <= k
  <2>1. B \in SUBSET Nat OBVIOUS
  <2> HIDE DEF B
  <2> QED BY <2>1, LeastNatural
<1>2. l \in Nat /\ m <= l /\ l <= n /\ SumTo(r, l) # SumTo(r, m) OBVIOUS
<1>3. m # l BY <1>2
<1>4. PICK k \in Nat : l = k + 1
  <2>1. l - 1 \in Nat /\ l = (l - 1) + 1 BY <1>2, <1>3
  <2> QED BY <2>1
<1>5. SumTo(r, k) = SumTo(r, m)
  <2>1. ~ (l <= k) /\ k <= n /\ m <= k BY <1>2, <1>3, <1>4
  <2>2. k \notin B
    <3> HIDE DEF B
    <3> QED BY <1>1, <2>1
  <2> QED BY <2>1, <2>2
<1>6. r[k] = 0
  <2>1. k \in m .. n - 1 BY <1>2, <1>3, <1>4
  <2> QED BY <2>1
<1>7. SumTo(r, k + 1) = SumTo(r, k) + 0 BY SumToSteps, <1>6
<1>8. PICK a : a = SumTo(r, k) OBVIOUS
<1>9. a \in Nat BY <1>8, SumToSteps
<1>10. a + 0 = a BY <1>9
<1> QED BY <1>2, <1>4, <1>5, <1>7, <1>8, <1>10

-----------------------------------------------------------------------------
(* Division with remainder.                                                  *)
LEMMA ModIs ==
  ASSUME NEW q \in Nat, NEW n \in Nat \ {0}, NEW r \in 0 .. n - 1
  PROVE  (n * q + r) % n = r
BY Z3

LEMMA DivisionExists ==
  ASSUME NEW a \in Nat, NEW n \in Nat \ {0}
  PROVE  \E q \in Nat : \E r \in 0 .. n - 1 : a = n * q + r
<1> DEFINE B == {b \in Nat : ~ \E q \in Nat : \E r \in 0 .. n - 1 : b = n * q + r}
<1> SUFFICES ASSUME B # {} PROVE FALSE OBVIOUS
<1>1. PICK m \in B : \A k \in B : m <= k
  <2>1. B \in SUBSET Nat OBVIOUS
  <2> HIDE DEF B
  <2> QED BY <2>1, LeastNatural
<1>2. m \in Nat OBVIOUS
<1>3. m >= n
  <2> SUFFICES ASSUME m < n PROVE FALSE BY <1>2
  <2>1. m \in 0 .. n - 1 /\ m = n * 0 + m BY <1>2
  <2> QED BY <2>1
<1>4. PICK k \in Nat : m = k + n
  <2>1. m - n \in Nat /\ m = (m - n) + n BY <1>2, <1>3
  <2> QED BY <2>1
<1>5. k \notin B
  <2>1. ~ (m <= k) BY <1>4
  <2> HIDE DEF B
  <2> QED BY <1>1, <2>1
<1>6. PICK q \in Nat : \E r \in 0 .. n - 1 : k = n * q + r BY <1>5
<1>7. PICK r \in 0 .. n - 1 : k = n * q + r BY <1>6
<1>8. m = n * (q + 1) + r
  <2>1. n * (q + 1) = n * q + n OBVIOUS
  <2>2. PICK p \in Nat : p = n * q OBVIOUS
  <2>3. k = p + r /\ n * (q + 1) = p + n BY <1>7, <2>1, <2>2
  <2> QED BY <1>4, <2>3
<1>9. q + 1 \in Nat OBVIOUS
<1> QED BY <1>8, <1>9

(* A remainder may be taken before more is added.                            *)
LEMMA ModSum ==
  ASSUME NEW a \in Nat, NEW b \in Nat, NEW n \in Nat \ {0}
  PROVE  a % n \in 0 .. n - 1 /\ ((a % n) + b) % n = (a + b) % n
<1>1. PICK q \in Nat : \E r \in 0 .. n - 1 : a = n * q + r BY DivisionExists
<1>2. PICK r \in 0 .. n - 1 : a = n * q + r BY <1>1
<1>3. a % n = r BY <1>2, ModIs
<1>4. r + b \in Nat OBVIOUS
<1>5. PICK t \in Nat : \E u \in 0 .. n - 1 : r + b = n * t + u BY <1>4, DivisionExists
<1>6. PICK u \in 0 .. n - 1 : r + b = n * t + u BY <1>5
<1>7. a + b = n * (q + t) + u
  <2>1. n * (q + t) = n * q + n * t OBVIOUS
  <2>2. PICK p \in Nat, s \in Nat : p = n * q /\ s = n * t OBVIOUS
  <2>3. a = p + r /\ r + b = s + u /\ n * (q + t) = p + s BY <1>2, <1>6, <2>1, <2>2
  <2> QED BY <2>3
<1>8. (r + b) % n = u BY <1>6, ModIs
<1>9. (a + b) % n = u
  <2>1. q + t \in Nat OBVIOUS
  <2> QED BY <1>7, <2>1, ModIs
<1> QED BY <1>3, <1>8, <1>9

LEMMA ModRound ==
  ASSUME NEW a \in Nat, NEW q \in Nat, NEW n \in Nat \ {0}
  PROVE  (a + n * q) % n = a % n
<1>1. PICK p \in Nat : \E r \in 0 .. n - 1 : a = n * p + r BY DivisionExists
<1>2. PICK r \in 0 .. n - 1 : a = n * p + r BY <1>1
<1>3. a % n = r BY <1>2, ModIs
<1>4. a + n * q = n * (p + q) + r
  <2>1. n * (p + q) = n * p + n * q OBVIOUS
  <2>2. PICK u \in Nat, v \in Nat : u = n * p /\ v = n * q OBVIOUS
  <2> QED BY <1>2, <2>1, <2>2
<1>5. p + q \in Nat OBVIOUS
<1> QED BY <1>3, <1>4, <1>5, ModIs
=============================================================================
