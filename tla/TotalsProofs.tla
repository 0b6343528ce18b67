---------------------------- MODULE TotalsProofs ----------------------------
(* How totals change when a set or a weight changes, and what division does. *)
EXTENDS Totals, FiniteSetTheorems, TLAPS

(* Division of naturals by a positive number stays within the naturals, does  *)
(* not exceed the dividend, and is the greatest number that fits.             *)
LEMMA DivNat ==
  ASSUME NEW a \in Nat, NEW b \in Nat \ {0}
  PROVE  /\ a \div b \in Nat
         /\ b * (a \div b) <= a
         /\ a < b * (a \div b) + b
OBVIOUS

(* The atoms of a finite set are finitely many. *)
LEMMA AtomsFinite ==
  ASSUME NEW S, IsFiniteSet(S), NEW w, \A x \in S : w[x] \in Nat
  PROVE  IsFiniteSet(Atoms(S, w))
<1> DEFINE f == [x \in S |-> {x} \X (1..w[x])]
           T == {f[x] : x \in S}
<1>1. f \in Surjection(S, T)
  BY DEF Surjection
<1>2. IsFiniteSet(T)
  BY <1>1, FS_Surjection
<1>3. \A x \in S : IsFiniteSet({x} \X (1..w[x]))
  <2> TAKE x \in S
  <2>1. IsFiniteSet({x})
    BY FS_Singleton
  <2>2. IsFiniteSet(1..w[x])
    <3>1. 1 \in Int /\ w[x] \in Int
      OBVIOUS
    <3> QED BY <3>1, FS_Interval
  <2> QED BY <2>1, <2>2, FS_Product
<1>4. IsFiniteSet(UNION T)
  <2>1. \A y \in T : IsFiniteSet(y)
    BY <1>3
  <2> QED BY <1>2, <2>1, FS_UNION
<1>5. Atoms(S, w) = UNION T
  BY DEF Atoms
<1> QED BY <1>4, <1>5

(* A total is a natural number. *)
LEMMA TotalType ==
  ASSUME NEW S, IsFiniteSet(S), NEW w, \A x \in S : w[x] \in Nat
  PROVE  Total(S, w) \in Nat
BY AtomsFinite, FS_CardinalityType DEF Total

(* The total of nothing is zero. *)
LEMMA TotalEmpty ==
  ASSUME NEW w
  PROVE  Total({}, w) = 0
<1>1. Atoms({}, w) = {}
  BY DEF Atoms
<1> QED BY <1>1, FS_EmptySet DEF Total

(* A total depends only on the weights of the members. *)
LEMMA TotalAgree ==
  ASSUME NEW S, NEW v, NEW w, \A x \in S : v[x] = w[x]
  PROVE  Total(S, v) = Total(S, w)
<1>1. Atoms(S, v) = Atoms(S, w)
  BY DEF Atoms
<1> QED BY <1>1 DEF Total

(* The total of one element is its weight. *)
LEMMA TotalSingle ==
  ASSUME NEW x, NEW w, w[x] \in Nat
  PROVE  Total({x}, w) = w[x]
<1>1. Atoms({x}, w) = {x} \X (1..w[x])
  BY DEF Atoms
<1>2. IsFiniteSet({x}) /\ Cardinality({x}) = 1
  BY FS_Singleton
<1>3. IsFiniteSet(1..w[x]) /\ Cardinality(1..w[x]) = w[x]
  <2>1. 1 \in Int /\ w[x] \in Int
    OBVIOUS
  <2>2. /\ IsFiniteSet(1..w[x])
        /\ Cardinality(1..w[x]) = IF 1 > w[x] THEN 0 ELSE w[x] - 1 + 1
    BY <2>1, FS_Interval
  <2> QED BY <2>2
<1>4. Cardinality({x} \X (1..w[x])) = w[x]
  <2>1. Cardinality({x} \X (1..w[x])) = Cardinality({x}) * Cardinality(1..w[x])
    BY <1>2, <1>3, FS_Product, Zenon
  <2>2. 1 * w[x] = w[x]
    OBVIOUS
  <2> QED BY <1>2, <1>3, <2>1, <2>2, Zenon
<1>5. Total({x}, w) = Cardinality({x} \X (1..w[x]))
  BY <1>1, Zenon DEF Total
<1> QED BY <1>4, <1>5

(* Totals of disjoint sets add up. *)
LEMMA TotalUnion ==
  ASSUME NEW S, NEW T, IsFiniteSet(S), IsFiniteSet(T), S \cap T = {},
         NEW w, \A x \in S \cup T : w[x] \in Nat
  PROVE  Total(S \cup T, w) = Total(S, w) + Total(T, w)
<1>1. Atoms(S \cup T, w) = Atoms(S, w) \cup Atoms(T, w)
  BY DEF Atoms
<1>2. Atoms(S, w) \cap Atoms(T, w) = {}
  <2> SUFFICES ASSUME NEW a \in Atoms(S, w), a \in Atoms(T, w) PROVE FALSE
    OBVIOUS
  <2>1. PICK x \in S : a \in {x} \X (1..w[x])
    BY DEF Atoms
  <2>2. PICK y \in T : a \in {y} \X (1..w[y])
    BY DEF Atoms
  <2>3. a[1] = x /\ a[1] = y
    BY <2>1, <2>2
  <2> QED BY <2>3
<1>3. IsFiniteSet(Atoms(S, w)) /\ IsFiniteSet(Atoms(T, w))
  BY AtomsFinite
<1>4. Cardinality(Atoms(S, w) \cup Atoms(T, w))
        = Cardinality(Atoms(S, w)) + Cardinality(Atoms(T, w)) - Cardinality({})
  BY <1>2, <1>3, FS_Union
<1>5. Cardinality({}) = 0
  BY FS_EmptySet
<1>6. Cardinality(Atoms(S, w)) \in Nat /\ Cardinality(Atoms(T, w)) \in Nat
  BY <1>3, FS_CardinalityType
<1>7. Total(S \cup T, w) = Cardinality(Atoms(S, w) \cup Atoms(T, w))
  BY <1>1, Zenon DEF Total
<1>8. Total(S, w) = Cardinality(Atoms(S, w)) /\ Total(T, w) = Cardinality(Atoms(T, w))
  BY DEF Total
<1> QED BY <1>4, <1>5, <1>6, <1>7, <1>8

(* When one weight changes, the total changes by as much. *)
LEMMA TotalUpdate ==
  ASSUME NEW S, IsFiniteSet(S), NEW x \in S, NEW v, NEW w,
         \A y \in S : v[y] \in Nat /\ w[y] \in Nat,
         \A y \in S \ {x} : v[y] = w[y]
  PROVE  Total(S, v) = Total(S, w) - w[x] + v[x]
<1> DEFINE R == S \ {x}
<1>1. S = R \cup {x} /\ R \cap {x} = {}
  OBVIOUS
<1>2. IsFiniteSet(R) /\ IsFiniteSet({x})
  BY FS_RemoveElement, FS_Singleton
<1>3. \A y \in R \cup {x} : v[y] \in Nat /\ w[y] \in Nat
  OBVIOUS
<1> HIDE DEF R
<1>4. Total(R \cup {x}, v) = Total(R, v) + Total({x}, v)
  BY <1>1, <1>2, <1>3, TotalUnion
<1>5. Total(R \cup {x}, w) = Total(R, w) + Total({x}, w)
  BY <1>1, <1>2, <1>3, TotalUnion
<1>6. Total(R, v) = Total(R, w)
  <2>1. \A y \in R : v[y] = w[y]
    BY DEF R
  <2> QED BY <2>1, TotalAgree
<1>7. Total({x}, v) = v[x] /\ Total({x}, w) = w[x]
  BY TotalSingle
<1>8. Total(R, w) \in Nat
  BY <1>2, <1>3, TotalType
<1> QED BY <1>1, <1>4, <1>5, <1>6, <1>7, <1>8

(* A total is no more than another whose members outweigh its own, one for one. *)
LEMMA TotalInjects ==
  ASSUME NEW S, NEW T, IsFiniteSet(T), NEW v, NEW w, NEW f \in [S -> T],
         \A x, y \in S : f[x] = f[y] => x = y,
         \A x \in T : w[x] \in Nat,
         \A x \in S : v[x] \in Nat /\ v[x] <= w[f[x]]
  PROVE  Total(S, v) <= Total(T, w)
<1> DEFINE A == Atoms(S, v)
           B == Atoms(T, w)
           g == [a \in A |-> <<f[a[1]], a[2]>>]
<1>1. \A a \in A : a[1] \in S /\ a[2] \in 1..v[a[1]] /\ a = <<a[1], a[2]>>
  BY DEF Atoms
<1>2. \A y \in T : \A k \in 1..w[y] : <<y, k>> \in B
  BY DEF Atoms
<1> HIDE DEF A, B
<1>3. \A a \in A : g[a] \in B
  <2> TAKE a \in A
  <2>1. f[a[1]] \in T /\ a[2] \in 1..w[f[a[1]]]
    BY <1>1
  <2> QED BY <1>2, <2>1
<1>4. \A a, b \in A : g[a] = g[b] => a = b
  BY <1>1
<1>5. g \in Injection(A, B)
  BY <1>3, <1>4 DEF Injection, IsInjective
<1>6. IsFiniteSet(B)
  BY AtomsFinite DEF B
<1> HIDE DEF g
<1>7. Cardinality(A) <= Cardinality(B)
  BY <1>5, <1>6, FS_Injection, Zenon
<1> QED BY <1>7 DEF Total, A, B

(* A total without weight is zero. *)
LEMMA TotalZero ==
  ASSUME NEW S, NEW w, \A x \in S : w[x] = 0
  PROVE  Total(S, w) = 0
<1>1. Atoms(S, w) = {}
  BY DEF Atoms
<1> QED BY <1>1, FS_EmptySet DEF Total

(* A total is no more than that of a set with all its members of some weight. *)
LEMMA TotalWithin ==
  ASSUME NEW S, NEW T, IsFiniteSet(T), NEW w, \A x \in T : w[x] \in Nat,
         \A x \in S : w[x] = 0 \/ x \in T
  PROVE  Total(S, w) <= Total(T, w)
<1> DEFINE A == Atoms(S, w)
           B == Atoms(T, w)
<1>1. A \subseteq B
  BY DEF Atoms
<1>2. IsFiniteSet(B)
  BY AtomsFinite
<1> HIDE DEF A, B
<1>3. Cardinality(A) <= Cardinality(B)
  BY <1>1, <1>2, FS_Subset
<1> QED BY <1>3 DEF Total, A, B
=============================================================================
