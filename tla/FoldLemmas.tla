-------------------------------- MODULE FoldLemmas --------------------------------
(***************************************************************************)
(* Induction, and sums over finite sets.  The induction principles here    *)
(* speak of sets where those of the library take a predicate: to show P(n) *)
(* for all n, apply one to the set of the n with P(n).  They rest on the   *)
(* natural numbers being well ordered.                                     *)
(***************************************************************************)
EXTENDS Integers, SequencesExt, FiniteSetTheorems, SequenceTheorems,
        WellFoundedInduction, TLAPS

(* Induction over the natural numbers.                                     *)
LEMMA NatSetInduction ==
  ASSUME NEW P, 0 \in P, \A n \in Nat : n \in P => n + 1 \in P
  PROVE  Nat \subseteq P
  <1> DEFINE below == OpToRel(<, Nat)
             bad == Nat \ P
  <1> SUFFICES ASSUME bad # {} PROVE FALSE
    OBVIOUS
  <1>1. IsWellFoundedOn(below, Nat)
    BY NatLessThanWellFounded
  <1>2. \A m, n \in Nat : <<m, n>> \in below <=> m < n
    BY DEF OpToRel
  <1> HIDE DEF below
  <1>3. PICK n \in bad : \A m \in bad : <<m, n>> \notin below
    <2> HIDE DEF bad
    <2>1. bad \subseteq Nat
      BY DEF bad
    <2> QED BY <1>1, <2>1, WFMin
  <1>4. n # 0 /\ n - 1 \in Nat
    BY <1>3 DEF bad
  <1>5. n - 1 \notin bad
    <2>1. n \in Nat /\ n - 1 < n
      BY <1>4 DEF bad
    <2>2. <<n - 1, n>> \in below
      BY <1>2, <1>4, <2>1
    <2> QED BY <1>3, <2>2
  <1> QED BY <1>3, <1>4, <1>5

(* Induction over the subsets of a finite set.                             *)
LEMMA SubsetInduction ==
  ASSUME NEW S, IsFiniteSet(S), NEW P,
         \A T \in SUBSET S : (\A x \in T : T \ {x} \in P) => T \in P
  PROVE  SUBSET S \subseteq P
  <1> DEFINE Q == {n \in Nat : \A T \in SUBSET S : Cardinality(T) = n => T \in P}
  <1>1. \A T \in SUBSET S : IsFiniteSet(T) /\ Cardinality(T) \in Nat
    BY FS_Subset, FS_CardinalityType
  <1>2. 0 \in Q
    <2> SUFFICES ASSUME NEW T \in SUBSET S, Cardinality(T) = 0 PROVE T \in P
      OBVIOUS
    <2>1. T = {}
      BY <1>1, FS_EmptySet
    <2> QED BY <2>1
  <1>3. ASSUME NEW n \in Nat, n \in Q PROVE n + 1 \in Q
    <2> SUFFICES ASSUME NEW T \in SUBSET S, Cardinality(T) = n + 1 PROVE T \in P
      OBVIOUS
    <2>1. ASSUME NEW x \in T PROVE T \ {x} \in P
      <3>1. Cardinality(T \ {x}) = Cardinality(T) - 1
        BY <1>1, FS_RemoveElement
      <3>2. Cardinality(T \ {x}) = n /\ T \ {x} \in SUBSET S
        BY <3>1
      <3> QED BY <1>3, <3>2
    <2> QED BY <2>1
  <1> HIDE DEF Q
  <1>4. Nat \subseteq Q
    BY <1>2, <1>3, NatSetInduction
  <1> QED BY <1>1, <1>4 DEF Q

(* Induction over finite sequences.                                        *)
LEMMA SeqSetInduction ==
  ASSUME NEW E, NEW P, <<>> \in P,
         \A s \in Seq(E), e \in E : s \in P => Append(s, e) \in P
  PROVE  Seq(E) \subseteq P
  <1> DEFINE Q == {n \in Nat : \A s \in Seq(E) : Len(s) = n => s \in P}
  <1>1. 0 \in Q
    BY EmptySeq
  <1>2. ASSUME NEW n \in Nat, n \in Q PROVE n + 1 \in Q
    <2> SUFFICES ASSUME NEW s \in Seq(E), Len(s) = n + 1 PROVE s \in P
      OBVIOUS
    <2>1. PICK front \in Seq(E), e \in E : s = Append(front, e)
      <3>1. s # <<>>
        BY EmptySeq
      <3> QED BY <3>1, SequenceEmptyOrAppend
    <2>2. Len(front) = n
      BY <2>1, AppendProperties, LenProperties
    <2> QED BY <1>2, <2>1, <2>2
  <1> HIDE DEF Q
  <1>3. Nat \subseteq Q
    BY <1>1, <1>2, NatSetInduction
  <1> QED BY <1>3, LenProperties DEF Q

--------------------------------------------------------------------------------

(* it gives the sum of w over every subset of S: it is zero for the empty  *)
(* set, and any element may be the one that is added last.                 *)
IsSum(it, w, S) ==
  /\ it \in [SUBSET S -> Nat]
  /\ it[{}] = 0
  /\ \A T \in SUBSET S : \A x \in T : it[T] = w[x] + it[T \ {x}]

(* g adds up one element at a time, in some order.                         *)
AddsUp(g, w, S) ==
  /\ g[{}] = 0
  /\ \A T \in SUBSET S : T # {} => \E x \in T : g[T] = w[x] + g[T \ {x}]

(* Whatever the order, what comes out is the sum.                          *)
LEMMA SumIsUnique ==
  ASSUME NEW S, IsFiniteSet(S), NEW w, NEW it, IsSum(it, w, S), NEW g, AddsUp(g, w, S)
  PROVE  \A T \in SUBSET S : g[T] = it[T]
  <1> DEFINE P == {T \in SUBSET S : g[T] = it[T]}
  <1>1. ASSUME NEW T \in SUBSET S, \A x \in T : T \ {x} \in P
        PROVE  T \in P
    <2>1. CASE T = {}
      BY <2>1 DEF IsSum, AddsUp
    <2>2. CASE T # {}
      <3>1. PICK x \in T : g[T] = w[x] + g[T \ {x}]
        BY <2>2 DEF AddsUp
      <3> QED BY <1>1, <3>1 DEF IsSum
    <2> QED BY <2>1, <2>2
  <1> HIDE DEF P
  <1>2. SUBSET S \subseteq P
    BY <1>1, SubsetInduction
  <1> QED BY <1>2 DEF P

(* Naturals can be added up over any finite set.                           *)
LEMMA SumExists ==
  ASSUME NEW S, IsFiniteSet(S), NEW w \in [S -> Nat]
  PROVE  \E it : IsSum(it, w, S)
  <1> DEFINE P == {T \in SUBSET S : \E it : IsSum(it, w, T)}
  <1>1. ASSUME NEW T \in SUBSET S, \A x \in T : T \ {x} \in P
        PROVE  T \in P
    <2>1. CASE T = {}
      <3> DEFINE it == [R \in SUBSET {} |-> 0]
      <3>1. IsSum(it, w, T)
        BY <2>1 DEF IsSum
      <3> QED BY <3>1
    <2>2. CASE T # {}
      <3>1. PICK x \in T : TRUE
        BY <2>2
      <3>2. PICK old : IsSum(old, w, T \ {x})
        BY <1>1
      <3> DEFINE it == [R \in SUBSET T |-> IF x \in R THEN w[x] + old[R \ {x}] ELSE old[R]]
      <3>3. \A R \in SUBSET T : R \ {x} \in SUBSET (T \ {x}) /\ old[R \ {x}] \in Nat
        BY <3>2 DEF IsSum
      <3>4. \A R \in SUBSET T : x \notin R => R \in SUBSET (T \ {x}) /\ old[R] \in Nat
        BY <3>2 DEF IsSum
      <3>5. it \in [SUBSET T -> Nat] /\ it[{}] = 0
        BY <3>2, <3>3, <3>4 DEF IsSum
      <3>6. ASSUME NEW R \in SUBSET T, NEW y \in R
            PROVE  it[R] = w[y] + it[R \ {y}]
        <4>1. CASE y = x
          <5>1. it[R] = w[x] + old[R \ {x}] /\ it[R \ {x}] = old[R \ {x}]
            BY <4>1
          <5> QED BY <4>1, <5>1
        <4>2. CASE y # x /\ x \notin R
          <5>1. it[R] = old[R] /\ it[R \ {y}] = old[R \ {y}]
            BY <4>2
          <5> QED BY <3>2, <3>4, <4>2, <5>1 DEF IsSum
        <4>3. CASE y # x /\ x \in R
          <5> DEFINE rest == R \ {x}
          <5>1. rest \in SUBSET (T \ {x}) /\ y \in rest
            BY <4>3
          <5>2. old[rest] = w[y] + old[rest \ {y}]
            BY <3>2, <5>1 DEF IsSum
          <5>3. it[R] = w[x] + old[rest]
            BY <4>3
          <5>4. (R \ {y}) \ {x} = rest \ {y} /\ R \ {y} \in SUBSET T /\ x \in R \ {y}
            BY <4>3
          <5>5. it[R \ {y}] = w[x] + old[rest \ {y}]
            BY <5>4
          <5>6. w[x] \in Nat /\ w[y] \in Nat
            OBVIOUS
          <5>7. old[rest \ {y}] \in Nat
            BY <3>2, <5>1 DEF IsSum
          <5> HIDE DEF it, rest
          <5> QED BY <5>2, <5>3, <5>5, <5>6, <5>7
        <4> QED BY <4>1, <4>2, <4>3
      <3> HIDE DEF it
      <3>7. IsSum(it, w, T)
        BY <3>5, <3>6 DEF IsSum
      <3> QED BY <3>7
    <2> QED BY <2>1, <2>2
  <1> HIDE DEF P
  <1>2. SUBSET S \subseteq P
    BY <1>1, SubsetInduction
  <1> QED BY <1>2 DEF P

(* A sum does not change with the names of what is added up.               *)
LEMMA SumUnderBijection ==
  ASSUME NEW S, NEW T, IsFiniteSet(S), NEW w, NEW v, NEW it, NEW jt,
         IsSum(it, w, S), IsSum(jt, v, T), NEW b \in Bijection(S, T),
         \A x \in S : v[b[x]] = w[x]
  PROVE  it[S] = jt[T]
  <1> DEFINE Image(R) == {b[x] : x \in R}
             g == [R \in SUBSET S |-> jt[Image(R)]]
  <1>1. /\ \A x \in S : b[x] \in T
        /\ \A x, y \in S : b[x] = b[y] => x = y
        /\ \A z \in T : \E x \in S : b[x] = z
    BY DEF Bijection, Injection, Surjection, IsInjective
  <1>2. g[{}] = 0
    BY DEF IsSum
  <1>3. ASSUME NEW R \in SUBSET S, R # {}
        PROVE  \E x \in R : g[R] = w[x] + g[R \ {x}]
    <2>1. PICK x \in R : TRUE
      BY <1>3
    <2>2. Image(R) \in SUBSET T /\ b[x] \in Image(R) /\ Image(R \ {x}) = Image(R) \ {b[x]}
      BY <1>1
    <2> HIDE DEF Image
    <2>3. jt[Image(R)] = v[b[x]] + jt[Image(R) \ {b[x]}]
      BY <2>2 DEF IsSum
    <2>4. v[b[x]] = w[x] /\ R \ {x} \in SUBSET S
      OBVIOUS
    <2> QED BY <2>2, <2>3, <2>4
  <1>4. g[S] = it[S]
    <2> HIDE DEF g
    <2>1. AddsUp(g, w, S)
      BY <1>2, <1>3 DEF AddsUp
    <2> QED BY <2>1, SumIsUnique
  <1>5. Image(S) = T
    BY <1>1
  <1> QED BY <1>4, <1>5

(* The sum of the values of a function, as the library folds them.         *)
LEMMA SumFunctionIsSum ==
  ASSUME NEW S, IsFiniteSet(S), NEW w \in [S -> Nat], NEW it, IsSum(it, w, S)
  PROVE  SumFunction(w) = it[S]
  <1> DEFINE Adds(g) == g = [T \in SUBSET S |-> IF T = {} THEN 0
                               ELSE w[CHOOSE x \in T : TRUE] + g[T \ {CHOOSE x \in T : TRUE}]]
             fold == CHOOSE g : Adds(g)
  <1>1. SumFunction(w) = fold[S]
    <2>1. DOMAIN w = S
      OBVIOUS
    <2> QED BY <2>1 DEF SumFunction, SumFunctionOnSet, FoldFunctionOnSet, MapThenFoldSet
  <1>2. Adds(it)
    <2>1. \A T \in SUBSET S : T # {} => (CHOOSE x \in T : TRUE) \in T
      OBVIOUS
    <2> QED BY <2>1 DEF IsSum
  <1>3. Adds(fold)
    <2> HIDE DEF Adds
    <2> QED BY <1>2
  <1> HIDE DEF fold
  <1>4. AddsUp(fold, w, S)
    BY <1>3 DEF AddsUp
  <1>5. fold[S] = it[S]
    BY <1>4, SumIsUnique
  <1> QED BY <1>1, <1>5

(* A finite set of integers has a greatest element.                        *)
LEMMA MaxIsMember ==
  ASSUME NEW S \in SUBSET Int, IsFiniteSet(S)
  PROVE  \A T \in SUBSET S : T # {} => Max(T) \in T /\ \A x \in T : x <= Max(T)
  <1> DEFINE P == {T \in SUBSET S : T # {} => \E m \in T : \A x \in T : x <= m}
  <1>1. ASSUME NEW T \in SUBSET S, \A x \in T : T \ {x} \in P
        PROVE  T \in P
    <2> SUFFICES ASSUME T # {} PROVE \E m \in T : \A x \in T : x <= m
      OBVIOUS
    <2>1. PICK y \in T : TRUE
      OBVIOUS
    <2>2. CASE T \ {y} = {}
      BY <2>2
    <2>3. CASE T \ {y} # {}
      <3>1. PICK m \in T \ {y} : \A x \in T \ {y} : x <= m
        BY <1>1, <2>3
      <3> QED BY <3>1
    <2> QED BY <2>2, <2>3
  <1> HIDE DEF P
  <1>2. SUBSET S \subseteq P
    BY <1>1, SubsetInduction
  <1> QED BY <1>2 DEF P, Max
================================================================================
